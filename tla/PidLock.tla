------------------------------ MODULE PidLock ------------------------------
(***************************************************************************)
(* The PID file that keeps two instances of LightClaw apart: app_cmd of    *)
(* src/lightclaw/cli/run_cmd.py, from the moment a process is started by   *)
(* systemd or by hand to its exit.                                         *)
(*                                                                         *)
(* A process reads the file, looks the number up in /proc, truncates the   *)
(* file, writes its own number, serves, and unlinks the file on its way    *)
(* out; it may be killed before any of these steps.  Numbers are given     *)
(* again once they are free, also to processes of other programs.          *)
(***************************************************************************)
EXTENDS Naturals, FiniteSets

CONSTANTS
  Procs,    \* processes of "lightclaw run" alive at the same time
  Pids,     \* process numbers
  Absent,   \* there is no PID file
  Empty,    \* the file is there and holds no number
  Overlap   \* a process may start while another is starting

ASSUME PidsAssumption ==
  /\ Cardinality(Procs) <= Cardinality(Pids)
  /\ Absent \notin Pids /\ Empty \notin Pids /\ Absent # Empty
  /\ Overlap \in BOOLEAN

VARIABLES
  file,      \* lightclaw.pid
  at,        \* [Procs -> the next step of the process]
  pid,       \* [Procs -> its number]
  found,     \* [Procs -> what it read in the file]
  strangers  \* numbers of other processes with "lightclaw" in their cmdline

lockVars == <<file, at, pid, found, strangers>>

Content == Pids \cup {Absent, Empty}
Starting == {"read", "check", "truncate", "write"}

LockTypeOK ==
  /\ file \in Content
  /\ at \in [Procs -> Starting \cup {"off", "serve", "compare", "unlink"}]
  /\ pid \in [Procs -> Pids] /\ found \in [Procs -> Content]
  /\ strangers \subseteq Pids

Running(p) == at[p] # "off"
Used == {pid[p] : p \in {q \in Procs : Running(q)}} \cup strangers

LockInit ==
  /\ file = Absent
  /\ at = [p \in Procs |-> "off"]
  /\ pid \in [Procs -> Pids] /\ found = [p \in Procs |-> Absent]
  /\ strangers = {}

Goto(p, step) == at' = [at EXCEPT ![p] = step]

-----------------------------------------------------------------------------
(* The operating system.                                                   *)

Start(p) ==
  /\ ~Running(p)
  /\ Overlap \/ \A q \in Procs : at[q] \notin Starting
  /\ \E n \in Pids \ Used : pid' = [pid EXCEPT ![p] = n]
  /\ Goto(p, "read")
  /\ UNCHANGED <<file, found, strangers>>

(* SIGKILL, or the machine: nothing of atexit runs.                        *)
Kill(p) ==
  /\ Running(p)
  /\ Goto(p, "off")
  /\ UNCHANGED <<file, pid, found, strangers>>

Stranger(n) ==
  /\ strangers' = (IF n \in strangers THEN strangers \ {n} ELSE strangers \cup {n})
  /\ n \in Used => n \in strangers
  /\ UNCHANGED <<file, at, pid, found>>

-----------------------------------------------------------------------------
(* The process.                                                            *)

(* A file that is gone between exists() and read_text() counts as absent.  *)
Read(p) ==
  /\ at[p] = "read"
  /\ found' = [found EXCEPT ![p] = file]
  /\ Goto(p, IF file = Absent THEN "truncate" ELSE "check")
  /\ UNCHANGED <<file, pid, strangers>>

(* A process that is on its way out counts as gone.                        *)
FaultyAlive(n) == \E q \in Procs : at[q] = "serve" /\ pid[q] = n

(* The number belongs to a process with "lightclaw" in its command line.   *)
Alive(n) == n \in Used

(* The file names somebody: overwrite it.                                  *)
FaultyCheck(p) ==
  /\ at[p] = "check"
  /\ Goto(p, "truncate")
  /\ UNCHANGED <<file, pid, found, strangers>>

(* int() of an empty file raises ValueError, which is raised again; the     *)
(* number of another living process refuses the start.                     *)
Check(p) ==
  /\ at[p] = "check"
  /\ \/ /\ found[p] = Empty
        /\ Goto(p, "off")
     \/ /\ found[p] \in Pids \ {pid[p]} /\ Alive(found[p])
        /\ Goto(p, "off")
     \/ /\ found[p] \in Pids /\ (found[p] = pid[p] \/ ~Alive(found[p]))
        /\ Goto(p, "truncate")
  /\ UNCHANGED <<file, pid, found, strangers>>

(* write_text opens the file, which empties it, and then writes.           *)
Truncate(p) ==
  /\ at[p] = "truncate"
  /\ file' = Empty
  /\ Goto(p, "write")
  /\ UNCHANGED <<pid, found, strangers>>

Write(p) ==
  /\ at[p] = "write"
  /\ file' = pid[p]
  /\ Goto(p, "serve")
  /\ UNCHANGED <<pid, found, strangers>>

(* The server returns, and _cleanup_pid runs.                              *)
Exit(p) ==
  /\ at[p] = "serve"
  /\ Goto(p, "compare")
  /\ UNCHANGED <<file, pid, found, strangers>>

Compare(p) ==
  /\ at[p] = "compare"
  /\ Goto(p, IF file = pid[p] THEN "unlink" ELSE "off")
  /\ UNCHANGED <<file, pid, found, strangers>>

Unlink(p) ==
  /\ at[p] = "unlink"
  /\ file' = Absent
  /\ Goto(p, "off")
  /\ UNCHANGED <<pid, found, strangers>>

LockStep(p) ==
  \/ Read(p) \/ Check(p) \/ Truncate(p) \/ Write(p)
  \/ Compare(p) \/ Unlink(p)

LockNext ==
  \/ \E p \in Procs : Start(p) \/ Kill(p) \/ Exit(p) \/ LockStep(p)
  \/ \E n \in Pids : Stranger(n)

LockSpec == LockInit /\ [][LockNext]_lockVars

-----------------------------------------------------------------------------

Servers == {p \in Procs : at[p] = "serve"}

(* Two instances never serve at the same time (src/README.md:28 "多实例死   *)
(* 循环根除 + PID锁").  It holds while starts do not overlap.               *)
OneServes == \A p, q \in Servers : p = q

(* The server is the one the file names, whoever was killed, refused or    *)
(* leaving meanwhile, so that the next start finds it.                     *)
LockNamesServer == \A p \in Servers : file = pid[p]

(* The lock does its work: at most one instance serves, and it can be      *)
(* found.                                                                  *)
OneNamedServer == OneServes /\ LockNamesServer

(* The file is unlinked by the process it names, never by one that read     *)
(* its own number there and found the file rewritten.                      *)
OnlyOwnerUnlinks ==
  [][file # Absent /\ file' = Absent
       => \E p \in Procs : at[p] = "unlink" /\ file = pid[p]]_lockVars
=============================================================================
