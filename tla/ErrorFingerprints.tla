------------------------- MODULE ErrorFingerprints -------------------------
(***************************************************************************)
(* The log sensor of src/lightclaw/app/cron/heartbeat.py: each heartbeat   *)
(* reads what was added to the service's log since the position in a       *)
(* marker file, reduces every error line to a fingerprint, and counts the  *)
(* fingerprints worth reporting against a table kept in a second file.     *)
(*                                                                         *)
(* The sensor never awaits, but worker threads write the log meanwhile,    *)
(* the log is rotated daily, and the process may die between the two       *)
(* files it writes.  Bytes are counted in lines; time passes in ticks, and *)
(* a moment is kept as its age, up to the age that no test tells apart.    *)
(***************************************************************************)
EXTENDS Naturals, FiniteSets, Sequences, SequencesExt

CONSTANTS
  Prints,          \* fingerprints of error lines
  Noise,           \* a line that is no error
  None,            \* no entry
  Cooldown,        \* ERROR_FINGERPRINT_COOLDOWN_SECONDS, in ticks
  ResolvedAfter,   \* ERROR_FINGERPRINT_RESOLVED_AFTER_CYCLES
  MaxEntries,      \* ERROR_FINGERPRINT_STATE_MAX_ENTRIES
  TTL,             \* ERROR_FINGERPRINT_STATE_TTL_DAYS, in ticks
  MaxLog           \* bound: lines in one log file

ASSUME ParameterAssumption ==
  /\ {Cooldown, ResolvedAfter, MaxEntries, TTL, MaxLog} \subseteq Nat \ {0}
  /\ Noise \notin Prints
  /\ None \notin Prints

VARIABLES
  log,        \* Seq(Prints and Noise): the current log file
  marker,     \* the position file, survives a crash
  fps,        \* [Prints -> Entry or None]: the fingerprint file, survives a crash
  pc,         \* where the sensor stands
  size,       \* the file size it found
  batch,      \* the lines it read
  due,        \* BOOLEAN: the next heartbeat may run
  result,     \* what the last scan returned: the count, and what it counted
  past        \* history, see below

vars == <<log, marker, fps, pc, size, batch, due, result, past>>

Least(a, b) == IF a <= b THEN a ELSE b

(* reported, seen: ages of last_reported and last_seen.                    *)
Entry == [reported: 0..Cooldown, seen: 0..TTL + 1, missed: 0..ResolvedAfter,
          resolved: BOOLEAN]

ASSUME EntryAssumption == None \notin Entry

(* What happened to a fingerprint, whatever the table still says of it:    *)
(* the age of its last report (Cooldown: none, or long ago), whether it    *)
(* was resolved or dropped since.  Of the positions of the current log     *)
(* file, reading are those of the batch, and classified those of the       *)
(* batches before.  Whether the log was ever rotated, or a scan ever died. *)
Past == [reported: [Prints -> 0..Cooldown], excused: [Prints -> BOOLEAN],
         reading: SUBSET (1..MaxLog), classified: SUBSET (1..MaxLog), rotated: BOOLEAN, crashed: BOOLEAN]

TypeOK ==
  /\ log \in Seq(Prints \cup {Noise}) /\ Len(log) <= MaxLog
  /\ marker \in 0..MaxLog
  /\ fps \in [Prints -> Entry \cup {None}]
  /\ Cardinality({p \in Prints : fps[p] # None}) <= MaxEntries
  /\ pc \in {"idle", "sized", "read", "marked"}
  /\ size \in 0..MaxLog
  /\ batch \in Seq(Prints \cup {Noise})
  /\ due \in BOOLEAN
  /\ result \in [count: 0..MaxLog, prints: SUBSET Prints]
  /\ past \in Past

NoReport == [count |-> 0, prints |-> {}]

Init ==
  /\ log = <<>>
  /\ marker = 0
  /\ fps = [p \in Prints |-> None]
  /\ pc = "idle"
  /\ size = 0
  /\ batch = <<>>
  /\ due = TRUE
  /\ result = NoReport
  /\ past = [reported |-> [p \in Prints |-> Cooldown],
             excused |-> [p \in Prints |-> FALSE],
             reading |-> {}, classified |-> {}, rotated |-> FALSE, crashed |-> FALSE]

-----------------------------------------------------------------------------
(* The log, written at any moment by the service and its worker threads.   *)

Write(e) ==
  /\ Len(log) < MaxLog
  /\ log' = Append(log, e)
  /\ UNCHANGED <<marker, fps, pc, size, batch, due, result, past>>

(* constant.py: "one file per day".                                        *)
Rotate ==
  /\ log # <<>>
  /\ log' = <<>>
  /\ past' = [past EXCEPT !.reading = {}, !.classified = {}, !.rotated = TRUE]
  /\ UNCHANGED <<marker, fps, pc, size, batch, due, result>>

-----------------------------------------------------------------------------
(* A heartbeat.                                                            *)

(* The file did not grow, or shrank: the scan ends before the table.       *)
NothingNew ==
  /\ pc = "idle"
  /\ due
  /\ Len(log) <= marker
  /\ marker' = Len(log)
  /\ result' = NoReport
  /\ due' = FALSE
  /\ UNCHANGED <<log, fps, pc, size, batch, past>>

Stat ==
  /\ pc = "idle"
  /\ due
  /\ Len(log) > marker
  /\ size' = Len(log)
  /\ pc' = "sized"
  /\ due' = FALSE
  /\ UNCHANGED <<log, marker, fps, batch, result, past>>

(* readlines() reads to the end the file has now.                          *)
Read ==
  /\ pc = "sized"
  /\ batch' = SubSeq(log, marker + 1, Len(log))
  /\ pc' = "read"
  /\ past' = [past EXCEPT !.reading = (marker + 1)..Len(log)]
  /\ UNCHANGED <<log, marker, fps, size, due, result>>

FaultyMark ==
  /\ pc = "read"
  /\ marker' = Len(log)
  /\ pc' = "marked"
  /\ UNCHANGED <<log, fps, size, batch, due, result, past>>

Mark ==
  /\ pc = "read"
  /\ marker' = size
  /\ pc' = "marked"
  /\ UNCHANGED <<log, fps, size, batch, due, result, past>>

-----------------------------------------------------------------------------
(* _update_fingerprints_and_count.                                         *)

FreshEntry == [reported |-> 0, seen |-> 0, missed |-> 0, resolved |-> FALSE]

(* A line with fingerprint p is worth reporting: it is new, it is back     *)
(* after being resolved, or its cooldown is over.                          *)
FaultyActionable(e) == e = None \/ e.resolved \/ e.reported + 1 >= Cooldown

Actionable(e) == e = None \/ e.resolved \/ e.reported >= Cooldown

FaultyTouched(e) ==
  IF e = None \/ e.resolved THEN FreshEntry
  ELSE [e EXCEPT !.seen = 0, !.missed = 0]

Touched(e) ==
  IF Actionable(e) THEN FreshEntry ELSE [e EXCEPT !.seen = 0, !.missed = 0]

(* One line of the batch; acc: the table, the count and what was counted.  *)
Classify(acc, line) ==
  IF line = Noise THEN acc
  ELSE [table |-> [acc.table EXCEPT ![line] = Touched(@)],
        count |-> acc.count + IF Actionable(acc.table[line]) THEN 1 ELSE 0,
        prints |-> acc.prints \cup IF Actionable(acc.table[line]) THEN {line} ELSE {}]

Classified(lines) ==
  FoldLeft(Classify, [table |-> fps, count |-> 0, prints |-> {}], lines)

Miss(e) ==
  LET n == Least(e.missed + 1, ResolvedAfter)
  IN  [e EXCEPT !.missed = n, !.resolved = @ \/ n >= ResolvedAfter]

WithMisses(table, seen) ==
  [p \in Prints |-> IF table[p] = None \/ p \in seen THEN table[p] ELSE Miss(table[p])]

(* _save_fingerprints drops resolved entries past their time and then the  *)
(* entries seen longest ago, until MaxEntries are left.                    *)
Expired(e) == e.resolved /\ e.seen > TTL

Saved(table, kept) ==
  LET live == {p \in Prints : table[p] # None /\ ~Expired(table[p])} IN
  /\ kept \subseteq live
  /\ Cardinality(kept) = Least(Cardinality(live), MaxEntries)
  /\ \A p \in kept, q \in live \ kept : table[p].seen <= table[q].seen
  /\ fps' = [p \in Prints |-> IF p \in kept THEN table[p] ELSE None]

Update ==
  /\ pc = "marked"
  /\ LET seen == ToSet(batch) \ {Noise}
         c == Classified(batch)
         table == WithMisses(c.table, seen)
     IN
     \E kept \in SUBSET Prints :
       /\ Saved(table, kept)
       /\ result' = [count |-> c.count, prints |-> c.prints]
       /\ past' = [past EXCEPT
            !.reported = [p \in Prints |-> IF p \in c.prints THEN 0 ELSE @[p]],
            !.excused = [p \in Prints |->
                           IF p \in kept /\ ~table[p].resolved
                           THEN p \notin c.prints /\ @[p] ELSE TRUE],
            !.classified = @ \cup past.reading,
            !.reading = {}]
  /\ pc' = "idle"
  /\ batch' = <<>>
  /\ UNCHANGED <<log, marker, size, due>>

-----------------------------------------------------------------------------
(* Between heartbeats everything grows older, and another one is due.      *)
Tick ==
  /\ pc = "idle"
  /\ ~due
  /\ due' = TRUE
  /\ fps' = [p \in Prints |->
               IF fps[p] = None THEN None
               ELSE [fps[p] EXCEPT !.reported = Least(@ + 1, Cooldown),
                                   !.seen = Least(@ + 1, TTL + 1)]]
  /\ past' = [past EXCEPT
                !.reported = [p \in Prints |-> Least(@[p] + 1, Cooldown)]]
  /\ UNCHANGED <<log, marker, pc, size, batch, result>>

(* The process dies during a scan and is restarted.                        *)
Crash ==
  /\ pc # "idle"
  /\ pc' = "idle"
  /\ batch' = <<>>
  /\ result' = NoReport
  /\ past' = [past EXCEPT !.reading = {}, !.crashed = TRUE]
  /\ UNCHANGED <<log, marker, fps, size, due>>

Next ==
  \/ \E e \in Prints \cup {Noise} : Write(e)
  \/ Rotate
  \/ NothingNew
  \/ Stat
  \/ Read
  \/ Mark
  \/ Update
  \/ Tick
  \/ Crash

Spec == Init /\ [][Next]_vars

-----------------------------------------------------------------------------
(* Properties.                                                             *)

(* "actionable_count = number of distinct actionable fingerprints (not raw *)
(* line count)", although the batch is counted line by line.               *)
CountsDistinct == result.count = Cardinality(result.prints)

(* A fingerprint is reported again within its cooldown only if the table   *)
(* resolved or dropped it since: neither a crash, a rotation nor a line    *)
(* read twice reports it early.                                            *)
EarlyReportIsExcused ==
  [][pc = "marked" /\ pc' = "idle" =>
       \A p \in result'.prints : past.reported[p] < Cooldown => past.excused[p]]_vars

(* As long as the log is not rotated and no scan dies, no line before the  *)
(* marker was left out, although the marker is the size found before the   *)
(* file was read and threads go on writing.                                *)
NoLineSkipped ==
  ~past.rotated /\ ~past.crashed =>
    1..marker \subseteq past.classified \cup past.reading
=============================================================================
