---------------------------- MODULE JobSchedule ----------------------------
(***************************************************************************)
(* What the cron service promises about its user jobs, said without locks, *)
(* files or schedulers.  Each job has a durable mode, which survives a     *)
(* restart, and an armed mode, which decides whether the job fires now.    *)
(* A job is either settled, and then the two modes agree, or a change of   *)
(* it is under way (or was abandoned half-way), and then they may differ.  *)
(***************************************************************************)
CONSTANT Jobs       \* identifiers of the user's jobs

VARIABLES
  durable,          \* [Jobs -> Mode]: what the next start will bring back
  armed,            \* [Jobs -> Mode]: what the running service acts on
  serving,          \* BOOLEAN: the service has started and not stopped
  unsettled         \* jobs with a change under way, or abandoned half-way

vars == <<durable, armed, serving, unsettled>>

Mode == {"absent", "active", "paused"}

Absent == [j \in Jobs |-> "absent"]

TypeOK ==
  /\ durable \in [Jobs -> Mode]
  /\ armed \in [Jobs -> Mode]
  /\ serving \in BOOLEAN
  /\ unsettled \in SUBSET Jobs

Init ==
  /\ durable = Absent
  /\ armed = Absent
  /\ serving = FALSE
  /\ unsettled = {}

(* A start arms every job as it was left, whatever it was doing before.    *)
Start ==
  /\ ~serving
  /\ serving' = TRUE
  /\ armed' = durable
  /\ unsettled' = {}
  /\ UNCHANGED durable

(* A stop or a crash disarms everything and touches nothing durable.       *)
Halt ==
  /\ serving
  /\ serving' = FALSE
  /\ armed' = Absent
  /\ unsettled' = {}
  /\ UNCHANGED durable

(* A change of job j begins: j is unsettled and may be re-armed at once.   *)
Begin(j) ==
  /\ serving
  /\ unsettled' = unsettled \cup {j}
  /\ \E m \in Mode : armed' = [armed EXCEPT ![j] = m]
  /\ UNCHANGED <<durable, serving>>

(* The durable mode of an unsettled job is written; if the two modes now   *)
(* agree the change may also settle.                                       *)
Write(j) ==
  /\ serving
  /\ j \in unsettled
  /\ \E m \in Mode :
       /\ durable' = [durable EXCEPT ![j] = m]
       /\ \/ unsettled' = unsettled
          \/ m = armed[j] /\ unsettled' = unsettled \ {j}
  /\ UNCHANGED <<armed, serving>>

(* An unsettled job is armed the way it was written, and settles.          *)
Settle(j) ==
  /\ serving
  /\ j \in unsettled
  /\ armed' = [armed EXCEPT ![j] = durable[j]]
  /\ unsettled' = unsettled \ {j}
  /\ UNCHANGED <<durable, serving>>

(* A change that altered nothing is given up: the job settles as it was.   *)
Withdraw(j) ==
  /\ serving
  /\ j \in unsettled
  /\ armed[j] = durable[j]
  /\ unsettled' = unsettled \ {j}
  /\ UNCHANGED <<durable, armed, serving>>

Next ==
  \/ Start
  \/ Halt
  \/ \E j \in Jobs : Begin(j) \/ Write(j) \/ Settle(j) \/ Withdraw(j)

Spec == Init /\ [][Next]_vars

(* A settled job fires exactly as its stored definition says.              *)
SettledJobsAgree ==
  serving => \A j \in Jobs \ unsettled : armed[j] = durable[j]
=============================================================================
