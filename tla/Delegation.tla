----------------------------- MODULE Delegation -----------------------------
(***************************************************************************)
(* The tool delegate_readonly_tasks of                                     *)
(* src/lightclaw/agent/tools/delegate_readonly_tasks.py and the workers it *)
(* starts (delegate_readonly_tasks_worker.py): tasks that seem to write    *)
(* are rejected, the others run under a semaphore, each with a timeout of  *)
(* its own, and all of them with one for the whole call.                   *)
(*                                                                         *)
(* Several calls may run at once: two turns, or two tool calls of one      *)
(* message.  A worker talks in a session that is named after the second    *)
(* its call was made and its place among the accepted tasks; RunController *)
(* loads that session when the worker starts and saves it at the end.      *)
(***************************************************************************)
EXTENDS Naturals, Sequences, SequencesExt

CONSTANTS
  Calls,
  TaskLists,      \* the calls' inputs: sequences of [id, writes]
  Limits,         \* the inputs max_concurrent
  MaxTasks,       \* DELEGATE_MAX_TASKS
  MaxConcurrent,  \* DELEGATE_MAX_CONCURRENT_CHILDREN
  Verbose,        \* calls whose results may exceed DELEGATE_RESULT_MAX_CHARS
  MaxSecond       \* bound of the clock

ASSUME InputsAssumption ==
  /\ \A tasks \in TaskLists :
       /\ tasks \in Seq({tasks[i] : i \in DOMAIN tasks})
       /\ \A i \in DOMAIN tasks : tasks[i].writes \in BOOLEAN
  /\ Limits \subseteq Nat /\ Verbose \subseteq Calls
  /\ MaxTasks \in Nat \ {0} /\ MaxConcurrent \in Nat \ {0} /\ MaxSecond \in Nat

VARIABLES
  second,   \* int(time.monotonic())
  call,     \* [Calls -> [at, made, tasks, limit, reports, cut]]
  worker,   \* [Calls -> sequence of [at, loaded], one for each accepted task]
  session   \* the messages on disk: [made, place, call]

vars == <<second, call, worker, session>>

Outcomes == {"success", "partial", "failed", "timeout"}
Done == Outcomes \cup {"cancelled"}

Message == [made: 0..MaxSecond, place: 1..MaxTasks, call: Calls]

TypeOK ==
  /\ second \in 0..MaxSecond
  /\ \A c \in Calls :
       /\ call[c].at \in {"new", "running", "returned", "invalid", "failed", "cancelled"}
       /\ call[c].limit \in 1..MaxConcurrent
       /\ Len(call[c].tasks) <= MaxTasks /\ call[c].cut \in BOOLEAN
       /\ \A i \in DOMAIN call[c].reports :
            call[c].reports[i].status \in Outcomes \cup {"rejected"}
       /\ \A i \in DOMAIN worker[c] :
            worker[c][i].at \in {"waiting", "starting", "running"} \cup Done
  /\ session \subseteq Message

Init ==
  /\ second = 0
  /\ call = [c \in Calls |-> [at |-> "new", made |-> 0, tasks |-> <<>>,
                              limit |-> MaxConcurrent, reports |-> <<>>, cut |-> FALSE]]
  /\ worker = [c \in Calls |-> <<>>]
  /\ session = {}

Tick ==
  /\ second < MaxSecond
  /\ second' = second + 1
  /\ UNCHANGED <<call, worker, session>>

-----------------------------------------------------------------------------
(* The call.                                                               *)

Writes(t) == t.writes

(* The tasks that seem to write, or those that do not, in their order      *)
Only(tasks, writing) ==
  LET upTo[n \in 0..Len(tasks)] ==
        IF n = 0 THEN <<>>
        ELSE IF Writes(tasks[n]) = writing THEN Append(upTo[n - 1], tasks[n])
        ELSE upTo[n - 1]
  IN  upTo[Len(tasks)]

Rejected(tasks) == Only(tasks, TRUE)
Accepted(tasks) == Only(tasks, FALSE)

Report(task, status) == [id |-> task.id, status |-> status]
AllRejected(tasks) ==
  [i \in DOMAIN Rejected(tasks) |-> Report(Rejected(tasks)[i], "rejected")]

(* The lower bound is not applied.                                         *)
FaultyClamp(n) == IF n > MaxConcurrent THEN MaxConcurrent ELSE n

Clamp(n) == IF n = 0 THEN 1 ELSE IF n > MaxConcurrent THEN MaxConcurrent ELSE n

Valid(tasks) == Len(tasks) \in 1..MaxTasks

(* _format_results: the reports as one text.  One that is too long is cut   *)
(* off, in the midst of a report; that report and those behind it are lost. *)
Formatted(c, reports) ==
  {[reports |-> reports, cut |-> FALSE]}
    \cup {[reports |-> SubSeq(reports, 1, n), cut |-> TRUE] :
             n \in {m \in 0..(Len(reports) - 1) : c \in Verbose}}

(* There may be too many tasks, no task that is accepted, or no runner.    *)
Delegate(c, tasks, limit) ==
  /\ call[c].at = "new"
  /\ \/ /\ ~Valid(tasks)
        /\ call' = [call EXCEPT ![c].at = "invalid"]
        /\ UNCHANGED worker
     \/ /\ Valid(tasks)
        /\ Accepted(tasks) = <<>>
        /\ \E text \in Formatted(c, AllRejected(tasks)) :
             call' = [call EXCEPT ![c] = [at |-> "returned", made |-> second,
                       tasks |-> tasks, limit |-> Clamp(limit),
                       reports |-> text.reports, cut |-> text.cut]]
        /\ UNCHANGED worker
     \/ /\ Valid(tasks)
        /\ Accepted(tasks) # <<>>
        /\ call' = [call EXCEPT ![c].at = "failed"]
        /\ UNCHANGED worker
     \/ /\ Valid(tasks)
        /\ Accepted(tasks) # <<>>
        /\ call' = [call EXCEPT ![c] = [at |-> "running", made |-> second,
                     tasks |-> tasks, limit |-> Clamp(limit), reports |-> <<>>, cut |-> FALSE]]
        /\ worker' = [worker EXCEPT ![c] = [i \in DOMAIN Accepted(tasks) |->
                                              [at |-> "waiting", loaded |-> {}]]]
  /\ UNCHANGED <<second, session>>

(* The results begin with two entries for each rejected task.              *)
Collected(c, reports) ==
  AllRejected(call[c].tasks) \o AllRejected(call[c].tasks) \o reports

Finished(c) == \A i \in DOMAIN worker[c] : worker[c][i].at \in Done

Return(c, reports) ==
  \E text \in Formatted(c, Collected(c, reports)) :
    call' = [call EXCEPT ![c].at = "returned",
                         ![c].reports = text.reports, ![c].cut = text.cut]

(* The place of a worker is taken for that of its task in the call.        *)
FaultyGather(c) ==
  /\ call[c].at = "running"
  /\ Finished(c)
  /\ Return(c, [i \in DOMAIN worker[c] |->
                  Report(call[c].tasks[i], worker[c][i].at)])
  /\ UNCHANGED <<second, worker, session>>

(* gather returns the results in the order of the accepted tasks.          *)
Gather(c) ==
  /\ call[c].at = "running"
  /\ Finished(c)
  /\ Return(c, [i \in DOMAIN worker[c] |->
                  Report(Accepted(call[c].tasks)[i], worker[c][i].at)])
  /\ UNCHANGED <<second, worker, session>>

Stop(c) ==
  worker' = [worker EXCEPT ![c] =
               [i \in DOMAIN worker[c] |->
                  IF worker[c][i].at \in Done THEN worker[c][i]
                  ELSE [at |-> "cancelled", loaded |-> {}]]]

(* The timeout of the whole call cancels the workers that are left and     *)
(* drops what the others returned.                                         *)
TotalTimeout(c) ==
  /\ call[c].at = "running"
  /\ ~Finished(c)
  /\ Return(c, <<>>)
  /\ Stop(c)
  /\ UNCHANGED <<second, session>>

(* The turn that made the call is cancelled.                               *)
Cancel(c) ==
  /\ call[c].at = "running"
  /\ call' = [call EXCEPT ![c].at = "cancelled"]
  /\ Stop(c)
  /\ UNCHANGED <<second, session>>

-----------------------------------------------------------------------------
(* A worker.                                                               *)

At(c, steps) == {i \in DOMAIN worker[c] : worker[c][i].at \in steps}
Inside(c) == At(c, {"starting", "running"})

(* The semaphore serves the tasks in the order gather started them.        *)
Acquire(c, i) ==
  /\ worker[c][i].at = "waiting"
  /\ \A j \in 1..(i - 1) : worker[c][j].at # "waiting"
  /\ Cardinality(Inside(c)) < call[c].limit
  /\ worker' = [worker EXCEPT ![c][i].at = "starting"]
  /\ UNCHANGED <<second, call, session>>

(* The name of a session does not tell the second of its call.             *)
FaultySameSession(c, i) == {m \in session : m.place = i}

SameSession(c, i) == {m \in session : m.made = call[c].made /\ m.place = i}

Load(c, i) ==
  /\ worker[c][i].at = "starting"
  /\ worker' = [worker EXCEPT ![c][i] = [at |-> "running",
                                         loaded |-> SameSession(c, i)]]
  /\ UNCHANGED <<second, call, session>>

(* The answer is JSON, other text, or nothing, which counts as failed; an  *)
(* ephemeral run adds its last message to the history it loaded.           *)
Answer(c, i, status) ==
  /\ worker[c][i].at = "running"
  /\ worker' = [worker EXCEPT ![c][i].at = status]
  /\ session' = (session \ SameSession(c, i)) \cup worker[c][i].loaded
                \cup (IF status = "failed" THEN {}
                      ELSE {[made |-> call[c].made, place |-> i, call |-> c]})
  /\ UNCHANGED <<second, call>>

(* The timeout of the worker, or an exception.                             *)
GiveUp(c, i, status) ==
  /\ worker[c][i].at \in {"starting", "running"}
  /\ worker' = [worker EXCEPT ![c][i].at = status]
  /\ UNCHANGED <<second, call, session>>

-----------------------------------------------------------------------------

WorkerStep(c, i) ==
  \/ Acquire(c, i)
  \/ Load(c, i)
  \/ \E status \in {"success", "partial", "failed"} : Answer(c, i, status)
  \/ \E status \in {"timeout", "failed"} : GiveUp(c, i, status)

Next ==
  \/ Tick
  \/ \E c \in Calls :
       \/ \E tasks \in TaskLists, limit \in Limits : Delegate(c, tasks, limit)
       \/ Gather(c) \/ TotalTimeout(c) \/ Cancel(c)
       \/ \E i \in DOMAIN worker[c] : WorkerStep(c, i)

Spec == Init /\ [][Next]_vars

(* wait_for ends each worker, and the event loop runs what is ready.  The  *)
(* timeout of the call is not relied on.                                   *)
FairSpec ==
  /\ Spec
  /\ \A c \in Calls :
       /\ WF_vars(Gather(c))
       /\ \A i \in 1..MaxTasks :
            /\ WF_vars(i \in DOMAIN worker[c] /\ Acquire(c, i))
            /\ WF_vars(i \in DOMAIN worker[c] /\ GiveUp(c, i, "timeout"))

-----------------------------------------------------------------------------

(* At most max_concurrent workers of one call use the model.               *)
WithinLimit == \A c \in Calls : Cardinality(Inside(c)) <= call[c].limit

Returned(c) == call[c].at = "returned"
Reports(c, task) ==
  {i \in DOMAIN call[c].reports : call[c].reports[i].id = task.id}

(* The model may give two tasks one id, and the code does not look.        *)
Distinct(tasks) ==
  \A i, j \in DOMAIN tasks : tasks[i].id = tasks[j].id => i = j

(* The answer has one report for each accepted task, with what its own     *)
(* worker came to, so that rejected tasks do not shift the others.  Where  *)
(* reports are missing they are the last ones, and the text was cut off    *)
(* ("[total output truncated]", delegate_readonly_tasks.py:306-307), or    *)
(* all are, and the timeout of the whole call struck when a worker was not *)
(* done.  So it is for tasks that their ids tell apart.                    *)
ReportsMatchWorkers ==
  \A c \in Calls : Returned(c) /\ Distinct(call[c].tasks) =>
    LET accepted == Accepted(call[c].tasks) IN
    \E n \in 0..Len(accepted) :
      /\ \A i \in 1..n :
           \E k \in DOMAIN call[c].reports :
             /\ Reports(c, accepted[i]) = {k}
             /\ call[c].reports[k].status = worker[c][i].at
      /\ \A i \in (n + 1)..Len(accepted) : Reports(c, accepted[i]) = {}
      /\ n < Len(accepted) =>
           call[c].cut \/ (n = 0 /\ \E i \in DOMAIN worker[c] : worker[c][i].at = "cancelled")

(* A call is carried out in order: the limit holds while it runs, and what *)
(* it returns belongs to its tasks.                                        *)
OrderlyCall == WithinLimit /\ ReportsMatchWorkers

(* A call is over some day by the timeouts of its workers alone, whatever  *)
(* limit was asked for: no worker waits at the semaphore for ever.         *)
EveryCallEnds == \A c \in Calls : (call[c].at = "running") ~> (call[c].at # "running")

(* "Each worker runs in a fresh, isolated context"                         *)
(* (delegate_readonly_tasks.py:151): it finds no history, unless another   *)
(* call was made in the same second.                                       *)
FreshContext ==
  \A c \in Calls : \A i \in DOMAIN worker[c] :
    worker[c][i].loaded # {} => \E d \in Calls \ {c} : call[d].made = call[c].made
=============================================================================
