------------------------- MODULE ProactiveDispatch -------------------------
(***************************************************************************)
(* Messages the agent sends of its own accord: the callback of             *)
(* src/lightclaw/app/cron/proactivity.py decides whether to speak,         *)
(* run_cron_agent of src/lightclaw/app/cron/agent_task.py lets an agent    *)
(* write, sends the text, appends it to the session of the user, and       *)
(* returns; five minutes later the message counts as unanswered unless the *)
(* user wrote.  The heartbeat uses run_cron_agent without the callback.    *)
(*                                                                         *)
(* Meanwhile the user's own turns run: RunController loads the session     *)
(* when a turn starts and saves the whole of it when the turn ends.  A     *)
(* message is named after the run or the turn that wrote it.               *)
(***************************************************************************)
EXTENDS Naturals, FiniteSets

CONSTANTS
  Jobs,         \* runs of run_cron_agent
  Gated,        \* those that on_evaluate started; the others are heartbeats
  Turns,        \* turns of the user
  Dispatched,   \* those whose target is "last": the text is to be sent
  MaxCrashes    \* bound

ASSUME ActorsAssumption ==
  /\ IsFiniteSet(Jobs) /\ Jobs \cap Turns = {}
  /\ Gated \subseteq Jobs /\ Dispatched \subseteq Jobs
  /\ MaxCrashes \in Nat

VARIABLES
  session,      \* the messages in the session file of the user
  unanswered,   \* unanswered_count of IDENTITY.md
  timers,       \* pending _delayed_increment_unanswered calls
  job,          \* [Jobs -> where the run stands, and the history it loaded]
  answer,       \* [Jobs -> what run_cron_agent returned, or "none"]
  turn,         \* [Turns -> where the turn stands, and the history it loaded]
  crashes,
  silence       \* history: messages counted since the count was last reset

files == <<session, unanswered>>
vars == <<files, timers, job, answer, turn, crashes, silence>>

Message == Jobs \cup Turns

(* A timer holds the count it expects, and for the properties whether the  *)
(* count was reset since: by the user, or by a write that failed half way. *)
Timer == [job: Gated, expected: 0..Cardinality(Gated), reset: BOOLEAN]

(* What reading the count gives: of a file that cannot be read, nothing.   *)
Reading == {unanswered, 0}

At(where) == [at |-> where, loaded |-> {}]

Stages == {"new", "agent", "send", "load", "save", "done"}

TypeOK ==
  /\ session \subseteq Message
  /\ unanswered \in 0..Cardinality(Gated)
  /\ timers \subseteq Timer
  /\ job \in [Jobs -> [at: Stages, loaded: SUBSET Message]]
  /\ answer \in [Jobs -> {"none", "true", "false"}]
  /\ \A j \in Jobs : (answer[j] # "none") => (job[j].at = "done")
  /\ turn \in [Turns -> [at: {"new", "running", "done"}, loaded: SUBSET Message]]
  /\ crashes \in 0..MaxCrashes
  /\ silence \subseteq Gated

Init ==
  /\ session = {}
  /\ unanswered = 0
  /\ timers = {}
  /\ job = [j \in Jobs |-> At("new")]
  /\ answer = [j \in Jobs |-> "none"]
  /\ turn = [t \in Turns |-> At("new")]
  /\ crashes = 0
  /\ silence = {}

-----------------------------------------------------------------------------
(* The user.                                                               *)

Reset ==
  /\ unanswered' = 0
  /\ silence' = {}

SeenReset(set) == {[c EXCEPT !.reset = TRUE] : c \in set}

(* A message of the user resets the count.                                 *)
StartTurn(t) ==
  /\ turn[t].at = "new"
  /\ turn' = [turn EXCEPT ![t] = [at |-> "running", loaded |-> session]]
  /\ Reset
  /\ timers' = SeenReset(timers)
  /\ UNCHANGED <<session, job, answer, crashes>>

(* update_history and the final save: the file is what the turn loaded,    *)
(* and the turn.                                                           *)
EndTurn(t) ==
  /\ turn[t].at = "running"
  /\ session' = turn[t].loaded \cup {t}
  /\ turn' = [turn EXCEPT ![t] = At("done")]
  /\ UNCHANGED <<unanswered, timers, job, answer, crashes, silence>>

-----------------------------------------------------------------------------
(* A run of the agent.                                                     *)

ActiveRuns == Cardinality({t \in Turns : turn[t].at = "running"})
              + Cardinality({j \in Jobs : job[j].at = "agent"})

(* _on_evaluate; the settings, the hours and the dice may also say no, and *)
(* then nothing happens.  A heartbeat does not ask for active runs.        *)
Start(j) ==
  /\ job[j].at = "new"
  /\ j \in Gated => ActiveRuns = 0
  /\ job' = [job EXCEPT ![j] = At("agent")]
  /\ UNCHANGED <<files, timers, answer, turn, crashes, silence>>

(* The timer of a message, with the count read when the run is over.       *)
Wait(j) ==
  \E expected \in Reading :
    timers' = timers \cup {[job |-> j, expected |-> expected, reset |-> FALSE]}

(* Every run that ends sets a timer.                                       *)
FaultyReturn(j, value) ==
  /\ job' = [job EXCEPT ![j] = At("done")]
  /\ answer' = [answer EXCEPT ![j] = value]
  /\ IF j \in Gated THEN Wait(j) ELSE timers' = timers

(* run_cron_agent returns; what was dispatched sets the timer.             *)
Return(j, value) ==
  /\ job' = [job EXCEPT ![j] = At("done")]
  /\ answer' = [answer EXCEPT ![j] = value]
  /\ IF value = "true" /\ j \in Gated THEN Wait(j) ELSE timers' = timers

(* Nothing to push, or the outbound text was blocked.                      *)
Skip(j) ==
  /\ job[j].at = "agent"
  /\ Return(j, "false")
  /\ UNCHANGED <<files, turn, crashes, silence>>

Written(j) ==
  /\ job[j].at = "agent"
  /\ IF j \in Dispatched
       THEN job' = [job EXCEPT ![j] = At("send")] /\ UNCHANGED <<timers, answer>>
       ELSE Return(j, "true")
  /\ UNCHANGED <<files, turn, crashes, silence>>

(* send_event; an exception is logged, and the run goes on as if the       *)
(* channel had accepted the text.                                          *)
Send(j) ==
  /\ job[j].at = "send"
  /\ job' = [job EXCEPT ![j] = At("load")]
  /\ UNCHANGED <<files, timers, answer, turn, crashes, silence>>

(* _persist_to_session: aload, append, asave.                              *)
Load(j) ==
  /\ job[j].at = "load"
  /\ job' = [job EXCEPT ![j] = [at |-> "save", loaded |-> session]]
  /\ UNCHANGED <<files, timers, answer, turn, crashes, silence>>

Save(j) ==
  /\ job[j].at = "save"
  /\ session' = job[j].loaded \cup {j}
  /\ Return(j, "true")
  /\ UNCHANGED <<unanswered, turn, crashes, silence>>

(* An error there is logged, and the message counts as dispatched.         *)
PersistFails(j) ==
  /\ job[j].at \in {"load", "save"}
  /\ Return(j, "true")
  /\ UNCHANGED <<files, turn, crashes, silence>>

(* Only the agent is timed.                                                *)
FaultyTimeOut(j) ==
  /\ job[j].at = "agent"
  /\ Return(j, "false")
  /\ UNCHANGED <<files, turn, crashes, silence>>

(* wait_for gives up wherever the run stands.                              *)
TimeOut(j) ==
  /\ job[j].at \in {"agent", "send", "load", "save"}
  /\ Return(j, "false")
  /\ UNCHANGED <<files, turn, crashes, silence>>

(* The agent, the session or the configuration raises: the caller logs it. *)
Raise(j) ==
  /\ job[j].at = "agent"
  /\ job' = [job EXCEPT ![j] = At("done")]
  /\ UNCHANGED <<files, timers, answer, turn, crashes, silence>>

-----------------------------------------------------------------------------
(* _delayed_increment_unanswered.                                          *)

(* The increment is skipped when the count is the one it expects.          *)
FaultyFire(c) ==
  /\ c \in timers
  /\ timers' = timers \ {c}
  /\ \E current \in Reading :
       unanswered' = IF current # c.expected THEN current + 1 ELSE unanswered
  /\ silence' = IF c.reset THEN silence ELSE silence \cup {c.job}
  /\ UNCHANGED <<session, job, answer, turn, crashes>>

(* A count other than the expected one is taken for a reply.               *)
Fire(c) ==
  /\ c \in timers
  /\ timers' = timers \ {c}
  /\ \E current \in Reading :
       unanswered' = IF current = c.expected THEN current + 1 ELSE unanswered
  /\ silence' = IF c.reset THEN silence ELSE silence \cup {c.job}
  /\ UNCHANGED <<session, job, answer, turn, crashes>>

(* The write of the count fails, which is only logged: the message is not  *)
(* counted, and the file is as it was, or emptied.                         *)
WriteFails(c) ==
  /\ c \in timers
  /\ c.expected \in Reading
  /\ \/ timers' = timers \ {c} /\ UNCHANGED <<unanswered, silence>>
     \/ timers' = SeenReset(timers \ {c}) /\ Reset
  /\ UNCHANGED <<session, job, answer, turn, crashes>>

(* The timers and the runs live in the process; files do not.              *)
Crash ==
  /\ crashes < MaxCrashes
  /\ crashes' = crashes + 1
  /\ timers' = {}
  /\ job' = [j \in Jobs |-> IF job[j].at = "new" THEN job[j] ELSE At("done")]
  /\ turn' = [t \in Turns |-> IF turn[t].at = "running" THEN At("done") ELSE turn[t]]
  /\ UNCHANGED <<files, answer, silence>>

Next ==
  \/ \E t \in Turns : StartTurn(t) \/ EndTurn(t)
  \/ \E j \in Jobs : Start(j) \/ Skip(j) \/ Written(j) \/ Send(j) \/ Load(j) \/ Save(j)
                     \/ PersistFails(j) \/ TimeOut(j) \/ Raise(j)
  \/ \E c \in timers : Fire(c) \/ WriteFails(c)
  \/ Crash

Spec == Init /\ [][Next]_vars

(* run_cron_agent runs under wait_for, so it ends whatever it waits for.   *)
Fairness == \A j \in Jobs : WF_vars(TimeOut(j))

FairSpec == Spec /\ Fairness

-----------------------------------------------------------------------------
(* What the count and the session promise.                                 *)

(* However runs, timers and restarts interleave, and whichever reads of    *)
(* the file fail, messages that stayed without a word from the user until  *)
(* they were counted have left a positive count: the next message is less  *)
(* likely.  A message whose write failed was not counted, and a write that *)
(* emptied the file reset the count as the user does.                      *)
SilenceIsNoticed == silence # {} => unanswered > 0

(* The count never exceeds the messages reported as dispatched: a run that *)
(* had nothing to say costs nothing.                                       *)
CountIsBacked == unanswered <= Cardinality({j \in Gated : answer[j] = "true"})

(* What the caller was told did not happen has not reached the session of  *)
(* the user.                                                               *)
DeniedLeavesNoTrace == \A j \in Jobs : answer[j] = "false" => j \notin session

(* A run reported as not dispatched leaves nothing behind in the files of  *)
(* the user, whichever of the timeout, the channel and the session store   *)
(* struck first: no message in the session, no unanswered message.  Of the *)
(* channel nothing is said: a timeout that strikes after the send reports  *)
(* as not dispatched a text that the user was sent.                        *)
DeniedRunsLeaveNothing == CountIsBacked /\ DeniedLeavesNoTrace

(* A run that was started ends: the engine's loop, which awaits it, is not *)
(* held up by a channel or a session store that does not answer.           *)
EveryRunEnds == \A j \in Jobs : job[j].at # "new" ~> job[j].at = "done"
=============================================================================
