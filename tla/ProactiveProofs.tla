--------------------------- MODULE ProactiveProofs ---------------------------
(***************************************************************************)
(* Theorems about ProactiveDispatch, for every finite set of runs, every   *)
(* set of turns, whichever runs are gated or dispatched, and any number of *)
(* crashes: what the count of unanswered messages and the session of the   *)
(* user promise.                                                           *)
(***************************************************************************)
EXTENDS ProactiveDispatch, FiniteSetTheorems, TLAPS

USE ActorsAssumption

(* Everything but the bound of the count, which follows from CountInv.     *)
Shape ==
  /\ session \subseteq Message
  /\ unanswered \in Nat
  /\ timers \subseteq [job: Gated, expected: Nat, reset: BOOLEAN]
  /\ job \in [Jobs -> [at: Stages, loaded: SUBSET Message]]
  /\ answer \in [Jobs -> {"none", "true", "false"}]
  /\ \A j \in Jobs : (answer[j] # "none") => (job[j].at = "done")
  /\ turn \in [Turns -> [at: {"new", "running", "done"}, loaded: SUBSET Message]]
  /\ silence \subseteq Gated

(* The gated runs that were reported as dispatched, and those of them that *)
(* still wait to be counted: the count never exceeds the number of the     *)
(* others.  One timer per run, so that a run is counted at most once.      *)
Told == {j \in Gated : answer[j] = "true"}
Pending == {c.job : c \in timers}

CountInv ==
  /\ Pending \subseteq Told
  /\ \A c, d \in timers : c.job = d.job => c = d
  /\ unanswered <= Cardinality(Told \ Pending)

(* A count that was positive when a timer was set stays so until it is     *)
(* reset: a reading that fails can lower it, but never to nothing.         *)
SilenceInv ==
  /\ SilenceIsNoticed
  /\ \A c \in timers : ~c.reset /\ c.expected > 0 => unanswered > 0

(* Every copy of the history, on disk or loaded by a turn or by a run.     *)
Recorded(j) ==
  \/ j \in session
  \/ \E t \in Turns : j \in turn[t].loaded
  \/ \E k \in Jobs : j \in job[k].loaded

TraceInv == \A j \in Jobs : Recorded(j) => answer[j] = "true"

-----------------------------------------------------------------------------
LEMMA InitAll == Init => Shape /\ CountInv /\ SilenceInv /\ TraceInv
<1> SUFFICES ASSUME Init PROVE Shape /\ CountInv /\ SilenceInv /\ TraceInv
  OBVIOUS
<1>1. Shape
  BY DEF Init, Shape, At, Stages
<1>2. CountInv
  <2>1. Told \ Pending = {} /\ Pending = {}
    BY DEF Init, Told, Pending
  <2> QED
    BY <2>1, FS_EmptySet DEF Init, CountInv
<1>3. SilenceInv
  BY DEF Init, SilenceInv, SilenceIsNoticed
<1>4. TraceInv
  BY DEF Init, TraceInv, Recorded, At
<1> QED
  BY <1>1, <1>2, <1>3, <1>4

(* The ways a run returns, in one: from any stage but "new" and "done".    *)
Ended(j, value) ==
  /\ job[j].at \notin {"new", "done"}
  /\ Return(j, value)
  /\ UNCHANGED <<unanswered, turn, silence>>
  /\ \/ session' = session
     \/ session' = job[j].loaded \cup {j} /\ value = "true"

LEMMA Ends ==
  ASSUME NEW j \in Jobs,
         \/ Skip(j) \/ Save(j) \/ PersistFails(j) \/ TimeOut(j)
         \/ (Written(j) /\ j \notin Dispatched)
  PROVE  \E value \in {"true", "false"} : Ended(j, value)
<1>1. Skip(j) => Ended(j, "false")
  BY DEF Skip, Ended, files
<1>2. Save(j) => Ended(j, "true")
  BY DEF Save, Ended
<1>3. PersistFails(j) => Ended(j, "true")
  BY DEF PersistFails, Ended, files
<1>4. TimeOut(j) => Ended(j, "false")
  BY DEF TimeOut, Ended, files
<1>5. Written(j) /\ j \notin Dispatched => Ended(j, "true")
  BY DEF Written, Ended, files
<1> QED
  BY <1>1, <1>2, <1>3, <1>4, <1>5

(* A run that goes on, or that raises: only its own stage changes, and a   *)
(* history it takes is the one on disk.                                    *)
Moves(j) ==
  /\ UNCHANGED <<files, timers, answer, turn, silence>>
  /\ answer[j] = "none"
  /\ \E to \in Stages, loaded \in {{}, session} :
       job' = [job EXCEPT ![j] = [at |-> to, loaded |-> loaded]]

LEMMA GoesOn ==
  ASSUME Shape, NEW j \in Jobs,
         \/ Start(j) \/ Send(j) \/ Load(j) \/ Raise(j)
         \/ (Written(j) /\ j \in Dispatched)
  PROVE  Moves(j)
<1>1. answer[j] = "none"
  BY DEF Shape, Start, Send, Load, Raise, Written
<1>2. Start(j) => Moves(j)
  BY <1>1 DEF Start, Moves, At, Stages
<1>3. Send(j) => Moves(j)
  BY <1>1 DEF Send, Moves, At, Stages
<1>4. Load(j) => Moves(j)
  BY <1>1 DEF Load, Moves, Stages
<1>5. Raise(j) => Moves(j)
  BY <1>1 DEF Raise, Moves, At, Stages
<1>6. Written(j) /\ j \in Dispatched => Moves(j)
  BY <1>1 DEF Written, Moves, At, Stages, files
<1> QED
  BY <1>2, <1>3, <1>4, <1>5, <1>6

(* What any step is, for the proofs below.                                 *)
LEMMA Steps ==
  ASSUME Shape, [Next]_vars
  PROVE  \/ \E t \in Turns : StartTurn(t) \/ EndTurn(t)
         \/ \E j \in Jobs, value \in {"true", "false"} : Ended(j, value)
         \/ \E j \in Jobs : Moves(j)
         \/ \E c \in timers : Fire(c) \/ WriteFails(c)
         \/ Crash
         \/ UNCHANGED vars
  BY Ends, GoesOn DEF Next

-----------------------------------------------------------------------------
(* The fields keep their shape.                                            *)

LEMMA EndedShape ==
  ASSUME Shape, NEW j \in Jobs, NEW value \in {"true", "false"}, Ended(j, value)
  PROVE  Shape'
<1>1. /\ job' = [job EXCEPT ![j] = [at |-> "done", loaded |-> {}]]
      /\ answer' = [answer EXCEPT ![j] = value]
      /\ UNCHANGED <<unanswered, turn, silence>>
  BY DEF Ended, Return, At
<1>2. timers' \subseteq [job: Gated, expected: Nat, reset: BOOLEAN]
  <2>1. \A e \in Reading : e \in Nat
    BY DEF Reading, Shape
  <2>2. j \in Gated => \A e \in Reading : [job |-> j, expected |-> e, reset |-> FALSE]
                         \in [job: Gated, expected: Nat, reset: BOOLEAN]
    BY <2>1
  <2>3. CASE timers' = timers
    BY <2>3 DEF Shape
  <2>4. CASE j \in Gated /\ Wait(j)
    <3>1. PICK e \in Reading :
            timers' = timers \cup {[job |-> j, expected |-> e, reset |-> FALSE]}
      BY <2>4 DEF Wait
    <3> QED
      BY <2>2, <2>4, <3>1 DEF Shape
  <2> QED
    BY <2>3, <2>4 DEF Ended, Return
<1>3. session' \subseteq Message
  BY DEF Ended, Shape, Message
<1>4. job' \in [Jobs -> [at: Stages, loaded: SUBSET Message]]
  BY <1>1 DEF Shape, Stages
<1>5. \A k \in Jobs : (answer'[k] # "none") => (job'[k].at = "done")
  BY <1>1 DEF Shape
<1> QED
  BY <1>1, <1>2, <1>3, <1>4, <1>5 DEF Shape

LEMMA MovesShape ==
  ASSUME Shape, NEW j \in Jobs, Moves(j)
  PROVE  Shape'
<1>1. PICK to \in Stages, loaded \in {{}, session} :
        job' = [job EXCEPT ![j] = [at |-> to, loaded |-> loaded]]
  BY DEF Moves
<1>2. job' \in [Jobs -> [at: Stages, loaded: SUBSET Message]]
  BY <1>1 DEF Shape
<1>3. \A k \in Jobs : (answer[k] # "none") => (job'[k].at = "done")
  BY <1>1 DEF Shape, Moves
<1> QED
  BY <1>2, <1>3 DEF Moves, files, Shape

LEMMA NextShape == ASSUME Shape, [Next]_vars PROVE Shape'
<1>1. ASSUME NEW t \in Turns, StartTurn(t) PROVE Shape'
  <2>1. turn' \in [Turns -> [at: {"new", "running", "done"}, loaded: SUBSET Message]]
    BY <1>1 DEF StartTurn, Shape
  <2>2. timers' \subseteq [job: Gated, expected: Nat, reset: BOOLEAN]
    BY <1>1 DEF StartTurn, SeenReset, Shape
  <2> QED
    BY <1>1, <2>1, <2>2 DEF StartTurn, Reset, Shape
<1>2. ASSUME NEW t \in Turns, EndTurn(t) PROVE Shape'
  <2>1. turn[t].loaded \subseteq Message
    BY DEF Shape
  <2>2. session' \subseteq Message
    BY <1>2, <2>1 DEF EndTurn, Message
  <2>3. turn' \in [Turns -> [at: {"new", "running", "done"}, loaded: SUBSET Message]]
    BY <1>2 DEF EndTurn, At, Shape
  <2> QED
    BY <1>2, <2>2, <2>3 DEF EndTurn, Shape
<1>3. ASSUME NEW c \in timers, Fire(c) PROVE Shape'
  <2>1. c.job \in Gated
    BY DEF Shape
  <2>2. unanswered' \in Nat /\ silence' \subseteq Gated /\ timers' \subseteq timers
    BY <1>3, <2>1 DEF Fire, Reading, Shape
  <2> QED
    BY <1>3, <2>2 DEF Fire, Shape
<1>6. ASSUME NEW c \in timers, WriteFails(c) PROVE Shape'
  <2>1. unanswered' \in Nat /\ silence' \subseteq Gated
    BY <1>6 DEF WriteFails, Reset, Shape
  <2>2. timers' \subseteq timers \cup SeenReset(timers)
    <3>1. CASE timers' = timers \ {c}
      BY <3>1
    <3>2. CASE timers' = SeenReset(timers \ {c})
      BY <3>2 DEF SeenReset
    <3> QED
      BY <1>6, <3>1, <3>2 DEF WriteFails
  <2>3. SeenReset(timers) \subseteq [job: Gated, expected: Nat, reset: BOOLEAN]
    <3>1. \A d \in timers : d \in [job: Gated, expected: Nat, reset: BOOLEAN]
      BY DEF Shape
    <3>2. \A d \in timers : [d EXCEPT !.reset = TRUE]
                             \in [job: Gated, expected: Nat, reset: BOOLEAN]
      BY <3>1
    <3> QED
      BY <3>2 DEF SeenReset
  <2> QED
    BY <1>6, <2>1, <2>2, <2>3 DEF WriteFails, Shape
<1>4. CASE Crash
  <2>1. job' \in [Jobs -> [at: Stages, loaded: SUBSET Message]]
    BY <1>4 DEF Crash, Shape, At, Stages
  <2>2. \A k \in Jobs : (answer[k] # "none") => (job'[k].at = "done")
    BY <1>4 DEF Crash, Shape, At
  <2>3. turn' \in [Turns -> [at: {"new", "running", "done"}, loaded: SUBSET Message]]
    BY <1>4 DEF Crash, Shape, At
  <2> QED
    BY <1>4, <2>1, <2>2, <2>3 DEF Crash, files, Shape
<1>5. CASE UNCHANGED vars
  BY <1>5 DEF vars, files, Shape
<1> QED
  BY <1>1, <1>2, <1>3, <1>4, <1>5, <1>6, Steps, EndedShape, MovesShape

-----------------------------------------------------------------------------
(* The count.                                                              *)

LEMMA FiniteRuns == IsFiniteSet(Told) /\ \A S : IsFiniteSet(Told \ S)
<1>1. IsFiniteSet(Gated)
  BY FS_Subset
<1> QED
  BY <1>1, FS_Subset DEF Told

LEMMA EndedCount ==
  ASSUME Shape, CountInv, NEW j \in Jobs, NEW value \in {"true", "false"},
         Ended(j, value)
  PROVE  CountInv'
<1>1. answer[j] = "none" /\ j \notin Told
  BY DEF Shape, Ended, Told
<1>2. answer' = [answer EXCEPT ![j] = value] /\ unanswered' = unanswered
  BY DEF Ended, Return
<1>3. CASE value = "true" /\ j \in Gated
  <2>0. Wait(j)
    BY <1>3 DEF Ended, Return
  <2>1. PICK c : timers' = timers \cup {c} /\ c.job = j
    <3>1. PICK e \in Reading :
            timers' = timers \cup {[job |-> j, expected |-> e, reset |-> FALSE]}
      BY <2>0 DEF Wait
    <3>2. [job |-> j, expected |-> e, reset |-> FALSE].job = j
      OBVIOUS
    <3> QED
      BY <3>1, <3>2
  <2>2. Told' = Told \cup {j}
    BY <1>2, <1>3 DEF Told, Shape
  <2>3. Pending' = Pending \cup {j}
    BY <2>1 DEF Pending
  <2>4. \A d \in timers : d.job # j
    BY <1>1 DEF CountInv, Pending
  <2>5. (Told \ Pending)' = Told \ Pending
    BY <1>1, <2>2, <2>3
  <2>6. \A d, e \in timers' : d.job = e.job => d = e
    BY <2>1, <2>4 DEF CountInv
  <2> QED
    BY <1>1, <1>2, <2>2, <2>3, <2>5, <2>6 DEF CountInv
<1>4. CASE ~(value = "true" /\ j \in Gated)
  <2>1. timers' = timers
    BY <1>4 DEF Ended, Return
  <2>2. Told' = Told /\ Pending' = Pending
    BY <1>1, <1>2, <1>4, <2>1 DEF Told, Pending, Shape
  <2> QED
    BY <1>2, <2>1, <2>2 DEF CountInv
<1> QED
  BY <1>3, <1>4

(* A timer that fires frees its run to be counted, and counts at most it.  *)
LEMMA FireCount ==
  ASSUME Shape, CountInv, NEW c \in timers, Fire(c)
  PROVE  CountInv'
<1>1. /\ timers' = timers \ {c} /\ answer' = answer
      /\ unanswered' \in {unanswered, unanswered + 1, 1}
  BY DEF Fire, Reading
<1>2. Told' = Told /\ c.job \in Told /\ c.job \in Pending
  BY <1>1 DEF Told, CountInv, Pending
<1>3. Pending' = Pending \ {c.job}
  BY <1>1 DEF Pending, CountInv
<1>4. (Told \ Pending)' = (Told \ Pending) \cup {c.job} /\ c.job \notin Told \ Pending
  BY <1>2, <1>3
<1>5. Cardinality((Told \ Pending)') = Cardinality(Told \ Pending) + 1
  BY <1>4, FiniteRuns, FS_AddElement
<1>6. Cardinality(Told \ Pending) \in Nat /\ unanswered \in Nat
  BY FiniteRuns, FS_CardinalityType DEF Shape
<1>7. unanswered' <= Cardinality((Told \ Pending)')
  BY <1>1, <1>5, <1>6 DEF CountInv
<1> QED
  BY <1>1, <1>2, <1>3, <1>7 DEF CountInv

(* Nor does a reset change which runs wait.                                *)
LEMMA ResetCount ==
  ASSUME Shape, CountInv, NEW set \in SUBSET timers,
         timers' = SeenReset(set), answer' = answer, Reset
  PROVE  CountInv'
<1>1. \A c \in timers : [c EXCEPT !.reset = TRUE].job = c.job
  BY DEF Shape
<1>2. Pending' \subseteq Pending
  BY <1>1 DEF SeenReset, Pending
<1>3. Told' = Told /\ unanswered' = 0
  BY DEF Reset, Told
<1>4. \A c, d \in timers' : c.job = d.job => c = d
  <2> SUFFICES ASSUME NEW c \in timers, NEW d \in timers,
                      [c EXCEPT !.reset = TRUE].job = [d EXCEPT !.reset = TRUE].job
               PROVE  [c EXCEPT !.reset = TRUE] = [d EXCEPT !.reset = TRUE]
    BY DEF SeenReset
  <2>1. c = d
    BY <1>1 DEF CountInv
  <2> QED
    BY <2>1
<1>5. Cardinality(Told \ Pending') \in Nat
  BY FiniteRuns, FS_CardinalityType
<1> QED
  BY <1>2, <1>3, <1>4, <1>5 DEF CountInv

LEMMA NextCount == ASSUME Shape, CountInv, [Next]_vars PROVE CountInv'
<1>0. Cardinality(Told \ Pending) \in Nat /\ unanswered \in Nat
  BY FiniteRuns, FS_CardinalityType DEF Shape
<1>1. ASSUME NEW t \in Turns, StartTurn(t) PROVE CountInv'
  BY <1>1, ResetCount DEF StartTurn
<1>7. ASSUME NEW c \in timers, WriteFails(c) PROVE CountInv'
  <2>1. CASE timers' = SeenReset(timers \ {c}) /\ Reset
    BY <1>7, <2>1, ResetCount DEF WriteFails
  <2>2. CASE timers' = timers \ {c} /\ UNCHANGED <<unanswered, silence>>
    <3>1. Told' = Told /\ Pending' \subseteq Pending /\ timers' \subseteq timers
      BY <1>7, <2>2 DEF WriteFails, Told, Pending
    <3>2. Cardinality(Told \ Pending) <= Cardinality(Told \ Pending')
      BY <3>1, FiniteRuns, FS_Subset
    <3>3. Cardinality(Told \ Pending') \in Nat
      BY FiniteRuns, FS_CardinalityType
    <3>4. unanswered' <= Cardinality(Told \ Pending')
      BY <1>0, <2>2, <3>2, <3>3 DEF CountInv
    <3> QED
      BY <3>1, <3>4 DEF CountInv
  <2> QED
    BY <1>7, <2>1, <2>2 DEF WriteFails
<1>2. ASSUME UNCHANGED <<unanswered, timers, answer>> PROVE CountInv'
  BY <1>2 DEF CountInv, Told, Pending
<1>3. ASSUME NEW t \in Turns, EndTurn(t) PROVE CountInv'
  BY <1>2, <1>3 DEF EndTurn
<1>4. ASSUME NEW j \in Jobs, Moves(j) PROVE CountInv'
  BY <1>2, <1>4 DEF Moves, files
<1>5. CASE Crash
  <2>1. Told' = Told /\ Pending' = {} /\ timers' = {} /\ unanswered' = unanswered
    BY <1>5 DEF Crash, files, Told, Pending
  <2>2. Cardinality(Told \ Pending) <= Cardinality(Told \ Pending')
    BY <2>1, FiniteRuns, FS_Subset
  <2>3. Cardinality(Told \ Pending') \in Nat
    BY FiniteRuns, FS_CardinalityType
  <2>4. unanswered <= Cardinality(Told \ Pending')
    BY <1>0, <2>2, <2>3 DEF CountInv
  <2> QED
    BY <2>1, <2>4 DEF CountInv
<1>6. CASE UNCHANGED vars
  BY <1>2, <1>6 DEF vars, files
<1> QED
  BY <1>1, <1>3, <1>4, <1>5, <1>6, <1>7, Steps, EndedCount, FireCount

-----------------------------------------------------------------------------
(* The silence of the user.                                                *)

LEMMA ResetSilence ==
  ASSUME Shape, NEW set \in SUBSET timers, timers' = SeenReset(set), Reset
  PROVE  SilenceInv'
<1>1. \A c \in timers' : c.reset = TRUE
  BY DEF SeenReset, Shape
<1> QED
  BY <1>1 DEF Reset, SilenceInv, SilenceIsNoticed

LEMMA NextSilence == ASSUME Shape, SilenceInv, [Next]_vars PROVE SilenceInv'
<1>1. ASSUME NEW t \in Turns, StartTurn(t) PROVE SilenceInv'
  BY <1>1, ResetSilence DEF StartTurn
<1>2. ASSUME UNCHANGED <<unanswered, silence>>, timers' \subseteq timers
      PROVE  SilenceInv'
  BY <1>2 DEF SilenceInv, SilenceIsNoticed
<1>3. ASSUME NEW t \in Turns, EndTurn(t) PROVE SilenceInv'
  BY <1>2, <1>3 DEF EndTurn
<1>4. ASSUME NEW j \in Jobs, Moves(j) PROVE SilenceInv'
  BY <1>2, <1>4 DEF Moves, files
<1>5. ASSUME NEW j \in Jobs, NEW value \in {"true", "false"}, Ended(j, value)
      PROVE  SilenceInv'
  <2>1. UNCHANGED <<unanswered, silence>>
    BY <1>5 DEF Ended
  <2>2. \A c \in timers' : c \in timers \/ c.expected \in Reading
    BY <1>5 DEF Ended, Return, Wait
  <2> QED
    BY <2>1, <2>2 DEF Reading, Shape, SilenceInv, SilenceIsNoticed
<1>6. ASSUME NEW c \in timers, Fire(c) PROVE SilenceInv'
  <2>1. unanswered \in Nat /\ \A d \in timers : d.expected \in Nat
    BY DEF Shape
  <2>2. PICK current \in Reading :
          unanswered' = IF current = c.expected THEN current + 1 ELSE unanswered
    BY <1>6 DEF Fire
  <2>3. /\ timers' = timers \ {c}
        /\ silence' = IF c.reset THEN silence ELSE silence \cup {c.job}
    BY <1>6 DEF Fire
  <2>4. unanswered > 0 => unanswered' > 0
    BY <2>1, <2>2 DEF Reading
  <2>5. CASE c.reset
    BY <2>3, <2>4, <2>5 DEF SilenceInv, SilenceIsNoticed
  <2>6. CASE ~c.reset
    <3>1. c.expected > 0 => unanswered > 0
      BY <2>6 DEF SilenceInv
    <3>2. unanswered' > 0
      BY <2>1, <2>2, <3>1 DEF Reading
    <3> QED
      BY <2>3, <2>4, <3>2 DEF SilenceInv, SilenceIsNoticed
  <2> QED
    BY <2>5, <2>6
<1>9. ASSUME NEW c \in timers, WriteFails(c) PROVE SilenceInv'
  <2>1. CASE timers' = SeenReset(timers \ {c}) /\ Reset
    BY <2>1, ResetSilence
  <2>2. CASE timers' = timers \ {c} /\ UNCHANGED <<unanswered, silence>>
    BY <1>2, <2>2
  <2> QED
    BY <1>9, <2>1, <2>2 DEF WriteFails
<1>7. CASE Crash
  BY <1>2, <1>7 DEF Crash, files
<1>8. CASE UNCHANGED vars
  BY <1>2, <1>8 DEF vars, files
<1> QED
  BY <1>1, <1>3, <1>4, <1>5, <1>6, <1>7, <1>8, <1>9, Steps

-----------------------------------------------------------------------------
(* The session of the user.                                                *)

LEMMA NextTrace == ASSUME Shape, TraceInv, [Next]_vars PROVE TraceInv'
<1>1. ASSUME answer' = answer, \A j \in Jobs : Recorded(j)' => Recorded(j)
      PROVE  TraceInv'
  BY <1>1 DEF TraceInv
<1>2. ASSUME NEW t \in Turns, StartTurn(t) PROVE TraceInv'
  <2>1. \A u \in Turns : turn'[u].loaded \in {turn[u].loaded, session}
    BY <1>2 DEF StartTurn, Shape
  <2> QED
    BY <1>1, <1>2, <2>1 DEF StartTurn, Recorded
<1>3. ASSUME NEW t \in Turns, EndTurn(t) PROVE TraceInv'
  <2>1. \A u \in Turns : turn'[u].loaded \in {turn[u].loaded, {}}
    BY <1>3 DEF EndTurn, At, Shape
  <2>2. \A j \in Jobs : j \in session' => j \in turn[t].loaded
    BY <1>3 DEF EndTurn
  <2> QED
    BY <1>1, <1>3, <2>1, <2>2 DEF EndTurn, Recorded
<1>4. ASSUME NEW j \in Jobs, Moves(j) PROVE TraceInv'
  <2>1. \A k \in Jobs : job'[k].loaded \in {job[k].loaded, {}, session}
    BY <1>4 DEF Moves, Shape
  <2> QED
    BY <1>1, <1>4, <2>1 DEF Moves, files, Recorded
<1>5. ASSUME NEW j \in Jobs, NEW value \in {"true", "false"}, Ended(j, value)
      PROVE  TraceInv'
  <2>1. answer[j] = "none" /\ ~Recorded(j)
    BY <1>5 DEF Ended, Shape, TraceInv
  <2>2. answer' = [answer EXCEPT ![j] = value] /\ turn' = turn
    BY <1>5 DEF Ended, Return
  <2>3. \A k \in Jobs : job'[k].loaded \in {job[k].loaded, {}}
    BY <1>5 DEF Ended, Return, At, Shape
  <2>4. \A k \in Jobs : k \in session' => \/ Recorded(k)
                                          \/ k = j /\ value = "true"
    BY <1>5 DEF Ended, Recorded
  <2>5. \A k \in Jobs : Recorded(k)' => \/ Recorded(k)
                                        \/ k = j /\ value = "true"
    BY <2>2, <2>3, <2>4 DEF Recorded
  <2> QED
    BY <2>1, <2>2, <2>5 DEF TraceInv, Shape
<1>6. ASSUME NEW c \in timers, Fire(c) PROVE TraceInv'
  BY <1>1, <1>6 DEF Fire, Recorded
<1>9. ASSUME NEW c \in timers, WriteFails(c) PROVE TraceInv'
  BY <1>1, <1>9 DEF WriteFails, Recorded
<1>7. CASE Crash
  <2>1. /\ \A k \in Jobs : job'[k].loaded \in {job[k].loaded, {}}
        /\ \A u \in Turns : turn'[u].loaded \in {turn[u].loaded, {}}
    BY <1>7 DEF Crash, At, Shape
  <2> QED
    BY <1>1, <1>7, <2>1 DEF Crash, files, Recorded
<1>8. CASE UNCHANGED vars
  BY <1>1, <1>8 DEF vars, files, Recorded
<1> QED
  BY <1>2, <1>3, <1>4, <1>5, <1>6, <1>7, <1>8, <1>9, Steps

-----------------------------------------------------------------------------
LEMMA ShapeHolds == Spec => []Shape
  BY InitAll, NextShape, PTL DEF Spec

(* Messages that stayed without a word of the user until they were counted *)
(* have left a positive count, however runs, timers and crashes interleave *)
(* and whichever reads of the count fail.                                  *)
THEOREM SilenceNoticed == Spec => []SilenceIsNoticed
<1>1. SilenceInv => SilenceIsNoticed
  BY DEF SilenceInv
<1> QED
  BY <1>1, InitAll, NextSilence, ShapeHolds, PTL DEF Spec

(* What a run that is reported as not dispatched leaves in the files: the  *)
(* count never exceeds the runs reported as dispatched, and the run is not *)
(* in the session of the user.                                             *)
THEOREM DeniedRuns == Spec => []DeniedRunsLeaveNothing
<1>1. Shape /\ CountInv => CountIsBacked
  <2> SUFFICES ASSUME Shape, CountInv PROVE unanswered <= Cardinality(Told)
    BY DEF CountIsBacked, Told
  <2>1. Cardinality(Told \ Pending) <= Cardinality(Told)
    BY FiniteRuns, FS_Subset
  <2>2. Cardinality(Told \ Pending) \in Nat /\ Cardinality(Told) \in Nat
    BY FiniteRuns, FS_CardinalityType
  <2> QED
    BY <2>1, <2>2 DEF CountInv, Shape
<1>2. TraceInv => DeniedLeavesNoTrace
  BY DEF TraceInv, DeniedLeavesNoTrace, Recorded
<1>3. Shape /\ CountInv /\ TraceInv => DeniedRunsLeaveNothing
  BY <1>1, <1>2 DEF DeniedRunsLeaveNothing
<1> QED
  BY <1>3, InitAll, NextCount, NextTrace, ShapeHolds, PTL DEF Spec
=============================================================================
