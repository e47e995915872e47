-------------------------- MODULE DelegationProofs --------------------------
(***************************************************************************)
(* Theorems about Delegation, for every number of calls and workers, all   *)
(* lists of tasks, limits and times.                                       *)
(*                                                                         *)
(* The accepted tasks are what a recursive function picks from the list,   *)
(* one task after the other.  The first part derives induction over the    *)
(* naturals from the well-foundedness of strict inclusion among finite     *)
(* sets, and from it what is picked from lists of any length.              *)
(***************************************************************************)
EXTENDS Delegation, FiniteSetTheorems, SequenceTheorems, WellFoundedInduction, TLAPS

USE InputsAssumption

-----------------------------------------------------------------------------
(* Of the segments below the numbers of a set, one includes no other.      *)
LEMMA LeastNumber ==
  ASSUME NEW S \in SUBSET Nat, S # {}
  PROVE  \E n \in S : \A m \in S : n <= m
<1> DEFINE Below(n) == 0 .. (n - 1)
           T == {Below(n) : n \in S}
<1>1. T \subseteq FiniteSubsetsOf(Nat) /\ T # {}
  <2>1. ASSUME NEW n \in S PROVE Below(n) \in FiniteSubsetsOf(Nat)
    BY FS_Interval DEF FiniteSubsetsOf
  <2> QED
    BY <2>1
<1>2. PICK x \in T : \A y \in T : ~ (<<y, x>> \in StrictSubsetOrdering(Nat))
  <2> HIDE DEF T
  <2> QED
    BY <1>1, FS_StrictSubsetOrderingWellFounded, WFMin
<1>3. PICK n \in S : x = Below(n)
  OBVIOUS
<1>4. ASSUME NEW m \in S, ~(n <= m) PROVE FALSE
  <2>1. Below(m) \subseteq Below(n) /\ m \in Below(n) /\ m \notin Below(m)
    BY <1>4
  <2>2. <<Below(m), Below(n)>> \in StrictSubsetOrdering(Nat)
    BY <2>1 DEF StrictSubsetOrdering
  <2> QED
    BY <1>2, <1>3, <2>2
<1> QED
  BY <1>4

(* Induction up to a bound, for the set of the numbers of a property.      *)
LEMMA UpTo ==
  ASSUME NEW b \in Nat, NEW S, 0 \in S, \A n \in 0 .. (b - 1) : n \in S => n + 1 \in S
  PROVE  0 .. b \subseteq S
<1>1. SUFFICES ASSUME (0 .. b) \ S # {} PROVE FALSE
  OBVIOUS
<1>2. PICK n \in (0 .. b) \ S : \A m \in (0 .. b) \ S : n <= m
  <2>1. (0 .. b) \ S \in SUBSET Nat
    OBVIOUS
  <2> QED
    BY <1>1, <2>1, LeastNumber
<1>3. n - 1 \in 0 .. (b - 1) /\ n - 1 \in 0 .. b /\ ~(n <= n - 1)
  BY <1>2
<1>4. n - 1 \in S
  BY <1>2, <1>3
<1> QED
  BY <1>2, <1>3, <1>4

-----------------------------------------------------------------------------
(* The tasks picked.                                                       *)

PickStep(tasks, w, f, n) ==
  IF n = 0 THEN <<>>
  ELSE IF Writes(tasks[n]) = w THEN Append(f[n - 1], tasks[n]) ELSE f[n - 1]

Picks(tasks, w, f, b) == f = [n \in 0 .. b |-> PickStep(tasks, w, f, n)]

LEMMA PicksGrow ==
  ASSUME NEW tasks, NEW w, NEW b \in Nat, NEW f, Picks(tasks, w, f, b)
  PROVE  \E g : Picks(tasks, w, g, b + 1)
<1> DEFINE v == IF Writes(tasks[b + 1]) = w THEN Append(f[b], tasks[b + 1]) ELSE f[b]
           g == [n \in 0 .. (b + 1) |-> IF n = b + 1 THEN v ELSE f[n]]
<1>1. \A n \in 0 .. b : g[n] = f[n]
  OBVIOUS
<1>2. \A n \in 0 .. b : f[n] = PickStep(tasks, w, f, n)
  BY DEF Picks
<1>3. g[b + 1] = v
  OBVIOUS
<1>4. g = [n \in 0 .. (b + 1) |-> g[n]]
  OBVIOUS
<1> HIDE DEF g
<1>5. g[b + 1] = PickStep(tasks, w, g, b + 1)
  <2>1. b + 1 # 0 /\ b + 1 - 1 = b /\ g[b] = f[b]
    BY <1>1
  <2> QED
    BY <1>3, <2>1 DEF PickStep
<1> HIDE DEF v
<1>6. ASSUME NEW n \in 0 .. b PROVE g[n] = PickStep(tasks, w, g, n)
  <2>1. n # 0 => n - 1 \in 0 .. b
    OBVIOUS
  <2> QED
    BY <1>1, <1>2, <2>1 DEF PickStep
<1>7. \A n \in 0 .. (b + 1) : g[n] = PickStep(tasks, w, g, n)
  BY <1>5, <1>6
<1>8. Picks(tasks, w, g, b + 1)
  BY <1>4, <1>7 DEF Picks
<1> QED
  BY <1>8

LEMMA PicksExist == ASSUME NEW tasks, NEW w, NEW b \in Nat PROVE \E f : Picks(tasks, w, f, b)
<1> DEFINE S == {n \in Nat : \E f : Picks(tasks, w, f, n)}
<1>1. 0 \in S
  <2> DEFINE f == [n \in 0 .. 0 |-> <<>>]
  <2>1. Picks(tasks, w, f, 0)
    BY DEF Picks, PickStep
  <2> QED
    BY <2>1
<1>2. \A n \in 0 .. (b - 1) : n \in S => n + 1 \in S
  BY PicksGrow
<1> HIDE DEF S
<1>3. 0 .. b \subseteq S
  BY <1>1, <1>2, UpTo
<1>4. b \in S
  BY <1>3
<1> QED
  BY <1>4 DEF S

(* What is picked from a list of tasks: tasks of the kind asked for, in a  *)
(* sequence, and none twice if their ids tell the tasks apart.             *)
Picked(tasks, w, s, n) ==
  /\ s \in Seq({tasks[i] : i \in DOMAIN tasks})
  /\ \A k \in DOMAIN s : \E i \in 1 .. n : s[k] = tasks[i] /\ Writes(tasks[i]) = w
  /\ Distinct(tasks) => \A j, k \in DOMAIN s : s[j].id = s[k].id => j = k

LEMMA PickedMore ==
  ASSUME NEW tasks, tasks \in Seq({tasks[i] : i \in DOMAIN tasks}), NEW w,
         NEW n \in Nat, n + 1 \in DOMAIN tasks, NEW s, Picked(tasks, w, s, n)
  PROVE  /\ Picked(tasks, w, s, n + 1)
         /\ Writes(tasks[n + 1]) = w => Picked(tasks, w, Append(s, tasks[n + 1]), n + 1)
<1> DEFINE T == {tasks[i] : i \in DOMAIN tasks}
           t == Append(s, tasks[n + 1])
<1>1. 1 .. n \subseteq 1 .. (n + 1) /\ n + 1 \in 1 .. (n + 1)
  OBVIOUS
<1>2. Picked(tasks, w, s, n + 1)
  BY <1>1 DEF Picked
<1>3. s \in Seq(T) /\ tasks[n + 1] \in T
  BY DEF Picked
<1>4. /\ t \in Seq(T) /\ Len(t) = Len(s) + 1 /\ t[Len(s) + 1] = tasks[n + 1]
      /\ \A k \in 1 .. Len(s) : t[k] = s[k]
  BY <1>3, AppendProperties
<1>5. /\ DOMAIN s = 1 .. Len(s) /\ DOMAIN t = 1 .. (Len(s) + 1) /\ Len(s) \in Nat
      /\ DOMAIN tasks = 1 .. Len(tasks) /\ Len(tasks) \in Nat
  BY <1>3, <1>4, LenProperties
<1> HIDE DEF t
<1>6. ASSUME Writes(tasks[n + 1]) = w PROVE Picked(tasks, w, t, n + 1)
  <2>1. ASSUME NEW k \in DOMAIN t
        PROVE  \E i \in 1 .. (n + 1) : t[k] = tasks[i] /\ Writes(tasks[i]) = w
    <3>1. CASE k = Len(s) + 1
      BY <1>1, <1>4, <1>6, <3>1
    <3>2. CASE k \in 1 .. Len(s)
      <4>1. PICK i \in 1 .. n : s[k] = tasks[i] /\ Writes(tasks[i]) = w
        BY <1>5, <3>2 DEF Picked
      <4> QED
        BY <1>1, <1>4, <3>2, <4>1
    <3> QED
      BY <1>5, <2>1, <3>1, <3>2
  <2>2. ASSUME Distinct(tasks), NEW k \in 1 .. Len(s)
        PROVE  s[k].id # tasks[n + 1].id
    <3>1. PICK i \in 1 .. n : s[k] = tasks[i]
      BY <1>5, <2>2 DEF Picked
    <3>2. i \in DOMAIN tasks /\ i # n + 1
      BY <1>5, <3>1
    <3> QED
      BY <2>2, <3>1, <3>2 DEF Distinct
  <2>3. ASSUME Distinct(tasks), NEW j \in DOMAIN t, NEW k \in DOMAIN t, t[j].id = t[k].id
        PROVE  j = k
    <3>1. j \in 1 .. Len(s) \/ j = Len(s) + 1
      BY <1>5
    <3>2. k \in 1 .. Len(s) \/ k = Len(s) + 1
      BY <1>5
    <3> QED
      BY <1>4, <1>5, <2>2, <2>3, <3>1, <3>2 DEF Picked
  <2> QED
    BY <1>4, <2>1, <2>3 DEF Picked
<1> QED
  BY <1>2, <1>6 DEF t

LEMMA OnlyPicks ==
  ASSUME NEW tasks, tasks \in Seq({tasks[i] : i \in DOMAIN tasks}), NEW w
  PROVE  Picked(tasks, w, Only(tasks, w), Len(tasks))
<1> DEFINE b == Len(tasks)
           f == CHOOSE g : Picks(tasks, w, g, b)
           S == {n \in Nat : n <= b => Picked(tasks, w, f[n], n)}
<1>1. b \in Nat /\ DOMAIN tasks = 1 .. b
  BY LenProperties
<1>2. Only(tasks, w) = f[b]
  BY DEF Only, Picks, PickStep
<1>3. Picks(tasks, w, f, b)
  BY <1>1, PicksExist
<1> HIDE DEF f, b
<1>4. \A n \in 0 .. b : f[n] = PickStep(tasks, w, f, n)
  BY <1>3 DEF Picks
<1>5. 0 \in S
  <2>1. f[0] = <<>>
    BY <1>1, <1>4 DEF PickStep
  <2>2. DOMAIN f[0] = {} /\ \A T : f[0] \in Seq(T)
    BY <2>1, EmptySeq
  <2>3. Picked(tasks, w, f[0], 0)
    BY <2>2 DEF Picked
  <2> QED
    BY <2>3
<1>6. ASSUME NEW n \in 0 .. (b - 1), n \in S PROVE n + 1 \in S
  <2>1. n \in Nat /\ n + 1 \in DOMAIN tasks /\ n + 1 \in 0 .. b
    BY <1>1
  <2>2. Picked(tasks, w, f[n], n)
    BY <1>1, <1>6, <2>1
  <2>3. f[n + 1] = IF Writes(tasks[n + 1]) = w THEN Append(f[n], tasks[n + 1]) ELSE f[n]
    <3>1. n + 1 # 0 /\ n + 1 - 1 = n
      OBVIOUS
    <3> QED
      BY <1>4, <2>1, <3>1 DEF PickStep
  <2>4. Picked(tasks, w, f[n + 1], n + 1)
    BY <2>1, <2>2, <2>3, PickedMore
  <2> QED
    BY <2>1, <2>4
<1> HIDE DEF S
<1>7. 0 .. b \subseteq S
  BY <1>1, <1>5, <1>6, UpTo
<1>8. b \in S
  BY <1>1, <1>7
<1> QED
  BY <1>1, <1>2, <1>8 DEF S, b

-----------------------------------------------------------------------------
(* The shape of the state, and of each step.                               *)

CallFields   == {"at", "made", "tasks", "limit", "reports", "cut"}
WorkerFields == {"at", "loaded"}

CallShape(v) ==
  /\ DOMAIN v = CallFields
  /\ v.tasks \in Seq({v.tasks[i] : i \in DOMAIN v.tasks})
  /\ v.limit \in Nat

WorkersShape(f) ==
  /\ IsFiniteSet(DOMAIN f)
  /\ \A i \in DOMAIN f : DOMAIN f[i] = WorkerFields

Shape ==
  /\ DOMAIN call = Calls /\ DOMAIN worker = Calls
  /\ \A c \in Calls : CallShape(call[c]) /\ WorkersShape(worker[c])

LEMMA ClampInNat == ASSUME NEW n \in Nat PROVE Clamp(n) \in Nat
BY DEF Clamp

(* The text of an answer, with or without its last reports                 *)
Texted(c, v, reports) ==
  \E text \in Formatted(c, reports) : v.reports = text.reports /\ v.cut = text.cut

(* A call is refused, or answered at once, or starts its workers.          *)
Begins(c) ==
  /\ call[c].at = "new" /\ session' = session
  /\ CallShape(call'[c]) /\ WorkersShape(worker'[c])
  /\ DOMAIN call' = Calls /\ DOMAIN worker' = Calls
  /\ \A e \in Calls \ {c} : call'[e] = call[e] /\ worker'[e] = worker[e]
  /\ \/ call'[c].at \in {"invalid", "failed"} /\ worker'[c] = worker[c]
     \/ /\ call'[c].at = "returned" /\ worker'[c] = worker[c]
        /\ Accepted(call'[c].tasks) = <<>>
        /\ Texted(c, call'[c], AllRejected(call'[c].tasks))
     \/ /\ call'[c].at = "running" /\ DOMAIN worker'[c] = DOMAIN Accepted(call'[c].tasks)
        /\ \A i \in DOMAIN worker'[c] : worker'[c][i].at = "waiting" /\ worker'[c][i].loaded = {}

LEMMA CallBegins ==
  ASSUME Shape, NEW c \in Calls, NEW tasks \in TaskLists, NEW limit \in Limits,
         Delegate(c, tasks, limit)
  PROVE  Begins(c)
<1>1. DOMAIN call = Calls /\ DOMAIN worker = Calls /\ DOMAIN call[c] = CallFields
      /\ CallShape(call[c]) /\ WorkersShape(worker[c])
  BY DEF Shape, CallShape
<1>2. tasks \in Seq({tasks[i] : i \in DOMAIN tasks}) /\ limit \in Nat
  OBVIOUS
<1>3. Clamp(limit) \in Nat
  BY <1>2, ClampInNat
<1>4. ASSUME NEW at \in {"invalid", "failed"}, call' = [call EXCEPT ![c].at = at], worker' = worker
      PROVE  Begins(c)
  <2> DEFINE v == [call[c] EXCEPT !.at = at]
  <2>1. call' = [call EXCEPT ![c] = v]
    BY <1>4
  <2>2. CallShape(v) /\ v.at = at
    BY <1>1 DEF CallShape, CallFields
  <2> HIDE DEF v
  <2> QED
    BY <1>1, <1>4, <2>1, <2>2 DEF Begins, Delegate
<1>5. ASSUME NEW text \in Formatted(c, AllRejected(tasks)), Accepted(tasks) = <<>>,
             call' = [call EXCEPT ![c] = [at |-> "returned", made |-> second,
                        tasks |-> tasks, limit |-> Clamp(limit),
                        reports |-> text.reports, cut |-> text.cut]],
             worker' = worker
      PROVE  Begins(c)
  <2> DEFINE v == [at |-> "returned", made |-> second, tasks |-> tasks,
                   limit |-> Clamp(limit), reports |-> text.reports, cut |-> text.cut]
  <2>1. CallShape(v) /\ v.at = "returned" /\ v.tasks = tasks
    BY <1>2, <1>3 DEF CallShape, CallFields
  <2>2. call' = [call EXCEPT ![c] = v] /\ Texted(c, v, AllRejected(tasks))
    BY <1>5 DEF Texted
  <2> HIDE DEF v
  <2> QED
    BY <1>1, <1>5, <2>1, <2>2 DEF Begins, Delegate
<1>6. CASE /\ call' = [call EXCEPT ![c] = [at |-> "running", made |-> second,
                         tasks |-> tasks, limit |-> Clamp(limit), reports |-> <<>>, cut |-> FALSE]]
           /\ worker' = [worker EXCEPT ![c] = [i \in DOMAIN Accepted(tasks) |->
                                                 [at |-> "waiting", loaded |-> {}]]]
  <2> DEFINE v == [at |-> "running", made |-> second, tasks |-> tasks,
                   limit |-> Clamp(limit), reports |-> <<>>, cut |-> FALSE]
             f == [i \in DOMAIN Accepted(tasks) |-> [at |-> "waiting", loaded |-> {}]]
  <2>1. CallShape(v) /\ v.at = "running" /\ v.tasks = tasks
    BY <1>2, <1>3 DEF CallShape, CallFields
  <2>2. IsFiniteSet(DOMAIN Accepted(tasks))
    <3>1. Accepted(tasks) \in Seq({tasks[i] : i \in DOMAIN tasks})
      BY <1>2, OnlyPicks DEF Picked, Accepted
    <3>2. DOMAIN Accepted(tasks) = 1 .. Len(Accepted(tasks)) /\ Len(Accepted(tasks)) \in Nat
      BY <3>1, LenProperties
    <3> QED
      BY <3>2, FS_Interval
  <2>3. /\ DOMAIN f = DOMAIN Accepted(tasks)
        /\ \A i \in DOMAIN f : f[i].at = "waiting" /\ f[i].loaded = {} /\ DOMAIN f[i] = WorkerFields
    BY DEF WorkerFields
  <2>4. call' = [call EXCEPT ![c] = v] /\ worker' = [worker EXCEPT ![c] = f]
    BY <1>6
  <2> HIDE DEF v, f
  <2> QED
    BY <1>1, <2>1, <2>2, <2>3, <2>4 DEF Begins, Delegate, WorkersShape
<1> QED
  BY <1>4, <1>5, <1>6 DEF Delegate

(* A call ends, and no worker of it is left.                               *)
Ends(c) ==
  /\ call[c].at = "running" /\ session' = session
  /\ DOMAIN call' = Calls /\ DOMAIN worker' = Calls
  /\ \A e \in Calls \ {c} : call'[e] = call[e] /\ worker'[e] = worker[e]
  /\ CallShape(call'[c]) /\ DOMAIN worker'[c] = DOMAIN worker[c]
  /\ call'[c].made = call[c].made /\ call'[c].tasks = call[c].tasks
  /\ call'[c].limit = call[c].limit
  /\ \A i \in DOMAIN worker[c] :
       /\ DOMAIN worker'[c][i] = WorkerFields /\ worker'[c][i].at \in Done
       /\ worker[c][i].at \in Done => worker'[c][i] = worker[c][i]
       /\ worker'[c][i].loaded \subseteq worker[c][i].loaded
  /\ \/ call'[c].at = "cancelled"
     \/ /\ call'[c].at = "returned"
        /\ \/ /\ Texted(c, call'[c], Collected(c, <<>>))
              /\ \E i \in DOMAIN worker[c] : worker'[c][i].at = "cancelled"
           \/ Texted(c, call'[c],
                     Collected(c, [i \in DOMAIN worker[c] |->
                                     Report(Accepted(call[c].tasks)[i], worker'[c][i].at)]))

LEMMA Stopped ==
  ASSUME Shape, NEW c \in Calls, Stop(c)
  PROVE  /\ DOMAIN worker' = Calls /\ DOMAIN worker'[c] = DOMAIN worker[c]
         /\ \A e \in Calls \ {c} : worker'[e] = worker[e]
         /\ \A i \in DOMAIN worker[c] :
              /\ DOMAIN worker'[c][i] = WorkerFields /\ worker'[c][i].at \in Done
              /\ worker[c][i].at \in Done => worker'[c][i] = worker[c][i]
              /\ worker[c][i].at \notin Done => worker'[c][i].at = "cancelled"
              /\ worker'[c][i].loaded \subseteq worker[c][i].loaded
<1> DEFINE f == [i \in DOMAIN worker[c] |->
                   IF worker[c][i].at \in Done THEN worker[c][i]
                   ELSE [at |-> "cancelled", loaded |-> {}]]
<1>1. worker' = [worker EXCEPT ![c] = f]
  BY DEF Stop
<1>2. ASSUME NEW i \in DOMAIN worker[c]
      PROVE  /\ DOMAIN f[i] = WorkerFields /\ f[i].at \in Done
             /\ worker[c][i].at \in Done => f[i] = worker[c][i]
             /\ worker[c][i].at \notin Done => f[i].at = "cancelled"
             /\ f[i].loaded \subseteq worker[c][i].loaded
  BY DEF Shape, WorkersShape, WorkerFields, Done
<1>3. DOMAIN f = DOMAIN worker[c]
  OBVIOUS
<1> HIDE DEF f
<1> QED
  BY <1>1, <1>2, <1>3 DEF Shape

LEMMA CallEnds ==
  ASSUME Shape, NEW c \in Calls, Gather(c) \/ TotalTimeout(c) \/ Cancel(c)
  PROVE  Ends(c)
<1>1. DOMAIN call = Calls /\ DOMAIN worker = Calls /\ DOMAIN call[c] = CallFields
      /\ CallShape(call[c]) /\ WorkersShape(worker[c])
  BY DEF Shape, CallShape
<1>2. ASSUME NEW r, Return(c, r)
      PROVE  /\ DOMAIN call' = Calls /\ \A e \in Calls \ {c} : call'[e] = call[e]
             /\ CallShape(call'[c]) /\ call'[c].made = call[c].made
             /\ call'[c].tasks = call[c].tasks /\ call'[c].limit = call[c].limit
             /\ call'[c].at = "returned" /\ Texted(c, call'[c], Collected(c, r))
  <2>1. PICK text \in Formatted(c, Collected(c, r)) :
          call' = [call EXCEPT ![c].at = "returned",
                               ![c].reports = text.reports, ![c].cut = text.cut]
    BY <1>2 DEF Return
  <2> DEFINE v == [call[c] EXCEPT !.at = "returned", !.reports = text.reports, !.cut = text.cut]
  <2>2. call' = [call EXCEPT ![c] = v]
    BY <1>1, <2>1
  <2>3. /\ DOMAIN v = CallFields /\ v.made = call[c].made /\ v.tasks = call[c].tasks
        /\ v.limit = call[c].limit /\ v.at = "returned"
        /\ v.reports = text.reports /\ v.cut = text.cut
    BY <1>1 DEF CallFields
  <2> HIDE DEF v
  <2>4. Texted(c, v, Collected(c, r))
    BY <2>3 DEF Texted
  <2> QED
    BY <1>1, <2>2, <2>3, <2>4 DEF CallShape
<1>3. CASE Gather(c)
  <2> DEFINE r == [i \in DOMAIN worker[c] |->
                     Report(Accepted(call[c].tasks)[i], worker[c][i].at)]
  <2>1. Return(c, r) /\ worker' = worker /\ session' = session /\ call[c].at = "running"
        /\ \A i \in DOMAIN worker[c] : worker[c][i].at \in Done
    BY <1>3 DEF Gather, Finished
  <2>2. r = [i \in DOMAIN worker[c] |->
               Report(Accepted(call[c].tasks)[i], worker'[c][i].at)]
    BY <2>1
  <2>3. Texted(c, call'[c], Collected(c, r))
    BY <1>2, <2>1
  <2>4. Texted(c, call'[c],
               Collected(c, [i \in DOMAIN worker[c] |->
                               Report(Accepted(call[c].tasks)[i], worker'[c][i].at)]))
    BY <2>2, <2>3
  <2> HIDE DEF r
  <2> QED
    BY <1>1, <1>2, <2>1, <2>4 DEF Ends, WorkersShape
<1>4. CASE TotalTimeout(c)
  <2>1. Return(c, <<>>) /\ Stop(c) /\ session' = session /\ call[c].at = "running"
    BY <1>4 DEF TotalTimeout
  <2>2. PICK i \in DOMAIN worker[c] : worker[c][i].at \notin Done
    BY <1>4 DEF TotalTimeout, Finished
  <2>3. worker'[c][i].at = "cancelled"
    BY <2>1, <2>2, Stopped
  <2> QED
    BY <1>2, <2>1, <2>3, Stopped DEF Ends
<1>5. CASE Cancel(c)
  <2> DEFINE v == [call[c] EXCEPT !.at = "cancelled"]
  <2>1. call' = [call EXCEPT ![c] = v]
    BY <1>5 DEF Cancel
  <2>2. /\ DOMAIN v = CallFields /\ v.made = call[c].made /\ v.tasks = call[c].tasks
        /\ v.limit = call[c].limit /\ v.at = "cancelled"
    BY <1>1 DEF CallFields
  <2> HIDE DEF v
  <2>3. CallShape(v)
    BY <1>1, <2>2 DEF CallShape
  <2> QED
    BY <1>1, <1>5, <2>1, <2>2, <2>3, Stopped DEF Cancel, Ends
<1> QED
  BY <1>3, <1>4, <1>5

(* A worker takes a step.                                                  *)
Moved(c, i) ==
  /\ call' = call /\ DOMAIN worker' = Calls
  /\ \A e \in Calls \ {c} : worker'[e] = worker[e]
  /\ DOMAIN worker'[c] = DOMAIN worker[c]
  /\ \A j \in DOMAIN worker[c] \ {i} : worker'[c][j] = worker[c][j]
  /\ DOMAIN worker'[c][i] = WorkerFields

Entered(c, i) ==
  /\ Moved(c, i) /\ session' = session
  /\ worker[c][i].at = "waiting" /\ Cardinality(Inside(c)) < call[c].limit
  /\ worker'[c][i].at = "starting" /\ worker'[c][i].loaded = worker[c][i].loaded

Loaded(c, i) ==
  /\ Moved(c, i) /\ session' = session
  /\ worker[c][i].at = "starting"
  /\ worker'[c][i].at = "running" /\ worker'[c][i].loaded = SameSession(c, i)

Left(c, i) ==
  /\ Moved(c, i)
  /\ worker[c][i].at \in {"starting", "running"}
  /\ worker'[c][i].at \in Done /\ worker'[c][i].loaded = worker[c][i].loaded
  /\ session' \subseteq session \cup worker[c][i].loaded
                        \cup {[made |-> call[c].made, place |-> i, call |-> c]}

LEMMA WorkerMoves ==
  ASSUME Shape, NEW c \in Calls, NEW i \in DOMAIN worker[c], WorkerStep(c, i)
  PROVE  Entered(c, i) \/ Loaded(c, i) \/ Left(c, i)
<1>1. DOMAIN worker = Calls /\ DOMAIN worker[c][i] = WorkerFields
  BY DEF Shape, WorkersShape
<1>2. ASSUME NEW s, worker' = [worker EXCEPT ![c][i].at = s], call' = call
      PROVE  /\ Moved(c, i) /\ worker'[c][i].at = s
             /\ worker'[c][i].loaded = worker[c][i].loaded
  <2> DEFINE v == [worker[c][i] EXCEPT !.at = s]
             f == [worker[c] EXCEPT ![i] = v]
  <2>1. worker' = [worker EXCEPT ![c] = f]
    BY <1>2
  <2>2. v.at = s /\ v.loaded = worker[c][i].loaded /\ DOMAIN v = WorkerFields
    BY <1>1 DEF WorkerFields
  <2> HIDE DEF v
  <2>3. DOMAIN f = DOMAIN worker[c] /\ f[i] = v /\ \A j \in DOMAIN worker[c] \ {i} : f[j] = worker[c][j]
    OBVIOUS
  <2> HIDE DEF f
  <2> QED
    BY <1>1, <1>2, <2>1, <2>2, <2>3 DEF Moved
<1>3. CASE Acquire(c, i)
  BY <1>2, <1>3 DEF Acquire, Entered
<1>4. CASE Load(c, i)
  <2> DEFINE v == [at |-> "running", loaded |-> SameSession(c, i)]
             f == [worker[c] EXCEPT ![i] = v]
  <2>1. worker' = [worker EXCEPT ![c] = f]
    BY <1>4 DEF Load
  <2>2. v.at = "running" /\ v.loaded = SameSession(c, i) /\ DOMAIN v = WorkerFields
    BY DEF WorkerFields
  <2> HIDE DEF v
  <2>3. DOMAIN f = DOMAIN worker[c] /\ f[i] = v /\ \A j \in DOMAIN worker[c] \ {i} : f[j] = worker[c][j]
    OBVIOUS
  <2> HIDE DEF f
  <2> QED
    BY <1>1, <1>4, <2>1, <2>2, <2>3 DEF Moved, Load, Loaded
<1>5. ASSUME NEW s \in {"success", "partial", "failed"}, Answer(c, i, s) PROVE Left(c, i)
  <2>1. s \in Done
    BY DEF Done, Outcomes
  <2>2. session' \subseteq session \cup worker[c][i].loaded
                           \cup {[made |-> call[c].made, place |-> i, call |-> c]}
    BY <1>5 DEF Answer
  <2> QED
    BY <1>2, <1>5, <2>1, <2>2 DEF Answer, Left
<1>6. ASSUME NEW s \in {"timeout", "failed"}, GiveUp(c, i, s) PROVE Left(c, i)
  <2>1. s \in Done
    BY DEF Done, Outcomes
  <2> QED
    BY <1>2, <1>6, <2>1 DEF GiveUp, Left
<1> QED
  BY <1>3, <1>4, <1>5, <1>6 DEF WorkerStep

LEMMA Steps ==
  ASSUME Shape, [Next]_vars
  PROVE  \/ UNCHANGED <<call, worker, session>>
         \/ \E c \in Calls :
              \/ Begins(c) \/ Ends(c)
              \/ \E i \in DOMAIN worker[c] : Entered(c, i) \/ Loaded(c, i) \/ Left(c, i)
<1>1. CASE UNCHANGED vars
  BY <1>1 DEF vars
<1>2. CASE Tick
  BY <1>2 DEF Tick
<1>3. ASSUME NEW c \in Calls, NEW tasks \in TaskLists, NEW limit \in Limits,
             Delegate(c, tasks, limit)
      PROVE  Begins(c)
  BY <1>3, CallBegins
<1>4. ASSUME NEW c \in Calls, Gather(c) \/ TotalTimeout(c) \/ Cancel(c)
      PROVE  Ends(c)
  BY <1>4, CallEnds
<1>5. ASSUME NEW c \in Calls, NEW i \in DOMAIN worker[c], WorkerStep(c, i)
      PROVE  Entered(c, i) \/ Loaded(c, i) \/ Left(c, i)
  BY <1>5, WorkerMoves
<1> QED
  BY <1>1, <1>2, <1>3, <1>4, <1>5 DEF Next

LEMMA ShapeInv == Spec => []Shape
<1>1. Init => Shape
  <2> SUFFICES ASSUME Init PROVE Shape
    OBVIOUS
  <2>1. /\ DOMAIN <<>> = {} /\ IsFiniteSet({})
        /\ <<>> \in Seq({<<>>[i] : i \in DOMAIN <<>>})
    BY EmptySeq, FS_EmptySet
  <2> QED
    BY <2>1 DEF Init, Shape, CallShape, CallFields, WorkersShape
<1>2. Shape /\ [Next]_vars => Shape'
  <2> SUFFICES ASSUME Shape, [Next]_vars PROVE Shape'
    OBVIOUS
  <2>1. CASE UNCHANGED <<call, worker, session>>
    BY <2>1 DEF Shape
  <2>2. ASSUME NEW c \in Calls, Begins(c) PROVE Shape'
    BY <2>2 DEF Shape, Begins
  <2>3. ASSUME NEW c \in Calls, Ends(c) PROVE Shape'
    BY <2>3 DEF Shape, Ends, WorkersShape
  <2>4. ASSUME NEW c \in Calls, NEW i \in DOMAIN worker[c], Moved(c, i) PROVE Shape'
    BY <2>4 DEF Shape, Moved, WorkersShape
  <2> QED
    BY <2>1, <2>2, <2>3, <2>4, Steps DEF Entered, Loaded, Left
<1> QED
  BY <1>1, <1>2, PTL DEF Spec

-----------------------------------------------------------------------------
(* A call that is not under way has no worker under way.                   *)
Resting ==
  \A c \in Calls :
    /\ call[c].at = "new" => DOMAIN worker[c] = {}
    /\ call[c].at # "running" => \A i \in DOMAIN worker[c] : worker[c][i].at \in Done

LEMMA NotDone == {"waiting", "starting", "running"} \cap Done = {}
BY DEF Done, Outcomes

LEMMA RestingInv == Spec => []Resting
<1>1. Init => Resting
  BY EmptySeq DEF Init, Resting
<1>2. Shape /\ Resting /\ [Next]_vars => Resting'
  <2> SUFFICES ASSUME Shape, Resting, [Next]_vars PROVE Resting'
    OBVIOUS
  <2>1. CASE UNCHANGED <<call, worker, session>>
    BY <2>1 DEF Resting
  <2>2. ASSUME NEW c \in Calls, Begins(c) PROVE Resting'
    BY <2>2 DEF Resting, Begins
  <2>3. ASSUME NEW c \in Calls, Ends(c) PROVE Resting'
    BY <2>3 DEF Resting, Ends
  <2>4. ASSUME NEW c \in Calls, NEW i \in DOMAIN worker[c],
               Entered(c, i) \/ Loaded(c, i) \/ Left(c, i)
        PROVE  Resting'
    <3>1. worker[c][i].at \notin Done /\ Moved(c, i)
      BY <2>4, NotDone DEF Entered, Loaded, Left
    <3>2. call[c].at = "running"
      BY <3>1 DEF Resting
    <3> QED
      BY <3>1, <3>2 DEF Resting, Moved
  <2> QED
    BY <2>1, <2>2, <2>3, <2>4, Steps
<1> QED
  BY <1>1, <1>2, ShapeInv, PTL DEF Spec

-----------------------------------------------------------------------------
(* The semaphore.                                                          *)

Within(f) == {i \in DOMAIN f : f[i].at \in {"starting", "running"}}

LEMMA WithinFinite ==
  ASSUME NEW f, WorkersShape(f)
  PROVE  IsFiniteSet(Within(f)) /\ Cardinality(Within(f)) \in Nat
<1>1. Within(f) \subseteq DOMAIN f
  BY DEF Within
<1> QED
  BY <1>1, FS_Subset, FS_CardinalityType DEF WorkersShape

LEMMA LimitStep ==
  ASSUME Shape, Shape', Resting, Resting', WithinLimit, [Next]_vars, NEW c \in Calls
  PROVE  Cardinality(Within(worker'[c])) <= call'[c].limit
<1>1. /\ Cardinality(Within(worker[c])) <= call[c].limit
      /\ WorkersShape(worker[c]) /\ WorkersShape(worker'[c])
      /\ call[c].limit \in Nat /\ call'[c].limit \in Nat
  BY DEF WithinLimit, Inside, At, Within, Shape, CallShape
<1>2. CASE worker'[c] = worker[c] /\ call'[c].limit = call[c].limit
  BY <1>1, <1>2
<1>3. CASE Within(worker'[c]) = {}
  BY <1>1, <1>3, FS_EmptySet
<1>4. CASE Begins(c)
  <2>1. \A i \in DOMAIN worker'[c] : worker'[c][i].at \notin {"starting", "running"}
    BY <1>4, NotDone DEF Begins, Resting
  <2> QED
    BY <1>3, <2>1 DEF Within
<1>5. CASE Ends(c)
  BY <1>3, <1>5, NotDone DEF Ends, Within
<1>6. ASSUME NEW i \in DOMAIN worker[c], Entered(c, i)
      PROVE  Cardinality(Within(worker'[c])) <= call'[c].limit
  <2>1. Within(worker'[c]) = Within(worker[c]) \cup {i} /\ i \notin Within(worker[c])
    BY <1>6 DEF Entered, Moved, Within
  <2>2. Cardinality(Within(worker[c]) \cup {i}) = Cardinality(Within(worker[c])) + 1
    BY <1>1, <2>1, WithinFinite, FS_AddElement
  <2>3. Cardinality(Within(worker[c])) < call[c].limit /\ call' = call
    BY <1>6 DEF Entered, Moved, Inside, At, Within
  <2> QED
    BY <1>1, <2>1, <2>2, <2>3, WithinFinite
<1>7. ASSUME NEW i \in DOMAIN worker[c], Loaded(c, i) \/ Left(c, i)
      PROVE  Cardinality(Within(worker'[c])) <= call'[c].limit
  <2>1. Within(worker'[c]) \subseteq Within(worker[c]) /\ call' = call
    BY <1>7 DEF Loaded, Left, Moved, Within
  <2>2. Cardinality(Within(worker'[c])) <= Cardinality(Within(worker[c]))
    BY <1>1, <2>1, WithinFinite, FS_Subset
  <2> QED
    BY <1>1, <2>1, <2>2, WithinFinite
<1>8. ASSUME NEW e \in Calls \ {c}, Begins(e) \/ Ends(e) \/ \E i \in DOMAIN worker[e] : Moved(e, i)
      PROVE  worker'[c] = worker[c] /\ call'[c].limit = call[c].limit
  BY <1>8 DEF Begins, Ends, Moved
<1> QED
  BY <1>2, <1>4, <1>5, <1>6, <1>7, <1>8, Steps DEF Entered, Loaded, Left

LEMMA LimitInv == Spec => []WithinLimit
<1>1. Init => WithinLimit
  <2> SUFFICES ASSUME Init, NEW c \in Calls PROVE Cardinality(Inside(c)) <= call[c].limit
    BY DEF WithinLimit
  <2>1. Inside(c) = {}
    BY EmptySeq DEF Init, Inside, At
  <2> QED
    BY <2>1, FS_EmptySet DEF Init
<1>2. Shape /\ Shape' /\ Resting /\ Resting' /\ WithinLimit /\ [Next]_vars => WithinLimit'
  <2> SUFFICES ASSUME Shape, Shape', Resting, Resting', WithinLimit, [Next]_vars,
                      NEW c \in Calls
               PROVE  Cardinality(Inside(c)') <= call'[c].limit
    BY DEF WithinLimit
  <2>1. Inside(c)' = Within(worker'[c])
    BY DEF Inside, At, Within
  <2> QED
    BY <2>1, LimitStep
<1> QED
  BY <1>1, <1>2, ShapeInv, RestingInv, PTL DEF Spec

-----------------------------------------------------------------------------
(* The contexts of the workers.                                            *)

(* A message comes from a worker that is done, of a call that was made.    *)
Good(m) ==
  /\ m.call \in Calls /\ call[m.call].at # "new" /\ m.made = call[m.call].made
  /\ m.place \in DOMAIN worker[m.call] /\ worker[m.call][m.place].at \in Done

(* What a worker has loaded comes from another call of the same second.    *)
Contexts ==
  /\ \A m \in session : Good(m)
  /\ \A c \in Calls : \A i \in DOMAIN worker[c] : \A m \in worker[c][i].loaded :
       Good(m) /\ m.call # c /\ m.made = call[c].made

(* Calls that were made keep their second, and workers that are done are   *)
(* done.                                                                   *)
Settled ==
  \A e \in Calls : call[e].at # "new" =>
    /\ call'[e].at # "new" /\ call'[e].made = call[e].made
    /\ DOMAIN worker'[e] = DOMAIN worker[e]
    /\ \A j \in DOMAIN worker[e] : worker[e][j].at \in Done => worker'[e][j] = worker[e][j]

LEMMA GoodStays == ASSUME Settled, NEW m, Good(m) PROVE Good(m)'
BY DEF Settled, Good

LEMMA StepsSettle ==
  ASSUME Resting, NEW c \in Calls,
         \/ Begins(c) \/ Ends(c)
         \/ \E i \in DOMAIN worker[c] : Entered(c, i) \/ Loaded(c, i) \/ Left(c, i)
  PROVE  Settled
<1>1. CASE Begins(c)
  BY <1>1 DEF Begins, Settled
<1>2. CASE Ends(c)
  BY <1>2 DEF Ends, Settled
<1>3. ASSUME NEW i \in DOMAIN worker[c], Entered(c, i) \/ Loaded(c, i) \/ Left(c, i)
      PROVE  Settled
  <2>1. Moved(c, i) /\ worker[c][i].at \notin Done
    BY <1>3, NotDone DEF Entered, Loaded, Left
  <2> QED
    BY <2>1 DEF Moved, Settled
<1> QED
  BY <1>1, <1>2, <1>3

(* The workers whose context a step leaves as it is, or empties.           *)
LEMMA ContextStays ==
  ASSUME Settled, Contexts, NEW c \in Calls, call[c].at # "new",
         NEW i \in DOMAIN worker[c], worker'[c][i].loaded \subseteq worker[c][i].loaded,
         NEW m \in worker'[c][i].loaded
  PROVE  Good(m)' /\ m.call # c /\ m.made = call'[c].made
BY GoodStays DEF Contexts, Settled

LEMMA ContextsStep ==
  ASSUME Shape, Resting, Contexts, [Next]_vars
  PROVE  Contexts'
<1>1. CASE UNCHANGED <<call, worker, session>>
  BY <1>1 DEF Contexts, Good
<1>2. ASSUME NEW c \in Calls, Begins(c) PROVE Contexts'
  <2>1. Settled /\ session' = session
    BY <1>2, StepsSettle DEF Begins
  <2>2. ASSUME NEW i \in DOMAIN worker'[c] PROVE worker'[c][i].loaded = {}
    BY <1>2, <2>2 DEF Begins, Resting
  <2>3. ASSUME NEW e \in Calls \ {c}, NEW i \in DOMAIN worker'[e], NEW m \in worker'[e][i].loaded
        PROVE  Good(m)' /\ m.call # e /\ m.made = call'[e].made
    <3>1. call'[e] = call[e] /\ worker'[e] = worker[e]
      BY <1>2 DEF Begins
    <3> QED
      BY <2>1, <2>3, <3>1, GoodStays DEF Contexts
  <2> QED
    BY <2>1, <2>2, <2>3, GoodStays DEF Contexts
<1>3. ASSUME NEW c \in Calls, Ends(c) PROVE Contexts'
  <2>1. Settled /\ session' = session
    BY <1>3, StepsSettle DEF Ends
  <2>2. ASSUME NEW e \in Calls, NEW i \in DOMAIN worker'[e], NEW m \in worker'[e][i].loaded
        PROVE  Good(m)' /\ m.call # e /\ m.made = call'[e].made
    <3>1. CASE e = c
      BY <1>3, <2>1, <2>2, <3>1, ContextStays DEF Ends
    <3>2. CASE e # c
      <4>1. call'[e] = call[e] /\ worker'[e] = worker[e]
        BY <1>3, <3>2 DEF Ends
      <4> QED
        BY <2>1, <2>2, <4>1, GoodStays DEF Contexts
    <3> QED
      BY <3>1, <3>2
  <2> QED
    BY <2>1, <2>2, GoodStays DEF Contexts
<1>4. ASSUME NEW c \in Calls, NEW i \in DOMAIN worker[c],
             Entered(c, i) \/ Loaded(c, i) \/ Left(c, i)
      PROVE  Contexts'
  <2>1. Settled /\ Moved(c, i) /\ worker[c][i].at \notin Done
    BY <1>4, StepsSettle, NotDone DEF Entered, Loaded, Left
  <2>2. call' = call /\ call[c].at # "new"
    BY <2>1 DEF Moved, Resting
  <2>3. ASSUME NEW e \in Calls, NEW j \in DOMAIN worker[e], worker'[e][j] = worker[e][j],
               NEW m \in worker[e][j].loaded
        PROVE  Good(m)' /\ m.call # e /\ m.made = call'[e].made
    BY <2>1, <2>2, <2>3, GoodStays DEF Contexts
  <2>4. ASSUME NEW m \in worker'[c][i].loaded
        PROVE  Good(m)' /\ m.call # c /\ m.made = call'[c].made
    <3>1. CASE worker'[c][i].loaded = worker[c][i].loaded
      BY <2>1, <2>2, <2>4, <3>1, GoodStays DEF Contexts
    <3>2. CASE worker'[c][i].loaded = SameSession(c, i)
      <4>1. m \in session /\ m.made = call[c].made /\ m.place = i
        BY <2>4, <3>2 DEF SameSession
      <4>2. Good(m) /\ m.call # c
        BY <2>1, <4>1 DEF Contexts, Good
      <4> QED
        BY <2>1, <2>2, <4>1, <4>2, GoodStays
    <3> QED
      BY <1>4, <3>1, <3>2 DEF Entered, Loaded, Left
  <2>5. ASSUME NEW m \in session' PROVE Good(m)'
    <3>1. CASE m \in session
      BY <2>1, <3>1, GoodStays DEF Contexts
    <3>2. CASE m \in worker[c][i].loaded
      BY <2>1, <3>2, GoodStays DEF Contexts
    <3>3. CASE Left(c, i) /\ m = [made |-> call[c].made, place |-> i, call |-> c]
      BY <2>1, <2>2, <3>3 DEF Left, Moved, Good
    <3> QED
      BY <1>4, <2>5, <3>1, <3>2, <3>3 DEF Entered, Loaded, Left
  <2>6. ASSUME NEW e \in Calls, NEW j \in DOMAIN worker'[e], NEW m \in worker'[e][j].loaded
        PROVE  Good(m)' /\ m.call # e /\ m.made = call'[e].made
    <3>1. CASE e = c /\ j = i
      BY <2>4, <2>6, <3>1
    <3>2. CASE ~(e = c /\ j = i)
      <4>1. j \in DOMAIN worker[e] /\ worker'[e][j] = worker[e][j]
        BY <2>1, <2>6, <3>2 DEF Moved
      <4> QED
        BY <2>3, <2>6, <4>1
    <3> QED
      BY <3>1, <3>2
  <2> QED
    BY <2>5, <2>6 DEF Contexts
<1> QED
  BY <1>1, <1>2, <1>3, <1>4, Steps

(* "Each worker runs in a fresh, isolated context", unless another call    *)
(* was made in the same second: for any number of calls and workers, with  *)
(* every timeout, failure and cancellation.                                *)
THEOREM ContextsAreFresh == Spec => []FreshContext
<1>1. Init => Contexts
  BY EmptySeq DEF Init, Contexts
<1>2. Shape /\ Resting /\ Contexts /\ [Next]_vars => Contexts'
  BY ContextsStep
<1>3. Contexts => FreshContext
  BY DEF Contexts, Good, FreshContext
<1> QED
  BY <1>1, <1>2, <1>3, ShapeInv, RestingInv, PTL DEF Spec

-----------------------------------------------------------------------------
(* The answer of a call.                                                   *)

Outcome(tasks, f) == [i \in DOMAIN f |-> Report(Accepted(tasks)[i], f[i].at)]
Both(tasks, reports) == AllRejected(tasks) \o AllRejected(tasks) \o reports

ReportsOn(reports, task) == {k \in DOMAIN reports : reports[k].id = task.id}

Listed(tasks) == tasks \in Seq({tasks[i] : i \in DOMAIN tasks})

(* No rejected task has the id of an accepted one.                         *)
LEMMA IdsApart ==
  ASSUME NEW tasks, Listed(tasks), Distinct(tasks),
         NEW i \in DOMAIN Rejected(tasks), NEW j \in DOMAIN Accepted(tasks)
  PROVE  Rejected(tasks)[i].id # Accepted(tasks)[j].id
<1>1. PICK a \in 1 .. Len(tasks) : Rejected(tasks)[i] = tasks[a] /\ Writes(tasks[a]) = TRUE
  BY OnlyPicks DEF Picked, Rejected, Listed
<1>2. PICK b \in 1 .. Len(tasks) : Accepted(tasks)[j] = tasks[b] /\ Writes(tasks[b]) = FALSE
  BY OnlyPicks DEF Picked, Accepted, Listed
<1>3. DOMAIN tasks = 1 .. Len(tasks)
  BY LenProperties DEF Listed
<1> QED
  BY <1>1, <1>2, <1>3 DEF Distinct

LEMMA AcceptedApart ==
  ASSUME NEW tasks, Listed(tasks), Distinct(tasks),
         NEW i \in DOMAIN Accepted(tasks), NEW j \in DOMAIN Accepted(tasks), i # j
  PROVE  Accepted(tasks)[i].id # Accepted(tasks)[j].id
BY OnlyPicks DEF Picked, Accepted, Listed

LEMMA PicksAreLists ==
  ASSUME NEW tasks, Listed(tasks), NEW w
  PROVE  Len(Only(tasks, w)) \in Nat /\ DOMAIN Only(tasks, w) = 1 .. Len(Only(tasks, w))
<1>1. Only(tasks, w) \in Seq({tasks[i] : i \in DOMAIN tasks})
  BY OnlyPicks DEF Picked, Listed
<1> QED
  BY <1>1, LenProperties

LEMMA ThreeParts ==
  ASSUME NEW S, NEW a \in Seq(S), NEW b \in Seq(S), NEW c \in Seq(S)
  PROVE  /\ DOMAIN (a \o b \o c) = 1 .. (Len(a) + Len(b) + Len(c))
         /\ \A k \in 1 .. (Len(a) + Len(b) + Len(c)) :
              (a \o b \o c)[k] = IF k <= Len(a) THEN a[k]
                                ELSE IF k <= Len(a) + Len(b) THEN b[k - Len(a)]
                                ELSE c[k - Len(a) - Len(b)]
<1> DEFINE ab == a \o b
<1>1. ab \in Seq(S) /\ Len(ab) = Len(a) + Len(b)
      /\ \A k \in 1 .. (Len(a) + Len(b)) :
           ab[k] = IF k <= Len(a) THEN a[k] ELSE b[k - Len(a)]
  BY ConcatProperties
<1>2. Len(a) \in Nat /\ Len(b) \in Nat /\ Len(c) \in Nat
  BY LenProperties
<1> HIDE DEF ab
<1>3. /\ ab \o c \in Seq(S) /\ Len(ab \o c) = Len(ab) + Len(c)
      /\ \A k \in 1 .. (Len(ab) + Len(c)) :
           (ab \o c)[k] = IF k <= Len(ab) THEN ab[k] ELSE c[k - Len(ab)]
  BY <1>1, ConcatProperties
<1>4. DOMAIN (ab \o c) = 1 .. (Len(ab) + Len(c))
  BY <1>3, LenProperties
<1>5. ASSUME NEW k \in 1 .. (Len(a) + Len(b) + Len(c))
      PROVE  (ab \o c)[k] = IF k <= Len(a) THEN a[k]
                            ELSE IF k <= Len(a) + Len(b) THEN b[k - Len(a)]
                            ELSE c[k - Len(a) - Len(b)]
  <2>1. k \in 1 .. (Len(ab) + Len(c)) /\ k - Len(ab) = k - Len(a) - Len(b)
    BY <1>1, <1>2
  <2>2. (ab \o c)[k] = IF k <= Len(ab) THEN ab[k] ELSE c[k - Len(ab)]
    BY <1>3, <2>1
  <2>3. CASE k <= Len(a)
    BY <1>1, <1>2, <2>2, <2>3
  <2>4. CASE ~(k <= Len(a)) /\ k <= Len(a) + Len(b)
    BY <1>1, <1>2, <2>2, <2>4
  <2>5. CASE ~(k <= Len(a) + Len(b))
    BY <1>1, <1>2, <2>1, <2>2, <2>5
  <2> QED
    BY <2>3, <2>4, <2>5
<1> QED
  BY <1>1, <1>4, <1>5 DEF ab

(* Where the reports on an accepted task are in what the call returns:     *)
(* behind those on the rejected tasks.                                     *)
Before(tasks) == Len(AllRejected(tasks)) + Len(AllRejected(tasks))

Found(tasks, f, i) ==
  LET reports == Both(tasks, Outcome(tasks, f))
      found   == ReportsOn(reports, Accepted(tasks)[i])
      place   == Before(tasks) + i
  IN  /\ (\E S : reports \in Seq(S)) /\ Before(tasks) \in Nat
      /\ DOMAIN f = {} => found = {}
      /\ DOMAIN f # {} =>
           /\ Len(reports) = Before(tasks) + Len(Accepted(tasks))
           /\ found = {place} /\ place \in 1 .. Len(reports)
           /\ reports[place].status = f[i].at

LEMMA ReportsFound ==
  ASSUME NEW tasks, Listed(tasks), Distinct(tasks), NEW f,
         DOMAIN f = DOMAIN Accepted(tasks) \/ DOMAIN f = {},
         NEW i \in DOMAIN Accepted(tasks)
  PROVE  Found(tasks, f, i)
<1> DEFINE A == Accepted(tasks)
           R == AllRejected(tasks)
           o == Outcome(tasks, f)
           n == Len(R)
           b == Both(tasks, o)
           S == {R[k] : k \in DOMAIN R} \cup {o[k] : k \in DOMAIN o}
<1>1. Len(Rejected(tasks)) \in Nat /\ DOMAIN Rejected(tasks) = 1 .. Len(Rejected(tasks))
      /\ Len(A) \in Nat /\ DOMAIN A = 1 .. Len(A)
  BY PicksAreLists DEF Rejected, Accepted
<1>2. DOMAIN R = 1 .. Len(Rejected(tasks)) /\ R \in Seq(S)
  <2>1. R = [k \in 1 .. Len(Rejected(tasks)) |-> Report(Rejected(tasks)[k], "rejected")]
    BY <1>1 DEF AllRejected
  <2> HIDE DEF R
  <2>2. R \in [1 .. Len(Rejected(tasks)) -> S]
    BY <2>1
  <2> HIDE DEF S
  <2> QED
    BY <1>1, <2>2, SeqDef
<1>3. \E m \in Nat : (m = Len(A) \/ m = 0) /\ DOMAIN f = 1 .. m
  <2>1. DOMAIN f = 1 .. Len(A) \/ DOMAIN f = 1 .. 0
    BY <1>1
  <2> QED
    BY <1>1, <2>1
<1>4. PICK m \in Nat : (m = Len(A) \/ m = 0) /\ DOMAIN f = 1 .. m
  BY <1>3
<1>5. DOMAIN o = 1 .. m /\ o \in Seq(S)
  <2>1. o = [k \in 1 .. m |-> Report(A[k], f[k].at)]
    BY <1>4 DEF Outcome
  <2> HIDE DEF o
  <2>2. o \in [1 .. m -> S]
    BY <2>1
  <2> HIDE DEF S
  <2> QED
    BY <1>4, <2>2, SeqDef
<1>6. n = Len(Rejected(tasks)) /\ n \in Nat /\ Len(o) = m /\ DOMAIN R = 1 .. n
  <2> HIDE DEF S, R, o
  <2> QED
    BY <1>1, <1>2, <1>5, LenProperties
<1>7. \A k \in 1 .. n : R[k].id # A[i].id
  BY <1>1, <1>2, <1>6, IdsApart DEF AllRejected, Report
<1>8. \A k \in 1 .. m : o[k].id = A[k].id /\ o[k].status = f[k].at
  BY <1>4 DEF Outcome, Report
<1>9. \A k \in 1 .. m : k # i => A[k].id # A[i].id
  BY <1>1, <1>4, AcceptedApart
<1>10. i \in 1 .. Len(A)
  BY <1>1
<1>11. b = R \o R \o o
  BY DEF Both
<1> HIDE DEF S, R, o, A, b
<1>12. /\ DOMAIN b = 1 .. (n + n + m)
       /\ \A k \in 1 .. (n + n + m) :
            b[k] = IF k <= n THEN R[k] ELSE IF k <= n + n THEN R[k - n] ELSE o[k - n - n]
  <2>1. Len(R) = n /\ Len(o) = m
    BY <1>6
  <2> HIDE DEF n
  <2>2. /\ DOMAIN (R \o R \o o) = 1 .. (Len(R) + Len(R) + Len(o))
        /\ \A k \in 1 .. (Len(R) + Len(R) + Len(o)) :
             (R \o R \o o)[k] = IF k <= Len(R) THEN R[k]
                               ELSE IF k <= Len(R) + Len(R) THEN R[k - Len(R)]
                               ELSE o[k - Len(R) - Len(R)]
    BY <1>2, <1>5, ThreeParts
  <2> QED
    BY <1>11, <2>1, <2>2
<1>16. b \in Seq(S) /\ Before(tasks) = n + n /\ Before(tasks) \in Nat /\ Len(b) = n + n + m
  <2>1. b \in Seq(S)
    BY <1>2, <1>5, <1>11, ConcatProperties
  <2>2. Before(tasks) = n + n
    BY DEF Before, R
  <2>3. DOMAIN b = 1 .. Len(b) /\ Len(b) \in Nat
    BY <2>1, LenProperties
  <2>4. Len(b) = n + n + m
    <3> HIDE DEF n
    <3>1. n + n + m \in Nat /\ 1 .. Len(b) = 1 .. (n + n + m)
      BY <1>4, <1>6, <1>12, <2>3
    <3>2. \A x, y \in Nat : 1 .. x = 1 .. y => x = y
      <4> SUFFICES ASSUME NEW x \in Nat, NEW y \in Nat, 1 .. x = 1 .. y PROVE x = y
        OBVIOUS
      <4>1. (x >= 1 => x \in 1 .. y) /\ (y >= 1 => y \in 1 .. x)
        OBVIOUS
      <4> QED
        BY <4>1
    <3> QED
      BY <2>3, <3>1, <3>2
  <2> QED
    BY <1>6, <2>1, <2>2, <2>4
<1> HIDE DEF n
<1>13. ASSUME NEW k \in DOMAIN b, b[k].id = A[i].id PROVE k - n - n \in 1 .. m /\ k = n + n + i
  <2>1. k \in 1 .. (n + n + m)
    BY <1>12
  <2>2. ~(k <= n)
    BY <1>6, <1>7, <1>12, <1>13, <2>1
  <2>3. ~(k <= n + n)
    <3>1. ASSUME k <= n + n PROVE k - n \in 1 .. n /\ b[k] = R[k - n]
      BY <1>6, <1>12, <2>1, <2>2, <3>1
    <3> QED
      BY <1>7, <1>13, <3>1
  <2>4. k - n - n \in 1 .. m /\ b[k] = o[k - n - n]
    BY <1>4, <1>6, <1>12, <2>1, <2>2, <2>3
  <2>5. k - n - n = i
    BY <1>8, <1>9, <1>13, <2>4
  <2> QED
    BY <1>6, <1>10, <2>1, <2>4, <2>5
<1>14. CASE DOMAIN f = {}
  <2>1. m = 0
    BY <1>4, <1>14
  <2>2. ReportsOn(b, A[i]) = {}
    BY <1>13, <2>1 DEF ReportsOn
  <2> QED
    BY <1>14, <1>16, <2>2 DEF b, o, A, Found
<1>15. CASE DOMAIN f # {}
  <2>1. m = Len(A) /\ i \in 1 .. m
    BY <1>4, <1>10, <1>15
  <2>2. n + n + i \in DOMAIN b /\ b[n + n + i] = o[i]
    <3> DEFINE k == n + n + i
    <3>1. k \in 1 .. (n + n + m) /\ ~(k <= n) /\ ~(k <= n + n) /\ k - n - n = i
      BY <1>4, <1>6, <2>1
    <3> HIDE DEF k
    <3>2. k \in DOMAIN b
      BY <1>12, <3>1
    <3>3. b[k] = IF k <= n THEN R[k] ELSE IF k <= n + n THEN R[k - n] ELSE o[k - n - n]
      BY <1>12, <3>1
    <3>4. k \in DOMAIN b /\ b[k] = o[i]
      BY <3>1, <3>2, <3>3
    <3> QED
      BY <3>4 DEF k
  <2>3. ReportsOn(b, A[i]) = {n + n + i} /\ b[n + n + i].status = f[i].at
    BY <1>8, <1>13, <2>1, <2>2 DEF ReportsOn
  <2>4. Len(b) = Before(tasks) + Len(A) /\ Before(tasks) + i = n + n + i
        /\ n + n + i \in 1 .. Len(b)
    BY <1>12, <1>16, <2>1, <2>2
  <2> QED
    BY <1>15, <1>16, <2>2, <2>3, <2>4 DEF b, o, A, Found
<1> QED
  BY <1>14, <1>15

(* What an answer consists of.                                             *)
Answered(c, v, f) ==
  /\ v.at = "running" => DOMAIN f = DOMAIN Accepted(v.tasks)
  /\ v.at = "returned" =>
       \/ Accepted(v.tasks) = <<>>
       \/ /\ Texted(c, v, Both(v.tasks, <<>>))
          /\ \E i \in DOMAIN f : f[i].at = "cancelled"
       \/ /\ DOMAIN f = DOMAIN Accepted(v.tasks)
          /\ Texted(c, v, Both(v.tasks, Outcome(v.tasks, f)))

Answers == \A c \in Calls : Answered(c, call[c], worker[c])

(* A text has the first reports, and the others if it is not cut.          *)
LEMMA TextLeads ==
  ASSUME NEW S, NEW all \in Seq(S), NEW c, NEW v, Texted(c, v, all)
  PROVE  \E m \in 0 .. Len(all) :
           /\ DOMAIN v.reports = 1 .. m /\ \A k \in 1 .. m : v.reports[k] = all[k]
           /\ m < Len(all) => v.cut
<1>1. Len(all) \in Nat /\ DOMAIN all = 1 .. Len(all)
  BY LenProperties
<1>2. PICK text \in Formatted(c, all) : v.reports = text.reports /\ v.cut = text.cut
  BY DEF Texted
<1>3. ASSUME text = [reports |-> all, cut |-> FALSE]
      PROVE  \E m \in 0 .. Len(all) :
               /\ DOMAIN v.reports = 1 .. m /\ \A k \in 1 .. m : v.reports[k] = all[k]
               /\ m < Len(all) => v.cut
  <2>1. v.reports = all /\ Len(all) \in 0 .. Len(all) /\ ~(Len(all) < Len(all))
    BY <1>1, <1>2, <1>3
  <2> QED
    BY <1>1, <2>1
<1>4. ASSUME NEW n \in 0 .. (Len(all) - 1), text = [reports |-> SubSeq(all, 1, n), cut |-> TRUE]
      PROVE  \E m \in 0 .. Len(all) :
               /\ DOMAIN v.reports = 1 .. m /\ \A k \in 1 .. m : v.reports[k] = all[k]
               /\ m < Len(all) => v.cut
  <2>1. v.reports = SubSeq(all, 1, n) /\ v.cut /\ n \in 0 .. Len(all)
    BY <1>1, <1>2, <1>4
  <2>2. DOMAIN SubSeq(all, 1, n) = 1 .. n /\ \A k \in 1 .. n : SubSeq(all, 1, n)[k] = all[k]
    BY <1>1
  <2> QED
    BY <2>1, <2>2
<1> QED
  BY <1>3, <1>4 DEF Formatted

LEMMA AnswersStep ==
  ASSUME Shape, Resting, Answers, [Next]_vars
  PROVE  Answers'
<1>1. CASE UNCHANGED <<call, worker, session>>
  BY <1>1 DEF Answers
<1>2. ASSUME NEW c \in Calls, NEW e \in Calls, call'[e] = call[e], worker'[e] = worker[e]
      PROVE  Answered(e, call'[e], worker'[e])
  BY <1>2 DEF Answers
<1>3. ASSUME NEW c \in Calls, Begins(c) PROVE Answers'
  <2>1. Answered(c, call'[c], worker'[c])
    BY <1>3 DEF Begins, Answered
  <2> QED
    BY <1>2, <1>3, <2>1 DEF Begins, Answers
<1>4. ASSUME NEW c \in Calls, Ends(c) PROVE Answers'
  <2>1. Answered(c, call[c], worker[c]) /\ call[c].at = "running"
    BY <1>4 DEF Ends, Answers
  <2>2. DOMAIN worker[c] = DOMAIN Accepted(call[c].tasks)
    BY <2>1 DEF Answered
  <2>3. Collected(c, <<>>) = Both(call'[c].tasks, <<>>)
    BY <1>4 DEF Ends, Collected, Both
  <2>4. Collected(c, [i \in DOMAIN worker[c] |->
                        Report(Accepted(call[c].tasks)[i], worker'[c][i].at)])
          = Both(call'[c].tasks, Outcome(call'[c].tasks, worker'[c]))
    BY <1>4 DEF Ends, Collected, Both, Outcome
  <2>5. Answered(c, call'[c], worker'[c])
    BY <1>4, <2>2, <2>3, <2>4 DEF Ends, Answered
  <2> QED
    BY <1>2, <1>4, <2>5 DEF Ends, Answers
<1>5. ASSUME NEW c \in Calls, NEW i \in DOMAIN worker[c],
             Entered(c, i) \/ Loaded(c, i) \/ Left(c, i)
      PROVE  Answers'
  <2>1. Moved(c, i) /\ worker[c][i].at \notin Done
    BY <1>5, NotDone DEF Entered, Loaded, Left
  <2>2. call[c].at = "running" /\ call' = call
    BY <2>1 DEF Resting, Moved
  <2>3. DOMAIN worker'[c] = DOMAIN worker[c]
    BY <2>1 DEF Moved
  <2>4. Answered(c, call'[c], worker'[c])
    BY <2>2, <2>3 DEF Answers, Answered
  <2> QED
    BY <1>2, <2>1, <2>4 DEF Moved, Answers
<1> QED
  BY <1>1, <1>3, <1>4, <1>5, Steps

(* Which reports of an answer there are, and which are missing             *)
Matched(c, accepted, n) ==
  /\ \A i \in 1 .. n :
       \E k \in DOMAIN call[c].reports :
         /\ Reports(c, accepted[i]) = {k}
         /\ call[c].reports[k].status = worker[c][i].at
  /\ \A i \in (n + 1) .. Len(accepted) : Reports(c, accepted[i]) = {}
  /\ n < Len(accepted) =>
       call[c].cut \/ (n = 0 /\ \E i \in DOMAIN worker[c] : worker[c][i].at = "cancelled")

LEMMA AnswersMatch ==
  ASSUME Shape, Answers, NEW c \in Calls, call[c].at = "returned", Distinct(call[c].tasks)
  PROVE  \E n \in 0 .. Len(Accepted(call[c].tasks)) : Matched(c, Accepted(call[c].tasks), n)
<1> DEFINE tasks == call[c].tasks
           A == Accepted(tasks)
           r == call[c].reports
           f == worker[c]
<1>1. Listed(tasks) /\ Distinct(tasks) /\ Answered(c, call[c], f)
  BY DEF Shape, CallShape, Listed, Answers
<1>2. \A task : Reports(c, task) = ReportsOn(r, task)
  BY DEF Reports, ReportsOn
<1>3. Len(A) \in Nat /\ DOMAIN A = 1 .. Len(A)
  BY <1>1, PicksAreLists DEF Accepted
<1>4. CASE Len(A) = 0
  <2>1. Matched(c, A, 0) /\ 0 \in 0 .. Len(A)
    BY <1>3, <1>4 DEF Matched
  <2> QED
    BY <2>1
<1>5. CASE /\ Texted(c, call[c], Both(tasks, <<>>))
           /\ \E i \in DOMAIN f : f[i].at = "cancelled"
  <2> DEFINE g == <<>>
             all == Both(tasks, <<>>)
  <2>1. DOMAIN g = {} /\ Outcome(tasks, g) = <<>>
    BY EmptySeq DEF Outcome
  <2> HIDE DEF g
  <2>2. ASSUME NEW i \in DOMAIN A PROVE ReportsOn(r, A[i]) = {}
    <3>1. Found(tasks, g, i)
      BY <1>1, <2>1, <2>2, ReportsFound
    <3>2. ReportsOn(all, A[i]) = {} /\ \E S : all \in Seq(S)
      BY <2>1, <3>1 DEF Found
    <3>3. PICK S : all \in Seq(S)
      BY <3>2
    <3> HIDE DEF all
    <3>4. PICK m \in 0 .. Len(all) : DOMAIN r = 1 .. m /\ \A k \in 1 .. m : r[k] = all[k]
      BY <1>5, <3>3, TextLeads DEF all
    <3>5. DOMAIN all = 1 .. Len(all) /\ Len(all) \in Nat
      BY <3>3, LenProperties
    <3>6. \A k \in DOMAIN r : k \in DOMAIN all /\ r[k] = all[k]
      BY <3>4, <3>5
    <3> QED
      BY <3>2, <3>6 DEF ReportsOn
  <2>3. \A i \in 1 .. Len(A) : Reports(c, A[i]) = {}
    BY <1>2, <1>3, <2>2
  <2>4. \E i \in DOMAIN worker[c] : worker[c][i].at = "cancelled"
    BY <1>5
  <2> HIDE DEF A, r, f, all
  <2>5. Matched(c, A, 0)
    BY <1>3, <2>3, <2>4 DEF Matched
  <2> QED
    BY <1>3, <2>5 DEF A
<1>6. CASE /\ DOMAIN f = DOMAIN A /\ Len(A) # 0
           /\ Texted(c, call[c], Both(tasks, Outcome(tasks, f)))
  <2> DEFINE all == Both(tasks, Outcome(tasks, f))
             b == Before(tasks)
  <2>1. ASSUME NEW i \in DOMAIN A
        PROVE  /\ (\E S : all \in Seq(S)) /\ b \in Nat
               /\ Len(all) = b + Len(A) /\ ReportsOn(all, A[i]) = {b + i}
               /\ b + i \in 1 .. Len(all) /\ all[b + i].status = f[i].at
    <3>1. DOMAIN f # {}
      BY <1>6, <2>1
    <3> HIDE DEF f
    <3>2. Found(tasks, f, i)
      BY <1>1, <1>6, <2>1, ReportsFound
    <3> QED
      BY <3>1, <3>2 DEF Found
  <2>2. 1 \in DOMAIN A
    BY <1>3, <1>6
  <2>3. PICK S : all \in Seq(S)
    BY <2>1, <2>2
  <2>4. b \in Nat /\ Len(all) = b + Len(A)
    BY <2>1, <2>2
  <2> HIDE DEF all, b
  <2>5. PICK m \in 0 .. Len(all) : /\ DOMAIN r = 1 .. m /\ \A k \in 1 .. m : r[k] = all[k]
                                   /\ m < Len(all) => call[c].cut
    BY <1>6, <2>3, TextLeads DEF all
  <2>6. DOMAIN all = 1 .. Len(all)
    BY <2>3, LenProperties
  <2> DEFINE n == IF m <= b THEN 0 ELSE m - b
  <2>7. n \in 0 .. Len(A) /\ (n < Len(A) => m < Len(all))
        /\ \A i \in 1 .. Len(A) : b + i \in 1 .. m <=> i \in 1 .. n
    BY <1>3, <2>4, <2>5
  <2> HIDE DEF n
  <2>8. ASSUME NEW i \in 1 .. Len(A) PROVE ReportsOn(r, A[i]) = {b + i} \cap (1 .. m)
    <3>1. ReportsOn(all, A[i]) = {b + i}
      BY <1>3, <2>1
    <3>2. \A k \in DOMAIN r : k \in 1 .. m /\ k \in DOMAIN all /\ r[k] = all[k]
      BY <2>4, <2>5, <2>6, <1>3
    <3>3. \A k \in 1 .. m : k \in DOMAIN r
      BY <2>5
    <3>4. b + i \in DOMAIN all
      BY <1>3, <2>1, <2>6
    <3> QED
      BY <3>1, <3>2, <3>3, <3>4 DEF ReportsOn
  <2>9. ASSUME NEW i \in 1 .. n
        PROVE  /\ b + i \in DOMAIN r /\ ReportsOn(r, A[i]) = {b + i}
               /\ r[b + i].status = f[i].at
    <3>1. i \in 1 .. Len(A)
      BY <1>3, <2>7
    <3>2. b + i \in 1 .. m
      BY <2>7, <3>1
    <3>3. r[b + i] = all[b + i] /\ all[b + i].status = f[i].at
      BY <1>3, <2>1, <2>5, <3>1, <3>2
    <3> QED
      BY <2>5, <2>8, <3>1, <3>2, <3>3
  <2>10. ASSUME NEW i \in (n + 1) .. Len(A) PROVE ReportsOn(r, A[i]) = {}
    <3>1. i \in 1 .. Len(A) /\ i \notin 1 .. n
      BY <1>3, <2>7
    <3>2. b + i \notin 1 .. m
      BY <2>7, <3>1
    <3> QED
      BY <2>8, <3>1, <3>2
  <2>11. Matched(c, A, n)
    BY <1>2, <2>5, <2>7, <2>9, <2>10 DEF Matched
  <2> QED
    BY <2>7, <2>11
<1>7. Accepted(tasks) = <<>> => Len(A) = 0
  OBVIOUS
<1> QED
  BY <1>1, <1>4, <1>5, <1>6, <1>7 DEF Answered

(* For any number of calls, lists of tasks and limits, with every order of *)
(* what their workers do, and every timeout, failure and cancellation: no  *)
(* more workers of a call use the model at once than it allows, and what a *)
(* call returns has for each accepted task the one report of its own       *)
(* worker, however the rejected tasks lie between them, as long as the ids *)
(* tell the tasks apart.  Only the last reports may be missing, because    *)
(* the text was cut, or all of them, when the call timed out before a      *)
(* worker was done.                                                        *)
THEOREM CallsAreOrderly == Spec => []OrderlyCall
<1>1. Init => Answers
  BY DEF Init, Answers, Answered
<1>2. Shape /\ Resting /\ Answers /\ [Next]_vars => Answers'
  BY AnswersStep
<1>3. Shape /\ Answers => ReportsMatchWorkers
  BY AnswersMatch DEF ReportsMatchWorkers, Matched, Returned
<1>4. WithinLimit /\ ReportsMatchWorkers => OrderlyCall
  BY DEF OrderlyCall
<1> QED
  BY <1>1, <1>2, <1>3, <1>4, ShapeInv, RestingInv, LimitInv, PTL DEF Spec
=============================================================================
