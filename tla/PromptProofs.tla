---------------------------- MODULE PromptProofs ----------------------------
(***************************************************************************)
(* Theorems about what the models are given.                               *)
(*                                                                         *)
(* ContextGuard, for every history, every size of message and block and    *)
(* all budgets: tool calls are paired, the question is kept, and the       *)
(* budgets decide as they should.                                          *)
(*                                                                         *)
(* SessionDistillation, for any number of sessions and overlapping runs:   *)
(* what is counted was read or has a reason not to be, and the search      *)
(* follows the notes.                                                      *)
(*                                                                         *)
(* The first part derives induction over the naturals from the             *)
(* well-foundedness of strict inclusion among finite sets, and from it     *)
(* that a function may be defined one number after the other.              *)
(***************************************************************************)
EXTENDS ContextGuard, SessionDistillation, FiniteSetTheorems, SequenceTheorems,
        WellFoundedInduction, TLAPS

(* A set of naturals has a least element: the initial segments below its   *)
(* elements are finite, so one of them includes no other strictly.         *)
LEMMA Minimum ==
  ASSUME NEW S \in SUBSET Nat, S # {}
  PROVE  \E n \in S : \A m \in S : n <= m
<1> DEFINE Below(n) == 0 .. (n - 1)
           T == {Below(n) : n \in S}
<1>1. T \subseteq FiniteSubsetsOf(Nat) /\ T # {}
  <2>1. ASSUME NEW n \in S PROVE Below(n) \in FiniteSubsetsOf(Nat)
    BY FS_Interval DEF FiniteSubsetsOf
  <2> QED
    BY <2>1
<1>2. PICK x \in T : \A y \in T : ~ (<<y, x>> \in StrictSubsetOrdering(Nat))
  <2> HIDE DEF T
  <2> QED
    BY <1>1, FS_StrictSubsetOrderingWellFounded, WFMin
<1>3. PICK n \in S : x = Below(n)
  OBVIOUS
<1>4. ASSUME NEW m \in S, ~(n <= m) PROVE FALSE
  <2>1. Below(m) \subseteq Below(n) /\ m \in Below(n) /\ m \notin Below(m)
    BY <1>4
  <2>2. <<Below(m), Below(n)>> \in StrictSubsetOrdering(Nat)
    BY <2>1 DEF StrictSubsetOrdering
  <2> QED
    BY <1>2, <1>3, <2>2
<1> QED
  BY <1>4

(* Induction up to a bound, for the set of the numbers of a property.      *)
LEMMA UpTo ==
  ASSUME NEW b \in Nat, NEW S, 0 \in S, \A n \in 0 .. (b - 1) : n \in S => n + 1 \in S
  PROVE  0 .. b \subseteq S
<1>1. SUFFICES ASSUME (0 .. b) \ S # {} PROVE FALSE
  OBVIOUS
<1>2. PICK n \in (0 .. b) \ S : \A m \in (0 .. b) \ S : n <= m
  <2>1. (0 .. b) \ S \in SUBSET Nat
    OBVIOUS
  <2> QED
    BY <1>1, <2>1, Minimum
<1>3. n - 1 \in 0 .. (b - 1) /\ n - 1 \in 0 .. b /\ ~(n <= n - 1)
  BY <1>2
<1>4. n - 1 \in S
  BY <1>2, <1>3
<1> QED
  BY <1>2, <1>3, <1>4

(* A function that takes each value from the one before.                   *)
Follows(f, z, g, b) ==
  \A n \in 0 .. b : f[n] = IF n = 0 THEN z ELSE g[<<f[n - 1], n>>]

LEMMA Iterates ==
  ASSUME NEW D, NEW z \in D, NEW b \in Nat, NEW g \in [D \X (0 .. b) -> D]
  PROVE  \E f \in [0 .. b -> D] : Follows(f, z, g, b)
<1> DEFINE S == {k \in 0 .. b : \E f \in [0 .. k -> D] : Follows(f, z, g, k)}
<1>1. 0 \in S
  <2> DEFINE f == [n \in 0 .. 0 |-> z]
  <2>1. f \in [0 .. 0 -> D] /\ Follows(f, z, g, 0)
    BY DEF Follows
  <2> QED
    BY <2>1
<1>2. ASSUME NEW k \in 0 .. (b - 1), k \in S PROVE k + 1 \in S
  <2>1. PICK f \in [0 .. k -> D] : Follows(f, z, g, k)
    BY <1>2
  <2> DEFINE v == g[<<f[k], k + 1>>]
             h == [n \in 0 .. (k + 1) |-> IF n = k + 1 THEN v ELSE f[n]]
  <2>2. k \in 0 .. k /\ k + 1 \in 0 .. b /\ f[k] \in D
    BY <2>1
  <2>3. v \in D
    BY <2>2
  <2>4. h[k + 1] = v /\ \A n \in 0 .. k : h[n] = f[n]
    OBVIOUS
  <2>5. h \in [0 .. (k + 1) -> D]
    <3> HIDE DEF v
    <3> QED
      BY <2>1, <2>3
  <2> HIDE DEF h
  <2>6. h[k + 1] = IF k + 1 = 0 THEN z ELSE g[<<h[k + 1 - 1], k + 1>>]
    <3>1. k + 1 # 0 /\ k + 1 - 1 = k
      OBVIOUS
    <3> QED
      BY <2>2, <2>4, <3>1
  <2>7. ASSUME NEW n \in 0 .. k
        PROVE  h[n] = IF n = 0 THEN z ELSE g[<<h[n - 1], n>>]
    <3>1. n # 0 => n - 1 \in 0 .. k
      OBVIOUS
    <3> QED
      BY <2>1, <2>4, <3>1 DEF Follows
  <2>8. Follows(h, z, g, k + 1)
    <3>1. ASSUME NEW n \in 0 .. (k + 1)
          PROVE  h[n] = IF n = 0 THEN z ELSE g[<<h[n - 1], n>>]
      <4>1. CASE n = k + 1
        BY <2>6, <4>1
      <4>2. CASE n # k + 1
        BY <2>7, <4>2
      <4> QED
        BY <4>1, <4>2
    <3> QED
      BY <3>1 DEF Follows
  <2> QED
    BY <2>2, <2>5, <2>8
<1> HIDE DEF S
<1>3. 0 .. b \subseteq S
  BY <1>1, <1>2, UpTo
<1>4. b \in S
  BY <1>3
<1> QED
  BY <1>4 DEF S

-----------------------------------------------------------------------------
(* The size of a list of messages.                                         *)

SumStep(msgs, f, n) == IF n = 0 THEN 0 ELSE f[n - 1] + msgs[n].size

Sums(msgs, f) == f = [n \in 0 .. Len(msgs) |-> SumStep(msgs, f, n)]

LEMMA MessageAt ==
  ASSUME NEW msgs \in Seq(Message)
  PROVE  /\ Len(msgs) \in Nat /\ DOMAIN msgs = 1 .. Len(msgs)
         /\ \A i \in 1 .. Len(msgs) : msgs[i] \in Message
BY LenProperties, ElementOfSeq

LEMMA MessageFields ==
  ASSUME NEW m \in Message
  PROVE  /\ m.n \in Nat /\ m.size \in Nat /\ m.kind \in {"human", "ai", "tool"}
         /\ m.calls \subseteq Ids
         /\ \A s \in Nat :
              /\ [m EXCEPT !.size = s] \in Message
              /\ [m EXCEPT !.size = s].n = m.n /\ [m EXCEPT !.size = s].size = s
              /\ [m EXCEPT !.size = s].kind = m.kind
              /\ [m EXCEPT !.size = s].calls = m.calls
         /\ \A c \in SUBSET Ids :
              /\ [m EXCEPT !.calls = c] \in Message
              /\ [m EXCEPT !.calls = c].n = m.n /\ [m EXCEPT !.calls = c].size = m.size
              /\ [m EXCEPT !.calls = c].kind = m.kind
              /\ [m EXCEPT !.calls = c].calls = c
BY DEF Message

LEMMA SumsExist == ASSUME NEW msgs \in Seq(Message) PROVE \E f : Sums(msgs, f)
<1> DEFINE b == Len(msgs)
           g == [p \in Nat \X (0 .. b) |-> IF p[2] = 0 THEN 0 ELSE p[1] + msgs[p[2]].size]
<1>1. b \in Nat /\ \A i \in 1 .. b : msgs[i].size \in Nat
  BY MessageAt, MessageFields
<1> HIDE DEF b
<1>2. g \in [Nat \X (0 .. b) -> Nat]
  BY <1>1
<1>3. \A k \in Nat, n \in 0 .. b : n # 0 => g[<<k, n>>] = k + msgs[n].size
  OBVIOUS
<1> HIDE DEF g
<1>4. PICK f \in [0 .. b -> Nat] : Follows(f, 0, g, b)
  BY <1>1, <1>2, Iterates
<1>5. ASSUME NEW n \in 0 .. b PROVE f[n] = SumStep(msgs, f, n)
  <2>1. n # 0 => f[n - 1] \in Nat
    BY <1>1
  <2> QED
    BY <1>3, <1>4, <2>1 DEF Follows, SumStep
<1>6. f = [n \in 0 .. b |-> f[n]]
  OBVIOUS
<1>7. f = [n \in 0 .. b |-> SumStep(msgs, f, n)]
  BY <1>5, <1>6
<1> QED
  BY <1>7 DEF Sums, b

LEMMA SumsOf ==
  ASSUME NEW msgs \in Seq(Message)
  PROVE  \E f : /\ Total(msgs) = f[Len(msgs)]
                /\ \A n \in 0 .. Len(msgs) : f[n] = SumStep(msgs, f, n)
<1> DEFINE f == CHOOSE g : Sums(msgs, g)
<1>1. Total(msgs) = f[Len(msgs)]
  BY DEF Total, Sums, SumStep
<1>2. Sums(msgs, f)
  BY SumsExist
<1> HIDE DEF f
<1> QED
  BY <1>1, <1>2 DEF Sums

(* Whatever sums up the sizes one by one arrives at the total.             *)
LEMMA TotalIs ==
  ASSUME NEW msgs \in Seq(Message), NEW f, f[0] = 0,
         \A n \in 1 .. Len(msgs) : f[n] = f[n - 1] + msgs[n].size
  PROVE  Total(msgs) = f[Len(msgs)] /\ \A n \in 0 .. Len(msgs) : f[n] \in Nat
<1>1. PICK h : /\ Total(msgs) = h[Len(msgs)]
               /\ \A n \in 0 .. Len(msgs) : h[n] = SumStep(msgs, h, n)
  BY SumsOf
<1> DEFINE b == Len(msgs)
           S == {n \in Nat : h[n] = f[n] /\ f[n] \in Nat}
<1>2. b \in Nat /\ \A i \in 1 .. b : msgs[i].size \in Nat
  BY MessageAt, MessageFields
<1>3. 0 \in S
  BY <1>1, <1>2 DEF SumStep
<1>4. ASSUME NEW n \in 0 .. (b - 1), n \in S PROVE n + 1 \in S
  <2>1. n + 1 \in 1 .. b /\ n + 1 \in 0 .. b /\ n + 1 # 0 /\ n + 1 - 1 = n
    BY <1>2
  <2>2. h[n + 1] = h[n] + msgs[n + 1].size
    BY <1>1, <2>1 DEF SumStep
  <2>3. f[n + 1] = f[n] + msgs[n + 1].size
    BY <2>1
  <2> QED
    BY <1>2, <1>4, <2>1, <2>2, <2>3
<1> HIDE DEF S
<1>5. 0 .. b \subseteq S
  BY <1>2, <1>3, <1>4, UpTo
<1> QED
  BY <1>1, <1>2, <1>5 DEF S

LEMMA TotalFacts ==
  ASSUME NEW msgs \in Seq(Message)
  PROVE  /\ Total(msgs) \in Nat
         /\ \E f : /\ Total(msgs) = f[Len(msgs)] /\ f[0] = 0
                   /\ \A n \in 0 .. Len(msgs) : f[n] \in Nat
                   /\ \A n \in 1 .. Len(msgs) : f[n] = f[n - 1] + msgs[n].size
<1>1. PICK f : /\ Total(msgs) = f[Len(msgs)]
               /\ \A n \in 0 .. Len(msgs) : f[n] = SumStep(msgs, f, n)
  BY SumsOf
<1>2. Len(msgs) \in Nat
  BY MessageAt
<1>3. f[0] = 0 /\ \A n \in 1 .. Len(msgs) : f[n] = f[n - 1] + msgs[n].size
  BY <1>1, <1>2 DEF SumStep
<1>4. \A n \in 0 .. Len(msgs) : f[n] \in Nat
  BY <1>3, TotalIs
<1> QED
  BY <1>1, <1>2, <1>3, <1>4

LEMMA TotalEmpty == Total(<<>>) = 0
<1> DEFINE f == [n \in 0 .. 0 |-> 0]
<1>1. <<>> \in Seq(Message) /\ Len(<<>>) = 0
  BY EmptySeq
<1>2. f[0] = 0 /\ \A n \in 1 .. 0 : f[n] = f[n - 1] + <<>>[n].size
  OBVIOUS
<1> HIDE DEF f
<1> QED
  BY <1>1, <1>2, TotalIs

LEMMA TotalAppend ==
  ASSUME NEW msgs \in Seq(Message), NEW m \in Message
  PROVE  Total(Append(msgs, m)) = Total(msgs) + m.size
<1> DEFINE b == Len(msgs)
           t == Append(msgs, m)
<1>1. PICK f : /\ Total(msgs) = f[b] /\ f[0] = 0
               /\ \A n \in 0 .. b : f[n] \in Nat
               /\ \A n \in 1 .. b : f[n] = f[n - 1] + msgs[n].size
  BY TotalFacts
<1>2. /\ t \in Seq(Message) /\ Len(t) = b + 1 /\ t[b + 1] = m
      /\ \A k \in 1 .. b : t[k] = msgs[k]
  BY AppendProperties
<1>3. b \in Nat
  BY MessageAt
<1> DEFINE v == f[b] + m.size
           h == [n \in 0 .. (b + 1) |-> IF n = b + 1 THEN v ELSE f[n]]
<1>4. h[b + 1] = v /\ \A n \in 0 .. b : h[n] = f[n]
  BY <1>3
<1> HIDE DEF h, t, b
<1>5. h[0] = 0
  BY <1>1, <1>3, <1>4
<1>6. ASSUME NEW n \in 1 .. (b + 1) PROVE h[n] = h[n - 1] + t[n].size
  <2>1. CASE n = b + 1
    <3>1. n - 1 = b /\ b \in 0 .. b
      BY <1>3, <2>1
    <3> QED
      BY <1>2, <1>4, <2>1, <3>1
  <2>2. CASE n \in 1 .. b
    <3>1. n \in 0 .. b /\ n - 1 \in 0 .. b
      BY <1>3, <2>2
    <3> QED
      BY <1>1, <1>2, <1>4, <2>2, <3>1
  <2> QED
    BY <1>3, <2>1, <2>2
<1>7. Total(t) = h[b + 1]
  BY <1>2, <1>5, <1>6, TotalIs
<1> QED
  BY <1>1, <1>4, <1>7 DEF t

(* The total depends on the sizes alone.                                   *)
LEMMA TotalSame ==
  ASSUME NEW s \in Seq(Message), NEW t \in Seq(Message), Len(s) = Len(t),
         \A i \in 1 .. Len(s) : s[i].size = t[i].size
  PROVE  Total(s) = Total(t)
<1>1. PICK f : /\ Total(s) = f[Len(s)] /\ f[0] = 0
               /\ \A n \in 1 .. Len(s) : f[n] = f[n - 1] + s[n].size
  BY TotalFacts
<1> QED
  BY <1>1, TotalIs

-----------------------------------------------------------------------------
(* The messages picked from a list.                                        *)

PickStep(msgs, places, f, n) ==
  IF n = 0 THEN <<>>
  ELSE IF n \in places THEN Append(f[n - 1], msgs[n]) ELSE f[n - 1]

Picks(msgs, places, f) == f = [n \in 0 .. Len(msgs) |-> PickStep(msgs, places, f, n)]

LEMMA PicksExist == ASSUME NEW msgs \in Seq(Message), NEW places PROVE \E f : Picks(msgs, places, f)
<1> DEFINE b == Len(msgs)
           D == Seq(Message)
           g == [p \in D \X (0 .. b) |->
                   IF p[2] # 0 /\ p[2] \in places THEN Append(p[1], msgs[p[2]]) ELSE p[1]]
<1>1. b \in Nat /\ \A i \in 1 .. b : msgs[i] \in Message
  BY MessageAt
<1>2. <<>> \in D
  BY EmptySeq
<1>3. ASSUME NEW s \in D, NEW n \in 0 .. b, n # 0 PROVE Append(s, msgs[n]) \in D
  BY <1>1, <1>3, AppendProperties
<1> HIDE DEF b, D
<1>4. g \in [D \X (0 .. b) -> D]
  BY <1>3
<1>5. ASSUME NEW s \in D, NEW n \in 0 .. b, n # 0
      PROVE  g[<<s, n>>] = IF n \in places THEN Append(s, msgs[n]) ELSE s
  BY <1>5
<1> HIDE DEF g
<1>6. PICK f \in [0 .. b -> D] : Follows(f, <<>>, g, b)
  BY <1>1, <1>2, <1>4, Iterates
<1>7. ASSUME NEW n \in 0 .. b PROVE f[n] = PickStep(msgs, places, f, n)
  <2>1. n # 0 => f[n - 1] \in D
    BY <1>1
  <2> QED
    BY <1>5, <1>6, <2>1 DEF Follows, PickStep
<1>8. f = [n \in 0 .. b |-> f[n]]
  OBVIOUS
<1>9. f = [n \in 0 .. b |-> PickStep(msgs, places, f, n)]
  BY <1>7, <1>8
<1> QED
  BY <1>9 DEF Picks, b

(* The places of the messages grow.                                        *)
Sorted(msgs) == \A i, j \in 1 .. Len(msgs) : i < j => msgs[i].n < msgs[j].n

(* s is what was picked from the first n messages.                         *)
Picked(msgs, places, s, n) ==
  /\ s \in Seq(Message)
  /\ \A k \in 1 .. Len(s) : \E i \in 1 .. n : i \in places /\ s[k] = msgs[i]
  /\ \A i \in 1 .. n : i \in places => \E k \in 1 .. Len(s) : s[k] = msgs[i]
  /\ Sorted(msgs) => Sorted(s)

LEMMA PickedMore ==
  ASSUME NEW msgs \in Seq(Message), NEW places, NEW n \in 0 .. (Len(msgs) - 1), NEW s,
         Picked(msgs, places, s, n)
  PROVE  IF n + 1 \in places THEN Picked(msgs, places, Append(s, msgs[n + 1]), n + 1)
                             ELSE Picked(msgs, places, s, n + 1)
<1> DEFINE t == Append(s, msgs[n + 1])
           b == Len(s)
<1>1. /\ Len(msgs) \in Nat /\ \A i \in 1 .. Len(msgs) : msgs[i] \in Message
      /\ b \in Nat /\ s \in Seq(Message)
  BY MessageAt DEF Picked
<1>2. n \in Nat /\ n + 1 \in 1 .. Len(msgs)
  BY <1>1
<1>3. /\ t \in Seq(Message) /\ Len(t) = b + 1 /\ t[b + 1] = msgs[n + 1]
      /\ \A k \in 1 .. b : t[k] = s[k]
  BY <1>1, <1>2, AppendProperties
<1>4. \A i \in 1 .. (n + 1) : i \in 1 .. n \/ i = n + 1
  BY <1>2
<1>5. n + 1 \in 1 .. (n + 1) /\ \A i \in 1 .. n : i \in 1 .. (n + 1) /\ i \in 1 .. Len(msgs)
  BY <1>1, <1>2
<1>6. CASE n + 1 \notin places
  <2>1. Picked(msgs, places, s, n + 1)
    BY <1>4, <1>5, <1>6 DEF Picked
  <2> QED
    BY <1>6, <2>1
<1>7. CASE n + 1 \in places
  <2> HIDE DEF t, b
  <2>0. \A k \in 1 .. (b + 1) : k \in 1 .. b \/ k = b + 1
    BY <1>1
  <2>a. b + 1 \in 1 .. (b + 1) /\ \A k \in 1 .. b : k \in 1 .. (b + 1)
    BY <1>1
  <2>b. \A k \in 1 .. b : \E i \in 1 .. n : i \in places /\ s[k] = msgs[i]
    BY DEF Picked, b
  <2>c. \A i \in 1 .. n : i \in places => \E k \in 1 .. b : s[k] = msgs[i]
    BY DEF Picked, b
  <2>1. ASSUME NEW k \in 1 .. (b + 1)
        PROVE  \E i \in 1 .. (n + 1) : i \in places /\ t[k] = msgs[i]
    BY <1>3, <1>5, <1>7, <2>0, <2>b
  <2>2. ASSUME NEW i \in 1 .. (n + 1), i \in places
        PROVE  \E k \in 1 .. (b + 1) : t[k] = msgs[i]
    BY <1>3, <1>4, <2>2, <2>a, <2>c
  <2>3. ASSUME Sorted(msgs), NEW i \in 1 .. (b + 1), NEW j \in 1 .. (b + 1), i < j
        PROVE  t[i].n < t[j].n
    <3>1. i \in 1 .. b
      BY <1>1, <2>3
    <3>2. CASE j \in 1 .. b
      <4>1. s[i].n < s[j].n
        BY <2>3, <3>1, <3>2 DEF Picked, Sorted, b
      <4> QED
        BY <1>3, <3>1, <3>2, <4>1
    <3>3. CASE j = b + 1
      <4>1. PICK k \in 1 .. n : s[i] = msgs[k]
        BY <2>b, <3>1
      <4>2. k \in 1 .. Len(msgs) /\ k < n + 1
        BY <1>2, <1>5
      <4>3. msgs[k].n < msgs[n + 1].n
        BY <1>2, <2>3, <4>2 DEF Sorted
      <4> QED
        BY <1>3, <3>1, <3>3, <4>1, <4>3
    <3> QED
      BY <2>0, <3>2, <3>3
  <2>4. Sorted(msgs) => Sorted(t)
    BY <1>3, <2>3 DEF Sorted
  <2>5. Picked(msgs, places, t, n + 1)
    BY <1>3, <2>1, <2>2, <2>4 DEF Picked
  <2> QED
    BY <1>7, <2>5 DEF t
<1> QED
  BY <1>6, <1>7

LEMMA PickFacts ==
  ASSUME NEW msgs \in Seq(Message), NEW places
  PROVE  /\ Picked(msgs, places, Pick(msgs, places), Len(msgs))
         /\ Total(Pick(msgs, places)) <= Total(msgs)
<1> DEFINE b == Len(msgs)
           f == CHOOSE g : Picks(msgs, places, g)
<1>1. /\ b \in Nat
      /\ \A i \in 1 .. b : msgs[i] \in Message /\ msgs[i].size \in Nat
  BY MessageAt, MessageFields
<1>2. Pick(msgs, places) = f[b]
  BY DEF Pick, Picks, PickStep
<1>3. Picks(msgs, places, f)
  BY PicksExist
<1> HIDE DEF f, b
<1>4. \A n \in 0 .. b : f[n] = PickStep(msgs, places, f, n)
  BY <1>3 DEF Picks, b
<1>5. PICK h : /\ Total(msgs) = h[b] /\ h[0] = 0
               /\ \A n \in 0 .. b : h[n] \in Nat
               /\ \A n \in 1 .. b : h[n] = h[n - 1] + msgs[n].size
  BY TotalFacts DEF b
<1> DEFINE S == {n \in Nat : Picked(msgs, places, f[n], n) /\ Total(f[n]) <= h[n]}
<1>6. 0 \in S
  <2>1. f[0] = <<>>
    BY <1>1, <1>4 DEF PickStep
  <2>2. <<>> \in Seq(Message) /\ Len(<<>>) = 0
    BY EmptySeq
  <2>3. Picked(msgs, places, <<>>, 0)
    BY <2>2 DEF Picked, Sorted
  <2> QED
    BY <1>5, <2>1, <2>3, TotalEmpty
<1>7. ASSUME NEW n \in 0 .. (b - 1), n \in S PROVE n + 1 \in S
  <2>1. n + 1 \in 1 .. b /\ n + 1 \in 0 .. b /\ n \in 0 .. b /\ n + 1 # 0 /\ n + 1 - 1 = n
    BY <1>1
  <2>2. f[n + 1] = IF n + 1 \in places THEN Append(f[n], msgs[n + 1]) ELSE f[n]
    BY <1>4, <2>1 DEF PickStep
  <2>3. Picked(msgs, places, f[n + 1], n + 1)
    BY <1>7, <2>2, PickedMore DEF b
  <2>4. f[n] \in Seq(Message) /\ Total(f[n]) <= h[n]
    BY <1>7 DEF Picked
  <2>5. h[n + 1] = h[n] + msgs[n + 1].size /\ h[n] \in Nat /\ msgs[n + 1].size \in Nat
    BY <1>1, <1>5, <2>1
  <2>6. Total(f[n]) \in Nat
    BY <2>4, TotalFacts
  <2>7. CASE n + 1 \in places
    <3>1. Total(f[n + 1]) = Total(f[n]) + msgs[n + 1].size
      BY <1>1, <2>1, <2>2, <2>4, <2>7, TotalAppend
    <3> QED
      BY <2>3, <2>4, <2>5, <2>6, <3>1
  <2>8. CASE n + 1 \notin places
    <3>1. f[n + 1] = f[n]
      BY <2>2, <2>8
    <3> QED
      BY <2>3, <2>4, <2>5, <2>6, <3>1
  <2> QED
    BY <2>7, <2>8
<1> HIDE DEF S
<1>8. b \in S
  <2>1. 0 .. b \subseteq S
    BY <1>1, <1>6, <1>7, UpTo
  <2> QED
    BY <1>1, <2>1
<1> QED
  BY <1>2, <1>5, <1>8 DEF S, b

(* The messages after the first i, and their places.                       *)
LEMMA LaterFacts ==
  ASSUME NEW msgs \in Seq(Message), NEW i \in 0 .. Len(msgs)
  PROVE  /\ Later(msgs, i) \in Seq(Message)
         /\ Sorted(msgs) => Sorted(Later(msgs, i))
<1> DEFINE b == Len(msgs)
           t == Later(msgs, i)
<1>1. b \in Nat /\ \A k \in 1 .. b : msgs[k] \in Message
  BY MessageAt
<1>2. /\ t \in Seq(Message) /\ Len(t) = b - i
      /\ \A k \in 1 .. (b - i) : t[k] = msgs[i + k]
  <2>1. /\ i + 1 \in Int /\ b \in Int
        /\ \A k \in (i + 1) .. b : k \in 1 .. b
    BY <1>1
  <2>2. t = SubSeq(msgs, i + 1, b)
    BY DEF Later
  <2>3. /\ t \in Seq(Message)
        /\ Len(t) = IF i + 1 <= b THEN b - (i + 1) + 1 ELSE 0
        /\ \A k \in 1 .. (b - (i + 1) + 1) : t[k] = msgs[i + 1 + k - 1]
    BY <1>1, <2>1, <2>2, SubSeqProperties
  <2>4. \A k \in 1 .. (b - i) : k \in 1 .. (b - (i + 1) + 1) /\ i + 1 + k - 1 = i + k
    BY <1>1
  <2> QED
    BY <1>1, <2>3, <2>4
<1> HIDE DEF t
<1>3. ASSUME Sorted(msgs), NEW j \in 1 .. (b - i), NEW k \in 1 .. (b - i), j < k
      PROVE  t[j].n < t[k].n
  <2>1. i + j \in 1 .. b /\ i + k \in 1 .. b /\ i + j < i + k
    BY <1>1, <1>3
  <2>2. msgs[i + j].n < msgs[i + k].n
    BY <1>3, <2>1 DEF Sorted
  <2> QED
    BY <1>2, <2>2
<1>4. Sorted(msgs) => Sorted(t)
  BY <1>2, <1>3 DEF Sorted
<1> QED
  BY <1>2, <1>4 DEF t

-----------------------------------------------------------------------------
(* The token budget.                                                       *)

(* A list whose messages change in size and calls only.                    *)
SamePlaces(s, t) ==
  /\ s \in Seq(Message) /\ Len(s) = Len(t)
  /\ \A i \in 1 .. Len(t) : s[i].n = t[i].n /\ s[i].kind = t[i].kind

LEMMA SeqOfMessages ==
  ASSUME NEW b \in Nat, NEW s, s = [i \in 1 .. b |-> s[i]],
         \A i \in 1 .. b : s[i] \in Message
  PROVE  s \in Seq(Message) /\ Len(s) = b
<1>1. s \in [1 .. b -> Message]
  OBVIOUS
<1>2. s \in Seq(Message)
  BY <1>1, SeqDef
<1>3. Len(s) \in Nat /\ DOMAIN s = 1 .. Len(s) /\ DOMAIN s = 1 .. b
  BY <1>1, <1>2, LenProperties
<1>4. Len(s) = b
  <2>1. 1 .. Len(s) = 1 .. b
    BY <1>3
  <2> QED
    BY <1>3, <2>1
<1> QED
  BY <1>2, <1>4

LEMMA SortedSame ==
  ASSUME NEW s, NEW t, SamePlaces(s, t), Sorted(t)
  PROVE  Sorted(s)
BY DEF SamePlaces, Sorted

LEMMA TrimToolFacts ==
  ASSUME BudgetAssumption, NEW msgs \in Seq(Message), NEW i \in 1 .. Len(msgs)
  PROVE  /\ TrimTool(msgs, i) \in Message
         /\ TrimTool(msgs, i).n = msgs[i].n
         /\ TrimTool(msgs, i).kind = msgs[i].kind
<1> DEFINE tools == LaterTools(msgs, i)
           room == ToolMax - Total(tools)
           m == msgs[i]
<1>1. m \in Message
  BY MessageAt
<1>2. tools \in Seq(Message)
  BY PickFacts DEF LaterTools, Picked
<1>3. room \in Int
  BY <1>2, TotalFacts DEF BudgetAssumption
<1>4. TrimTool(msgs, i) = IF ~IsTool(m) \/ m.size <= room THEN m
                          ELSE IF room > 0 THEN [m EXCEPT !.size = room]
                          ELSE [m EXCEPT !.size = 1]
  BY DEF TrimTool, Placeholder
<1> HIDE DEF room, m
<1>5. room > 0 => room \in Nat
  BY <1>3
<1>6. \A s \in Nat : /\ [m EXCEPT !.size = s] \in Message
                     /\ [m EXCEPT !.size = s].n = m.n /\ [m EXCEPT !.size = s].kind = m.kind
  BY <1>1, MessageFields
<1>7. 1 \in Nat
  OBVIOUS
<1>8. CASE ~IsTool(m) \/ m.size <= room
  BY <1>1, <1>4, <1>8 DEF m
<1>9. CASE ~(~IsTool(m) \/ m.size <= room) /\ room > 0
  BY <1>4, <1>5, <1>6, <1>9 DEF m
<1>10. CASE ~(~IsTool(m) \/ m.size <= room) /\ ~(room > 0)
  BY <1>4, <1>6, <1>7, <1>10 DEF m
<1> QED
  BY <1>8, <1>9, <1>10

LEMMA TrimToolsFacts ==
  ASSUME BudgetAssumption, NEW msgs \in Seq(Message)
  PROVE  SamePlaces(TrimTools(msgs), msgs)
<1> DEFINE b == Len(msgs)
           s == TrimTools(msgs)
<1>1. b \in Nat /\ DOMAIN msgs = 1 .. b
  BY MessageAt
<1>2. s = [i \in 1 .. b |-> TrimTool(msgs, i)]
  BY <1>1 DEF TrimTools
<1>3. \A i \in 1 .. b : s[i] = TrimTool(msgs, i)
  BY <1>2
<1>4. s = [i \in 1 .. b |-> s[i]]
  BY <1>2
<1> HIDE DEF s
<1>5. \A i \in 1 .. b : s[i] \in Message /\ s[i].n = msgs[i].n /\ s[i].kind = msgs[i].kind
  BY <1>3, TrimToolFacts
<1> HIDE DEF b
<1>6. s \in Seq(Message) /\ Len(s) = b
  BY <1>1, <1>4, <1>5, SeqOfMessages
<1> QED
  BY <1>5, <1>6 DEF SamePlaces, s, b

(* What is dropped makes the rest fit, as dropping everything would.       *)
LEMMA NewestFits ==
  ASSUME NEW msgs \in Seq(Message), NEW budget \in Int, budget >= 0
  PROVE  /\ Newest(msgs, budget) \in Seq(Message)
         /\ Total(Newest(msgs, budget)) <= budget
         /\ Sorted(msgs) => Sorted(Newest(msgs, budget))
<1> DEFINE b == Len(msgs)
           F == Fits(msgs, budget)
           d == Dropped(msgs, budget)
<1>1. b \in Nat
  BY MessageAt
<1>2. Later(msgs, b) = <<>>
  <2>1. b + 1 \in Int /\ b \in Int /\ b < b + 1
    BY <1>1
  <2> QED
    BY <2>1, SubSeqEmpty DEF Later
<1>3. b \in F
  <2>1. Total(Later(msgs, b)) = 0
    BY <1>2, TotalEmpty
  <2> QED
    BY <1>1, <2>1 DEF Fits
<1>4. F \in SUBSET Nat
  BY <1>1 DEF Fits
<1>5. \E i \in F : \A j \in F : i <= j
  <2> HIDE DEF F
  <2> QED
    BY <1>3, <1>4, Minimum
<1>6. d \in F
  BY <1>5 DEF Dropped
<1>7. d \in 0 .. b /\ Total(Later(msgs, d)) <= budget
  BY <1>6 DEF Fits
<1> HIDE DEF d
<1> QED
  BY <1>7, LaterFacts DEF Newest, d

LEMMA EnforcedFacts ==
  ASSUME BudgetAssumption, NEW msgs \in Seq(Message), Sorted(msgs), Reserved \in Nat
  PROVE  /\ Enforced(msgs) \in Seq(Message)
         /\ Sorted(Enforced(msgs))
         /\ Reserved < Shared => Total(Enforced(msgs)) <= Shared - Reserved
<1> DEFINE budget == Shared - Reserved
<1>1. budget \in Int /\ (Reserved < Shared <=> budget > 0)
  BY DEF BudgetAssumption
<1>2. Enforced(msgs) = IF budget <= 0 THEN Pick(msgs, {Len(msgs)})
                       ELSE Newest(TrimTools(msgs), budget)
  BY DEF Enforced
<1> HIDE DEF budget
<1>3. CASE budget <= 0
  <2> DEFINE p == {Len(msgs)}
  <2>1. Enforced(msgs) = Pick(msgs, p)
    BY <1>2, <1>3
  <2>2. ~(Reserved < Shared)
    BY <1>1, <1>3
  <2> HIDE DEF p
  <2>3. Picked(msgs, p, Pick(msgs, p), Len(msgs))
    BY PickFacts
  <2> QED
    BY <2>1, <2>2, <2>3 DEF Picked
<1>4. CASE ~(budget <= 0)
  <2>1. SamePlaces(TrimTools(msgs), msgs)
    BY TrimToolsFacts
  <2>2. TrimTools(msgs) \in Seq(Message) /\ Sorted(TrimTools(msgs))
    BY <2>1, SortedSame DEF SamePlaces
  <2>3. budget >= 0
    BY <1>1, <1>4
  <2> QED
    BY <1>1, <1>2, <1>4, <2>2, <2>3, NewestFits DEF budget
<1> QED
  BY <1>3, <1>4

-----------------------------------------------------------------------------
(* sanitize_tool_messages.                                                 *)

LEMMA OfIs ==
  ASSUME NEW msgs \in Seq(Message), NEW kind
  PROVE  /\ \A x : x \in Of(msgs, kind) <=>
                \E i \in 1 .. Len(msgs) : msgs[i].kind = kind /\ x \in msgs[i].calls
         /\ Of(msgs, kind) \subseteq Ids
<1>1. DOMAIN msgs = 1 .. Len(msgs)
  BY MessageAt
<1>2. \A x : x \in Of(msgs, kind) <=>
                \E i \in 1 .. Len(msgs) : msgs[i].kind = kind /\ x \in msgs[i].calls
  BY <1>1 DEF Of
<1>3. \A i \in 1 .. Len(msgs) : msgs[i].calls \subseteq Ids
  BY MessageAt, MessageFields
<1> QED
  BY <1>2, <1>3

LEMMA StrippedFacts ==
  ASSUME NEW msgs \in Seq(Message)
  PROVE  /\ SamePlaces(Stripped(msgs), msgs)
         /\ Total(Stripped(msgs)) = Total(msgs)
         /\ \A i \in 1 .. Len(msgs) :
              /\ Stripped(msgs)[i].calls = msgs[i].calls \cap Valid(msgs)
<1> DEFINE b == Len(msgs)
           s == Stripped(msgs)
           V == Valid(msgs)
<1>1. b \in Nat /\ DOMAIN msgs = 1 .. b /\ \A i \in 1 .. b : msgs[i] \in Message
  BY MessageAt
<1>2. s = [i \in 1 .. b |-> [msgs[i] EXCEPT !.calls = msgs[i].calls \cap V]]
  BY <1>1 DEF Stripped
<1>3. \A i \in 1 .. b : s[i] = [msgs[i] EXCEPT !.calls = msgs[i].calls \cap V]
  BY <1>2
<1>4. s = [i \in 1 .. b |-> s[i]]
  BY <1>2
<1> HIDE DEF s, b, V
<1>5. ASSUME NEW i \in 1 .. b
      PROVE  /\ s[i] \in Message /\ s[i].n = msgs[i].n /\ s[i].kind = msgs[i].kind
             /\ s[i].size = msgs[i].size /\ s[i].calls = msgs[i].calls \cap V
  <2> DEFINE m == msgs[i]
             c == m.calls \cap V
  <2>1. m \in Message /\ s[i] = [m EXCEPT !.calls = c]
    BY <1>1, <1>3
  <2>2. c \in SUBSET Ids
    BY <2>1, MessageFields
  <2> HIDE DEF m, c
  <2>3. /\ s[i] \in Message /\ s[i].n = m.n /\ s[i].kind = m.kind
        /\ s[i].size = m.size /\ s[i].calls = c
    BY <2>1, <2>2, MessageFields
  <2> QED
    BY <2>3 DEF m, c
<1>6. s \in Seq(Message) /\ Len(s) = b
  BY <1>1, <1>4, <1>5, SeqOfMessages
<1>7. Total(s) = Total(msgs)
  BY <1>5, <1>6, TotalSame DEF b
<1> QED
  BY <1>5, <1>6, <1>7 DEF SamePlaces, s, b, V

Matched(msgs) == Of(msgs, "ai") = Of(msgs, "tool")

LEMMA PairedFacts ==
  ASSUME NEW msgs \in Seq(Message), Sorted(msgs)
  PROVE  /\ Paired(msgs) \in Seq(Message)
         /\ Sorted(Paired(msgs))
         /\ Matched(Paired(msgs))
         /\ Total(Paired(msgs)) <= Total(msgs)
<1> DEFINE s == Stripped(msgs)
           b == Len(msgs)
           V == Valid(msgs)
           Left(i) == s[i].calls # {}
           Kept(i) == /\ IsTool(msgs[i]) => Left(i)
                      /\ msgs[i].kind = "ai" /\ msgs[i].calls # {}
                           => Left(i) \/ msgs[i].size > 0
           P == {i \in DOMAIN msgs : Kept(i)}
           t == Paired(msgs)
<1>1. t = Pick(s, P)
  BY DEF Paired
<1>2. /\ s \in Seq(Message) /\ Len(s) = b
      /\ \A i \in 1 .. b : /\ s[i].n = msgs[i].n /\ s[i].kind = msgs[i].kind
                           /\ s[i].calls = msgs[i].calls \cap V
      /\ Sorted(s) /\ Total(s) = Total(msgs)
  BY StrippedFacts, SortedSame DEF SamePlaces
<1>3. \A i \in 1 .. b : (s[i].kind \in {"ai", "tool"} /\ s[i].calls # {}) => i \in P
  <2>1. DOMAIN msgs = 1 .. b
    BY MessageAt
  <2> QED
    BY <1>2, <2>1 DEF IsTool
<1> HIDE DEF s, P, t
<1>4. Picked(s, P, t, b) /\ Total(t) <= Total(s)
  BY <1>1, <1>2, PickFacts
<1> HIDE DEF b, V
<1>5. /\ t \in Seq(Message) /\ Sorted(t)
      /\ \A k \in 1 .. Len(t) : \E i \in 1 .. b : t[k] = s[i]
      /\ \A i \in 1 .. b : i \in P => \E k \in 1 .. Len(t) : t[k] = s[i]
  BY <1>2, <1>4 DEF Picked
<1>6. ASSUME NEW kind \in {"ai", "tool"} PROVE Of(t, kind) = V
  <2>1. ASSUME NEW x, x \in Of(t, kind) PROVE x \in V
    <3>1. PICK k \in 1 .. Len(t) : t[k].kind = kind /\ x \in t[k].calls
      BY <1>5, <2>1, OfIs
    <3>2. PICK i \in 1 .. b : t[k] = s[i]
      BY <1>5
    <3> QED
      BY <1>2, <3>1, <3>2
  <2>2. ASSUME NEW x, x \in V PROVE x \in Of(t, kind)
    <3>1. x \in Of(msgs, kind)
      BY <1>6, <2>2 DEF V, Valid
    <3>2. PICK i \in 1 .. b : msgs[i].kind = kind /\ x \in msgs[i].calls
      BY <3>1, OfIs DEF b
    <3>3. s[i].kind = kind /\ x \in s[i].calls
      BY <1>2, <2>2, <3>2
    <3>4. i \in P
      BY <1>3, <1>6, <3>3
    <3>5. PICK k \in 1 .. Len(t) : t[k] = s[i]
      BY <1>5, <3>4
    <3> QED
      BY <1>5, <3>3, <3>5, OfIs
  <2> QED
    BY <2>1, <2>2
<1>7. Matched(t)
  BY <1>6 DEF Matched
<1> QED
  BY <1>2, <1>4, <1>5, <1>7 DEF t

-----------------------------------------------------------------------------
(* The question: the last message of the user.                             *)

LEMMA LastHumanIs ==
  ASSUME NEW msgs \in Seq(Message), Humans(msgs) # {}
  PROVE  /\ LastHuman(msgs) \in 1 .. Len(msgs)
         /\ msgs[LastHuman(msgs)] \in Message
         /\ msgs[LastHuman(msgs)].kind = "human"
         /\ \A j \in Humans(msgs) : j <= LastHuman(msgs)
<1> DEFINE b == Len(msgs)
           H == Humans(msgs)
           T == {b - i : i \in H}
<1>1. b \in Nat /\ DOMAIN msgs = 1 .. b /\ \A i \in 1 .. b : msgs[i] \in Message
  BY MessageAt
<1>2. H = {i \in 1 .. b : msgs[i].kind = "human"}
  BY <1>1 DEF Humans
<1>3. \A i \in H : i \in 1 .. b
  BY <1>2
<1> HIDE DEF H, b
<1>4. \A i \in H : b - i \in Nat
  BY <1>1, <1>3
<1>5. T \in SUBSET Nat /\ T # {}
  BY <1>4 DEF H
<1>6. PICK m \in T : \A k \in T : m <= k
  BY <1>5, Minimum
<1>7. PICK i \in H : m = b - i
  OBVIOUS
<1>8. \A j \in H : j <= i
  <2>1. ASSUME NEW j \in H PROVE j <= i
    <3>1. b - i <= b - j
      BY <1>6, <1>7
    <3> QED
      BY <1>1, <1>3, <3>1
  <2> QED
    BY <2>1
<1>9. LastHuman(msgs) \in H /\ \A j \in H : j <= LastHuman(msgs)
  BY <1>8 DEF LastHuman, H
<1> QED
  BY <1>1, <1>2, <1>9 DEF b, H

(* q is a message of the user, and no other is later.                      *)
Asks(msgs, q) ==
  /\ q \in Message /\ q.kind = "human"
  /\ \E i \in 1 .. Len(msgs) : msgs[i] = q
  /\ \A j \in 1 .. Len(msgs) : msgs[j].kind = "human" => msgs[j].n <= q.n

LEMMA HumansAre ==
  ASSUME NEW msgs \in Seq(Message)
  PROVE  /\ Humans(msgs) = {i \in 1 .. Len(msgs) : msgs[i].kind = "human"}
         /\ \A q : Asks(msgs, q) => Humans(msgs) # {}
BY MessageAt DEF Humans, Asks

LEMMA AsksLast ==
  ASSUME NEW msgs \in Seq(Message), Sorted(msgs), Humans(msgs) # {}
  PROVE  /\ Asks(msgs, msgs[LastHuman(msgs)])
         /\ \A q : Asks(msgs, q) => q = msgs[LastHuman(msgs)]
<1> DEFINE b == Len(msgs)
           l == LastHuman(msgs)
<1>1. b \in Nat /\ \A i \in 1 .. b : msgs[i] \in Message /\ msgs[i].n \in Nat
  BY MessageAt, MessageFields
<1>2. l \in 1 .. b /\ msgs[l].kind = "human" /\ \A j \in Humans(msgs) : j <= l
  BY LastHumanIs
<1> HIDE DEF b, l
<1>3. \A j \in 1 .. b : msgs[j].kind = "human" => j <= l
  BY <1>2, HumansAre DEF b
<1>4. \A i, j \in 1 .. b : i < j => msgs[i].n < msgs[j].n
  BY DEF Sorted, b
<1>5. ASSUME NEW j \in 1 .. b, msgs[j].kind = "human" PROVE msgs[j].n <= msgs[l].n
  <2>1. j = l \/ j < l
    BY <1>1, <1>2, <1>3, <1>5
  <2> QED
    BY <1>1, <1>2, <1>4, <2>1
<1>6. ASSUME NEW q, Asks(msgs, q) PROVE q = msgs[l]
  <2>1. PICK i \in 1 .. b : msgs[i] = q
    BY <1>6 DEF Asks, b
  <2>2. q.kind = "human" /\ msgs[l].n <= q.n
    BY <1>2, <1>6 DEF Asks, b
  <2>3. i <= l /\ ~(i < l)
    BY <1>1, <1>2, <1>3, <1>4, <2>1, <2>2
  <2>4. i = l
    BY <1>1, <1>2, <2>3
  <2> QED
    BY <2>1, <2>4
<1> QED
  BY <1>1, <1>2, <1>5, <1>6 DEF Asks, b, l

LEMMA OnlyQuestion ==
  ASSUME NEW q \in Message
  PROVE  /\ <<q>> \in Seq(Message) /\ Sorted(<<q>>)
         /\ q.kind = "human" => Asks(<<q>>, q)
<1> DEFINE s == <<q>>
<1>1. s \in Seq(Message) /\ Len(s) = 1 /\ s[1] = q
  OBVIOUS
<1>2. q.n \in Nat
  BY MessageFields
<1> HIDE DEF s
<1>3. 1 \in 1 .. 1 /\ \A i \in 1 .. 1 : i = 1
  OBVIOUS
<1>4. Sorted(s)
  BY <1>1, <1>3 DEF Sorted
<1>5. q.kind = "human" => Asks(s, q)
  BY <1>1, <1>2, <1>3 DEF Asks
<1> QED
  BY <1>1, <1>4, <1>5 DEF s

LEMMA AgedFacts ==
  ASSUME NEW msgs \in Seq(Message), NEW w
  PROVE  /\ SamePlaces(Aged(msgs, w), msgs)
         /\ \A i \in 1 .. Len(msgs) :
              msgs[i].kind = "human" => Aged(msgs, w)[i] = msgs[i]
<1> DEFINE b == Len(msgs)
           s == Aged(msgs, w)
<1>1. b \in Nat /\ DOMAIN msgs = 1 .. b /\ \A i \in 1 .. b : msgs[i] \in Message
  BY MessageAt
<1>2. s = [i \in 1 .. b |-> IF i <= w /\ IsTool(msgs[i]) THEN Placeholder(msgs[i]) ELSE msgs[i]]
  BY <1>1 DEF Aged
<1>3. \A i \in 1 .. b :
        s[i] = IF i <= w /\ IsTool(msgs[i]) THEN Placeholder(msgs[i]) ELSE msgs[i]
  BY <1>2
<1>4. s = [i \in 1 .. b |-> s[i]]
  BY <1>2
<1> HIDE DEF s, b
<1>5. ASSUME NEW i \in 1 .. b
      PROVE  s[i] \in Message /\ s[i].n = msgs[i].n /\ s[i].kind = msgs[i].kind
  <2> DEFINE m == msgs[i]
  <2>1. m \in Message
    BY <1>1
  <2> HIDE DEF m
  <2>2. 1 \in Nat
    OBVIOUS
  <2>3. LET p == Placeholder(m) IN p \in Message /\ p.n = m.n /\ p.kind = m.kind
    BY <2>1, <2>2, MessageFields DEF Placeholder
  <2> QED
    BY <1>3, <2>1, <2>3 DEF m
<1>6. s \in Seq(Message) /\ Len(s) = b
  BY <1>1, <1>4, <1>5, SeqOfMessages
<1>7. \A i \in 1 .. b : msgs[i].kind = "human" => s[i] = msgs[i]
  BY <1>3 DEF IsTool
<1> QED
  BY <1>5, <1>6, <1>7 DEF SamePlaces, s, b

(* A round of the guard keeps the question.                                *)
LEMMA DropFacts ==
  ASSUME NEW msgs \in Seq(Message), Sorted(msgs)
  PROVE  /\ Drop(msgs) \in Seq(Message) /\ Sorted(Drop(msgs))
         /\ \A q : Asks(msgs, q) => Asks(Drop(msgs), q)
<1> DEFINE b == Len(msgs)
           w == Window(msgs)
           s == Aged(msgs, w)
           Question(i) == i \in Humans(msgs) /\ i = LastHuman(msgs)
           P == {i \in DOMAIN msgs : i > w \/ IsTool(msgs[i]) \/ Question(i)}
           t == Drop(msgs)
<1>1. t = Pick(s, P)
  BY DEF Drop
<1>2. /\ s \in Seq(Message) /\ Len(s) = b /\ Sorted(s)
      /\ \A i \in 1 .. b : /\ s[i].kind = msgs[i].kind
                           /\ msgs[i].kind = "human" => s[i] = msgs[i]
  BY AgedFacts, SortedSame DEF SamePlaces
<1>3. \A i \in 1 .. b : Question(i) => i \in P
  BY MessageAt
<1> HIDE DEF s, w, P, t, b
<1>4. Picked(s, P, t, b)
  BY <1>1, <1>2, PickFacts
<1>5. ASSUME NEW q, Asks(msgs, q) PROVE Asks(t, q)
  <2> DEFINE l == LastHuman(msgs)
  <2>1. Humans(msgs) # {}
    BY <1>5, HumansAre
  <2>2. q = msgs[l] /\ l \in 1 .. b /\ q.kind = "human" /\ l \in Humans(msgs)
    BY <1>5, <2>1, AsksLast, LastHumanIs, HumansAre DEF b
  <2>3. l \in P /\ s[l] = q
    BY <1>2, <1>3, <2>2
  <2> HIDE DEF l
  <2>4. \E k \in 1 .. Len(t) : t[k] = q
    BY <1>4, <2>2, <2>3 DEF Picked
  <2>5. ASSUME NEW k \in 1 .. Len(t), t[k].kind = "human" PROVE t[k].n <= q.n
    <3>1. PICK i \in 1 .. b : t[k] = s[i]
      BY <1>4 DEF Picked
    <3>2. msgs[i].kind = "human" /\ t[k] = msgs[i]
      BY <1>2, <2>5, <3>1
    <3> QED
      BY <1>5, <3>2 DEF Asks, b
  <2> QED
    BY <1>5, <2>4, <2>5 DEF Asks
<1> QED
  BY <1>2, <1>4, <1>5 DEF Picked, t

-----------------------------------------------------------------------------
(* The invariant of a call.                                                *)

Question == override[LastHuman(override)]

Roomy(msgs) == Reserved < Shared => Total(msgs) <= Shared - Reserved

Bound == pc \in {"keep", "trim", "last", "decide", "sent", "blocked"}

(* From the merge on, what is sent is paired and fits, and the guard has   *)
(* its question; when it decides, it has nothing else if there is still    *)
(* too much.                                                               *)
GuardInv ==
  /\ GuardTypeOK
  /\ Sorted(messages) /\ Sorted(override)
  /\ pc \in {"pair", "merge"} => Roomy(messages)
  /\ pc = "merge" => Matched(messages)
  /\ Bound => Roomy(override) /\ Matched(override)
  /\ Bound /\ Humans(override) # {} => Asks(messages, Question)
  /\ pc = "decide" /\ Humans(override) # {} =>
       (Counted(messages) > input.limit => messages = <<Question>>)
  /\ BlockedOnlyIfHopeless

LEMMA ReservedNat ==
  ASSUME BudgetAssumption, input \in Inputs
  PROVE  /\ Reserved \in Nat /\ {input.fixed, input.recall, input.reminder} \subseteq Nat
         /\ Shared \in Nat
BY DEF BudgetAssumption, Reserved

LEMMA TrimmedBlocks ==
  ASSUME BudgetAssumption, input \in Inputs,
         blocks \in [recall: 0 .. input.recall, reminder: 0 .. input.reminder]
  PROVE  [name \in DOMAIN blocks |-> TrimBlock(name, blocks[name])]
           \in [recall: 0 .. input.recall, reminder: 0 .. input.reminder]
<1> DEFINE c == [name \in DOMAIN blocks |-> TrimBlock(name, blocks[name])]
<1>1. DOMAIN blocks = {"recall", "reminder"}
  OBVIOUS
<1>2. blocks.recall \in 0 .. input.recall /\ blocks.reminder \in 0 .. input.reminder
  OBVIOUS
<1>3. input.recall \in Nat /\ input.reminder \in Nat
  BY ReservedNat
<1>4. ASSUME NEW name, NEW n \in Nat, NEW size \in 0 .. n PROVE TrimBlock(name, size) \in 0 .. n
  BY DEF TrimBlock
<1>5. c = [name \in {"recall", "reminder"} |-> TrimBlock(name, blocks[name])]
  BY <1>1
<1>6. c.recall \in 0 .. input.recall /\ c.reminder \in 0 .. input.reminder
  BY <1>2, <1>3, <1>4, <1>5
<1>7. c = [recall |-> c.recall, reminder |-> c.reminder]
  BY <1>5
<1> QED
  BY <1>6, <1>7

LEMMA GuardBegins == ASSUME BudgetAssumption, GuardInit PROVE GuardInv
<1>1. /\ input \in Inputs /\ pc = "enforce" /\ messages = input.history /\ override = <<>>
      /\ blocks = [recall |-> input.recall, reminder |-> input.reminder] /\ rounds = 0
  BY DEF GuardInit
<1>2. messages \in Seq(Message) /\ \A i \in DOMAIN messages : messages[i].n = i
  BY <1>1 DEF BudgetAssumption
<1>3. Len(messages) \in Nat /\ DOMAIN messages = 1 .. Len(messages)
  BY <1>2, MessageAt
<1>4. Sorted(messages)
  BY <1>2, <1>3 DEF Sorted
<1>5. <<>> \in Seq(Message) /\ Sorted(<<>>)
  BY EmptySeq DEF Sorted
<1>6. blocks \in [recall: 0 .. input.recall, reminder: 0 .. input.reminder]
  <2>1. input.recall \in 0 .. input.recall /\ input.reminder \in 0 .. input.reminder
    BY <1>1, ReservedNat
  <2> QED
    BY <1>1, <2>1
<1>7. rounds \in 0 .. MaxRounds
  BY <1>1 DEF BudgetAssumption
<1> QED
  BY <1>1, <1>2, <1>4, <1>5, <1>6, <1>7
  DEF GuardInv, GuardTypeOK, Bound, BlockedOnlyIfHopeless

(* A step of the guard, after what is sent was bound.                      *)
LEMMA GuardedStep ==
  ASSUME GuardInv, Bound, Bound', UNCHANGED <<input, override>>, GuardTypeOK',
         Sorted(messages'),
         Humans(override) # {} => Asks(messages', Question),
         pc' = "decide" /\ Humans(override) # {} =>
           (Counted(messages)' > input.limit => messages' = <<Question>>),
         BlockedOnlyIfHopeless'
  PROVE  GuardInv'
<1>1. Roomy(override)' /\ Matched(override)'
  <2>1. CASE pc \in {"sent", "blocked"}
    BY DEF GuardInv, Roomy, Matched, Reserved, Of, Total
  <2> QED
    BY DEF GuardInv, Roomy, Matched, Reserved, Of, Total
<1>2. /\ Question' = Question /\ Humans(override)' = Humans(override)
      /\ pc' \notin {"pair", "merge"}
  BY DEF Question, LastHuman, Humans, Bound
<1>3. Asks(messages, Question)' <=> Asks(messages', Question)
  BY <1>2 DEF Asks
<1>4. Sorted(messages)' /\ Sorted(override)'
  BY DEF GuardInv, Sorted
<1>5. (pc = "decide" /\ Humans(override) # {} =>
         (Counted(messages) > input.limit => messages = <<Question>>))'
  BY <1>2
<1> QED
  BY <1>1, <1>2, <1>3, <1>4, <1>5 DEF GuardInv

LEMMA GuardKept ==
  ASSUME BudgetAssumption, GuardInv, [GuardNext]_guardVars
  PROVE  GuardInv'
<1>a. /\ GuardTypeOK /\ messages \in Seq(Message) /\ override \in Seq(Message)
      /\ Sorted(messages) /\ Sorted(override) /\ input \in Inputs
  BY DEF GuardInv, GuardTypeOK
<1>b. Reserved \in Nat /\ Shared \in Nat
  BY <1>a, ReservedNat
<1>1. CASE UNCHANGED guardVars
  <2>1. /\ messages' = messages /\ override' = override
        /\ UNCHANGED <<input, pc, blocks, rounds>>
    BY <1>1 DEF guardVars
  <2>2. /\ Roomy(messages)' = Roomy(messages) /\ Roomy(override)' = Roomy(override)
        /\ Counted(messages)' = Counted(messages) /\ Question' = Question
    BY <2>1 DEF Roomy, Reserved, Counted, Question, LastHuman, Humans
  <2>3. /\ Matched(messages)' = Matched(messages) /\ Matched(override)' = Matched(override)
        /\ Sorted(messages)' = Sorted(messages) /\ Sorted(override)' = Sorted(override)
        /\ Humans(override)' = Humans(override) /\ Bound' = Bound
    BY <2>1 DEF Matched, Of, Sorted, Humans, Bound
  <2>4. Asks(messages, Question)' = Asks(messages, Question)
    BY <2>1, <2>2 DEF Asks
  <2>5. GuardTypeOK' = GuardTypeOK
    BY <2>1 DEF GuardTypeOK
  <2>6. BlockedOnlyIfHopeless' = BlockedOnlyIfHopeless
    BY <2>1 DEF BlockedOnlyIfHopeless, Counted, LastHuman, Humans
  <2> QED
    BY <2>1, <2>2, <2>3, <2>4, <2>5, <2>6 DEF GuardInv
<1>2. CASE Enforce
  <2>1. /\ messages' = Enforced(messages) /\ pc = "enforce" /\ pc' = "pair"
        /\ UNCHANGED <<input, override, blocks, rounds>>
    BY <1>2 DEF Enforce
  <2>2. /\ messages' \in Seq(Message) /\ Sorted(messages')
        /\ Reserved < Shared => Total(messages') <= Shared - Reserved
    BY <1>a, <1>b, <2>1, EnforcedFacts
  <2>3. Roomy(messages)'
    BY <2>1, <2>2 DEF Roomy, Reserved, Total
  <2>4. Sorted(messages)' /\ Sorted(override)'
    BY <1>a, <2>1, <2>2 DEF Sorted
  <2> QED
    BY <1>a, <2>1, <2>2, <2>3, <2>4
    DEF GuardInv, GuardTypeOK, Bound, BlockedOnlyIfHopeless
<1>3. CASE Pair
  <2>1. /\ messages' = Paired(messages) /\ pc = "pair" /\ pc' = "merge"
        /\ UNCHANGED <<input, override, blocks, rounds>>
    BY <1>3 DEF Pair
  <2>2. /\ messages' \in Seq(Message) /\ Sorted(messages') /\ Matched(messages')
        /\ Total(messages') <= Total(messages)
    BY <1>a, <2>1, PairedFacts
  <2>3. Total(messages) \in Nat /\ Total(messages') \in Nat /\ Roomy(messages)
    BY <1>a, <2>1, <2>2, TotalFacts DEF GuardInv
  <2>4. Reserved < Shared => Total(messages') <= Shared - Reserved
    BY <1>b, <2>2, <2>3 DEF Roomy
  <2>5. Roomy(messages)'
    BY <2>1, <2>4 DEF Roomy, Reserved, Total
  <2>6. Sorted(messages)' /\ Sorted(override)' /\ Matched(messages)'
    BY <1>a, <2>1, <2>2 DEF Sorted, Matched, Of
  <2> QED
    BY <1>a, <2>1, <2>2, <2>5, <2>6
    DEF GuardInv, GuardTypeOK, Bound, BlockedOnlyIfHopeless
<1>4. CASE Merge
  <2>1. /\ override' = messages /\ messages' = messages /\ pc = "merge" /\ pc' = "keep"
        /\ UNCHANGED <<input, blocks, rounds>>
    BY <1>4 DEF Merge
  <2>2. Roomy(messages) /\ Matched(messages)
    BY <2>1 DEF GuardInv
  <2>a. Roomy(override)'
    BY <2>1, <2>2 DEF Roomy, Reserved
  <2>b. Matched(override)'
    BY <2>1, <2>2 DEF Matched, Of
  <2>3. Roomy(override)' /\ Matched(override)'
    BY <2>a, <2>b
  <2>4. Sorted(messages)' /\ Sorted(override)'
    BY <1>a, <2>1 DEF Sorted
  <2>5. Humans(messages) # {} => Asks(messages, messages[LastHuman(messages)])
    BY <1>a, AsksLast
  <2>6. (Humans(override) # {} => Asks(messages, Question))'
    BY <2>1, <2>5 DEF Humans, Asks, Question, LastHuman
  <2> QED
    BY <1>a, <2>1, <2>3, <2>4, <2>6
    DEF GuardInv, GuardTypeOK, Bound, BlockedOnlyIfHopeless
<1> DEFINE asked == Humans(override) # {}
<1>5. ASSUME Bound, asked
      PROVE  /\ Asks(messages, Question) /\ Question \in Message /\ Question.kind = "human"
             /\ Humans(messages) # {} /\ Question = messages[LastHuman(messages)]
  <2>1. Asks(messages, Question)
    BY <1>5 DEF GuardInv
  <2>2. Humans(messages) # {}
    BY <1>a, <2>1, HumansAre
  <2>3. Question = messages[LastHuman(messages)]
    BY <1>a, <2>1, <2>2, AsksLast
  <2> QED
    BY <2>1, <2>2, <2>3 DEF Asks
<1>6. CASE KeepHuman
  <2>1. /\ pc = "keep" /\ pc' = "trim" /\ UNCHANGED <<input, override, blocks, rounds>>
        /\ Bound /\ Bound'
    BY <1>6 DEF KeepHuman, Bound
  <2> DEFINE q == messages[LastHuman(messages)]
  <2>2. \/ messages' = messages
        \/ Humans(messages) # {} /\ messages' = <<q>>
    BY <1>6 DEF KeepHuman
  <2>3. CASE messages' = messages
    <3>1. GuardTypeOK' /\ Sorted(messages')
      BY <1>a, <2>1, <2>3 DEF GuardTypeOK
    <3>2. asked => Asks(messages', Question)
      BY <1>5, <2>1, <2>3
    <3>3. pc' # "decide" /\ BlockedOnlyIfHopeless'
      BY <2>1 DEF BlockedOnlyIfHopeless
    <3> QED
      BY <2>1, <3>1, <3>2, <3>3, GuardedStep
  <2>4. CASE Humans(messages) # {} /\ messages' = <<q>>
    <3>1. q \in Message
      BY <1>a, <2>4, LastHumanIs
    <3>2. asked => q = Question /\ q.kind = "human"
      BY <1>5, <2>1
    <3> HIDE DEF q
    <3>3. messages' \in Seq(Message) /\ Sorted(messages')
      BY <2>4, <3>1, OnlyQuestion
    <3>4. asked => Asks(messages', Question)
      BY <2>4, <3>1, <3>2, OnlyQuestion
    <3>5. GuardTypeOK'
      BY <1>a, <2>1, <3>3 DEF GuardTypeOK
    <3>6. pc' # "decide" /\ BlockedOnlyIfHopeless'
      BY <2>1 DEF BlockedOnlyIfHopeless
    <3> QED
      BY <2>1, <3>3, <3>4, <3>5, <3>6, GuardedStep
  <2> QED
    BY <2>2, <2>3, <2>4
<1>7. CASE Trim
  <2>1. /\ pc = "trim" /\ pc' = "trim" /\ UNCHANGED <<input, override>>
        /\ Bound /\ Bound' /\ rounds < MaxRounds /\ rounds' = rounds + 1
        /\ blocks' = [name \in DOMAIN blocks |-> TrimBlock(name, blocks[name])]
        /\ messages' \in {Drop(messages), messages}
    BY <1>7 DEF Trim, Bound
  <2>2. messages' \in Seq(Message) /\ Sorted(messages')
    BY <1>a, <2>1, DropFacts
  <2>3. asked => Asks(messages', Question)
    BY <1>5, <1>a, <2>1, DropFacts
  <2>4. blocks' \in [recall: 0 .. input.recall, reminder: 0 .. input.reminder]
    BY <1>a, <2>1, TrimmedBlocks DEF GuardTypeOK
  <2>5. rounds' \in 0 .. MaxRounds
    BY <1>a, <2>1 DEF GuardTypeOK, BudgetAssumption
  <2>6. GuardTypeOK'
    BY <1>a, <2>1, <2>2, <2>4, <2>5 DEF GuardTypeOK
  <2>7. pc' # "decide" /\ BlockedOnlyIfHopeless'
    BY <2>1 DEF BlockedOnlyIfHopeless
  <2> QED
    BY <2>1, <2>2, <2>3, <2>6, <2>7, GuardedStep
<1>8. CASE EndTrim
  <2>1. /\ pc = "trim" /\ pc' = "last" /\ UNCHANGED <<input, messages, override, blocks, rounds>>
        /\ Bound /\ Bound'
    BY <1>8 DEF EndTrim, Bound
  <2>2. GuardTypeOK' /\ Sorted(messages')
    BY <1>a, <2>1 DEF GuardTypeOK
  <2>3. asked => Asks(messages', Question)
    BY <1>5, <2>1
  <2>4. pc' # "decide" /\ BlockedOnlyIfHopeless'
    BY <2>1 DEF BlockedOnlyIfHopeless
  <2> QED
    BY <2>1, <2>2, <2>3, <2>4, GuardedStep
<1>9. CASE LastResort
  <2> DEFINE q == messages[LastHuman(messages)]
             over == Counted(messages) > input.limit
  <2>1. /\ pc = "last" /\ pc' = "decide" /\ UNCHANGED <<input, override, blocks, rounds>>
        /\ Bound /\ Bound'
        /\ messages' = IF over /\ Humans(messages) # {} THEN <<q>> ELSE messages
    BY <1>9 DEF LastResort, Bound
  <2>2. asked => Humans(messages) # {} /\ q = Question /\ q.kind = "human"
                 /\ Asks(messages, Question)
    BY <1>5, <2>1
  <2>3. Humans(messages) # {} => q \in Message
    BY <1>a, LastHumanIs
  <2>4. messages' = messages => Counted(messages)' = Counted(messages)
    BY <2>1 DEF Counted
  <2> HIDE DEF q, over
  <2>5. messages' \in Seq(Message) /\ Sorted(messages')
    BY <1>a, <2>1, <2>3, OnlyQuestion
  <2>6. asked => Asks(messages', Question)
    BY <2>1, <2>2, <2>3, OnlyQuestion
  <2>7. asked => (Counted(messages)' > input.limit => messages' = <<Question>>)
    BY <2>1, <2>2, <2>4 DEF over
  <2>8. GuardTypeOK'
    BY <1>a, <2>1, <2>5 DEF GuardTypeOK
  <2>9. BlockedOnlyIfHopeless'
    BY <2>1 DEF BlockedOnlyIfHopeless
  <2> QED
    BY <2>1, <2>5, <2>6, <2>7, <2>8, <2>9, GuardedStep
<1>10. CASE Decide
  <2>1. /\ pc = "decide" /\ pc' = IF Counted(messages) > input.limit THEN "blocked" ELSE "sent"
        /\ UNCHANGED <<input, messages, override, blocks, rounds>>
    BY <1>10 DEF Decide
  <2>2. Bound /\ Bound' /\ pc' # "decide" /\ pc' \in {"blocked", "sent"}
    BY <2>1 DEF Bound
  <2>3. GuardTypeOK' /\ Sorted(messages')
    BY <1>a, <2>1, <2>2 DEF GuardTypeOK
  <2>4. asked => Asks(messages', Question)
    BY <1>5, <2>1, <2>2
  <2>5. pc' = "blocked" /\ asked => Counted(<<Question>>) > input.limit
    <3>1. pc' = "blocked" => Counted(messages) > input.limit
      BY <2>1
    <3>2. asked => (Counted(messages) > input.limit => messages = <<Question>>)
      BY <2>1 DEF GuardInv
    <3> QED
      BY <3>1, <3>2
  <2>6. BlockedOnlyIfHopeless'
    BY <2>1, <2>5 DEF BlockedOnlyIfHopeless, Question, Humans, LastHuman, Counted, Total
  <2> QED
    BY <2>1, <2>2, <2>3, <2>4, <2>6, GuardedStep
<1> QED
  BY <1>1, <1>2, <1>3, <1>4, <1>6, <1>7, <1>8, <1>9, <1>10 DEF GuardNext

LEMMA GuardAlways == ASSUME BudgetAssumption PROVE GuardSpec => []GuardInv
BY GuardBegins, GuardKept, PTL DEF GuardSpec

(* The message lists and the blocks keep their types in every call.        *)
THEOREM GuardTypes == GuardSpec => []GuardTypeOK
<1>1. GuardInv => GuardTypeOK
  BY DEF GuardInv
<1> QED
  BY <1>1, BudgetAssumption, GuardAlways, PTL

(* Whatever the history, the budgets and the number of rounds: the guard   *)
(* keeps the last message of the user that reached it.                     *)
THEOREM QuestionKept == GuardSpec => []QuestionSurvivesGuard
<1>1. GuardInv => QuestionSurvivesGuard
  <2> SUFFICES ASSUME GuardInv, Guarding, Humans(override) # {}
      PROVE  \E i \in DOMAIN messages : messages[i].n = Question.n
    BY DEF QuestionSurvivesGuard, Question
  <2>1. Asks(messages, Question)
    BY DEF GuardInv, Guarding, Bound
  <2>2. DOMAIN messages = 1 .. Len(messages)
    BY MessageAt DEF GuardInv, GuardTypeOK
  <2> QED
    BY <2>1, <2>2 DEF Asks
<1> QED
  BY <1>1, BudgetAssumption, GuardAlways, PTL

(* Wherever the budget cuts the history, what is sent has an answer to     *)
(* every tool call and a call to every answer.                             *)
THEOREM Pairs == GuardSpec => []SentIsPaired
<1>1. GuardInv => SentIsPaired
  BY DEF GuardInv, SentIsPaired, Bound, Matched
<1> QED
  BY <1>1, BudgetAssumption, GuardAlways, PTL

(* A call is refused only when what the guard counts of its question is    *)
(* too long by itself, and the contents of a request that is made keep to  *)
(* the shared budget if its blocks do.  The arguments of tool calls are    *)
(* counted by neither and come on top.                                     *)
THEOREM DecidesRight == GuardSpec => []GuardDecidesRight
<1>1. GuardInv => GuardDecidesRight
  <2> SUFFICES ASSUME GuardInv, pc = "sent", Reserved < Shared PROVE SentContents <= Shared
    BY DEF GuardInv, GuardDecidesRight, ContentsFit
  <2>1. Total(override) <= Shared - Reserved
    BY DEF GuardInv, Bound, Roomy
  <2>2. Total(override) \in Nat
    BY TotalFacts DEF GuardInv, GuardTypeOK
  <2>3. /\ input.fixed \in Nat /\ input.recall \in Nat /\ input.reminder \in Nat
        /\ Shared \in Nat
    BY BudgetAssumption, ReservedNat DEF GuardInv, GuardTypeOK
  <2>4. blocks.recall \in 0 .. input.recall /\ blocks.reminder \in 0 .. input.reminder
    BY DEF GuardInv, GuardTypeOK
  <2> QED
    BY <2>1, <2>2, <2>3, <2>4 DEF SentContents, Reserved
<1> QED
  BY <1>1, BudgetAssumption, GuardAlways, PTL

-----------------------------------------------------------------------------
(* Session distillation: what is counted, and what became of it.  The      *)
(* state is an argument of these definitions: T is text, L length, F fate. *)

Numbers == 1 .. MaxMessages

(* A message that carries text, or may come to do so.                      *)
Open(T, L, s, m) == m \in T[s] \/ m > L[s]

Fated(F, s, m) == \E l \in Fates : <<<<s, m>>, l>> \in F

(* Counted through another session's name, or where a counter led to when  *)
(* the file below it was shortened.                                        *)
IsShortened(F, s, m) == <<<<s, m>>, "shortened">> \in F
Displaced(F, s, m) == <<<<s, m>>, "swept">> \in F \/ IsShortened(F, s, m)

(* The last message of each session that a state file f passes over, when  *)
(* D says what is no longer in the files.                                  *)
Upto(f, D) == [s \in Sessions |-> D[s] + Done(f, s)]

(* What is passed over up to c has met a fate, if only in advance.         *)
Explained(T, L, F, c) ==
  \A s \in Sessions, m \in Numbers :
    m <= c[s] /\ Open(T, L, s, m) => Fated(F, s, m)

(* A counter gets ahead of its session only by being displaced.            *)
Ahead(L, F, c) ==
  \A s \in Sessions, m \in Numbers :
    m <= c[s] /\ m > L[s] => Displaced(F, s, m)

(* From a state file that leads to c, a scan made one that leads to e, the *)
(* payload p and the losses x.                                             *)
Covered(T, L, F, c, e, p, x) ==
  \A s \in Sessions, m \in Numbers :
    m <= e[s] /\ Open(T, L, s, m) =>
      \/ m <= c[s] \/ <<s, m>> \in p \/ Fated(F, s, m)
      \/ \E l \in {"cut", "historical"} : <<<<s, m>>, l>> \in x

Fresh(T, F, c, e, p) ==
  \A s \in Sessions, m \in Numbers :
    <<s, m>> \in p =>
      m \in T[s] /\ m <= e[s] /\ (~(m <= c[s]) \/ Displaced(F, s, m))

Setback(F, c, e) ==
  \A s \in Sessions, m \in Numbers :
    m <= c[s] /\ ~(m <= e[s]) => Displaced(F, s, m)

Scanned(T, L, F, c, e, p, x) ==
  /\ Explained(T, L, F, c) /\ Ahead(L, F, c) /\ Ahead(L, F, e)
  /\ Covered(T, L, F, c, e, p, x) /\ Fresh(T, F, c, e, p)
  /\ Setback(F, c, e)

(* What the note has is counted, unless that has one of the excuses.       *)
NotedCounted(N, T, F, c, excused) ==
  \A s \in Sessions, m \in Numbers :
    <<s, m>> \in N =>
      m \in T[s] /\ (excused \/ m <= c[s] \/ Displaced(F, s, m))

Excused == faults > 0 \/ raced

Repeats(D, F, excused) ==
  \A s \in Sessions, m \in Numbers : <<s, m>> \in D => excused \/ Displaced(F, s, m)

FoundInNotes(I, N) == \A s \in Sessions : \A m \in I[s] : <<s, m>> \in N

DistilledFound(F, I) ==
  \A s \in Sessions, m \in Numbers : <<<<s, m>>, "distilled">> \in F => I[s] # {}

ScansKept(R, T, L, F, D) ==
  \A r \in Runs : R[r].at # "idle" =>
    Scanned(T, L, F, Upto(R[r].base, D), Upto(R[r].files, D), R[r].payload, R[r].gone)

DistillInv ==
  /\ TypeOK
  /\ Explained(text, length, fate, Upto(files, dropped))
  /\ Ahead(length, fate, Upto(files, dropped))
  /\ ScansKept(run, text, length, fate, dropped)
  /\ NotedCounted(noted, text, fate, Upto(files, dropped), Excused)
  /\ Repeats(doubled, fate, Excused)
  /\ FoundInNotes(fts, noted)
  /\ faults = 0 => DistilledFound(fate, fts)

LEMMA StateFileIs ==
  ASSUME NEW f
  PROVE  f \in StateFiles <=>
           \E S \in SUBSET Sessions : f \in [S -> 0 .. MaxMessages]
BY DEF StateFiles

LEMMA DoneNat ==
  ASSUME BoundsAssumption, NEW f \in StateFiles, NEW s
  PROVE  Done(f, s) \in 0 .. MaxMessages /\ MaxMessages \in Nat
<1>1. PICK S \in SUBSET Sessions : f \in [S -> 0 .. MaxMessages]
  BY StateFileIs
<1>2. MaxMessages \in Nat
  BY DEF BoundsAssumption
<1> QED
  BY <1>1, <1>2 DEF Done

LEMMA UptoIs ==
  ASSUME BoundsAssumption, TypeOK, NEW f \in StateFiles, NEW s \in Sessions
  PROVE  /\ Upto(f, dropped)[s] = dropped[s] + Done(f, s)
         /\ Reach(f, s) = Upto(f, dropped)[s]
         /\ Upto(f, dropped)[s] \in Nat /\ dropped[s] \in Nat /\ Done(f, s) \in Nat
<1>1. dropped[s] \in 0 .. MaxMessages /\ Done(f, s) \in 0 .. MaxMessages
  BY DoneNat DEF TypeOK
<1> QED
  BY <1>1 DEF Upto, Reach

LEMMA NoFilesIs == BoundsAssumption => NoFiles \in StateFiles
<1>1. NoFiles \in [{} -> 0 .. MaxMessages]
  BY DEF NoFiles
<1>2. {} \in SUBSET Sessions
  OBVIOUS
<1> QED
  BY <1>1, <1>2, StateFileIs

(* A state file with the counters of some sessions set.                    *)
Counting(f, S, n) == [t \in DOMAIN f \cup S |-> IF t \in S THEN n ELSE f[t]]

LEMMA Recounted ==
  ASSUME BoundsAssumption, NEW f \in StateFiles, NEW S \in SUBSET Sessions,
         NEW n \in 0 .. MaxMessages
  PROVE  /\ Counting(f, S, n) \in StateFiles
         /\ \A t : Done(Counting(f, S, n), t) = IF t \in S THEN n ELSE Done(f, t)
<1> DEFINE g == Counting(f, S, n)
<1>1. PICK A \in SUBSET Sessions : f \in [A -> 0 .. MaxMessages]
  BY StateFileIs
<1>2. DOMAIN f = A /\ A \cup S \in SUBSET Sessions
  BY <1>1
<1>3. /\ g \in [A \cup S -> 0 .. MaxMessages]
      /\ \A t \in A \cup S : g[t] = IF t \in S THEN n ELSE f[t]
  BY <1>1, <1>2 DEF Counting
<1> HIDE DEF g
<1>4. g \in StateFiles
  BY <1>2, <1>3, StateFileIs
<1>5. ASSUME NEW t PROVE Done(g, t) = IF t \in S THEN n ELSE Done(f, t)
  BY <1>2, <1>3 DEF Done
<1> QED
  BY <1>4, <1>5 DEF g

(* Sessions only grow, and fates are only added.                           *)
Grows(T, L, F, T2, L2, F2) ==
  /\ \A s \in Sessions :
       /\ T[s] \subseteq T2[s] /\ L[s] \in Nat /\ L2[s] \in Nat /\ L[s] <= L2[s]
       /\ \A m \in Numbers : Open(T2, L2, s, m) => Open(T, L, s, m)
  /\ F \subseteq F2

LEMMA GrownExplained ==
  ASSUME NEW T, NEW L, NEW F, NEW T2, NEW L2, NEW F2, Grows(T, L, F, T2, L2, F2),
         NEW f, Explained(T, L, F, f)
  PROVE  Explained(T2, L2, F2, f)
BY DEF Grows, Explained, Fated

LEMMA GrownAhead ==
  ASSUME NEW T, NEW L, NEW F, NEW T2, NEW L2, NEW F2, Grows(T, L, F, T2, L2, F2),
         NEW c, Ahead(L, F, c)
  PROVE  Ahead(L2, F2, c)
<1> SUFFICES ASSUME NEW s \in Sessions, NEW m \in Numbers, m <= c[s], m > L2[s]
    PROVE  Displaced(F2, s, m)
  BY DEF Ahead
<1>1. m \in Nat
  BY DEF Numbers
<1>2. L[s] \in Nat /\ L2[s] \in Nat /\ L[s] <= L2[s] /\ F \subseteq F2
  BY DEF Grows
<1>3. m > L[s]
  BY <1>1, <1>2
<1> QED
  BY <1>2, <1>3 DEF Ahead, Displaced, IsShortened

LEMMA GrownScanned ==
  ASSUME NEW T, NEW L, NEW F, NEW T2, NEW L2, NEW F2, Grows(T, L, F, T2, L2, F2),
         NEW c, NEW e, NEW p, NEW x,
         Scanned(T, L, F, c, e, p, x)
  PROVE  Scanned(T2, L2, F2, c, e, p, x)
<1>1. /\ Explained(T2, L2, F2, c) /\ Ahead(L2, F2, c) /\ Ahead(L2, F2, e)
  BY GrownExplained, GrownAhead DEF Scanned
<1>2. Covered(T2, L2, F2, c, e, p, x)
  BY DEF Scanned, Covered, Grows, Fated
<1>3. Fresh(T2, F2, c, e, p)
  BY DEF Scanned, Fresh, Grows, Displaced, IsShortened
<1>4. Setback(F2, c, e)
  BY DEF Scanned, Setback, Grows, Displaced, IsShortened
<1> QED
  BY <1>1, <1>2, <1>3, <1>4 DEF Scanned

(* The counters of c2 lead further than those of c over messages that were *)
(* given the fate of it.                                                   *)
Lifts(c, c2, F) ==
  \A s \in Sessions, m \in Numbers :
    /\ m <= c[s] => m <= c2[s]
    /\ m <= c2[s] => m <= c[s] \/ IsShortened(F, s, m)

LEMMA LiftedCounter ==
  ASSUME NEW T, NEW L, NEW F, NEW F2, F \subseteq F2,
         NEW c, NEW c2, Lifts(c, c2, F2)
  PROVE  /\ Explained(T, L, F, c) => Explained(T, L, F2, c2)
         /\ Ahead(L, F, c) => Ahead(L, F2, c2)
<1>1. ASSUME NEW s, NEW m, IsShortened(F2, s, m) PROVE Fated(F2, s, m)
  BY <1>1 DEF IsShortened, Fated, Fates
<1>2. ASSUME NEW s, NEW m, Fated(F, s, m) PROVE Fated(F2, s, m)
  BY <1>2 DEF Fated
<1>3. Explained(T, L, F, c) => Explained(T, L, F2, c2)
  BY <1>1, <1>2 DEF Explained, Lifts
<1>4. Ahead(L, F, c) => Ahead(L, F2, c2)
  BY DEF Ahead, Lifts, Displaced, IsShortened
<1> QED
  BY <1>3, <1>4

LEMMA LiftedScan ==
  ASSUME NEW T, NEW L, NEW F, NEW F2, F \subseteq F2,
         NEW c, NEW c2, Lifts(c, c2, F2), NEW e, NEW e2, Lifts(e, e2, F2),
         NEW p, NEW x, Scanned(T, L, F, c, e, p, x)
  PROVE  Scanned(T, L, F2, c2, e2, p, x)
<1>1. Explained(T, L, F2, c2) /\ Ahead(L, F2, c2) /\ Ahead(L, F2, e2)
  BY LiftedCounter DEF Scanned
<1>2. Covered(T, L, F2, c2, e2, p, x)
  <2>1. ASSUME NEW s, NEW m, Fated(F, s, m) \/ IsShortened(F2, s, m) PROVE Fated(F2, s, m)
    BY <2>1 DEF IsShortened, Fated, Fates
  <2> QED
    BY <2>1 DEF Scanned, Covered, Lifts
<1>3. Fresh(T, F2, c2, e2, p)
  BY DEF Scanned, Fresh, Lifts, Displaced, IsShortened
<1>4. Setback(F2, c2, e2)
  BY DEF Scanned, Setback, Lifts, Displaced, IsShortened
<1> QED
  BY <1>1, <1>2, <1>3, <1>4 DEF Scanned

(* The state file that a scan made explains what it counts, once what the  *)
(* scan held is given its fates.                                           *)
LEMMA SavedScan ==
  ASSUME NEW T, NEW L, NEW F, NEW F2, NEW c, NEW e, NEW p, NEW x,
         Scanned(T, L, F, c, e, p, x), NEW label \in Fates,
         F2 = (F \cup x) \cup {<<y, label>> : y \in p}
  PROVE  /\ Explained(T, L, F2, e) /\ Ahead(L, F2, e)
         /\ F \subseteq F2
<1>1. Explained(T, L, F2, e)
  <2> SUFFICES ASSUME NEW s \in Sessions, NEW m \in Numbers, m <= e[s], Open(T, L, s, m)
      PROVE  Fated(F2, s, m)
    BY DEF Explained
  <2>1. \/ m <= c[s] \/ <<s, m>> \in p \/ Fated(F, s, m)
        \/ \E l \in {"cut", "historical"} : <<<<s, m>>, l>> \in x
    BY DEF Scanned, Covered
  <2>2. CASE m <= c[s]
    BY <2>2 DEF Scanned, Explained, Fated
  <2>3. CASE <<s, m>> \in p
    BY <2>3 DEF Fated
  <2>4. CASE \E l \in {"cut", "historical"} : <<<<s, m>>, l>> \in x
    BY <2>4 DEF Fated, Fates
  <2>5. CASE Fated(F, s, m)
    BY <2>5 DEF Fated
  <2> QED
    BY <2>1, <2>2, <2>3, <2>4, <2>5
<1>2. Ahead(L, F2, e)
  BY DEF Scanned, Ahead, Displaced, IsShortened
<1> QED
  BY <1>1, <1>2

-----------------------------------------------------------------------------
(* The scan.                                                               *)

Gathered == [files: StateFiles, payload: SUBSET Messages, gone: SUBSET Losses,
             chars: Nat, sessions: Nat]

(* What the loop has gathered when it started with the state file.         *)
Reads(acc) ==
  /\ \A s \in Sessions :
       Upto(acc.files, dropped)[s] \in {Upto(files, dropped)[s], length[s]}
  /\ Covered(text, length, fate, Upto(files, dropped), Upto(acc.files, dropped),
             acc.payload, acc.gone)
  /\ Fresh(text, fate, Upto(files, dropped), Upto(acc.files, dropped), acc.payload)

Reading == {acc \in Gathered : Reads(acc)}

Start == [files |-> files, payload |-> {}, gone |-> {}, chars |-> 0, sessions |-> 0]

LEMMA GatheredIs ==
  ASSUME NEW acc \in Gathered
  PROVE  /\ acc.files \in StateFiles /\ acc.payload \subseteq Messages
         /\ acc.gone \subseteq Losses /\ acc.chars \in Nat /\ acc.sessions \in Nat
BY DEF Gathered

LEMMA LengthNat ==
  ASSUME BoundsAssumption, TypeOK, NEW s \in Sessions
  PROVE  /\ length[s] \in Nat /\ length[s] \in 0 .. MaxMessages
         /\ text[s] \subseteq 1 .. length[s] /\ text[s] \subseteq Numbers
         /\ MaxMessages \in Nat
BY DEF BoundsAssumption, TypeOK, Numbers

LEMMA TakeReads ==
  ASSUME BoundsAssumption, TypeOK, NEW acc \in Reading, NEW s \in Sessions
  PROVE  Take(acc, s) \in Reading
<1> DEFINE new == NewMessages(acc, s)
           historical == s \in stale /\ s \notin DOMAIN acc.files
           room == IF historical THEN 0 ELSE MaxChars - acc.chars
           kept == {m \in new : Cardinality({k \in new : k <= m}) <= room}
           label == IF historical THEN "historical" ELSE "cut"
           g == [t \in DOMAIN acc.files \cup {s} |-> IF t = s THEN InFile(s) ELSE acc.files[t]]
           p == acc.payload \cup {<<s, m>> : m \in kept}
           x == acc.gone \cup {<<<<s, m>>, label>> : m \in new \ kept}
           c == acc.chars + Cardinality(kept)
           n == acc.sessions + (IF kept = {} THEN 0 ELSE 1)
           b == [files |-> g, payload |-> p, gone |-> x, chars |-> c, sessions |-> n]
           before == Upto(files, dropped)
           held == Upto(acc.files, dropped)
           after == Upto(g, dropped)
<1>1. Take(acc, s) = b
  BY DEF Take
<1>2. /\ acc \in Gathered /\ Reads(acc) /\ files \in StateFiles
      /\ acc.files \in StateFiles /\ acc.payload \subseteq Messages
      /\ acc.gone \subseteq Losses /\ acc.chars \in Nat /\ acc.sessions \in Nat
  BY GatheredIs DEF Reading, TypeOK
<1>3. /\ length[s] \in Nat /\ length[s] \in 0 .. MaxMessages
      /\ text[s] \subseteq 1 .. length[s] /\ text[s] \subseteq Numbers
      /\ InFile(s) \in 0 .. MaxMessages /\ dropped[s] + InFile(s) = length[s]
  <2>1. dropped[s] \in 0 .. MaxMessages /\ dropped[s] <= length[s]
    BY DEF TypeOK
  <2> QED
    BY <2>1, LengthNat DEF InFile
<1>4. new \subseteq text[s] /\ kept \subseteq new
      /\ \A m \in text[s] : m \in new <=> ~(m <= held[s])
  <2>1. held[s] \in Nat /\ Reach(acc.files, s) = held[s]
    BY <1>2, UptoIs
  <2>2. \A m \in text[s] : m \in Nat
    BY <1>3
  <2> HIDE DEF held
  <2> QED
    BY <2>1, <2>2 DEF NewMessages
<1>5. g \in StateFiles /\ \A t \in Sessions : after[t] = IF t = s THEN length[s] ELSE held[t]
  <2> DEFINE S == {s}
             f == acc.files
             l == InFile(s)
  <2>1. g = Counting(f, S, l)
    BY DEF Counting
  <2>2. S \in SUBSET Sessions /\ f \in StateFiles /\ l \in 0 .. MaxMessages
    BY <1>2, <1>3
  <2>3. \A t : t \in S <=> t = s
    OBVIOUS
  <2> HIDE DEF g, S, f, l
  <2>4. g \in StateFiles /\ \A t : Done(g, t) = IF t \in S THEN l ELSE Done(f, t)
    BY <2>1, <2>2, Recounted
  <2>5. g \in StateFiles /\ \A t : Done(g, t) = IF t = s THEN l ELSE Done(f, t)
    BY <2>3, <2>4
  <2>6. ASSUME NEW t \in Sessions PROVE after[t] = IF t = s THEN length[s] ELSE held[t]
    BY <1>3, <2>5 DEF Upto, f, l
  <2> QED
    BY <2>5, <2>6
<1>7. Cardinality(kept) \in Nat
  <2>1. IsFiniteSet(1 .. length[s])
    <3> DEFINE l == length[s]
    <3>1. 1 \in Int /\ l \in Int
      BY <1>3
    <3> HIDE DEF l
    <3>2. IsFiniteSet(1 .. l)
      BY <3>1, FS_Interval
    <3> QED
      BY <3>2 DEF l
  <2>2. kept \subseteq 1 .. length[s]
    BY <1>3, <1>4
  <2> HIDE DEF kept
  <2> QED
    BY <2>1, <2>2, FS_Subset, FS_CardinalityType
<1>15. /\ \A t \in Sessions : held[t] \in {before[t], length[t]}
       /\ Covered(text, length, fate, before, held, acc.payload, acc.gone)
       /\ Fresh(text, fate, before, held, acc.payload)
  BY <1>2 DEF Reads
<1> HIDE DEF new, kept, historical, room, g, before, held, after
<1>6. label \in {"cut", "historical"}
  OBVIOUS
<1> HIDE DEF label
<1>8. p \subseteq Messages /\ x \subseteq Losses
  <2>1. \A m \in new : <<s, m>> \in Messages
    BY <1>3, <1>4 DEF Messages, Numbers
  <2> QED
    BY <1>2, <1>4, <1>6, <2>1 DEF Losses
<1>9. c \in Nat /\ n \in Nat
  BY <1>2, <1>7
<1>10. \A t \in Sessions : after[t] \in {before[t], length[t]}
  BY <1>5, <1>15
<1>11. Covered(text, length, fate, before, after, p, x)
  <2> SUFFICES ASSUME NEW t \in Sessions, NEW m \in Numbers, m <= after[t],
                      Open(text, length, t, m)
      PROVE  \/ m <= before[t] \/ <<t, m>> \in p \/ Fated(fate, t, m)
             \/ \E l \in {"cut", "historical"} : <<<<t, m>>, l>> \in x
    BY DEF Covered
  <2>1. CASE m <= held[t]
    BY <1>15, <2>1 DEF Covered
  <2>2. CASE ~(m <= held[t])
    <3>1. t = s /\ m <= length[s]
      BY <1>5, <2>2
    <3>2. m \in text[s]
      BY <1>3, <3>1 DEF Open, Numbers
    <3>3. m \in new
      BY <1>4, <2>2, <3>1, <3>2
    <3>4. CASE m \in kept
      BY <3>1, <3>4
    <3>5. CASE m \notin kept
      <4>1. <<<<t, m>>, label>> \in x
        BY <3>1, <3>3, <3>5
      <4> QED
        BY <1>6, <4>1
    <3> QED
      BY <3>4, <3>5
  <2> QED
    BY <2>1, <2>2
<1>12. Fresh(text, fate, before, after, p)
  <2> SUFFICES ASSUME NEW t \in Sessions, NEW m \in Numbers, <<t, m>> \in p
      PROVE  m \in text[t] /\ m <= after[t] /\ (~(m <= before[t]) \/ Displaced(fate, t, m))
    BY DEF Fresh
  <2>1. CASE <<t, m>> \in acc.payload
    <3>1. m \in text[t] /\ m <= held[t] /\ (~(m <= before[t]) \/ Displaced(fate, t, m))
      BY <1>15, <2>1 DEF Fresh
    <3>2. t = s => m <= length[s]
      BY <1>3, <3>1
    <3> QED
      BY <1>5, <3>1, <3>2
  <2>2. CASE <<t, m>> \notin acc.payload
    <3>1. t = s /\ m \in kept
      BY <2>2
    <3>2. m \in text[s] /\ ~(m <= held[s])
      BY <1>4, <3>1
    <3>3. m <= length[s]
      BY <1>3, <3>2
    <3> QED
      BY <1>5, <1>15, <3>1, <3>2, <3>3
  <2> QED
    BY <2>1, <2>2
<1> HIDE DEF p, x, c, n
<1>13. b \in Gathered
  BY <1>5, <1>8, <1>9 DEF Gathered
<1>14. Reads(b)
  BY <1>10, <1>11, <1>12 DEF Reads, before, after
<1> QED
  BY <1>1, <1>13, <1>14 DEF Reading

LEMMA StartReads == ASSUME TypeOK PROVE Start \in Reading
<1>1. Start \in Gathered
  BY DEF Start, Gathered, TypeOK
<1>2. Reads(Start)
  BY DEF Start, Reads, Covered, Fresh
<1> QED
  BY <1>1, <1>2 DEF Reading

LEMMA VisitReads ==
  ASSUME BoundsAssumption, TypeOK, NEW acc \in Reading, NEW s \in Sessions
  PROVE  Visit(acc, s) \in Reading
BY TakeReads DEF Visit

VisitStep(f, n) == IF n = 0 THEN Start ELSE Visit(f[n - 1], recent[n])

Visits(f) == f = [n \in 0 .. Len(recent) |-> VisitStep(f, n)]

LEMMA RecentIs ==
  ASSUME TypeOK
  PROVE  /\ Len(recent) \in Nat /\ DOMAIN recent = 1 .. Len(recent)
         /\ \A n \in 1 .. Len(recent) : recent[n] \in Sessions
BY LenProperties, ElementOfSeq DEF TypeOK

LEMMA VisitsExist == ASSUME BoundsAssumption, TypeOK PROVE \E f : Visits(f)
<1> DEFINE b == Len(recent)
           g == [p \in Reading \X (0 .. b) |-> IF p[2] = 0 THEN p[1] ELSE Visit(p[1], recent[p[2]])]
<1>1. b \in Nat /\ \A n \in 1 .. b : recent[n] \in Sessions
  BY RecentIs
<1> HIDE DEF b
<1>2. ASSUME NEW acc \in Reading, NEW n \in 0 .. b, n # 0
      PROVE  Visit(acc, recent[n]) \in Reading
  <2>1. recent[n] \in Sessions
    BY <1>1, <1>2
  <2> QED
    BY <2>1, VisitReads
<1>3. g \in [Reading \X (0 .. b) -> Reading]
  BY <1>2
<1>4. \A acc \in Reading, n \in 0 .. b : n # 0 => g[<<acc, n>>] = Visit(acc, recent[n])
  OBVIOUS
<1> HIDE DEF g
<1>5. PICK f \in [0 .. b -> Reading] : Follows(f, Start, g, b)
  BY <1>1, <1>3, StartReads, Iterates
<1>6. ASSUME NEW n \in 0 .. b PROVE f[n] = VisitStep(f, n)
  <2>1. n # 0 => f[n - 1] \in Reading
    BY <1>1
  <2> QED
    BY <1>4, <1>5, <2>1 DEF Follows, VisitStep
<1>7. f = [n \in 0 .. b |-> f[n]]
  OBVIOUS
<1>8. f = [n \in 0 .. b |-> VisitStep(f, n)]
  BY <1>6, <1>7
<1> QED
  BY <1>8 DEF Visits, b

LEMMA ScanReads == ASSUME BoundsAssumption, TypeOK PROVE Scan \in Reading
<1> DEFINE h == CHOOSE f : Visits(f)
           b == Len(recent)
           S == {n \in Nat : h[n] \in Reading}
<1>1. Scan = h[b]
  BY DEF Scan, Visits, VisitStep, Start
<1>2. Visits(h)
  BY VisitsExist
<1> HIDE DEF h
<1>3. \A n \in 0 .. b : h[n] = VisitStep(h, n)
  BY <1>2 DEF Visits
<1>4. b \in Nat /\ \A n \in 1 .. b : recent[n] \in Sessions
  BY RecentIs
<1> HIDE DEF b
<1>5. 0 \in S
  BY <1>3, <1>4, StartReads DEF VisitStep
<1>6. ASSUME NEW n \in 0 .. (b - 1), n \in S PROVE n + 1 \in S
  <2>1. n + 1 \in 1 .. b /\ n + 1 \in 0 .. b /\ n + 1 # 0 /\ n + 1 - 1 = n
    BY <1>4
  <2>2. h[n + 1] = Visit(h[n], recent[n + 1])
    BY <1>3, <2>1 DEF VisitStep
  <2>3. Visit(h[n], recent[n + 1]) \in Reading
    BY <1>4, <1>6, <2>1, VisitReads
  <2> QED
    BY <2>1, <2>2, <2>3
<1> HIDE DEF S
<1>7. b \in S
  BY <1>4, <1>5, <1>6, UpTo
<1> QED
  BY <1>1, <1>7 DEF S

(* A scan of the state file as it is.                                      *)
LEMMA ScanFacts ==
  ASSUME BoundsAssumption, TypeOK, Explained(text, length, fate, Upto(files, dropped)),
         Ahead(length, fate, Upto(files, dropped))
  PROVE  /\ Scan.files \in StateFiles /\ Scan.payload \subseteq Messages
         /\ Scan.gone \subseteq Losses
         /\ Scanned(text, length, fate, Upto(files, dropped), Upto(Scan.files, dropped),
                    Scan.payload, Scan.gone)
<1> DEFINE acc == Scan
           before == Upto(files, dropped)
           after == Upto(acc.files, dropped)
<1>1. acc \in Gathered /\ Reads(acc)
  BY ScanReads DEF Reading
<1> HIDE DEF acc
<1>2. /\ acc.files \in StateFiles /\ acc.payload \subseteq Messages
      /\ acc.gone \subseteq Losses /\ files \in StateFiles
  BY <1>1, GatheredIs DEF TypeOK
<1>3. \A s \in Sessions : /\ after[s] \in {before[s], length[s]}
                          /\ after[s] \in Nat /\ length[s] \in Nat
  <2>1. \A s \in Sessions : after[s] \in Nat
    BY <1>2, UptoIs
  <2> QED
    BY <1>1, <2>1, LengthNat DEF Reads
<1>4. /\ Covered(text, length, fate, before, after, acc.payload, acc.gone)
      /\ Fresh(text, fate, before, after, acc.payload)
  BY <1>1 DEF Reads
<1> HIDE DEF before, after
<1>5. Explained(text, length, fate, before) /\ Ahead(length, fate, before)
  BY DEF before
<1>6. Setback(fate, before, after)
  <2> SUFFICES ASSUME NEW s \in Sessions, NEW m \in Numbers, m <= before[s], ~(m <= after[s])
      PROVE  Displaced(fate, s, m)
    BY DEF Setback
  <2>1. m \in Nat
    BY DEF Numbers
  <2>2. m > length[s]
    BY <1>3, <2>1
  <2> QED
    BY <1>5, <2>2 DEF Ahead
<1>7. Ahead(length, fate, after)
  <2> SUFFICES ASSUME NEW s \in Sessions, NEW m \in Numbers, m <= after[s], m > length[s]
      PROVE  Displaced(fate, s, m)
    BY DEF Ahead
  <2>1. m \in Nat
    BY DEF Numbers
  <2>2. after[s] = before[s]
    BY <1>3, <2>1
  <2> QED
    BY <1>5, <2>2 DEF Ahead
<1>8. Scanned(text, length, fate, before, after, acc.payload, acc.gone)
  BY <1>4, <1>5, <1>6, <1>7 DEF Scanned
<1> QED
  BY <1>2, <1>8 DEF acc, before, after

-----------------------------------------------------------------------------
(* The order of the session files.                                         *)

LEMMA SetOfConcat ==
  ASSUME NEW S, NEW q \in Seq(S), NEW r \in Seq(S)
  PROVE  q \o r \in Seq(S) /\ ToSet(q \o r) = ToSet(q) \cup ToSet(r)
<1> DEFINE v == q \o r
           a == Len(q)
           b == Len(r)
<1>1. /\ a \in Nat /\ b \in Nat /\ DOMAIN q = 1 .. a /\ DOMAIN r = 1 .. b
      /\ v \in Seq(S) /\ Len(v) = a + b /\ DOMAIN v = 1 .. (a + b)
      /\ \A i \in 1 .. (a + b) : v[i] = IF i <= a THEN q[i] ELSE r[i - a]
  BY ConcatProperties, LenProperties
<1> HIDE DEF v, a, b
<1>2. ASSUME NEW i \in 1 .. (a + b) PROVE v[i] \in ToSet(q) \cup ToSet(r)
  <2>1. CASE i <= a
    <3>1. i \in 1 .. a /\ v[i] = q[i]
      BY <1>1, <2>1
    <3> QED
      BY <1>1, <3>1 DEF ToSet
  <2>2. CASE ~(i <= a)
    <3>1. i - a \in 1 .. b /\ v[i] = r[i - a]
      BY <1>1, <2>2
    <3> QED
      BY <1>1, <3>1 DEF ToSet
  <2> QED
    BY <2>1, <2>2
<1>3. ASSUME NEW i \in 1 .. a PROVE q[i] \in ToSet(v)
  <2>1. i \in 1 .. (a + b) /\ v[i] = q[i]
    BY <1>1
  <2> QED
    BY <1>1, <2>1 DEF ToSet
<1>4. ASSUME NEW i \in 1 .. b PROVE r[i] \in ToSet(v)
  <2>1. a + i \in 1 .. (a + b) /\ ~(a + i <= a) /\ a + i - a = i
    BY <1>1
  <2>2. v[a + i] = r[i]
    BY <1>1, <2>1
  <2> QED
    BY <1>1, <2>1, <2>2 DEF ToSet
<1>5. ToSet(v) \subseteq ToSet(q) \cup ToSet(r)
  BY <1>1, <1>2 DEF ToSet
<1>6. ToSet(q) \subseteq ToSet(v) /\ ToSet(r) \subseteq ToSet(v)
  BY <1>1, <1>3, <1>4 DEF ToSet
<1> QED
  BY <1>1, <1>5, <1>6 DEF v

LEMMA SetOfPart ==
  ASSUME NEW S, NEW q \in Seq(S), NEW m \in Nat, m > 0, NEW n \in Nat, n <= Len(q)
  PROVE  SubSeq(q, m, n) \in Seq(S) /\ ToSet(SubSeq(q, m, n)) = {q[i] : i \in m .. n}
<1> DEFINE v == SubSeq(q, m, n)
<1>1. /\ Len(q) \in Nat /\ m \in Int /\ n \in Int
      /\ \A i \in m .. n : q[i] \in S
  <2>1. Len(q) \in Nat
    BY LenProperties
  <2>2. \A i \in m .. n : i \in 1 .. Len(q)
    BY <2>1
  <2> QED
    BY <2>1, <2>2, ElementOfSeq
<1>2. /\ v \in Seq(S)
      /\ Len(v) = IF m <= n THEN n - m + 1 ELSE 0
      /\ \A i \in 1 .. (n - m + 1) : v[i] = q[m + i - 1]
  BY <1>1, SubSeqProperties
<1>3. DOMAIN v = 1 .. Len(v)
  BY <1>2, LenProperties
<1> HIDE DEF v
<1>4. ASSUME NEW i \in 1 .. Len(v) PROVE v[i] \in {q[j] : j \in m .. n}
  <2>1. i \in 1 .. (n - m + 1) /\ m + i - 1 \in m .. n
    BY <1>2
  <2> QED
    BY <1>2, <2>1
<1>5. ASSUME NEW j \in m .. n PROVE q[j] \in ToSet(v)
  <2>1. /\ j - m + 1 \in 1 .. (n - m + 1) /\ m + (j - m + 1) - 1 = j
        /\ j - m + 1 \in 1 .. Len(v)
    BY <1>2
  <2>2. v[j - m + 1] = q[j]
    BY <1>2, <2>1
  <2> QED
    BY <1>3, <2>1, <2>2 DEF ToSet
<1>6. ToSet(v) \subseteq {q[j] : j \in m .. n}
  BY <1>3, <1>4 DEF ToSet
<1>7. {q[j] : j \in m .. n} \subseteq ToSet(v)
  BY <1>5
<1> QED
  BY <1>2, <1>6, <1>7 DEF v

LEMMA LatestIs ==
  ASSUME TypeOK, NEW s \in Sessions
  PROVE  Latest(s) \in Seq(Sessions) /\ ToSet(Latest(s)) = ToSet(recent) \cup {s}
<1> DEFINE b == Len(recent)
           one == <<s>>
<1>1. one \in Seq(Sessions) /\ ToSet(one) = {s}
  BY DEF ToSet
<1>2. /\ recent \in Seq(Sessions) /\ b \in Nat /\ DOMAIN recent = 1 .. b
  BY RecentIs DEF TypeOK
<1> HIDE DEF one
<1>3. CASE s \notin ToSet(recent)
  <2>1. Latest(s) = one \o recent
    BY <1>3 DEF Latest, one
  <2> QED
    BY <1>1, <1>2, <2>1, SetOfConcat
<1>4. CASE s \in ToSet(recent)
  <2> DEFINE p == CHOOSE i \in DOMAIN recent : recent[i] = s
             x == SubSeq(recent, 1, p - 1)
             y == SubSeq(recent, p + 1, b)
  <2>1. p \in DOMAIN recent /\ recent[p] = s
    BY <1>4 DEF ToSet
  <2>2. Latest(s) = one \o (x \o y)
    BY <1>4 DEF Latest, RemoveAt, one
  <2> HIDE DEF p
  <2>3. p \in 1 .. b /\ p - 1 \in Nat /\ p + 1 \in Nat /\ p + 1 > 0 /\ p - 1 <= b
    BY <1>2, <2>1
  <2>4. x \in Seq(Sessions) /\ ToSet(x) = {recent[i] : i \in 1 .. (p - 1)}
    BY <1>2, <2>3, SetOfPart
  <2>5. y \in Seq(Sessions) /\ ToSet(y) = {recent[i] : i \in (p + 1) .. b}
    BY <1>2, <2>3, SetOfPart
  <2> HIDE DEF x, y, b
  <2>6. Latest(s) \in Seq(Sessions) /\ ToSet(Latest(s)) = {s} \cup ToSet(x) \cup ToSet(y)
    <3>1. x \o y \in Seq(Sessions) /\ ToSet(x \o y) = ToSet(x) \cup ToSet(y)
      BY <2>4, <2>5, SetOfConcat
    <3> DEFINE w == x \o y
    <3>2. w \in Seq(Sessions) /\ ToSet(w) = ToSet(x) \cup ToSet(y) /\ Latest(s) = one \o w
      BY <2>2, <3>1
    <3> HIDE DEF w
    <3> QED
      BY <1>1, <3>2, SetOfConcat
  <2>7. ASSUME NEW i \in 1 .. b PROVE recent[i] \in {s} \cup ToSet(x) \cup ToSet(y)
    <3>1. i = p \/ i \in 1 .. (p - 1) \/ i \in (p + 1) .. b
      BY <1>2, <2>3
    <3> QED
      BY <2>1, <2>4, <2>5, <3>1
  <2>8. ToSet(recent) \subseteq {s} \cup ToSet(x) \cup ToSet(y)
    BY <1>2, <2>7 DEF ToSet
  <2>9. ASSUME NEW i \in 1 .. (p - 1) PROVE recent[i] \in ToSet(recent)
    BY <1>2, <2>3 DEF ToSet
  <2>10. ASSUME NEW i \in (p + 1) .. b PROVE recent[i] \in ToSet(recent)
    BY <1>2, <2>3 DEF ToSet
  <2>11. ToSet(x) \subseteq ToSet(recent) /\ ToSet(y) \subseteq ToSet(recent)
    BY <2>4, <2>5, <2>9, <2>10
  <2> QED
    BY <2>6, <2>8, <2>11
<1> QED
  BY <1>3, <1>4

-----------------------------------------------------------------------------
(* The steps of the distillation.                                          *)

RunsOK(R) ==
  /\ R \in [Runs -> Held]
  /\ \A r \in Runs : R[r].at # "idle" => R[r].payload # {}

Surroundings ==
  /\ stale \subseteq Sessions /\ due \in BOOLEAN /\ scenario \in Scenarios
  /\ marks \in 0..scenario.marks /\ faults \in 0..scenario.faults
  /\ raced \in BOOLEAN

Histories(N, D, F) == N \subseteq Messages /\ D \subseteq N /\ F \subseteq Messages \X Fates

LEMMA TypeParts ==
  TypeOK <=>
    /\ length \in [Sessions -> 0..MaxMessages]
    /\ dropped \in [Sessions -> 0..MaxMessages]
    /\ \A s \in Sessions : dropped[s] <= length[s]
    /\ text \in [Sessions -> SUBSET (1..MaxMessages)]
    /\ \A s \in Sessions : text[s] \subseteq 1..length[s]
    /\ recent \in Seq(Sessions)
    /\ ToSet(recent) = {s \in Sessions : length[s] > 0}
    /\ files \in StateFiles
    /\ fts \in [Sessions -> SUBSET (1..MaxMessages)]
    /\ \A s \in Sessions : fts[s] \subseteq text[s]
    /\ RunsOK(run) /\ Surroundings /\ Histories(noted, doubled, fate)
BY DEF TypeOK, RunsOK, Surroundings, Histories

(* The session files and their order are left alone.                       *)
LEMMA DiskKept ==
  ASSUME TypeOK, UNCHANGED disk, files' \in StateFiles,
         fts' \in [Sessions -> SUBSET (1..MaxMessages)],
         \A s \in Sessions : fts'[s] \subseteq text[s],
         RunsOK(run'), Surroundings', Histories(noted', doubled', fate')
  PROVE  TypeOK'
<1>1. /\ length' = length /\ dropped' = dropped /\ text' = text
      /\ recent' = recent /\ stale' = stale
  BY DEF disk
<1>2. /\ length \in [Sessions -> 0..MaxMessages]
      /\ dropped \in [Sessions -> 0..MaxMessages]
      /\ \A s \in Sessions : dropped[s] <= length[s]
      /\ text \in [Sessions -> SUBSET (1..MaxMessages)]
      /\ \A s \in Sessions : text[s] \subseteq 1..length[s]
      /\ recent \in Seq(Sessions)
      /\ ToSet(recent) = {s \in Sessions : length[s] > 0}
  BY DEF TypeOK
<1>3. ToSet(recent') = {s \in Sessions : length'[s] > 0}
  BY <1>1, <1>2
<1>4. Surroundings'
  OBVIOUS
<1> QED
  BY <1>1, <1>2, <1>3, <1>4 DEF TypeOK, RunsOK, Surroundings, Histories, ToSet

LEMMA HeldIs ==
  ASSUME NEW R, RunsOK(R), NEW r \in Runs
  PROVE  /\ R[r].at \in {"idle", "llm", "dedup"}
         /\ R[r].base \in StateFiles /\ R[r].files \in StateFiles
         /\ R[r].payload \subseteq Messages /\ R[r].gone \subseteq Losses
BY DEF RunsOK, Held

LEMMA IdleHeld ==
  ASSUME BoundsAssumption
  PROVE  Idle \in Held /\ Idle.at = "idle"
BY NoFilesIs DEF Idle, Held

(* A run that holds something holds what it held before.                   *)
Continues(R) ==
  \A q \in Runs : R[q].at # "idle" =>
    /\ run[q].at # "idle"
    /\ R[q].base = run[q].base /\ R[q].files = run[q].files
    /\ R[q].payload = run[q].payload /\ R[q].gone = run[q].gone

(* Runs end: one of them, or all.                                          *)
LEMMA RunsEnd ==
  ASSUME BoundsAssumption, RunsOK(run), NEW r \in Runs,
         run' \in {[run EXCEPT ![r] = Idle], [q \in Runs |-> Idle]}
  PROVE  RunsOK(run') /\ Continues(run')
<1>1. run \in [Runs -> Held] /\ Idle \in Held /\ Idle.at = "idle"
  BY IdleHeld DEF RunsOK
<1> HIDE DEF Idle
<1>2. \A q \in Runs : run'[q] = run[q] \/ run'[q] = Idle
  BY <1>1
<1>3. run' \in [Runs -> Held]
  BY <1>1
<1> QED
  BY <1>1, <1>2, <1>3 DEF RunsOK, Continues

LEMMA StillScanned ==
  ASSUME NEW T, NEW L, NEW F, NEW T2, NEW L2, NEW F2, Grows(T, L, F, T2, L2, F2),
         NEW D, ScansKept(run, T, L, F, D),
         NEW R, Continues(R)
  PROVE  ScansKept(R, T2, L2, F2, D)
<1> SUFFICES ASSUME NEW q \in Runs, R[q].at # "idle"
    PROVE  Scanned(T2, L2, F2, Upto(R[q].base, D), Upto(R[q].files, D),
                   R[q].payload, R[q].gone)
  BY DEF ScansKept
<1> DEFINE c == Upto(run[q].base, D)
           e == Upto(run[q].files, D)
           p == run[q].payload
           x == run[q].gone
<1>1. /\ run[q].at # "idle"
      /\ Upto(R[q].base, D) = c /\ Upto(R[q].files, D) = e
      /\ R[q].payload = p /\ R[q].gone = x
  BY DEF Continues
<1>2. Scanned(T, L, F, c, e, p, x)
  BY <1>1 DEF ScansKept
<1> HIDE DEF c, e, p, x
<1>3. Scanned(T2, L2, F2, c, e, p, x)
  BY <1>2, GrownScanned
<1> QED
  BY <1>1, <1>3

(* With the same sessions, and more fates.                                 *)
LEMMA MoreFates ==
  ASSUME BoundsAssumption, TypeOK, NEW F2, fate \subseteq F2
  PROVE  Grows(text, length, fate, text, length, F2)
BY LengthNat DEF Grows

LEMMA NotedKept ==
  ASSUME NEW N, NEW T, NEW F, NEW T2, NEW F2, NEW f, NEW e, NEW e2,
         NotedCounted(N, T, F, f, e), F \subseteq F2, e => e2,
         \A s \in Sessions : T[s] \subseteq T2[s]
  PROVE  NotedCounted(N, T2, F2, f, e2)
BY DEF NotedCounted, Displaced, IsShortened

LEMMA RepeatsKept ==
  ASSUME NEW D, NEW F, NEW F2, NEW e, NEW e2, Repeats(D, F, e), F \subseteq F2, e => e2
  PROVE  Repeats(D, F2, e2)
BY DEF Repeats, Displaced, IsShortened

LEMMA DistillBegins == ASSUME BoundsAssumption, Init PROVE DistillInv
<1>1. /\ length = [s \in Sessions |-> 0] /\ dropped = [s \in Sessions |-> 0]
      /\ text = [s \in Sessions |-> {}] /\ recent = <<>>
      /\ stale = {} /\ files = NoFiles /\ due = TRUE /\ fts = [s \in Sessions |-> {}]
      /\ run = [r \in Runs |-> Idle] /\ scenario \in Scenarios /\ marks = 0 /\ faults = 0
      /\ noted = {} /\ doubled = {} /\ fate = {} /\ raced = FALSE
  BY DEF Init
<1>2. MaxMessages \in Nat /\ scenario.marks \in Nat /\ scenario.faults \in Nat
  BY <1>1 DEF BoundsAssumption
<1>3. files \in StateFiles /\ \A s : Done(files, s) = 0
  BY <1>1, NoFilesIs DEF Done, NoFiles
<1>4. RunsOK(run) /\ \A r \in Runs : run[r].at = "idle"
  BY <1>1, IdleHeld DEF RunsOK
<1>5. recent \in Seq(Sessions) /\ ToSet(recent) = {}
  BY <1>1 DEF ToSet
<1>6. Surroundings /\ Histories(noted, doubled, fate)
  <2>1. marks \in 0..scenario.marks /\ faults \in 0..scenario.faults
    BY <1>1, <1>2
  <2>2. due \in BOOLEAN /\ raced \in BOOLEAN
    BY <1>1
  <2> QED
    BY <1>1, <2>1, <2>2 DEF Surroundings, Histories
<1>7. TypeOK
  <2>1. /\ length \in [Sessions -> 0..MaxMessages] /\ \A s \in Sessions : length[s] = 0
        /\ dropped \in [Sessions -> 0..MaxMessages] /\ \A s \in Sessions : dropped[s] = 0
        /\ text \in [Sessions -> SUBSET (1..MaxMessages)] /\ \A s \in Sessions : text[s] = {}
        /\ fts \in [Sessions -> SUBSET (1..MaxMessages)] /\ \A s \in Sessions : fts[s] = {}
    BY <1>1, <1>2
  <2> QED
    BY <1>3, <1>4, <1>5, <1>6, <2>1, TypeParts
<1>8. \A m \in Numbers, s \in Sessions : ~(m <= Upto(files, dropped)[s])
  <2>1. \A s \in Sessions : Upto(files, dropped)[s] = 0
    BY <1>1, <1>3 DEF Upto
  <2> QED
    BY <1>2, <2>1 DEF Numbers
<1>9. /\ Explained(text, length, fate, Upto(files, dropped))
      /\ Ahead(length, fate, Upto(files, dropped))
  BY <1>8 DEF Explained, Ahead
<1>10. ScansKept(run, text, length, fate, dropped)
  BY <1>4 DEF ScansKept
<1> QED
  BY <1>1, <1>7, <1>9, <1>10
  DEF DistillInv, NotedCounted, Repeats, FoundInNotes, DistilledFound

LEMMA InvParts ==
  ASSUME DistillInv
  PROVE  /\ TypeOK /\ RunsOK(run) /\ Surroundings /\ Histories(noted, doubled, fate)
         /\ files \in StateFiles
BY TypeParts DEF DistillInv

(* Nothing that counts changes.                                            *)
LEMMA Undisturbed ==
  ASSUME BoundsAssumption, DistillInv, UNCHANGED <<disk, files, fts, history>>,
         RunsOK(run'), Continues(run'), Surroundings', faults' = 0 => faults = 0
  PROVE  DistillInv'
<1>1. /\ length' = length /\ dropped' = dropped /\ text' = text /\ files' = files /\ fts' = fts
      /\ noted' = noted /\ doubled' = doubled /\ fate' = fate /\ raced' = raced
  BY DEF disk, history
<1>2. TypeOK /\ RunsOK(run) /\ Histories(noted, doubled, fate) /\ files \in StateFiles
  BY InvParts
<1>3. Histories(noted', doubled', fate')
  BY <1>1, <1>2 DEF Histories
<1>4. /\ fts' \in [Sessions -> SUBSET (1..MaxMessages)]
      /\ \A s \in Sessions : fts'[s] \subseteq text[s]
  BY <1>1, <1>2 DEF TypeOK
<1>5. TypeOK'
  BY <1>1, <1>2, <1>3, <1>4, DiskKept
<1>6. ScansKept(run', text', length', fate', dropped')
  <2>1. Grows(text, length, fate, text, length, fate)
    BY <1>2, MoreFates
  <2>2. ScansKept(run, text, length, fate, dropped)
    BY DEF DistillInv
  <2>3. ScansKept(run', text, length, fate, dropped)
    BY <2>1, <2>2, StillScanned
  <2> QED
    BY <1>1, <2>3
<1>7. Excused => Excused'
  <2>1. faults > 0 => faults' > 0
    <3>1. faults \in Nat /\ faults' \in Nat
      BY <1>2, TypeParts DEF BoundsAssumption, Surroundings
    <3> QED
      BY <3>1
  <2> QED
    BY <1>1, <2>1 DEF Excused
<1>8. NotedCounted(noted', text', fate', Upto(files', dropped'), Excused')
  <2>1. NotedCounted(noted, text, fate, Upto(files, dropped), Excused)
    BY DEF DistillInv
  <2>2. NotedCounted(noted, text, fate, Upto(files, dropped), Excused')
    BY <1>7, <2>1 DEF NotedCounted
  <2> QED
    BY <1>1, <2>2
<1>9. Repeats(doubled', fate', Excused')
  <2>1. Repeats(doubled, fate, Excused)
    BY DEF DistillInv
  <2>2. Repeats(doubled, fate, Excused')
    BY <1>7, <2>1 DEF Repeats
  <2> QED
    BY <1>1, <2>2
<1>10. /\ Explained(text', length', fate', Upto(files', dropped'))
       /\ Ahead(length', fate', Upto(files', dropped'))
       /\ FoundInNotes(fts', noted')
       /\ faults' = 0 => DistilledFound(fate', fts')
  BY <1>1 DEF DistillInv
<1> QED
  BY <1>5, <1>6, <1>8, <1>9, <1>10 DEF DistillInv

(* A session grows.                                                        *)
LEMMA SayKept ==
  ASSUME BoundsAssumption, DistillInv,
         NEW s \in Sessions, NEW hasText \in BOOLEAN, Say(s, hasText)
  PROVE  DistillInv'
<1>1. /\ s \in scenario.sessions /\ length[s] < MaxMessages
      /\ length' = [length EXCEPT ![s] = @ + 1]
      /\ text' = [text EXCEPT ![s] = IF hasText THEN @ \cup {length'[s]} ELSE @]
      /\ recent' = Latest(s) /\ stale' = stale \ {s}
      /\ UNCHANGED <<dropped, files, due, fts, run, scenario, marks, faults, noted, doubled, fate, raced>>
  BY DEF Say, history
<1>2. TypeOK /\ RunsOK(run) /\ Surroundings /\ Histories(noted, doubled, fate) /\ files \in StateFiles
  BY InvParts
<1>3. \A t \in Sessions : /\ length[t] \in Nat /\ length[t] \in 0 .. MaxMessages
                          /\ text[t] \subseteq 1 .. length[t] /\ text[t] \subseteq Numbers
  BY <1>2, LengthNat
<1>4. MaxMessages \in Nat
  BY DEF BoundsAssumption
<1>5. /\ length \in [Sessions -> 0..MaxMessages] /\ text \in [Sessions -> SUBSET (1..MaxMessages)]
      /\ fts \in [Sessions -> SUBSET (1..MaxMessages)]
      /\ \A t \in Sessions : fts[t] \subseteq text[t]
      /\ dropped \in [Sessions -> 0..MaxMessages] /\ \A t \in Sessions : dropped[t] <= length[t]
      /\ ToSet(recent) = {t \in Sessions : length[t] > 0}
  BY <1>2, TypeParts
<1>6. /\ length' \in [Sessions -> 0..MaxMessages]
      /\ length'[s] = length[s] + 1
      /\ \A t \in Sessions : t # s => length'[t] = length[t]
  BY <1>1, <1>3, <1>4, <1>5
<1>7. /\ text' \in [Sessions -> SUBSET (1..MaxMessages)]
      /\ text'[s] \in {text[s], text[s] \cup {length'[s]}}
      /\ \A t \in Sessions : t # s => text'[t] = text[t]
  <2>1. length'[s] \in 1 .. MaxMessages
    BY <1>1, <1>3, <1>4, <1>6
  <2> DEFINE l == length'[s]
             new == IF hasText THEN text[s] \cup {l} ELSE text[s]
  <2>2. text' = [text EXCEPT ![s] = new]
    BY <1>1
  <2>3. new \in SUBSET (1 .. MaxMessages) /\ new \in {text[s], text[s] \cup {l}}
    BY <1>5, <2>1
  <2> HIDE DEF new
  <2> QED
    BY <1>5, <2>2, <2>3
<1>8. \A t \in Sessions : /\ text'[t] \subseteq 1 .. length'[t] /\ text[t] \subseteq text'[t]
                          /\ length'[t] \in Nat /\ length[t] <= length'[t]
  <2> SUFFICES ASSUME NEW t \in Sessions
      PROVE  /\ text'[t] \subseteq 1 .. length'[t] /\ text[t] \subseteq text'[t]
             /\ length'[t] \in Nat /\ length[t] <= length'[t]
    OBVIOUS
  <2>1. CASE t = s
    BY <1>3, <1>6, <1>7, <2>1
  <2>2. CASE t # s
    BY <1>3, <1>6, <1>7, <2>2
  <2> QED
    BY <2>1, <2>2
<1>9. Grows(text, length, fate, text', length', fate)
  <2>1. ASSUME NEW t \in Sessions, NEW m \in Numbers, Open(text', length', t, m)
        PROVE  Open(text, length, t, m)
    <3>1. m \in Nat
      BY DEF Numbers
    <3>2. m \in text'[t] \/ m > length'[t]
      BY <2>1 DEF Open
    <3>3. CASE t = s
      BY <1>3, <1>6, <1>7, <3>1, <3>2, <3>3 DEF Open
    <3>4. CASE t # s
      BY <1>6, <1>7, <3>2, <3>4 DEF Open
    <3> QED
      BY <3>3, <3>4
  <2> QED
    BY <1>3, <1>8, <2>1 DEF Grows
<1>10. TypeOK'
  <2>1. recent' \in Seq(Sessions) /\ ToSet(recent') = ToSet(recent) \cup {s}
    BY <1>1, <1>2, LatestIs
  <2>2. ToSet(recent') = {t \in Sessions : length'[t] > 0}
    <3>1. length'[s] > 0 /\ \A t \in Sessions : t # s => (length'[t] > 0 <=> length[t] > 0)
      BY <1>3, <1>6
    <3> HIDE DEF ToSet
    <3> QED
      BY <1>5, <2>1, <3>1
  <2>3. \A t \in Sessions : fts[t] \subseteq text'[t]
    BY <1>5, <1>8
  <2>4. Surroundings'
    BY <1>1, <1>2 DEF Surroundings
  <2>5. /\ files' \in StateFiles /\ fts' \in [Sessions -> SUBSET (1..MaxMessages)]
        /\ \A t \in Sessions : fts'[t] \subseteq text'[t]
        /\ RunsOK(run') /\ Histories(noted', doubled', fate')
    BY <1>1, <1>2, <1>5, <2>3
  <2>6. ToSet(recent)' = ToSet(recent')
    BY DEF ToSet
  <2>7. dropped' \in [Sessions -> 0..MaxMessages] /\ \A t \in Sessions : dropped'[t] <= length'[t]
    <3>1. \A t \in Sessions : dropped[t] \in Nat
      BY <1>4, <1>5
    <3> QED
      BY <1>1, <1>3, <1>5, <1>8, <3>1
  <2> QED
    BY <1>6, <1>7, <1>8, <2>1, <2>2, <2>4, <2>5, <2>6, <2>7
    DEF TypeOK, RunsOK, Surroundings, Histories
<1>11. ScansKept(run, text', length', fate, dropped)
  <2>1. Continues(run) /\ ScansKept(run, text, length, fate, dropped)
    BY DEF Continues, DistillInv
  <2> QED
    BY <1>9, <2>1, StillScanned
<1>12. /\ Explained(text', length', fate, Upto(files, dropped))
       /\ Ahead(length', fate, Upto(files, dropped))
  BY <1>9, GrownExplained, GrownAhead DEF DistillInv
<1>13. NotedCounted(noted, text', fate, Upto(files, dropped), Excused)
  <2>1. NotedCounted(noted, text, fate, Upto(files, dropped), Excused)
    BY DEF DistillInv
  <2> QED
    BY <1>8, <2>1 DEF NotedCounted
<1>14. Excused' = Excused
  BY <1>1 DEF Excused
<1> QED
  BY <1>1, <1>10, <1>11, <1>12, <1>13, <1>14 DEF DistillInv

(* A file is shortened: every counter in use leads further, over messages  *)
(* that are given the fate of it.                                          *)
LEMMA ShortenKept ==
  ASSUME BoundsAssumption, DistillInv,
         NEW s \in Sessions, NEW k \in 1..MaxMessages, Shorten(s, k)
  PROVE  DistillInv'
<1> DEFINE over == {n \in 1..MaxMessages :
                      \E f \in InUse : n > Reach(f, s) /\ n <= Reach(f, s) + k}
           given == {<<<<s, m>>, "shortened">> : m \in over}
<1>1. /\ k \in 1..(InFile(s) - 1)
      /\ dropped' = [dropped EXCEPT ![s] = @ + k]
      /\ recent' = Latest(s) /\ stale' = stale \ {s}
      /\ fate' = fate \cup given
      /\ UNCHANGED <<length, text, files, due, fts, run, scenario, marks, faults,
                     noted, doubled, raced>>
  BY DEF Shorten
<1>2. TypeOK /\ RunsOK(run) /\ Surroundings /\ Histories(noted, doubled, fate) /\ files \in StateFiles
  BY InvParts
<1>3. /\ \A t \in Sessions : length[t] \in Nat /\ length[t] \in 0 .. MaxMessages
      /\ \A t \in Sessions : dropped[t] \in 0 .. MaxMessages /\ dropped[t] <= length[t]
      /\ dropped \in [Sessions -> 0..MaxMessages]
      /\ MaxMessages \in Nat /\ k \in Nat /\ k > 0
  <2>1. MaxMessages \in Nat
    BY DEF BoundsAssumption
  <2> QED
    BY <1>2, <2>1, LengthNat DEF TypeOK
<1>4. /\ dropped' \in [Sessions -> 0..MaxMessages]
      /\ dropped'[s] = dropped[s] + k
      /\ \A t \in Sessions : t # s => dropped'[t] = dropped[t]
      /\ \A t \in Sessions : dropped'[t] <= length[t]
      /\ length[s] > 0
  <2>1. dropped[s] + k <= length[s] /\ dropped[s] + k \in 0 .. MaxMessages /\ length[s] > 0
    BY <1>1, <1>3 DEF InFile
  <2> DEFINE d == dropped[s] + k
  <2>2. dropped' = [dropped EXCEPT ![s] = d]
    BY <1>1
  <2>3. d <= length[s] /\ d \in 0 .. MaxMessages
    BY <2>1
  <2> HIDE DEF d
  <2>4. /\ dropped' \in [Sessions -> 0..MaxMessages] /\ dropped'[s] = d
        /\ \A t \in Sessions : t # s => dropped'[t] = dropped[t]
    BY <1>3, <2>2, <2>3
  <2>5. \A t \in Sessions : dropped'[t] <= length[t]
    BY <1>3, <2>3, <2>4
  <2> QED
    BY <2>1, <2>4, <2>5 DEF d
<1>5. given \subseteq Messages \X Fates /\ fate \subseteq fate'
  BY <1>1 DEF Messages, Fates
<1>6. \A m \in over : IsShortened(fate', s, m)
  BY <1>1 DEF IsShortened
<1>7. \A t \in Sessions, m \in Numbers :
        <<<<t, m>>, "distilled">> \in fate' => <<<<t, m>>, "distilled">> \in fate
  BY <1>1
<1>8. InUse \subseteq StateFiles
  BY <1>2, HeldIs DEF InUse
<1>9. ASSUME NEW f \in InUse
      PROVE  Lifts(Upto(f, dropped), Upto(f, dropped'), fate')
  <2> SUFFICES ASSUME NEW t \in Sessions, NEW m \in Numbers
      PROVE  /\ m <= Upto(f, dropped)[t] => m <= Upto(f, dropped')[t]
             /\ m <= Upto(f, dropped')[t] =>
                  m <= Upto(f, dropped)[t] \/ IsShortened(fate', t, m)
    BY DEF Lifts
  <2>1. /\ Upto(f, dropped)[t] \in Nat /\ Reach(f, t) = Upto(f, dropped)[t]
        /\ Upto(f, dropped)[t] = dropped[t] + Done(f, t)
        /\ dropped[t] \in Nat /\ Done(f, t) \in Nat
    BY <1>2, <1>8, UptoIs
  <2>2. Upto(f, dropped')[t] = dropped'[t] + Done(f, t)
    BY DEF Upto
  <2>3. CASE t # s
    BY <1>4, <2>1, <2>2, <2>3
  <2>4. CASE t = s
    <3>1. Upto(f, dropped')[t] = Upto(f, dropped)[t] + k
      BY <1>3, <1>4, <2>1, <2>2, <2>4
    <3>2. m \in 1..MaxMessages
      BY DEF Numbers
    <3>3. m > Reach(f, s) /\ m <= Reach(f, s) + k => m \in over
      BY <3>2
    <3> HIDE DEF over
    <3>4. m <= Upto(f, dropped)[t] => m <= Upto(f, dropped')[t]
      BY <1>3, <2>1, <3>1, <3>2
    <3>5. m <= Upto(f, dropped')[t] => m <= Upto(f, dropped)[t] \/ m \in over
      BY <1>3, <2>1, <2>4, <3>1, <3>2, <3>3
    <3> QED
      BY <1>6, <2>4, <3>4, <3>5
  <2> QED
    BY <2>3, <2>4
<1> HIDE DEF over, given
<1>10. Lifts(Upto(files, dropped), Upto(files, dropped'), fate')
  BY <1>9 DEF InUse
<1>11. TypeOK'
  <2>1. recent' \in Seq(Sessions) /\ ToSet(recent') = ToSet(recent) \cup {s}
    BY <1>1, <1>2, LatestIs
  <2>2. ToSet(recent') = {t \in Sessions : length[t] > 0}
    <3>1. ToSet(recent) = {t \in Sessions : length[t] > 0}
      BY <1>2, TypeParts
    <3> HIDE DEF ToSet
    <3> QED
      BY <1>4, <2>1, <3>1
  <2>3. Surroundings'
    BY <1>1, <1>2 DEF Surroundings
  <2>4. Histories(noted', doubled', fate')
    BY <1>1, <1>2, <1>5 DEF Histories
  <2>5. ToSet(recent)' = ToSet(recent')
    BY DEF ToSet
  <2>6. /\ length' \in [Sessions -> 0..MaxMessages] /\ text' \in [Sessions -> SUBSET (1..MaxMessages)]
        /\ \A t \in Sessions : text'[t] \subseteq 1..length'[t]
        /\ files' \in StateFiles /\ fts' \in [Sessions -> SUBSET (1..MaxMessages)]
        /\ \A t \in Sessions : fts'[t] \subseteq text'[t]
        /\ RunsOK(run') /\ \A t \in Sessions : dropped'[t] <= length'[t]
    BY <1>1, <1>2, <1>4, TypeParts
  <2> QED
    BY <1>1, <1>4, <2>1, <2>2, <2>3, <2>4, <2>5, <2>6
    DEF TypeOK, RunsOK, Surroundings, Histories
<1>12. ScansKept(run, text, length, fate', dropped')
  <2> SUFFICES ASSUME NEW q \in Runs, run[q].at # "idle"
      PROVE  Scanned(text, length, fate', Upto(run[q].base, dropped'),
                     Upto(run[q].files, dropped'), run[q].payload, run[q].gone)
    BY DEF ScansKept
  <2>1. run[q].base \in InUse /\ run[q].files \in InUse
    BY DEF InUse
  <2>2. Scanned(text, length, fate, Upto(run[q].base, dropped),
                Upto(run[q].files, dropped), run[q].payload, run[q].gone)
    BY DEF DistillInv, ScansKept
  <2> QED
    BY <1>5, <1>9, <2>1, <2>2, LiftedScan
<1>13. /\ Explained(text, length, fate', Upto(files, dropped'))
       /\ Ahead(length, fate', Upto(files, dropped'))
  BY <1>5, <1>10, LiftedCounter DEF DistillInv
<1>14. NotedCounted(noted, text, fate', Upto(files, dropped'), Excused)
  BY <1>5, <1>10 DEF DistillInv, NotedCounted, Lifts, Displaced, IsShortened
<1>15. Repeats(doubled, fate', Excused)
  <2>1. Repeats(doubled, fate, Excused)
    BY DEF DistillInv
  <2> QED
    BY <1>5, <2>1 DEF Repeats, Displaced, IsShortened
<1>16. FoundInNotes(fts, noted) /\ (faults = 0 => DistilledFound(fate', fts))
  BY <1>7 DEF DistillInv, DistilledFound
<1>17. Excused' = Excused
  BY <1>1 DEF Excused
<1> QED
  BY <1>1, <1>11, <1>12, <1>13, <1>14, <1>15, <1>16, <1>17 DEF DistillInv

(* summary_memory marks messages.                                          *)
LEMMA MarkKept ==
  ASSUME BoundsAssumption, DistillInv,
         NEW s \in Sessions, NEW n \in 1..MaxMessages, Mark(s, n)
  PROVE  DistillInv'
<1> DEFINE passed == {t \in Matches[s] : length[t] > 0 /\ n > Done(files, t)}
           written == {<<s, m>> : m \in text[s] \cap First(s, n)}
           own == {<<<<s, m>>, "summarised">> : m \in First(s, n)}
           swept == UNION {{<<<<t, m>>, "swept">> : m \in First(t, n)} : t \in passed \ {s}}
           before == Upto(files, dropped)
           after == Upto(files', dropped)
<1>1. /\ marks < scenario.marks /\ marks' = marks + 1 /\ n \in 1..InFile(s)
      /\ files' = Counting(files, passed, n)
      /\ noted' = noted \cup written
      /\ fate' = fate \cup own \cup swept
      /\ UNCHANGED <<length, dropped, text, recent, stale, due, fts, run, scenario, faults, doubled, raced>>
  BY DEF Mark, Counting, disk
<1>2. TypeOK /\ RunsOK(run) /\ Surroundings /\ Histories(noted, doubled, fate) /\ files \in StateFiles
  BY InvParts
<1>3. \A t \in Sessions : /\ length[t] \in Nat /\ length[t] \in 0 .. MaxMessages
                          /\ text[t] \subseteq 1 .. length[t] /\ text[t] \subseteq Numbers
  BY <1>2, LengthNat
<1>4. /\ MaxMessages \in Nat /\ passed \in SUBSET Sessions /\ s \in Matches[s]
      /\ n \in 0 .. MaxMessages /\ n \in Nat
  BY DEF BoundsAssumption
<1>5. \A t \in passed : length[t] > 0 /\ n > Done(files, t)
  OBVIOUS
<1>6. Done(files, s) < n /\ length[s] > 0 => s \in passed
  <2>1. Done(files, s) \in Nat
    BY <1>2, DoneNat
  <2> QED
    BY <1>4, <2>1
<1> HIDE DEF passed
<1>7. /\ files' \in StateFiles
      /\ \A t : Done(files', t) = IF t \in passed THEN n ELSE Done(files, t)
  BY <1>1, <1>2, <1>4, Recounted
<1>8. \A t \in Sessions :
        /\ before[t] \in Nat /\ after[t] \in Nat /\ dropped[t] \in Nat
        /\ before[t] = dropped[t] + Done(files, t)
        /\ after[t] = IF t \in passed THEN dropped[t] + n ELSE before[t]
        /\ before[t] <= after[t]
  <2> SUFFICES ASSUME NEW t \in Sessions
      PROVE  /\ before[t] \in Nat /\ after[t] \in Nat /\ dropped[t] \in Nat
             /\ before[t] = dropped[t] + Done(files, t)
             /\ after[t] = IF t \in passed THEN dropped[t] + n ELSE before[t]
             /\ before[t] <= after[t]
    OBVIOUS
  <2>1. /\ before[t] = dropped[t] + Done(files, t)
        /\ dropped[t] \in Nat /\ Done(files, t) \in Nat
    BY <1>2, UptoIs
  <2>2. after[t] = dropped[t] + Done(files', t)
    BY DEF Upto
  <2> HIDE DEF before, after
  <2>3. CASE t \in passed
    BY <1>4, <1>5, <1>7, <2>1, <2>2, <2>3
  <2>4. CASE t \notin passed
    BY <1>7, <2>1, <2>2, <2>4
  <2> QED
    BY <2>3, <2>4
<1> HIDE DEF before, after
<1>9. \A t \in Sessions, m \in Numbers :
        m \in First(t, n) <=> (m > dropped[t] /\ m <= dropped[t] + n)
  BY DEF First, Numbers
<1>10. \A m \in First(s, n) : m \in Numbers /\ m <= after[s]
  <2>1. length[s] > 0 /\ Done(files, s) \in Nat
    BY <1>1, <1>2, <1>3, UptoIs DEF InFile
  <2>2. dropped[s] + n <= after[s]
    BY <1>4, <1>6, <1>8, <2>1
  <2> QED
    BY <1>4, <1>8, <2>2 DEF First, Numbers
<1>11. written \subseteq Messages
  BY <1>3 DEF Messages, Numbers
<1>12. own \subseteq Messages \X Fates /\ swept \subseteq Messages \X Fates
  <2>1. \A t \in Sessions : \A m \in First(t, n) : <<t, m>> \in Messages
    BY DEF Messages, First
  <2> QED
    BY <1>4, <2>1 DEF Fates
<1>13. /\ \A m \in First(s, n) : <<<<s, m>>, "summarised">> \in fate'
       /\ \A t \in passed \ {s} : \A m \in First(t, n) : Displaced(fate', t, m)
       /\ fate \subseteq fate'
  BY <1>1 DEF Displaced
<1>14. \A t \in Sessions, m \in Numbers :
         <<<<t, m>>, "distilled">> \in fate' => <<<<t, m>>, "distilled">> \in fate
  BY <1>1
<1>15. \A t \in Sessions, m \in Numbers :
         <<t, m>> \in noted' => <<t, m>> \in noted \/ (t = s /\ m \in text[s] /\ m \in First(s, n))
  BY <1>1
<1>16. Histories(noted', doubled', fate')
  BY <1>1, <1>2, <1>11, <1>12 DEF Histories
<1> HIDE DEF written, own, swept
<1>17. TypeOK'
  <2>1. UNCHANGED disk
    BY <1>1 DEF disk
  <2>2. Surroundings'
    <3>1. scenario.marks \in Nat /\ marks \in 0 .. scenario.marks
      BY <1>2 DEF Surroundings, BoundsAssumption
    <3>2. marks' \in 0 .. scenario.marks
      BY <1>1, <3>1
    <3> QED
      BY <1>1, <1>2, <3>2 DEF Surroundings
  <2>3. /\ fts' \in [Sessions -> SUBSET (1..MaxMessages)]
        /\ \A t \in Sessions : fts'[t] \subseteq text[t] /\ RunsOK(run')
    BY <1>1, <1>2, TypeParts
  <2>4. RunsOK(run')
    BY <1>1, <1>2
  <2> QED
    BY <1>2, <1>7, <1>16, <2>1, <2>2, <2>3, <2>4, DiskKept
<1>18. Grows(text, length, fate, text, length, fate')
  BY <1>2, <1>13, MoreFates
<1>19. Explained(text, length, fate', after)
  <2> SUFFICES ASSUME NEW t \in Sessions, NEW m \in Numbers, m <= after[t],
                      Open(text, length, t, m)
      PROVE  Fated(fate', t, m)
    BY DEF Explained
  <2>1. CASE m <= before[t]
    <3>1. Fated(fate, t, m)
      BY <2>1 DEF DistillInv, Explained, before
    <3> QED
      BY <1>13, <3>1 DEF Fated
  <2>2. CASE ~(m <= before[t])
    <3>1. t \in passed /\ m \in First(t, n)
      <4>1. t \in passed /\ m \in Nat
        BY <1>8, <2>2 DEF Numbers
      <4>2. Done(files, t) \in Nat
        BY <1>2, UptoIs
      <4> QED
        BY <1>4, <1>8, <1>9, <2>2, <4>1, <4>2
    <3>2. CASE t = s
      BY <1>13, <3>1, <3>2 DEF Fated, Fates
    <3>3. CASE t # s
      <4>1. Displaced(fate', t, m)
        BY <1>13, <3>1, <3>3
      <4> QED
        BY <4>1 DEF Fated, Fates, Displaced, IsShortened
    <3> QED
      BY <3>2, <3>3
  <2> QED
    BY <2>1, <2>2
<1>20. Ahead(length, fate', after)
  <2> SUFFICES ASSUME NEW t \in Sessions, NEW m \in Numbers, m <= after[t], m > length[t]
      PROVE  Displaced(fate', t, m)
    BY DEF Ahead
  <2>1. CASE m <= before[t]
    <3>1. Displaced(fate, t, m)
      BY <2>1 DEF DistillInv, Ahead, before
    <3> QED
      BY <1>13, <3>1 DEF Displaced, IsShortened
  <2>2. CASE ~(m <= before[t])
    <3>1. t \in passed /\ m \in Nat
      BY <1>8, <2>2 DEF Numbers
    <3>2. Done(files, t) \in Nat
      BY <1>2, UptoIs
    <3>3. m \in First(t, n)
      BY <1>4, <1>8, <1>9, <2>2, <3>1, <3>2
    <3>4. t # s
      <4>1. dropped[s] + n <= length[s]
        BY <1>1, <1>3, <1>4, <1>8 DEF InFile
      <4> QED
        BY <1>3, <1>4, <1>8, <1>9, <3>1, <3>3, <4>1
    <3> QED
      BY <1>13, <3>1, <3>3, <3>4
  <2> QED
    BY <2>1, <2>2
<1>21. ScansKept(run, text, length, fate', dropped)
  <2>1. Continues(run) /\ ScansKept(run, text, length, fate, dropped)
    BY DEF Continues, DistillInv
  <2> QED
    BY <1>18, <2>1, StillScanned
<1>22. NotedCounted(noted', text, fate', after, Excused)
  <2> SUFFICES ASSUME NEW t \in Sessions, NEW m \in Numbers, <<t, m>> \in noted'
      PROVE  m \in text[t] /\ (Excused \/ m <= after[t] \/ Displaced(fate', t, m))
    BY DEF NotedCounted
  <2>1. CASE <<t, m>> \in noted
    <3>1. m \in text[t] /\ (Excused \/ m <= before[t] \/ Displaced(fate, t, m))
      BY <2>1 DEF DistillInv, NotedCounted, before
    <3>2. Displaced(fate, t, m) => Displaced(fate', t, m)
      BY <1>13 DEF Displaced, IsShortened
    <3>3. m <= before[t] => m <= after[t]
      <4>1. m \in Nat
        BY DEF Numbers
      <4> QED
        BY <1>8, <4>1
    <3> QED
      BY <3>1, <3>2, <3>3
  <2>2. CASE t = s /\ m \in text[s] /\ m \in First(s, n)
    BY <1>10, <2>2
  <2> QED
    BY <1>15, <2>1, <2>2
<1>23. Repeats(doubled, fate', Excused)
  <2>1. Repeats(doubled, fate, Excused)
    BY DEF DistillInv
  <2> QED
    BY <1>13, <2>1 DEF Repeats, Displaced, IsShortened
<1>24. FoundInNotes(fts, noted')
  BY <1>1 DEF DistillInv, FoundInNotes
<1>25. faults = 0 => DistilledFound(fate', fts)
  BY <1>14 DEF DistillInv, DistilledFound
<1>26. Excused' = Excused /\ Upto(files', dropped') = after
  BY <1>1 DEF Excused, after
<1> QED
  BY <1>1, <1>17, <1>19, <1>20, <1>21, <1>22, <1>23, <1>24, <1>25, <1>26 DEF DistillInv

LEMMA FewKept ==
  ASSUME BoundsAssumption, DistillInv,
         Elapse \/ Crash \/ (\E r \in Runs : Fail(r) \/ Digest(r))
  PROVE  DistillInv'
<1>1. /\ TypeOK /\ RunsOK(run) /\ Surroundings /\ Histories(noted, doubled, fate)
      /\ files \in StateFiles
  BY InvParts
<1>2. scenario.faults \in Nat /\ faults \in 0 .. scenario.faults
  BY <1>1 DEF Surroundings, BoundsAssumption
<1>3. Continues(run)
  BY DEF Continues
<1>4. CASE Elapse
  <2>1. /\ UNCHANGED <<disk, files, fts, run, scenario, marks, faults, history>> /\ due' = TRUE
    BY <1>4 DEF Elapse
  <2>2. Surroundings'
    BY <1>1, <2>1 DEF Surroundings, disk, history
  <2>3. RunsOK(run') /\ Continues(run')
    BY <1>1, <1>3, <2>1
  <2> QED
    BY <2>1, <2>2, <2>3, Undisturbed
<1>5. CASE Crash
  <2>1. /\ UNCHANGED <<disk, files, due, fts, scenario, marks, history>>
        /\ faults < scenario.faults /\ faults' = faults + 1
        /\ run' = [q \in Runs |-> Idle] /\ \E r \in Runs : run[r] # Idle
    BY <1>5 DEF Crash
  <2>2. faults' \in 0 .. scenario.faults /\ faults' # 0
    BY <1>2, <2>1
  <2>3. Surroundings'
    BY <1>1, <2>1, <2>2 DEF Surroundings, disk, history
  <2>4. RunsOK(run') /\ Continues(run')
    BY <1>1, <2>1, RunsEnd
  <2> QED
    BY <2>1, <2>2, <2>3, <2>4, Undisturbed
<1>6. ASSUME NEW r \in Runs, Fail(r) PROVE DistillInv'
  <2>1. /\ UNCHANGED <<disk, files, due, fts, scenario, marks, faults, history>>
        /\ run' = [run EXCEPT ![r] = Idle]
    BY <1>6 DEF Fail
  <2>2. Surroundings'
    BY <1>1, <2>1 DEF Surroundings, disk, history
  <2>3. RunsOK(run') /\ Continues(run')
    BY <1>1, <2>1, RunsEnd
  <2> QED
    BY <2>1, <2>2, <2>3, Undisturbed
<1>7. ASSUME NEW r \in Runs, Digest(r) PROVE DistillInv'
  <2>1. /\ UNCHANGED <<disk, files, due, fts, scenario, marks, faults, history>>
        /\ run[r].at = "llm" /\ run' = [run EXCEPT ![r].at = "dedup"]
    BY <1>7 DEF Digest
  <2>2. Surroundings'
    BY <1>1, <2>1 DEF Surroundings, disk, history
  <2>3. run \in [Runs -> Held] /\ run[r] \in Held /\ run[r].payload # {}
    BY <1>1, <2>1 DEF RunsOK
  <2> DEFINE h == [run[r] EXCEPT !.at = "dedup"]
  <2>4. /\ h \in Held /\ h.at = "dedup" /\ h.base = run[r].base /\ h.files = run[r].files
        /\ h.payload = run[r].payload /\ h.gone = run[r].gone
    BY <2>3 DEF Held
  <2>5. run' = [run EXCEPT ![r] = h]
    BY <2>1
  <2> HIDE DEF h
  <2>6. /\ run' \in [Runs -> Held] /\ run'[r] = h
        /\ \A q \in Runs : q # r => run'[q] = run[q]
    BY <2>3, <2>4, <2>5
  <2>7. RunsOK(run')
    BY <1>1, <2>3, <2>4, <2>6 DEF RunsOK
  <2>8. Continues(run')
    BY <2>1, <2>4, <2>6 DEF Continues
  <2> QED
    BY <2>1, <2>2, <2>7, <2>8, Undisturbed
<1> QED
  BY <1>4, <1>5, <1>6, <1>7

LEMMA MidnightKept == ASSUME DistillInv, Midnight PROVE DistillInv'
<1>1. /\ stale' = ToSet(recent)
      /\ UNCHANGED <<length, dropped, text, recent, files, due, fts, run, scenario, marks,
                     faults, noted, doubled, fate, raced>>
  BY DEF Midnight, history
<1>2. TypeOK'
  <2>1. stale' \subseteq Sessions
    BY <1>1 DEF DistillInv, TypeOK
  <2> QED
    BY <1>1, <2>1 DEF DistillInv, TypeOK, ToSet
<1>3. Excused' = Excused
  BY <1>1 DEF Excused
<1> QED
  BY <1>1, <1>2, <1>3 DEF DistillInv

(* A scan is saved.                                                        *)
LEMMA SaveKept ==
  ASSUME BoundsAssumption, DistillInv, UNCHANGED disk,
         NEW f \in StateFiles, NEW g \in StateFiles,
         NEW p \in SUBSET Messages, NEW x \in SUBSET Losses,
         Scanned(text, length, fate, Upto(f, dropped), Upto(g, dropped), p, x),
         NEW label \in {"judged", "distilled"},
         files' = g, fate' = (fate \cup x) \cup {<<y, label>> : y \in p},
         Excused => Excused', ~Excused' => files = f,
         RunsOK(run'), Continues(run'), Surroundings',
         \/ noted' = noted /\ doubled' = doubled
         \/ noted' = noted \cup p /\ doubled' = doubled \cup (noted \cap p),
         fts' \in [Sessions -> SUBSET (1..MaxMessages)],
         \A s \in Sessions : fts'[s] \subseteq text[s],
         FoundInNotes(fts', noted'), faults' = 0 => DistilledFound(fate', fts')
  PROVE  DistillInv'
<1> DEFINE c == Upto(f, dropped)
           e == Upto(g, dropped)
<1>1. length' = length /\ text' = text /\ dropped' = dropped /\ Upto(files', dropped') = e
  BY DEF disk
<1>2. TypeOK /\ RunsOK(run) /\ Surroundings /\ Histories(noted, doubled, fate) /\ files \in StateFiles
  BY InvParts
<1>3. Scanned(text, length, fate, c, e, p, x)
  OBVIOUS
<1>4. label \in Fates /\ {"cut", "historical"} \subseteq Fates
  BY DEF Fates
<1>5. /\ Explained(text, length, fate', e) /\ Ahead(length, fate', e) /\ fate \subseteq fate'
  BY <1>3, <1>4, SavedScan
<1>6. Histories(noted', doubled', fate')
  <2>1. x \subseteq Messages \X Fates /\ {<<y, label>> : y \in p} \subseteq Messages \X Fates
    BY <1>4 DEF Losses
  <2>2. fate' \subseteq Messages \X Fates
    BY <1>2, <2>1 DEF Histories
  <2>3. noted' \subseteq Messages /\ doubled' \subseteq noted'
    BY <1>2 DEF Histories
  <2> QED
    BY <2>2, <2>3 DEF Histories
<1>7. TypeOK'
  BY <1>2, <1>6, DiskKept
<1>8. ScansKept(run', text, length, fate', dropped)
  <2>1. Grows(text, length, fate, text, length, fate')
    BY <1>2, <1>5, MoreFates
  <2>2. ScansKept(run, text, length, fate, dropped)
    BY DEF DistillInv
  <2> QED
    BY <2>1, <2>2, StillScanned
<1>9. /\ NotedCounted(noted, text, fate, Upto(files, dropped), Excused)
      /\ Repeats(doubled, fate, Excused)
  BY DEF DistillInv
<1>10. /\ Fresh(text, fate, c, e, p) /\ Setback(fate, c, e)
       /\ ~Excused' => Upto(files, dropped) = c
  BY <1>3 DEF Scanned
<1> HIDE DEF c, e
<1>11. ASSUME NEW s \in Sessions, NEW m \in Numbers, Displaced(fate, s, m)
       PROVE  Displaced(fate', s, m)
  BY <1>5, <1>11 DEF Displaced, IsShortened
<1>12. NotedCounted(noted', text, fate', e, Excused')
  <2> SUFFICES ASSUME NEW s \in Sessions, NEW m \in Numbers, <<s, m>> \in noted'
      PROVE  m \in text[s] /\ (Excused' \/ m <= e[s] \/ Displaced(fate', s, m))
    BY DEF NotedCounted
  <2>1. CASE <<s, m>> \in p
    BY <1>10, <2>1 DEF Fresh
  <2>2. CASE <<s, m>> \in noted
    <3>1. m \in text[s] /\ (Excused \/ m <= Upto(files, dropped)[s] \/ Displaced(fate, s, m))
      BY <1>9, <2>2 DEF NotedCounted
    <3>2. ~Excused' /\ m <= Upto(files, dropped)[s] => m <= e[s] \/ Displaced(fate, s, m)
      BY <1>10 DEF Setback
    <3> QED
      BY <1>11, <3>1, <3>2
  <2> QED
    BY <2>1, <2>2
<1>13. Repeats(doubled', fate', Excused')
  <2> SUFFICES ASSUME NEW s \in Sessions, NEW m \in Numbers, <<s, m>> \in doubled', ~Excused'
      PROVE  Displaced(fate', s, m)
    BY DEF Repeats
  <2>1. CASE <<s, m>> \in doubled
    BY <1>9, <1>11, <2>1 DEF Repeats
  <2>2. CASE <<s, m>> \in noted /\ <<s, m>> \in p
    <3>1. m <= Upto(files, dropped)[s] \/ Displaced(fate, s, m)
      BY <1>9, <2>2 DEF NotedCounted
    <3>2. ~(m <= c[s]) \/ Displaced(fate, s, m)
      BY <1>10, <2>2 DEF Fresh
    <3> QED
      BY <1>10, <1>11, <3>1, <3>2
  <2> QED
    BY <2>1, <2>2
<1>14. /\ Explained(text', length', fate', Upto(files', dropped'))
       /\ Ahead(length', fate', Upto(files', dropped'))
  BY <1>1, <1>5
<1>15. ScansKept(run', text', length', fate', dropped')
  BY <1>1, <1>8
<1>16. NotedCounted(noted', text', fate', Upto(files', dropped'), Excused')
  BY <1>1, <1>12
<1>17. FoundInNotes(fts', noted') /\ (faults' = 0 => DistilledFound(fate', fts'))
  OBVIOUS
<1> QED
  BY <1>7, <1>13, <1>14, <1>15, <1>16, <1>17 DEF DistillInv

(* The label of a run that found nothing makes nothing distilled.          *)
LEMMA NotDistilled ==
  ASSUME NEW F, NEW I, DistilledFound(F, I), NEW x \in SUBSET Losses, NEW p
  PROVE  DistilledFound((F \cup x) \cup {<<y, "judged">> : y \in p}, I)
BY DEF DistilledFound, Losses

LEMMA BeginKept ==
  ASSUME BoundsAssumption, DistillInv, NEW r \in Runs, Begin(r)
  PROVE  DistillInv'
<1> DEFINE g == Scan.files
           p == Scan.payload
           x == Scan.gone
<1>1. /\ TypeOK /\ RunsOK(run) /\ Surroundings /\ Histories(noted, doubled, fate)
      /\ files \in StateFiles
  BY InvParts
<1>2. /\ g \in StateFiles /\ p \subseteq Messages /\ x \subseteq Losses
      /\ Scanned(text, length, fate, Upto(files, dropped), Upto(g, dropped), p, x)
  BY <1>1, ScanFacts DEF DistillInv
<1>3. UNCHANGED <<disk, fts, scenario, marks, faults, noted, doubled, raced>>
  BY DEF Begin
<1>4. \/ /\ p = {} /\ files' = g /\ due' = FALSE
         /\ fate' = (fate \cup x) \cup {<<y, "judged">> : y \in {}} /\ run' = run
      \/ /\ p # {} /\ UNCHANGED <<files, due, fate>>
         /\ run' = [run EXCEPT ![r] = [at |-> "llm", base |-> files, files |-> g,
                                       payload |-> p, gone |-> x]]
  BY DEF Begin, Save, Forget
<1> HIDE DEF g, p, x
<1>5. Surroundings' /\ Excused' = Excused
  BY <1>1, <1>3, <1>4 DEF Surroundings, Excused, disk
<1>6. /\ fts' \in [Sessions -> SUBSET (1..MaxMessages)]
      /\ \A s \in Sessions : fts'[s] \subseteq text[s]
  BY <1>1, <1>3 DEF TypeOK
<1>7. CASE /\ p = {} /\ files' = g /\ due' = FALSE
           /\ fate' = (fate \cup x) \cup {<<y, "judged">> : y \in {}} /\ run' = run
  <2>1. RunsOK(run') /\ Continues(run')
    BY <1>1, <1>7 DEF Continues
  <2>2. FoundInNotes(fts', noted')
    BY <1>3 DEF DistillInv
  <2>3. fate' = (fate \cup x) \cup {<<y, "judged">> : y \in p}
    BY <1>7
  <2>4. faults' = 0 => DistilledFound(fate', fts')
    <3>1. faults = 0 => DistilledFound(fate, fts)
      BY DEF DistillInv
    <3> QED
      BY <1>2, <1>3, <2>3, <3>1, NotDistilled
  <2> QED
    BY <1>1, <1>2, <1>3, <1>5, <1>6, <1>7, <2>1, <2>2, <2>3, <2>4, SaveKept
<1>8. CASE /\ p # {} /\ UNCHANGED <<files, due, fate>>
           /\ run' = [run EXCEPT ![r] = [at |-> "llm", base |-> files, files |-> g,
                                         payload |-> p, gone |-> x]]
  <2> DEFINE h == [at |-> "llm", base |-> files, files |-> g, payload |-> p, gone |-> x]
  <2>1. /\ h \in Held /\ h.at = "llm" /\ h.base = files /\ h.files = g
        /\ h.payload = p /\ h.gone = x
    BY <1>1, <1>2 DEF Held
  <2>2. run' = [run EXCEPT ![r] = h] /\ run \in [Runs -> Held]
    BY <1>1, <1>8 DEF RunsOK
  <2> HIDE DEF h
  <2>3. /\ run' \in [Runs -> Held] /\ run'[r] = h
        /\ \A q \in Runs : q # r => run'[q] = run[q]
    BY <2>1, <2>2
  <2>4. RunsOK(run')
    BY <1>1, <1>8, <2>1, <2>3 DEF RunsOK
  <2>5. Histories(noted', doubled', fate') /\ files' \in StateFiles
    BY <1>1, <1>3, <1>8
  <2>6. TypeOK'
    BY <1>1, <1>3, <1>5, <1>6, <2>4, <2>5, DiskKept
  <2>7. ScansKept(run', text, length, fate, dropped)
    <3> SUFFICES ASSUME NEW q \in Runs, run'[q].at # "idle"
        PROVE  Scanned(text, length, fate, Upto(run'[q].base, dropped),
                       Upto(run'[q].files, dropped), run'[q].payload, run'[q].gone)
      BY DEF ScansKept
    <3>1. CASE q = r
      BY <1>2, <2>1, <2>3, <3>1
    <3>2. CASE q # r
      BY <2>3, <3>2 DEF DistillInv, ScansKept
    <3> QED
      BY <3>1, <3>2
  <2>8. /\ length' = length /\ dropped' = dropped /\ text' = text /\ fts' = fts /\ noted' = noted
        /\ doubled' = doubled /\ faults' = faults /\ files' = files /\ fate' = fate
    BY <1>3, <1>8 DEF disk
  <2> QED
    BY <1>5, <2>6, <2>7, <2>8 DEF DistillInv
<1> QED
  BY <1>4, <1>7, <1>8

(* What the row of a session becomes.                                      *)
LEMMA IndexedIs ==
  ASSUME TypeOK, NEW p \in SUBSET Messages,
         \A s \in Sessions, m \in Numbers : <<s, m>> \in p => m \in text[s]
  PROVE  /\ Indexed(p) \in [Sessions -> SUBSET (1..MaxMessages)]
         /\ \A s \in Sessions :
              /\ Indexed(p)[s] \subseteq text[s]
              /\ \A m \in Indexed(p)[s] : m \in fts[s] \/ <<s, m>> \in p
              /\ \A m \in Numbers : <<s, m>> \in p => Indexed(p)[s] # {}
              /\ fts[s] # {} => Indexed(p)[s] # {}
<1> DEFINE row(s) == {x[2] : x \in {y \in p : y[1] = s}}
           I == Indexed(p)
<1>1. I = [s \in Sessions |-> IF row(s) = {} THEN fts[s] ELSE row(s)]
  BY DEF Indexed
<1>2. /\ fts \in [Sessions -> SUBSET (1..MaxMessages)]
      /\ \A s \in Sessions : fts[s] \subseteq text[s]
  BY DEF TypeOK
<1>3. ASSUME NEW s \in Sessions
      PROVE  /\ \A m \in row(s) : m \in Numbers /\ <<s, m>> \in p /\ m \in text[s]
             /\ \A m \in Numbers : <<s, m>> \in p => m \in row(s)
  <2>1. ASSUME NEW m \in row(s) PROVE m \in Numbers /\ <<s, m>> \in p
    <3>1. PICK x \in p : x[1] = s /\ m = x[2]
      OBVIOUS
    <3>2. x \in Sessions \X Numbers
      BY DEF Messages, Numbers
    <3>3. x = <<s, m>> /\ m \in Numbers
      BY <3>1, <3>2
    <3> QED
      BY <3>3
  <2>2. ASSUME NEW m \in Numbers, <<s, m>> \in p PROVE m \in row(s)
    <3>1. <<s, m>>[1] = s /\ <<s, m>>[2] = m
      OBVIOUS
    <3> QED
      BY <2>2, <3>1
  <2> QED
    BY <2>1, <2>2
<1> HIDE DEF I, row
<1>4. ASSUME NEW s \in Sessions
      PROVE  /\ I[s] = IF row(s) = {} THEN fts[s] ELSE row(s)
             /\ I[s] \subseteq text[s] /\ I[s] \in SUBSET (1..MaxMessages)
             /\ \A m \in I[s] : m \in fts[s] \/ <<s, m>> \in p
             /\ \A m \in Numbers : <<s, m>> \in p => I[s] # {}
             /\ fts[s] # {} => I[s] # {}
  <2>1. I[s] = IF row(s) = {} THEN fts[s] ELSE row(s)
    BY <1>1
  <2>2. fts[s] \in SUBSET (1..MaxMessages) /\ row(s) \in SUBSET (1..MaxMessages)
    BY <1>2, <1>3 DEF Numbers
  <2> QED
    BY <1>2, <1>3, <2>1, <2>2
<1>5. I \in [Sessions -> SUBSET (1..MaxMessages)]
  BY <1>1, <1>4
<1> QED
  BY <1>4, <1>5 DEF I

(* The note is written, and the state file is not.                         *)
LEMMA NoteKept ==
  ASSUME BoundsAssumption, DistillInv, UNCHANGED <<disk, files, fate>>,
         NEW c, NEW e, NEW p \in SUBSET Messages, Fresh(text, fate, c, e, p),
         faults' # 0, Surroundings', RunsOK(run'), Continues(run'),
         noted' = noted \cup p, doubled' = doubled \cup (noted \cap p),
         fts' \in [Sessions -> SUBSET (1..MaxMessages)],
         \A s \in Sessions : fts'[s] \subseteq text[s],
         FoundInNotes(fts', noted')
  PROVE  DistillInv'
<1>1. /\ length' = length /\ dropped' = dropped /\ text' = text
      /\ files' = files /\ fate' = fate
  BY DEF disk
<1>2. TypeOK /\ RunsOK(run) /\ Surroundings /\ Histories(noted, doubled, fate) /\ files \in StateFiles
  BY InvParts
<1>3. Histories(noted', doubled', fate')
  BY <1>1, <1>2 DEF Histories
<1>4. TypeOK'
  BY <1>1, <1>2, <1>3, DiskKept
<1>5. Excused'
  <2>1. faults' \in Nat
    BY DEF Surroundings, BoundsAssumption
  <2>2. faults' > 0
    BY <2>1
  <2> QED
    BY <2>2 DEF Excused
<1>6. ScansKept(run', text, length, fate, dropped)
  <2>1. Grows(text, length, fate, text, length, fate)
    BY <1>2, MoreFates
  <2>2. ScansKept(run, text, length, fate, dropped)
    BY DEF DistillInv
  <2> QED
    BY <2>1, <2>2, StillScanned
<1>7. NotedCounted(noted', text', fate', Upto(files', dropped'), Excused')
  <2>1. ASSUME NEW s \in Sessions, NEW m \in Numbers, <<s, m>> \in noted'
        PROVE  m \in text[s]
    BY <2>1 DEF DistillInv, NotedCounted, Fresh
  <2> QED
    BY <1>1, <1>5, <2>1 DEF NotedCounted
<1>8. Repeats(doubled', fate', Excused')
  BY <1>5 DEF Repeats
<1>9. /\ Explained(text', length', fate', Upto(files', dropped'))
      /\ Ahead(length', fate', Upto(files', dropped'))
  BY <1>1 DEF DistillInv
<1>10. ScansKept(run', text', length', fate', dropped')
  BY <1>1, <1>6
<1> QED
  BY <1>4, <1>7, <1>8, <1>9, <1>10 DEF DistillInv

(* What a run holds when it ends.                                          *)
LEMMA HeldScan ==
  ASSUME DistillInv, NEW r \in Runs, run[r].at # "idle"
  PROVE  /\ run[r].base \in StateFiles /\ run[r].files \in StateFiles
         /\ run[r].payload \in SUBSET Messages /\ run[r].gone \in SUBSET Losses
         /\ Scanned(text, length, fate, Upto(run[r].base, dropped),
                    Upto(run[r].files, dropped), run[r].payload, run[r].gone)
         /\ Fresh(text, fate, Upto(run[r].base, dropped), Upto(run[r].files, dropped),
                  run[r].payload)
BY InvParts, HeldIs DEF DistillInv, ScansKept, Scanned

LEMMA NothingKept ==
  ASSUME BoundsAssumption, DistillInv, NEW r \in Runs, Nothing(r)
  PROVE  DistillInv'
<1> DEFINE f == run[r].base
           g == run[r].files
           p == run[r].payload
           x == run[r].gone
<1>1. /\ run[r].at # "idle" /\ files' = g /\ due' = FALSE
      /\ fate' = (fate \cup x) \cup {<<y, "judged">> : y \in p}
      /\ raced' = (raced \/ files # f)
      /\ run' = [run EXCEPT ![r] = Idle]
      /\ UNCHANGED <<disk, fts, scenario, marks, faults, noted, doubled>>
  BY DEF Nothing, Save, Forget
<1>2. /\ TypeOK /\ RunsOK(run) /\ Surroundings /\ files \in StateFiles
  BY InvParts
<1>3. /\ f \in StateFiles /\ g \in StateFiles /\ p \in SUBSET Messages /\ x \in SUBSET Losses
      /\ Scanned(text, length, fate, Upto(f, dropped), Upto(g, dropped), p, x)
  BY <1>1, HeldScan
<1> HIDE DEF f, g, p, x
<1>4. RunsOK(run') /\ Continues(run')
  BY <1>1, <1>2, RunsEnd
<1>5. Surroundings'
  <2>1. due' \in BOOLEAN /\ raced' \in BOOLEAN
    BY <1>1
  <2> QED
    BY <1>1, <1>2, <2>1 DEF Surroundings, disk
<1>6. (Excused => Excused') /\ (~Excused' => files = f)
  BY <1>1 DEF Excused
<1>7. /\ fts' \in [Sessions -> SUBSET (1..MaxMessages)]
      /\ \A s \in Sessions : fts'[s] \subseteq text[s]
  BY <1>1, <1>2 DEF TypeOK
<1>8. FoundInNotes(fts', noted')
  BY <1>1 DEF DistillInv
<1>9. faults' = 0 => DistilledFound(fate', fts')
  <2>1. faults = 0 => DistilledFound(fate, fts)
    BY DEF DistillInv
  <2> QED
    BY <1>1, <1>3, <2>1, NotDistilled
<1> QED
  BY <1>1, <1>3, <1>4, <1>5, <1>6, <1>7, <1>8, <1>9, SaveKept

LEMMA WriteKept ==
  ASSUME BoundsAssumption, DistillInv, NEW r \in Runs,
         NEW upTo \in {"note", "state", "index"}, Write(r, upTo) \/ WriteUnsaved(r)
  PROVE  DistillInv'
<1> DEFINE f == run[r].base
           g == run[r].files
           p == run[r].payload
           x == run[r].gone
<1>1. /\ run[r].at # "idle" /\ UNCHANGED <<disk, scenario, marks>>
      /\ noted' = noted \cup p /\ doubled' = doubled \cup (noted \cap p)
  BY DEF Write, WriteUnsaved
<1>2. /\ TypeOK /\ RunsOK(run) /\ Surroundings /\ files \in StateFiles
  BY InvParts
<1>3. /\ f \in StateFiles /\ g \in StateFiles /\ p \in SUBSET Messages /\ x \in SUBSET Losses
      /\ Scanned(text, length, fate, Upto(f, dropped), Upto(g, dropped), p, x)
      /\ Fresh(text, fate, Upto(f, dropped), Upto(g, dropped), p)
  BY <1>1, HeldScan
<1>4. \/ /\ fts' = Indexed(p) /\ run' = [run EXCEPT ![r] = Idle]
         /\ faults' = faults /\ upTo = "index"
      \/ /\ fts' \in {fts, Indexed(p)}
         /\ run' \in {[run EXCEPT ![r] = Idle], [q \in Runs |-> Idle]}
         /\ faults < scenario.faults /\ faults' = faults + 1
  BY DEF Write, WriteUnsaved
<1>5. \/ /\ UNCHANGED <<files, due, fate, raced>> /\ faults' = faults + 1
      \/ /\ files' = g /\ due' = FALSE
         /\ fate' = (fate \cup x) \cup {<<y, "distilled">> : y \in p}
         /\ raced' = (raced \/ files # f)
         /\ faults' = faults + 1 \/ (faults' = faults /\ fts' = Indexed(p))
  BY DEF Write, WriteUnsaved, Save, Forget
<1> HIDE DEF f, g, p, x
<1>6. RunsOK(run') /\ Continues(run')
  BY <1>2, <1>4, RunsEnd
<1>7. /\ faults \in Nat /\ faults' \in 0 .. scenario.faults
      /\ faults' = faults + 1 => faults' # 0 /\ faults' > 0
  <2>1. scenario.faults \in Nat /\ faults \in 0 .. scenario.faults
    BY <1>2 DEF Surroundings, BoundsAssumption
  <2> QED
    BY <1>4, <2>1
<1>8. Surroundings'
  <2>1. due' \in BOOLEAN /\ raced' \in BOOLEAN
    BY <1>2, <1>5 DEF Surroundings
  <2>2. stale' = stale /\ scenario' = scenario /\ marks' = marks
    BY <1>1 DEF disk
  <2> QED
    BY <1>2, <1>7, <2>1, <2>2 DEF Surroundings
<1>9. \A s \in Sessions, m \in Numbers : <<s, m>> \in p => m \in text[s]
  BY <1>3 DEF Fresh
<1>10. /\ fts' \in [Sessions -> SUBSET (1..MaxMessages)]
       /\ \A s \in Sessions : fts'[s] \subseteq text[s]
       /\ \A s \in Sessions : \A m \in fts'[s] : m \in fts[s] \/ <<s, m>> \in p
  <2>1. CASE fts' = fts
    BY <1>2, <2>1 DEF TypeOK
  <2>2. CASE fts' = Indexed(p)
    BY <1>2, <1>3, <1>9, <2>2, IndexedIs
  <2> QED
    BY <1>4, <2>1, <2>2
<1>11. FoundInNotes(fts', noted')
  BY <1>1, <1>10 DEF DistillInv, FoundInNotes
<1>12. CASE UNCHANGED <<files, due, fate, raced>> /\ faults' = faults + 1
  BY <1>1, <1>3, <1>6, <1>7, <1>8, <1>10, <1>11, <1>12, NoteKept
<1>13. CASE /\ files' = g /\ due' = FALSE
            /\ fate' = (fate \cup x) \cup {<<y, "distilled">> : y \in p}
            /\ raced' = (raced \/ files # f)
            /\ faults' = faults + 1 \/ (faults' = faults /\ fts' = Indexed(p))
  <2>1. (Excused => Excused') /\ (~Excused' => files = f)
    <3>1. faults > 0 => faults' > 0
      BY <1>7, <1>13
    <3> QED
      BY <1>13, <3>1 DEF Excused
  <2>2. faults' = 0 => DistilledFound(fate', fts')
    <3> SUFFICES ASSUME faults' = 0, NEW s \in Sessions, NEW m \in Numbers,
                        <<<<s, m>>, "distilled">> \in fate'
        PROVE  fts'[s] # {}
      BY DEF DistilledFound
    <3>1. faults = 0 /\ fts' = Indexed(p)
      BY <1>7, <1>13
    <3>2. CASE <<<<s, m>>, "distilled">> \in fate
      <4>1. fts[s] # {}
        BY <3>1, <3>2 DEF DistillInv, DistilledFound
      <4> QED
        BY <1>2, <1>3, <1>9, <3>1, <4>1, IndexedIs
    <3>3. CASE <<<<s, m>>, "distilled">> \notin fate
      <4>1. <<<<s, m>>, "distilled">> \notin x
        BY <1>3 DEF Losses
      <4>2. <<s, m>> \in p
        BY <1>13, <3>3, <4>1
      <4> QED
        BY <1>2, <1>3, <1>9, <3>1, <4>2, IndexedIs
    <3> QED
      BY <3>2, <3>3
  <2> QED
    BY <1>1, <1>3, <1>6, <1>8, <1>10, <1>11, <1>13, <2>1, <2>2, SaveKept
<1> QED
  BY <1>5, <1>12, <1>13

LEMMA DistillKept ==
  ASSUME BoundsAssumption, DistillInv, [Next]_vars
  PROVE  DistillInv'
<1>1. CASE UNCHANGED vars
  <2>1. UNCHANGED <<disk, files, fts, history>> /\ UNCHANGED <<due, run, scenario, marks, faults>>
    BY <1>1 DEF vars
  <2>2. RunsOK(run) /\ Surroundings
    BY InvParts
  <2>3. RunsOK(run') /\ Continues(run')
    BY <2>1, <2>2 DEF Continues
  <2>4. Surroundings'
    BY <2>1, <2>2 DEF Surroundings, disk, history
  <2> QED
    BY <2>1, <2>3, <2>4, Undisturbed
<1>2. ASSUME NEW s \in Sessions, NEW hasText \in BOOLEAN, Say(s, hasText) PROVE DistillInv'
  BY <1>2, SayKept
<1>3. ASSUME NEW s \in Sessions, NEW n \in 1..MaxMessages, Mark(s, n) PROVE DistillInv'
  BY <1>3, MarkKept
<1>4. ASSUME NEW r \in Runs, Begin(r) PROVE DistillInv'
  BY <1>4, BeginKept
<1>5. ASSUME NEW r \in Runs, Nothing(r) PROVE DistillInv'
  BY <1>5, NothingKept
<1>6. ASSUME NEW r \in Runs, NEW upTo \in {"note", "state", "index"},
             Write(r, upTo) \/ WriteUnsaved(r)
      PROVE  DistillInv'
  BY <1>6, WriteKept
<1>7. CASE Elapse \/ Crash \/ (\E r \in Runs : Fail(r) \/ Digest(r))
  BY <1>7, FewKept
<1>8. CASE Midnight
  BY <1>8, MidnightKept
<1>10. ASSUME NEW s \in Sessions, NEW k \in 1..MaxMessages, Shorten(s, k) PROVE DistillInv'
  BY <1>10, ShortenKept
<1>9. ASSUME NEW r \in Runs, WriteUnsaved(r) PROVE DistillInv'
  BY <1>6, <1>9
<1> HIDE DEF DistillInv
<1> QED
  BY <1>1, <1>2, <1>3, <1>4, <1>5, <1>6, <1>7, <1>8, <1>9, <1>10 DEF Next

LEMMA DistillAlways == ASSUME BoundsAssumption PROVE Spec => []DistillInv
BY DistillBegins, DistillKept, PTL DEF Spec

(* The session files, the state file, what runs hold and the histories     *)
(* keep their types.                                                       *)
THEOREM DistillTypes == Spec => []TypeOK
<1>1. DistillInv => TypeOK
  BY DEF DistillInv
<1> QED
  BY <1>1, BoundsAssumption, DistillAlways, PTL

(* However sessions grow and are shortened, runs overlap, messages are     *)
(* marked and the process dies: no message is passed over without a fate,  *)
(* and none gets into the note again without a cause.                      *)
THEOREM Counts == Spec => []CountedOnce
<1>1. DistillInv => EveryCountExplained
  <2> SUFFICES ASSUME DistillInv, NEW s \in Sessions, NEW m \in Passed(s)
      PROVE  FateOf(s, m) # {}
    BY DEF EveryCountExplained
  <2>1. m \in text[s] /\ m <= Upto(files, dropped)[s]
    BY BoundsAssumption, InvParts, UptoIs DEF Passed
  <2>2. m \in Numbers
    BY <2>1, BoundsAssumption, InvParts, LengthNat
  <2>3. Fated(fate, s, m)
    BY <2>1, <2>2 DEF DistillInv, Explained, Open
  <2> QED
    BY <2>3 DEF Fated, FateOf
<1>2. DistillInv => RepeatsAreExcused
  <2> SUFFICES ASSUME DistillInv, NEW x \in doubled
      PROVE  \/ faults > 0 \/ raced
             \/ \E label \in {"swept", "shortened"} : <<x, label>> \in fate
    BY DEF RepeatsAreExcused
  <2>1. x \in Sessions \X Numbers
    BY InvParts DEF Histories, Messages, Numbers
  <2>2. PICK s \in Sessions, m \in Numbers : x = <<s, m>>
    BY <2>1
  <2> QED
    BY <2>2 DEF DistillInv, Repeats, Excused, Displaced, IsShortened
<1>3. DistillInv => CountedOnce
  BY <1>1, <1>2 DEF CountedOnce
<1> QED
  BY <1>3, BoundsAssumption, DistillAlways, PTL

(* The search index finds whatever session was distilled, unless a fault   *)
(* came between, and shows nothing that the notes do not have.             *)
THEOREM SearchFinds == Spec => []SearchFollowsNotes
<1>1. DistillInv => SearchFollowsNotes
  <2> SUFFICES ASSUME DistillInv, NEW s \in Sessions
      PROVE  /\ (\E m \in text[s] : "distilled" \in FateOf(s, m)) /\ faults = 0
                  => Findable(s) # {}
             /\ \A m \in fts[s] : <<s, m>> \in noted
    BY DEF SearchFollowsNotes
  <2>1. \A m \in text[s] : m \in Numbers
    BY BoundsAssumption, InvParts, LengthNat
  <2>2. (\E m \in text[s] : "distilled" \in FateOf(s, m)) /\ faults = 0 => fts[s] # {}
    BY <2>1 DEF FateOf, DistillInv, DistilledFound
  <2>3. fts[s] \subseteq Findable(s)
    BY DEF Findable
  <2>4. \A m \in fts[s] : <<s, m>> \in noted
    BY DEF DistillInv, FoundInNotes
  <2> QED
    BY <2>2, <2>3, <2>4
<1> QED
  BY <1>1, BoundsAssumption, DistillAlways, PTL
=============================================================================
