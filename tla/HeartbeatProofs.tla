--------------------------- MODULE HeartbeatProofs ---------------------------
(***************************************************************************)
(* Theorems about the heartbeat.                                           *)
(*                                                                         *)
(* ErrorFingerprints, its log sensor, for every set of fingerprints, every *)
(* length of the log and all values of the sensor's parameters.  The table *)
(* is updated by a fold over the lines read: the first part derives        *)
(* induction over the naturals from the well-foundedness of strict         *)
(* inclusion among finite sets, and from it what the fold yields for any   *)
(* number of lines.                                                        *)
(*                                                                         *)
(* Heartbeat, its cycle, for every length of the day, time zone and window *)
(* of active hours.                                                        *)
(***************************************************************************)
EXTENDS ErrorFingerprints, Heartbeat, FiniteSetTheorems, SequenceTheorems,
        WellFoundedInduction, TLAPS

USE ParameterAssumption, EntryAssumption

-----------------------------------------------------------------------------
(* A set of naturals has a least element: the initial segments below its   *)
(* elements are finite, so one of them includes no other strictly.         *)
LEMMA Minimum ==
  ASSUME NEW S \in SUBSET Nat, S # {}
  PROVE  \E n \in S : \A m \in S : n <= m
<1> DEFINE Below(n) == 0 .. (n - 1)
           T == {Below(n) : n \in S}
<1>1. T \subseteq FiniteSubsetsOf(Nat) /\ T # {}
  <2>1. ASSUME NEW n \in S PROVE Below(n) \in FiniteSubsetsOf(Nat)
    BY FS_Interval DEF FiniteSubsetsOf
  <2> QED
    BY <2>1
<1>2. PICK x \in T : \A y \in T : ~ (<<y, x>> \in StrictSubsetOrdering(Nat))
  <2> HIDE DEF T
  <2> QED
    BY <1>1, FS_StrictSubsetOrderingWellFounded, WFMin
<1>3. PICK n \in S : x = Below(n)
  OBVIOUS
<1>4. ASSUME NEW m \in S, ~(n <= m) PROVE FALSE
  <2>1. Below(m) \subseteq Below(n) /\ m \in Below(n) /\ m \notin Below(m)
    BY <1>4
  <2>2. <<Below(m), Below(n)>> \in StrictSubsetOrdering(Nat)
    BY <2>1 DEF StrictSubsetOrdering
  <2> QED
    BY <1>2, <1>3, <2>2
<1> QED
  BY <1>4

(* Induction, for a property given as the set of the numbers that have it. *)
LEMMA Induction ==
  ASSUME NEW S, 0 \in S, \A n \in Nat : n \in S => n + 1 \in S
  PROVE  Nat \subseteq S
<1>1. SUFFICES ASSUME Nat \ S # {} PROVE FALSE
  OBVIOUS
<1>2. PICK n \in Nat \ S : \A m \in Nat \ S : n <= m
  BY <1>1, Minimum
<1>3. n - 1 \in Nat /\ ~(n <= n - 1)
  BY <1>2
<1>4. n - 1 \in S
  BY <1>2, <1>3
<1> QED
  BY <1>2, <1>3, <1>4

-----------------------------------------------------------------------------
(* The fold over the lines, as FoldLeft defines it: a function on the sets *)
(* of positions, one position more at a time, the last one last.           *)
Line == Prints \cup {Noise}
Start == [table |-> fps, count |-> 0, prints |-> {}]

Node(lines, g, s) ==
  IF s = {} THEN Start ELSE Classify(g[s \ {Max(s)}], lines[Max(s)])

Folds(lines, g, n) == g = [s \in SUBSET (1 .. n) |-> Node(lines, g, s)]

LEMMA MaxOf ==
  ASSUME NEW n \in Nat, NEW s \in SUBSET (1 .. (n + 1)), n + 1 \in s
  PROVE  Max(s) = n + 1
<1>1. \A y \in s : n + 1 >= y
  OBVIOUS
<1>2. Max(s) \in s /\ \A y \in s : Max(s) >= y
  <2>1. \E x \in s : \A y \in s : x >= y
    BY <1>1
  <2> QED
    BY <2>1 DEF Max
<1>3. \A x \in s : (\A y \in s : x >= y) => x = n + 1
  OBVIOUS
<1> QED
  BY <1>2, <1>3

LEMMA MaxIn ==
  ASSUME NEW n \in Nat, NEW s \in SUBSET (1 .. n), s # {}
  PROVE  Max(s) \in s
<1> DEFINE T == {n - k : k \in s}
<1>1. T \subseteq Nat /\ T # {}
  <2>1. \A k \in s : n - k \in Nat
    OBVIOUS
  <2>2. T \subseteq Nat
    BY <2>1
  <2> QED
    BY <2>2
<1>2. PICK m \in T : \A k \in T : m <= k
  BY <1>1, Minimum
<1>3. n - m \in s /\ \A k \in s : n - m >= k
  <2>1. PICK i \in s : m = n - i
    OBVIOUS
  <2>2. n - m = i
    BY <2>1
  <2>3. \A k \in s : m <= n - k
    BY <1>2
  <2> QED
    BY <2>2, <2>3
<1> QED
  BY <1>3 DEF Max

LEMMA FoldGrows ==
  ASSUME NEW lines, NEW n \in Nat, NEW g, Folds(lines, g, n)
  PROVE  \E h : Folds(lines, h, n + 1)
<1> DEFINE h == [s \in SUBSET (1 .. (n + 1)) |->
                   IF n + 1 \in s THEN Classify(g[s \ {n + 1}], lines[n + 1]) ELSE g[s]]
<1>1. ASSUME NEW s \in SUBSET (1 .. (n + 1)), n + 1 \in s
      PROVE  h[s] = Node(lines, h, s)
  <2>1. Max(s) = n + 1
    BY <1>1, MaxOf
  <2>2. s \ {n + 1} \in SUBSET (1 .. n) /\ s \ {n + 1} \in SUBSET (1 .. (n + 1))
    BY <1>1
  <2>3. h[s \ {n + 1}] = g[s \ {n + 1}]
    BY <2>2
  <2>4. h[s] = Classify(g[s \ {n + 1}], lines[n + 1])
    BY <1>1
  <2> HIDE DEF h
  <2> QED
    BY <1>1, <2>1, <2>3, <2>4 DEF Node
<1>2. ASSUME NEW s \in SUBSET (1 .. (n + 1)), n + 1 \notin s
      PROVE  h[s] = Node(lines, h, s)
  <2>1. s \in SUBSET (1 .. n)
    BY <1>2
  <2>2. h[s] = g[s] /\ g[s] = Node(lines, g, s)
    BY <1>2, <2>1 DEF Folds
  <2>3. s # {} => /\ s \ {Max(s)} \in SUBSET (1 .. (n + 1))
                  /\ n + 1 \notin s \ {Max(s)}
    BY <1>2, <2>1
  <2>4. s # {} => h[s \ {Max(s)}] = g[s \ {Max(s)}]
    BY <2>3
  <2> HIDE DEF h
  <2> QED
    BY <2>2, <2>4 DEF Node
<1>3. \A s \in SUBSET (1 .. (n + 1)) : h[s] = Node(lines, h, s)
  BY <1>1, <1>2
<1>4. h = [s \in SUBSET (1 .. (n + 1)) |-> h[s]]
  OBVIOUS
<1>5. Folds(lines, h, n + 1)
  <2> HIDE DEF h
  <2> QED
    BY <1>3, <1>4 DEF Folds
<1> QED
  BY <1>5

LEMMA FoldExists == ASSUME NEW lines, NEW n \in Nat PROVE \E g : Folds(lines, g, n)
<1> DEFINE S == {k \in Nat : \E g : Folds(lines, g, k)}
<1>1. 0 \in S
  <2> DEFINE g == [s \in {{}} |-> Start]
  <2>1. SUBSET (1 .. 0) = {{}}
    OBVIOUS
  <2>2. Folds(lines, g, 0)
    BY <2>1 DEF Folds, Node
  <2> QED
    BY <2>2
<1>2. \A k \in Nat : k \in S => k + 1 \in S
  BY FoldGrows
<1> HIDE DEF S
<1>3. n \in S
  BY <1>1, <1>2, Induction
<1> QED
  BY <1>3 DEF S

(* What classifying lines leaves unchanged holds of the outcome.           *)
LEMMA ClassifiedIn ==
  ASSUME NEW lines \in Seq(Line), NEW A, Start \in A,
         \A acc \in A, l \in Line : Classify(acc, l) \in A
  PROVE  Classified(lines) \in A
<1> DEFINE n == Len(lines)
           f == CHOOSE g : Folds(lines, g, n)
           S == {k \in Nat : k <= n => f[1 .. k] \in A}
<1>1. n \in Nat /\ DOMAIN lines = 1 .. n
  BY LenProperties
<1>2. Classified(lines) = f[1 .. n]
  BY <1>1 DEF Classified, FoldLeft, MapThenFoldSet, Folds, Node, Start
<1>3. Folds(lines, f, n)
  BY <1>1, FoldExists
<1> HIDE DEF f, n
<1>4. \A s \in SUBSET (1 .. n) : f[s] = Node(lines, f, s)
  BY <1>3 DEF Folds
<1>5. 0 \in S
  <2>1. 1 .. 0 = {} /\ {} \in SUBSET (1 .. n)
    OBVIOUS
  <2>2. f[{}] = Start
    BY <1>4, <2>1 DEF Node
  <2> QED
    BY <2>1, <2>2
<1>6. ASSUME NEW k \in Nat, k \in S PROVE k + 1 \in S
  <2> SUFFICES ASSUME k + 1 <= n PROVE f[1 .. (k + 1)] \in A
    OBVIOUS
  <2>1. f[1 .. k] \in A
    BY <1>1, <1>6
  <2>2. /\ k + 1 \in 1 .. (k + 1)
        /\ (1 .. (k + 1)) \ {k + 1} = 1 .. k
        /\ 1 .. (k + 1) \in SUBSET (1 .. n)
    <3>1. k + 1 \in 1 .. (k + 1)
      OBVIOUS
    <3>2. (1 .. (k + 1)) \ {k + 1} = 1 .. k
      OBVIOUS
    <3>3. \A i \in 1 .. (k + 1) : i \in 1 .. n
      BY <1>1
    <3> QED
      BY <3>1, <3>2, <3>3
  <2>3. Max(1 .. (k + 1)) = k + 1
    BY <2>2, MaxOf
  <2>4. f[1 .. (k + 1)] = Classify(f[1 .. k], lines[k + 1])
    BY <1>4, <2>2, <2>3 DEF Node
  <2>5. lines[k + 1] \in Line
    BY <1>1, ElementOfSeq DEF n
  <2> QED
    BY <2>1, <2>4, <2>5
<1> HIDE DEF S
<1>7. n \in S
  BY <1>1, <1>5, <1>6, Induction
<1> QED
  BY <1>1, <1>2, <1>7 DEF S

-----------------------------------------------------------------------------
(* What the lines read so far have made of the table: the count is that of *)
(* the distinct fingerprints reported; those were worth reporting when the *)
(* scan began and have just been reported now; the others stand as they    *)
(* stood, as far as reports and resolution go.                             *)
Tables == [Prints -> Entry \cup {None}]

SameReport(e, f) ==
  /\ (e = None) <=> (f = None)
  /\ f # None => e.reported = f.reported /\ e.resolved = f.resolved

JustReported(e) == e # None /\ e.reported = 0 /\ e.resolved = FALSE

Consistent ==
  {acc \in [table: Tables, count: Nat, prints: SUBSET Prints] :
     /\ IsFiniteSet(acc.prints) /\ acc.count = Cardinality(acc.prints)
     /\ \A p \in acc.prints : Actionable(fps[p]) /\ JustReported(acc.table[p])
     /\ \A p \in Prints \ acc.prints : SameReport(acc.table[p], fps[p])}

LEMMA FreshReported == FreshEntry \in Entry /\ JustReported(FreshEntry)
<1>1. FreshEntry \in Entry
  BY DEF FreshEntry, Entry
<1> QED
  BY <1>1 DEF FreshEntry, JustReported

LEMMA TouchedEntry ==
  ASSUME NEW e \in Entry \cup {None}
  PROVE  /\ Touched(e) \in Entry
         /\ Actionable(e) => JustReported(Touched(e))
         /\ ~Actionable(e) => SameReport(Touched(e), e)
<1>1. CASE Actionable(e)
  BY <1>1, FreshReported DEF Touched
<1>2. CASE ~Actionable(e)
  <2>1. e \in Entry
    BY <1>2 DEF Actionable
  <2>2. Touched(e) = [e EXCEPT !.seen = 0, !.missed = 0]
    BY <1>2 DEF Touched
  <2>3. PICK r \in 0 .. Cooldown, s \in 0 .. TTL + 1, m \in 0 .. ResolvedAfter, b \in BOOLEAN :
          e = [reported |-> r, seen |-> s, missed |-> m, resolved |-> b]
    BY <2>1 DEF Entry
  <2>4. Touched(e) = [reported |-> r, seen |-> 0, missed |-> 0, resolved |-> b]
    BY <2>2, <2>3
  <2>5. 0 \in 0 .. TTL + 1 /\ 0 \in 0 .. ResolvedAfter
    OBVIOUS
  <2>6. Touched(e) \in Entry
    BY <2>3, <2>4, <2>5 DEF Entry
  <2> QED
    BY <1>2, <2>1, <2>3, <2>4, <2>6 DEF SameReport
<1> QED
  BY <1>1, <1>2

(* Only an entry that stands as at the start of the scan can be worth      *)
(* reporting, so no fingerprint is counted twice.                          *)
LEMMA ReportedOnce ==
  ASSUME NEW e
  PROVE  /\ JustReported(e) => ~Actionable(e)
         /\ \A f : SameReport(e, f) => (Actionable(e) <=> Actionable(f))
  BY DEF JustReported, SameReport, Actionable

LEMMA ClassifyStep ==
  ASSUME fps \in Tables, NEW acc \in Consistent, NEW l \in Line
  PROVE  Classify(acc, l) \in Consistent
<1> DEFINE new == Classify(acc, l)
           e == acc.table[l]
<1>0. CASE l = Noise
  BY <1>0 DEF Classify
<1>1. CASE l # Noise
  <2>1. l \in Prints /\ e \in Entry \cup {None}
    BY <1>1 DEF Line, Consistent, Tables
  <2>2. /\ new.table = [acc.table EXCEPT ![l] = Touched(e)]
        /\ new.count = acc.count + IF Actionable(e) THEN 1 ELSE 0
        /\ new.prints = acc.prints \cup IF Actionable(e) THEN {l} ELSE {}
        /\ new = [table |-> new.table, count |-> new.count, prints |-> new.prints]
    BY <1>1 DEF Classify
  <2> HIDE DEF new, e
  <2>3. /\ acc.table \in Tables /\ acc.count \in Nat /\ acc.prints \subseteq Prints
        /\ IsFiniteSet(acc.prints) /\ acc.count = Cardinality(acc.prints)
        /\ \A p \in acc.prints : Actionable(fps[p]) /\ JustReported(acc.table[p])
        /\ \A p \in Prints \ acc.prints : SameReport(acc.table[p], fps[p])
    BY DEF Consistent
  <2>4. Touched(e) \in Entry
    BY <2>1, TouchedEntry
  <2>5. new.table \in Tables
    BY <2>2, <2>3, <2>4 DEF Tables
  <2>6. /\ new.table[l] = Touched(e)
        /\ \A p \in Prints \ {l} : new.table[p] = acc.table[p]
    BY <2>1, <2>2, <2>3 DEF Tables
  <2>7. CASE Actionable(e)
    <3>1. l \notin acc.prints /\ Actionable(fps[l])
      BY <2>1, <2>3, <2>7, ReportedOnce DEF e
    <3>2. new.prints = acc.prints \cup {l} /\ new.count = acc.count + 1
      BY <2>2, <2>7
    <3>3. IsFiniteSet(new.prints) /\ new.count = Cardinality(new.prints)
      <4>1. /\ IsFiniteSet(acc.prints \cup {l})
            /\ Cardinality(acc.prints \cup {l}) = Cardinality(acc.prints) + 1
        BY <2>3, <3>1, FS_AddElement
      <4> QED
        BY <2>3, <3>2, <4>1
    <3>4. JustReported(new.table[l])
      BY <2>1, <2>6, <2>7, TouchedEntry
    <3>5. /\ \A p \in new.prints : Actionable(fps[p]) /\ JustReported(new.table[p])
          /\ \A p \in Prints \ new.prints : SameReport(new.table[p], fps[p])
      BY <2>3, <2>6, <3>1, <3>2, <3>4
    <3>6. new \in [table: Tables, count: Nat, prints: SUBSET Prints]
      BY <2>1, <2>2, <2>3, <2>5, <3>2
    <3> QED
      BY <3>3, <3>5, <3>6 DEF Consistent, new
  <2>8. CASE ~Actionable(e)
    <3>1. new.prints = acc.prints /\ new.count = acc.count
      BY <2>2, <2>3, <2>8
    <3>2. SameReport(new.table[l], e)
      BY <2>1, <2>6, <2>8, TouchedEntry
    <3>3. l \in acc.prints => JustReported(new.table[l])
      BY <2>3, <3>2 DEF e, SameReport, JustReported
    <3>4. l \notin acc.prints => SameReport(new.table[l], fps[l])
      BY <2>1, <2>3, <3>2 DEF e, SameReport
    <3>5. /\ \A p \in new.prints : Actionable(fps[p]) /\ JustReported(new.table[p])
          /\ \A p \in Prints \ new.prints : SameReport(new.table[p], fps[p])
      BY <2>3, <2>6, <3>1, <3>3, <3>4
    <3>6. new \in [table: Tables, count: Nat, prints: SUBSET Prints]
      BY <2>2, <2>3, <2>5, <3>1
    <3> QED
      BY <2>3, <3>1, <3>5, <3>6 DEF Consistent, new
  <2> QED
    BY <2>7, <2>8
<1> QED
  BY <1>0, <1>1

LEMMA ClassifiedConsistent ==
  ASSUME fps \in Tables, NEW lines \in Seq(Line)
  PROVE  Classified(lines) \in Consistent
<1>1. Start \in Consistent
  BY FS_EmptySet DEF Start, Consistent, SameReport
<1> QED
  BY <1>1, ClassifyStep, ClassifiedIn

-----------------------------------------------------------------------------
(* The shape of the state.                                                 *)
Shape ==
  /\ log \in Seq(Line) /\ Len(log) <= MaxLog /\ batch \in Seq(Line)
  /\ marker \in Nat /\ size \in Nat
  /\ pc \in {"idle", "sized", "read", "marked"}
  /\ fps \in Tables
  /\ past \in Past

LEMMA LeastOf ==
  ASSUME NEW a \in Nat, NEW b \in Nat
  PROVE  /\ Least(a, b) \in 0 .. b /\ Least(a, b) <= a
         /\ a < b => Least(a, b) = a
         /\ Least(a, b) < b => Least(a, b) = a
  BY DEF Least

LEMMA MissEntry ==
  ASSUME NEW e \in Entry
  PROVE  Miss(e) \in Entry /\ Miss(e).reported = e.reported
<1>1. PICK r \in 0 .. Cooldown, s \in 0 .. TTL + 1, m \in 0 .. ResolvedAfter, b \in BOOLEAN :
        e = [reported |-> r, seen |-> s, missed |-> m, resolved |-> b]
  BY DEF Entry
<1> DEFINE n == Least(m + 1, ResolvedAfter)
           z == b \/ n >= ResolvedAfter
<1>2. n \in 0 .. ResolvedAfter
  <2>1. m + 1 \in Nat /\ ResolvedAfter \in Nat
    BY <1>1
  <2> QED
    BY <2>1, LeastOf
<1>3. z \in BOOLEAN
  BY <1>1, Zenon
<1>4. Miss(e) = [e EXCEPT !.missed = n, !.resolved = z]
  BY <1>1, Zenon DEF Miss
<1> HIDE DEF n, z
<1>5. Miss(e) = [reported |-> r, seen |-> s, missed |-> n, resolved |-> z]
  BY <1>1, <1>4
<1> QED
  BY <1>1, <1>2, <1>3, <1>5 DEF Entry

LEMMA MissedTable ==
  ASSUME NEW t \in Tables, NEW seen
  PROVE  /\ WithMisses(t, seen) \in Tables
         /\ \A p \in Prints : /\ WithMisses(t, seen)[p] = None <=> t[p] = None
                              /\ t[p] # None =>
                                   WithMisses(t, seen)[p].reported = t[p].reported
<1>1. ASSUME NEW p \in Prints
      PROVE  LET e == IF t[p] = None \/ p \in seen THEN t[p] ELSE Miss(t[p])
             IN  /\ e \in Entry \cup {None}
                 /\ e = None <=> t[p] = None
                 /\ t[p] # None => e.reported = t[p].reported
  BY MissEntry DEF Tables
<1> QED
  BY <1>1 DEF WithMisses, Tables

(* The end of a scan, in terms of what the lines have made of the table.   *)
Scan == Classified(batch)
Aged == WithMisses(Scan.table, ToSet(batch) \ {Noise})

LEMMA Scanned ==
  ASSUME Shape
  PROVE  /\ Scan \in Consistent /\ Aged \in Tables
         /\ \A p \in Prints : /\ Aged[p] = None <=> Scan.table[p] = None
                              /\ Aged[p] # None => Aged[p].reported = Scan.table[p].reported
<1>1. Scan \in Consistent
  BY ClassifiedConsistent DEF Shape, Scan
<1>2. Scan.table \in Tables
  BY <1>1 DEF Consistent
<1> QED
  BY <1>1, <1>2, MissedTable DEF Aged

Keeps(kept) ==
  /\ Saved(Aged, kept)
  /\ result' = [count |-> Scan.count, prints |-> Scan.prints]
  /\ past' = [past EXCEPT
       !.reported = [p \in Prints |-> IF p \in Scan.prints THEN 0 ELSE @[p]],
       !.excused = [p \in Prints |-> IF p \in kept /\ ~Aged[p].resolved
                                     THEN p \notin Scan.prints /\ @[p] ELSE TRUE],
       !.classified = @ \cup past.reading,
       !.reading = {}]

LEMMA UpdateKeeps ==
  ASSUME Update
  PROVE  /\ \E kept \in SUBSET Prints : Keeps(kept)
         /\ pc = "marked" /\ pc' = "idle" /\ batch' = <<>>
         /\ UNCHANGED <<log, marker, size, due>>
  BY DEF Update, Keeps, Scan, Aged

LEMMA KeptTable ==
  ASSUME Shape, NEW kept \in SUBSET Prints, Keeps(kept)
  PROVE  /\ fps' \in Tables
         /\ \A p \in kept : fps'[p] = Aged[p] /\ Aged[p] # None
<1>1. /\ fps' = [p \in Prints |-> IF p \in kept THEN Aged[p] ELSE None]
      /\ \A p \in kept : Aged[p] # None
  BY DEF Keeps, Saved
<1> QED
  BY <1>1, Scanned DEF Tables

(* The history, with its fields named.                                     *)
LEMMA PastFields ==
  ASSUME past \in Past
  PROVE  /\ past = [reported |-> past.reported, excused |-> past.excused,
                    reading |-> past.reading, classified |-> past.classified,
                    rotated |-> past.rotated, crashed |-> past.crashed]
         /\ past.reported \in [Prints -> 0 .. Cooldown]
         /\ past.excused \in [Prints -> BOOLEAN]
         /\ past.reading \in SUBSET (1 .. MaxLog) /\ past.classified \in SUBSET (1 .. MaxLog)
         /\ past.rotated \in BOOLEAN /\ past.crashed \in BOOLEAN
  BY DEF Past

LEMMA KeptPast ==
  ASSUME Shape, NEW kept \in SUBSET Prints, Keeps(kept)
  PROVE  /\ past' \in Past
         /\ past'.rotated = past.rotated /\ past'.crashed = past.crashed
         /\ past'.classified = past.classified \cup past.reading
         /\ \A p \in Scan.prints : past'.reported[p] = 0
         /\ \A p \in Prints \ Scan.prints : past'.reported[p] = past.reported[p]
         /\ \A p \in Prints : ~past'.excused[p] =>
              /\ p \in kept /\ ~Aged[p].resolved
              /\ p \in Scan.prints \/ ~past.excused[p]
<1> DEFINE R == [p \in Prints |-> IF p \in Scan.prints THEN 0 ELSE past.reported[p]]
           X == [p \in Prints |-> IF p \in kept /\ ~Aged[p].resolved
                                  THEN p \notin Scan.prints /\ past.excused[p] ELSE TRUE]
<1>1. past \in Past
  BY DEF Shape
<1>2. past' = [reported |-> R, excused |-> X, reading |-> {},
               classified |-> past.classified \cup past.reading,
               rotated |-> past.rotated, crashed |-> past.crashed]
  BY <1>1, PastFields DEF Keeps
<1>3. R \in [Prints -> 0 .. Cooldown]
  BY <1>1, PastFields
<1>4. X \in [Prints -> BOOLEAN]
  BY <1>1, PastFields, Zenon
<1>5. past' \in Past
  <2> HIDE DEF R, X
  <2> QED
    BY <1>1, <1>2, <1>3, <1>4, PastFields DEF Past
<1>6. Scan.prints \subseteq Prints
  BY Scanned DEF Consistent
<1>7. /\ \A p \in Scan.prints : R[p] = 0
      /\ \A p \in Prints \ Scan.prints : R[p] = past.reported[p]
  BY <1>6
<1>8. \A p \in Prints : ~X[p] => /\ p \in kept /\ ~Aged[p].resolved
                                 /\ p \in Scan.prints \/ ~past.excused[p]
  BY Zenon
<1> HIDE DEF R, X
<1> QED
  BY <1>2, <1>5, <1>7, <1>8

(* Time passes for the table and for the history alike.                    *)
LEMMA Ticked ==
  ASSUME Shape, Tick
  PROVE  /\ fps' \in Tables /\ past' \in Past
         /\ past'.reported = [p \in Prints |-> Least(past.reported[p] + 1, Cooldown)]
         /\ past'.excused = past.excused
         /\ past'.reading = past.reading /\ past'.classified = past.classified
         /\ past'.rotated = past.rotated /\ past'.crashed = past.crashed
         /\ \A p \in Prints : /\ fps'[p] = None <=> fps[p] = None
                              /\ fps[p] # None =>
                                   /\ fps'[p].resolved = fps[p].resolved
                                   /\ fps'[p].reported = Least(fps[p].reported + 1, Cooldown)
<1>0. Cooldown \in Nat /\ TTL + 1 \in Nat
  OBVIOUS
<1>1. ASSUME NEW e \in Entry
      PROVE  LET f == [e EXCEPT !.reported = Least(@ + 1, Cooldown), !.seen = Least(@ + 1, TTL + 1)]
             IN  /\ f \in Entry /\ f.resolved = e.resolved
                 /\ f.reported = Least(e.reported + 1, Cooldown)
  <2>1. PICK r \in 0 .. Cooldown, s \in 0 .. TTL + 1, m \in 0 .. ResolvedAfter, b \in BOOLEAN :
          e = [reported |-> r, seen |-> s, missed |-> m, resolved |-> b]
    BY <1>1 DEF Entry
  <2> DEFINE r1 == Least(r + 1, Cooldown)
             s1 == Least(s + 1, TTL + 1)
             f == [e EXCEPT !.reported = Least(@ + 1, Cooldown), !.seen = Least(@ + 1, TTL + 1)]
  <2>2. r + 1 \in Nat /\ s + 1 \in Nat
    BY <1>0, <2>1
  <2>3. r1 \in 0 .. Cooldown
    BY <1>0, <2>2, LeastOf
  <2>4. s1 \in 0 .. TTL + 1
    BY <1>0, <2>2, LeastOf
  <2>5. f = [reported |-> r1, seen |-> s1, missed |-> m, resolved |-> b]
    <3>1. e.reported = r /\ e.seen = s
      BY <2>1
    <3>2. f = [e EXCEPT !.reported = r1, !.seen = s1]
      BY <3>1
    <3> HIDE DEF r1, s1, f
    <3> QED
      BY <2>1, <3>2
  <2> HIDE DEF r1, s1, f
  <2>6. f \in Entry /\ f.resolved = e.resolved /\ f.reported = r1
    BY <2>1, <2>3, <2>4, <2>5 DEF Entry
  <2> QED
    BY <2>1, <2>6 DEF f, r1
<1>2. /\ fps \in Tables /\ past \in Past
      /\ fps' = [p \in Prints |->
                   IF fps[p] = None THEN None
                   ELSE [fps[p] EXCEPT !.reported = Least(@ + 1, Cooldown),
                                       !.seen = Least(@ + 1, TTL + 1)]]
      /\ past' = [past EXCEPT
                    !.reported = [p \in Prints |-> Least(@[p] + 1, Cooldown)]]
  BY DEF Shape, Tick
<1>3. ASSUME NEW p \in Prints
      PROVE  /\ fps'[p] \in Entry \cup {None}
             /\ fps'[p] = None <=> fps[p] = None
             /\ fps[p] # None => /\ fps'[p].resolved = fps[p].resolved
                                 /\ fps'[p].reported = Least(fps[p].reported + 1, Cooldown)
  <2>1. CASE fps[p] = None
    BY <1>2, <2>1
  <2>2. CASE fps[p] # None
    <3>1. fps[p] \in Entry
      BY <1>2, <2>2 DEF Tables
    <3> DEFINE f == [fps[p] EXCEPT !.reported = Least(@ + 1, Cooldown), !.seen = Least(@ + 1, TTL + 1)]
    <3>2. fps'[p] = f
      BY <1>2, <2>2
    <3>3. f \in Entry /\ f.resolved = fps[p].resolved /\ f.reported = Least(fps[p].reported + 1, Cooldown)
      BY <1>1, <3>1
    <3> QED
      BY <2>2, <3>2, <3>3
  <2> QED
    BY <2>1, <2>2
<1>4. fps' \in Tables
  <2>1. fps' = [p \in Prints |-> fps'[p]]
    BY <1>2
  <2> QED
    BY <1>3, <2>1 DEF Tables
<1> DEFINE R == [p \in Prints |-> Least(past.reported[p] + 1, Cooldown)]
<1>5. R \in [Prints -> 0 .. Cooldown]
  <2>1. ASSUME NEW p \in Prints PROVE Least(past.reported[p] + 1, Cooldown) \in 0 .. Cooldown
    <3>1. past.reported[p] \in 0 .. Cooldown
      BY <1>2, PastFields
    <3>2. past.reported[p] + 1 \in Nat
      BY <1>0, <3>1
    <3> QED
      BY <1>0, <3>2, LeastOf
  <2> QED
    BY <2>1
<1>6. past' = [past EXCEPT !.reported = R]
  BY <1>2
<1> HIDE DEF R
<1>7. past' = [reported |-> R, excused |-> past.excused, reading |-> past.reading,
               classified |-> past.classified, rotated |-> past.rotated,
               crashed |-> past.crashed]
  BY <1>2, <1>6, PastFields
<1>8. past' \in Past
  <2>1. /\ past.excused \in [Prints -> BOOLEAN]
        /\ past.reading \in SUBSET (1 .. MaxLog) /\ past.classified \in SUBSET (1 .. MaxLog)
        /\ past.rotated \in BOOLEAN /\ past.crashed \in BOOLEAN
    BY <1>2, PastFields
  <2> QED
    BY <1>5, <1>7, <2>1 DEF Past
<1> QED
  BY <1>3, <1>4, <1>7, <1>8 DEF R

LEMMA ShapeInv == Spec => []Shape
<1>1. Init => Shape
  <2> SUFFICES ASSUME Init PROVE Shape
    OBVIOUS
  <2>1. past \in Past
    <3>1. /\ [p \in Prints |-> Cooldown] \in [Prints -> 0 .. Cooldown]
          /\ [p \in Prints |-> FALSE] \in [Prints -> BOOLEAN]
      OBVIOUS
    <3> QED
      BY <3>1 DEF Init, Past
  <2> QED
    BY <2>1 DEF Init, Shape, Tables
<1>2. Shape /\ [Next]_vars => Shape'
  <2> SUFFICES ASSUME Shape, [Next]_vars PROVE Shape'
    OBVIOUS
  <2> USE DEF Shape
  <2>0. past \in Past /\ MaxLog \in Nat /\ Len(log) \in Nat
    BY LenProperties
  <2>1. ASSUME NEW e \in Prints \cup {Noise}, Write(e) PROVE Shape'
    <3>1. log' \in Seq(Line) /\ Len(log') = Len(log) + 1
      BY <2>1, AppendProperties DEF Write, Line
    <3> QED
      BY <2>0, <2>1, <3>1 DEF Write
  <2>2. CASE Rotate
    <3>1. past' \in Past
      <4>1. past' = [reported |-> past.reported, excused |-> past.excused, reading |-> {},
                     classified |-> {}, rotated |-> TRUE, crashed |-> past.crashed]
        BY <2>0, <2>2, PastFields DEF Rotate
      <4> QED
        BY <2>0, <4>1, PastFields DEF Past
    <3> QED
      BY <2>0, <2>2, <3>1 DEF Rotate
  <2>3. CASE NothingNew
    BY <2>0, <2>3 DEF NothingNew
  <2>4. CASE Stat
    BY <2>0, <2>4 DEF Stat
  <2>5. CASE Read
    <3>1. batch' \in Seq(Line)
      <4>1. /\ batch' = SubSeq(log, marker + 1, Len(log))
            /\ \A i \in (marker + 1) .. Len(log) : log[i] \in Line
        <5>1. \A i \in (marker + 1) .. Len(log) : i \in 1 .. Len(log)
          BY <2>0
        <5> QED
          BY <2>5, <5>1, ElementOfSeq DEF Read
      <4> QED
        BY <2>0, <4>1, SubSeqProperties
    <3>2. past' \in Past
      <4>1. past' = [reported |-> past.reported, excused |-> past.excused,
                     reading |-> (marker + 1) .. Len(log), classified |-> past.classified,
                     rotated |-> past.rotated, crashed |-> past.crashed]
        BY <2>0, <2>5, PastFields DEF Read
      <4>2. (marker + 1) .. Len(log) \in SUBSET (1 .. MaxLog)
        BY <2>0
      <4> QED
        BY <2>0, <4>1, <4>2, PastFields DEF Past
    <3> QED
      BY <2>5, <3>1, <3>2 DEF Read
  <2>6. CASE Mark
    BY <2>6 DEF Mark
  <2>7. CASE Update
    <3>1. PICK kept \in SUBSET Prints : Keeps(kept)
      BY <2>7, UpdateKeeps
    <3>2. /\ pc' = "idle" /\ batch' = <<>>
          /\ UNCHANGED <<log, marker, size>>
      BY <2>7, UpdateKeeps
    <3>3. fps' \in Tables /\ past' \in Past
      BY <3>1, KeptTable, KeptPast
    <3> QED
      BY <3>2, <3>3
  <2>8. CASE Tick
    BY <2>8, Ticked DEF Tick
  <2>9. CASE Crash
    <3>1. past' \in Past
      <4>1. past' = [reported |-> past.reported, excused |-> past.excused, reading |-> {},
                     classified |-> past.classified, rotated |-> past.rotated, crashed |-> TRUE]
        BY <2>0, <2>9, PastFields DEF Crash
      <4> QED
        BY <2>0, <4>1, PastFields DEF Past
    <3> QED
      BY <2>9, <3>1 DEF Crash
  <2>10. CASE UNCHANGED vars
    BY <2>10 DEF vars
  <2> QED
    BY <2>1, <2>2, <2>3, <2>4, <2>5, <2>6, <2>7, <2>8, <2>9, <2>10 DEF Next
<1> QED
  BY <1>1, <1>2, PTL DEF Spec

-----------------------------------------------------------------------------
(* The reported count is the number of distinct fingerprints, although the *)
(* batch is counted line by line: the first line that reports a            *)
(* fingerprint leaves an entry that no later line finds worth reporting.   *)
THEOREM DistinctCounted == Spec => []CountsDistinct
<1>1. Init => CountsDistinct
  BY FS_EmptySet DEF Init, NoReport, CountsDistinct
<1>2. Shape /\ CountsDistinct /\ [Next]_vars => CountsDistinct'
  <2> SUFFICES ASSUME Shape, CountsDistinct, [Next]_vars PROVE CountsDistinct'
    OBVIOUS
  <2>1. CASE result' = result
    BY <2>1 DEF CountsDistinct
  <2>2. CASE result' = NoReport
    BY <2>2, FS_EmptySet DEF NoReport, CountsDistinct
  <2>3. CASE Update
    <3>1. PICK kept \in SUBSET Prints : Keeps(kept)
      BY <2>3, UpdateKeeps
    <3>2. result' = [count |-> Scan.count, prints |-> Scan.prints]
      BY <3>1 DEF Keeps
    <3>3. Scan.count = Cardinality(Scan.prints)
      BY Scanned DEF Consistent
    <3> QED
      BY <3>2, <3>3 DEF CountsDistinct
  <2> QED
    BY <2>1, <2>2, <2>3
       DEF Next, vars, Write, Rotate, NothingNew, Stat, Read, Mark, Tick, Crash
<1> QED
  BY <1>1, <1>2, ShapeInv, PTL DEF Spec

-----------------------------------------------------------------------------
(* The table remembers the last report of a fingerprint, unless that is as *)
(* old as the cooldown or the fingerprint was resolved or dropped since.   *)
Remembered(p) ==
  \/ past.excused[p]
  \/ past.reported[p] = Cooldown
  \/ fps[p] # None /\ ~fps[p].resolved /\ fps[p].reported = past.reported[p]

Memory == \A p \in Prints : Remembered(p)

LEMMA MemoryInv == Spec => []Memory
<1>1. Init => Memory
  BY DEF Init, Memory, Remembered
<1>2. Shape /\ Memory /\ [Next]_vars => Memory'
  <2> SUFFICES ASSUME Shape, Memory, [Next]_vars PROVE Memory'
    OBVIOUS
  <2>0. past \in Past
    BY DEF Shape
  <2>1. CASE /\ fps' = fps /\ past'.reported = past.reported
             /\ past'.excused = past.excused
    BY <2>1 DEF Memory, Remembered
  <2>2. CASE Update
    <3>1. PICK kept \in SUBSET Prints : Keeps(kept)
      BY <2>2, UpdateKeeps
    <3> SUFFICES ASSUME NEW p \in Prints, ~past'.excused[p], past'.reported[p] # Cooldown
                 PROVE  fps'[p] # None /\ ~fps'[p].resolved /\ fps'[p].reported = past'.reported[p]
      BY DEF Memory, Remembered
    <3>2. /\ p \in kept /\ ~Aged[p].resolved
          /\ p \in Scan.prints \/ ~past.excused[p]
      BY <3>1, KeptPast
    <3>3. fps'[p] = Aged[p] /\ Aged[p] # None
      BY <3>1, <3>2, KeptTable
    <3>4. Scan.table[p] # None /\ Aged[p].reported = Scan.table[p].reported
      BY <3>3, Scanned
    <3>5. CASE p \in Scan.prints
      <4>1. Scan.table[p].reported = 0
        BY <3>5, Scanned DEF Consistent, JustReported
      <4>2. past'.reported[p] = 0
        BY <3>1, <3>5, KeptPast
      <4> QED
        BY <3>2, <3>3, <3>4, <4>1, <4>2
    <3>6. CASE p \notin Scan.prints
      <4>1. past'.reported[p] = past.reported[p]
        BY <3>1, <3>6, KeptPast
      <4>2. SameReport(Scan.table[p], fps[p])
        BY <3>6, Scanned DEF Consistent
      <4>3. fps[p] # None /\ fps[p].reported = past.reported[p]
        BY <3>2, <3>6, <4>1 DEF Memory, Remembered
      <4> QED
        BY <3>2, <3>3, <3>4, <4>1, <4>2, <4>3 DEF SameReport
    <3> QED
      BY <3>5, <3>6
  <2>3. CASE Tick
    <3> SUFFICES ASSUME NEW p \in Prints PROVE Remembered(p)'
      BY DEF Memory
    <3>1. /\ past'.reported[p] = Least(past.reported[p] + 1, Cooldown)
          /\ past'.excused = past.excused
      BY <2>3, Ticked
    <3>2. CASE past.reported[p] = Cooldown
      <4>1. Cooldown \in Nat
        OBVIOUS
      <4> QED
        BY <3>1, <3>2, <4>1 DEF Remembered, Least
    <3>3. CASE past.reported[p] # Cooldown
      <4>1. \/ past.excused[p]
            \/ fps[p] # None /\ ~fps[p].resolved /\ fps[p].reported = past.reported[p]
        BY <3>3 DEF Memory, Remembered
      <4>2. fps[p] # None => /\ fps'[p] # None /\ fps'[p].resolved = fps[p].resolved
                             /\ fps'[p].reported = Least(fps[p].reported + 1, Cooldown)
        BY <2>3, Ticked
      <4> QED
        BY <3>1, <4>1, <4>2 DEF Remembered
    <3> QED
      BY <3>2, <3>3
  <2>4. CASE Rotate
    BY <2>0, <2>1, <2>4, PastFields DEF Rotate
  <2>5. CASE Read
    BY <2>0, <2>1, <2>5, PastFields DEF Read
  <2>6. CASE Crash
    BY <2>0, <2>1, <2>6, PastFields DEF Crash
  <2> QED
    BY <2>1, <2>2, <2>3, <2>4, <2>5, <2>6
       DEF Next, vars, Write, NothingNew, Stat, Mark
<1> QED
  BY <1>1, <1>2, ShapeInv, PTL DEF Spec

(* A fingerprint is reported within its cooldown only if the table         *)
(* resolved or dropped it since its last report, whatever crashes,         *)
(* rotations and lines read twice there were in between.                   *)
THEOREM EarlyReports == Spec => EarlyReportIsExcused
<1>1. Shape /\ Memory /\ [Next]_vars =>
        [pc = "marked" /\ pc' = "idle" =>
           \A p \in result'.prints : past.reported[p] < Cooldown => past.excused[p]]_vars
  <2> SUFFICES ASSUME Shape, Memory, [Next]_vars, pc = "marked", pc' = "idle",
                      NEW p \in result'.prints, past.reported[p] < Cooldown
               PROVE  past.excused[p]
    OBVIOUS
  <2>1. CASE Update
    <3>1. PICK kept \in SUBSET Prints : Keeps(kept)
      BY <2>1, UpdateKeeps
    <3>2. p \in Scan.prints
      BY <3>1 DEF Keeps
    <3>3. p \in Prints /\ Actionable(fps[p])
      BY <3>2, Scanned DEF Consistent
    <3>4. past.reported[p] # Cooldown /\ ~(past.reported[p] >= Cooldown)
      <4>1. past.reported[p] \in 0 .. Cooldown /\ Cooldown \in Nat
        BY <3>3, PastFields DEF Shape
      <4> QED
        BY <4>1
    <3> QED
      BY <3>3, <3>4 DEF Memory, Remembered, Actionable
  <2>2. CASE Crash
    BY <2>2 DEF Crash, NoReport
  <2> QED
    BY <2>1, <2>2 DEF Next, vars, Write, Rotate, NothingNew, Stat, Read, Mark, Tick
<1> QED
  BY <1>1, ShapeInv, MemoryInv, PTL DEF Spec, EarlyReportIsExcused

-----------------------------------------------------------------------------
(* What a scan of a log that is only appended to has reached: the marker   *)
(* moves to the size found before the file was read, and every line up to  *)
(* there is in the batch.                                                  *)
Reached ==
  /\ marker <= Len(log)
  /\ pc \in {"idle", "sized", "read"} => 1 .. marker \subseteq past.classified
  /\ pc \in {"sized", "read"} => marker <= size /\ size <= Len(log)
  /\ pc = "read" => (marker + 1) .. size \subseteq past.reading
  /\ pc = "marked" => 1 .. marker \subseteq past.classified \cup past.reading

Undisturbed == ~past.rotated /\ ~past.crashed

LEMMA ReachedInv == Spec => [](Undisturbed => Reached)
<1>1. Init => (Undisturbed => Reached)
  BY DEF Init, Reached
<1>2. Shape /\ (Undisturbed => Reached) /\ [Next]_vars => (Undisturbed => Reached)'
  <2> SUFFICES ASSUME Shape, Undisturbed => Reached, [Next]_vars, Undisturbed' PROVE Reached'
    OBVIOUS
  <2>0. /\ past \in Past /\ log \in Seq(Line) /\ Len(log) \in Nat
        /\ marker \in Nat /\ size \in Nat
    BY LenProperties DEF Shape
  <2>1. ASSUME NEW e \in Prints \cup {Noise}, Write(e) PROVE Reached'
    <3>1. Len(log') = Len(log) + 1
      BY <2>0, <2>1, AppendProperties DEF Write, Line
    <3> QED
      BY <2>0, <2>1, <3>1 DEF Write, Undisturbed, Reached
  <2>2. CASE Rotate
    BY <2>0, <2>2, PastFields DEF Rotate, Undisturbed
  <2>3. CASE NothingNew
    <3>1. Reached
      BY <2>3 DEF NothingNew, Undisturbed
    <3>2. marker = Len(log)
      BY <2>0, <2>3, <3>1 DEF NothingNew, Reached
    <3> QED
      BY <2>0, <2>3, <3>1, <3>2 DEF NothingNew, Reached
  <2>4. CASE Stat
    BY <2>0, <2>4 DEF Stat, Undisturbed, Reached
  <2>5. CASE Read
    <3>1. /\ past'.reading = (marker + 1) .. Len(log)
          /\ past'.classified = past.classified
          /\ past'.rotated = past.rotated /\ past'.crashed = past.crashed
      BY <2>0, <2>5, PastFields DEF Read
    <3>2. Reached
      BY <3>1 DEF Undisturbed
    <3>3. (marker + 1) .. size \subseteq (marker + 1) .. Len(log)
      BY <2>0, <2>5, <3>2 DEF Read, Reached
    <3> QED
      BY <2>5, <3>1, <3>2, <3>3 DEF Read, Reached
  <2>6. CASE Mark
    <3>1. Reached
      BY <2>6 DEF Mark, Undisturbed
    <3>2. 1 .. size \subseteq (1 .. marker) \cup ((marker + 1) .. size)
      BY <2>0
    <3> QED
      BY <2>0, <2>6, <3>1, <3>2 DEF Mark, Reached
  <2>7. CASE Update
    <3>1. PICK kept \in SUBSET Prints : Keeps(kept)
      BY <2>7, UpdateKeeps
    <3>2. /\ pc = "marked" /\ pc' = "idle"
          /\ UNCHANGED <<log, marker, size>>
      BY <2>7, UpdateKeeps
    <3>3. /\ past'.rotated = past.rotated /\ past'.crashed = past.crashed
          /\ past'.classified = past.classified \cup past.reading
      BY <3>1, KeptPast
    <3> QED
      BY <3>2, <3>3 DEF Undisturbed, Reached
  <2>8. CASE Tick
    <3>1. /\ past'.reading = past.reading /\ past'.classified = past.classified
          /\ past'.rotated = past.rotated /\ past'.crashed = past.crashed
      BY <2>8, Ticked
    <3> QED
      BY <2>8, <3>1 DEF Tick, Undisturbed, Reached
  <2>9. CASE Crash
    BY <2>0, <2>9, PastFields DEF Crash, Undisturbed
  <2>10. CASE UNCHANGED vars
    BY <2>10 DEF vars, Undisturbed, Reached
  <2> QED
    BY <2>1, <2>2, <2>3, <2>4, <2>5, <2>6, <2>7, <2>8, <2>9, <2>10 DEF Next
<1> QED
  BY <1>1, <1>2, ShapeInv, PTL DEF Spec

(* No line before the marker was left out, as long as the log was not      *)
(* rotated and no scan died.                                               *)
THEOREM EveryLineRead == Spec => []NoLineSkipped
<1>1. Shape /\ (Undisturbed => Reached) => NoLineSkipped
  BY DEF Shape, Undisturbed, Reached, NoLineSkipped
<1> QED
  BY <1>1, ShapeInv, ReachedInv, PTL

-----------------------------------------------------------------------------
(* The cycle.                                                              *)

(* A time at which the state file has another date than the local clock.   *)
DatesDiffer(h) == IsActiveHour(h) /\ UtcDateAt(h) # "today"

OddHours == {h \in 0..Day - 1 : DatesDiffer(h)}

(* The cycles of this day, each as its hour and its number in it, that may *)
(* have marked another date.                                               *)
OddCyclesTo(now, done) ==
  {c \in OddHours \X (1..Beats) : c[1] < now \/ (c[1] = now /\ c[2] <= done)}
OddCycles == OddCyclesTo(hour, fired)

(* Each heavy heartbeat of the day was in one of these cycles, except for  *)
(* the one that marked today: none follows it.                             *)
HeavyInv == heavies <= Cardinality(OddCycles) + (IF heavy = "today" THEN 1 ELSE 0)

LEMMA NextHour ==
  ASSUME NEW h \in 0..Day - 1
  PROVE  (h + 1) % Day = IF h + 1 = Day THEN 0 ELSE h + 1
BY ClockAssumption

(* The parts of BeatTypeOK that are numbers or names.                      *)
BeatNumbers ==
  /\ hour \in 0..Day - 1
  /\ abnormal \in 0..Threshold + 1
  /\ medium \in 0..MediumEvery
  /\ heavy \in Date
  /\ fired \in 0..Beats
  /\ turn \in {"none", "running"}
  /\ heavies \in Nat

LEMMA BeatParts == BeatTypeOK <=> BeatNumbers /\ alarm \in BOOLEAN
BY Zenon DEF BeatNumbers, BeatTypeOK

LEMMA BeatBegins == BeatInit => BeatTypeOK
<1>1. BeatInit => BeatNumbers
  BY ClockAssumption DEF BeatInit, BeatNumbers, Date
<1>2. QED
  BY <1>1, BeatParts, Zenon DEF BeatInit

LEMMA NumbersKept ==
  ASSUME BeatNumbers, [BeatNext]_beatVars
  PROVE  BeatNumbers'
<1> USE ClockAssumption DEF BeatNumbers, Date
<1>1. CASE UNCHANGED beatVars
  BY <1>1 DEF beatVars, saved
<1>2. CASE HourPasses
  BY <1>2, NextHour DEF HourPasses
<1>3. CASE Alarm \/ Restart \/ TurnEnds
  BY <1>3 DEF Alarm, Restart, TurnEnds, saved
<1>4. CASE Skip \/ Ok
  BY <1>4 DEF Skip, Ok, Fire, saved
<1>5. CASE Act
  <2>1. UtcDate \in Date /\ Streak \in 0..Threshold + 1
    BY DEF UtcDate, UtcDateAt, Streak
  <2>2. heavy' \in Date /\ abnormal' \in 0..Threshold + 1 /\ medium' \in 0..MediumEvery
    BY <1>5, <2>1 DEF Act, MarkHeavy
  <2>3. heavies' \in {heavies, heavies + 1} /\ fired' \in 0..Beats
    BY <1>5 DEF Act, Fire
  <2> QED
    BY <1>5, <2>2, <2>3 DEF Act
<1>6. QED
  BY <1>1, <1>2, <1>3, <1>4, <1>5 DEF BeatNext, Cycle

LEMMA BeatKept ==
  ASSUME BeatTypeOK, [BeatNext]_beatVars
  PROVE  BeatTypeOK'
<1>1. BeatNumbers /\ alarm \in BOOLEAN
  BY BeatParts
<1>2. alarm' \in BOOLEAN
  BY <1>1, Zenon DEF BeatNext, beatVars, HourPasses, Alarm, Restart, TurnEnds, Skip, Ok, Act,
     Cycle
<1>3. BeatNumbers'
  BY <1>1, NumbersKept
<1>4. QED
  BY <1>2, <1>3, Zenon DEF BeatNumbers, BeatTypeOK

(* Every variable of the cycle keeps its type.                             *)
THEOREM BeatTypes == BeatSpec => []BeatTypeOK
BY BeatBegins, BeatKept, PTL DEF BeatSpec

LEMMA OddCyclesFinite ==
  ASSUME NEW now, NEW done
  PROVE  /\ IsFiniteSet(OddCyclesTo(now, done))
         /\ Cardinality(OddCyclesTo(now, done)) \in Nat
         /\ Cardinality(OddHours) \in Nat
         /\ Cardinality(OddCyclesTo(now, done)) <= Beats * Cardinality(OddHours)
<1>0. Day - 1 \in Int /\ 0 \in Int /\ 1 \in Int /\ Beats \in Nat \ {0}
  BY ClockAssumption
<1>1. IsFiniteSet(0..Day - 1) /\ IsFiniteSet(1..Beats) /\ Cardinality(1..Beats) = Beats
  <2>1. IsFiniteSet(0..Day - 1)
    BY <1>0, FS_Interval
  <2>0. Beats \in Int
    BY <1>0
  <2>2. /\ IsFiniteSet(1..Beats)
        /\ Cardinality(1..Beats) = IF 1 > Beats THEN 0 ELSE Beats - 1 + 1
    BY <1>0, <2>0, FS_Interval, Zenon
  <2> QED
    BY <1>0, <2>1, <2>2
<1>2. IsFiniteSet(OddHours)
  BY <1>1, FS_Subset DEF OddHours
<1> DEFINE T == OddHours \X (1..Beats)
<1>3. IsFiniteSet(T) /\ Cardinality(T) = Cardinality(OddHours) * Cardinality(1..Beats)
  BY <1>1, <1>2, FS_Product
<1>4. OddCyclesTo(now, done) \subseteq T
  BY DEF OddCyclesTo
<1> HIDE DEF T
<1>5. /\ IsFiniteSet(OddCyclesTo(now, done)) /\ Cardinality(OddCyclesTo(now, done)) \in Nat
      /\ Cardinality(OddCyclesTo(now, done)) <= Cardinality(T)
  BY <1>3, <1>4, FS_Subset, FS_CardinalityType
<1>6. Cardinality(OddHours) \in Nat
  BY <1>2, FS_CardinalityType
<1>7. Cardinality(T) = Beats * Cardinality(OddHours)
  BY <1>1, <1>3, <1>6, ClockAssumption
<1>8. QED
  BY <1>5, <1>6, <1>7

(* More odd cycles raise the bound.                                        *)
LEMMA OddCyclesGrow ==
  ASSUME OddCycles \subseteq OddCycles'
  PROVE  Cardinality(OddCycles) <= Cardinality(OddCycles')
<1>1. IsFiniteSet(OddCycles')
  BY OddCyclesFinite DEF OddCycles
<1>2. QED
  BY <1>1, FS_Subset

LEMMA HeavyKept ==
  ASSUME BeatTypeOK, HeavyInv, [BeatNext]_beatVars
  PROVE  HeavyInv'
<1> USE ClockAssumption
<1> DEFINE c == Cardinality(OddCycles)
<1>a. c \in Nat /\ c' \in Nat /\ heavies \in Nat /\ hour \in 0..Day - 1 /\ fired \in 0..Beats
  <2>1. c \in Nat /\ c' \in Nat
    BY OddCyclesFinite DEF OddCycles
  <2>2. heavies \in Nat /\ hour \in 0..Day - 1 /\ fired \in 0..Beats
    BY BeatParts DEF BeatNumbers
  <2> QED
    BY <2>1, <2>2
<1>1. CASE UNCHANGED <<hour, fired, heavy, heavies>>
  BY <1>1 DEF HeavyInv, OddCycles, OddCyclesTo
<1>2. CASE HourPasses
  <2>1. CASE hour' = 0
    <3>1. heavies' = 0
      BY <1>2, <2>1 DEF HourPasses
    <3> QED
      BY <1>a, <3>1 DEF HeavyInv
  <2>2. CASE hour' # 0
    <3>1. hour' = hour + 1 /\ UNCHANGED <<heavy, heavies>>
      BY <1>2, <1>a, <2>2, NextHour DEF HourPasses
    <3>2. OddCycles \subseteq OddCycles'
      <4>1. ASSUME NEW x \in OddCycles PROVE x[1] < hour + 1
        <5>1. x[1] \in Int /\ (x[1] < hour \/ x[1] = hour)
          BY DEF OddCycles, OddCyclesTo, OddHours
        <5> QED
          BY <1>a, <5>1
      <4> QED
        BY <3>1, <4>1 DEF OddCycles, OddCyclesTo
    <3>3. c <= c'
      BY <3>2, OddCyclesGrow
    <3> QED
      BY <1>a, <3>1, <3>3 DEF HeavyInv
  <2> QED
    BY <2>1, <2>2
<1>3. CASE Skip \/ Ok
  <2>1. UNCHANGED <<hour, heavy, heavies>> /\ fired' = fired + 1
    BY <1>3 DEF Skip, Ok, Fire, saved
  <2>2. OddCycles \subseteq OddCycles'
    BY <1>a, <2>1 DEF OddCycles, OddCyclesTo
  <2>3. c <= c'
    BY <2>2, OddCyclesGrow
  <2> QED
    BY <1>a, <2>1, <2>3 DEF HeavyInv
<1>4. CASE Act
  <2>1. hour' = hour /\ fired' = fired + 1 /\ fired < Beats /\ IsActiveHour(hour)
    BY <1>4 DEF Act, Fire, InActiveHours
  <2>2. OddCycles \subseteq OddCycles'
    BY <1>a, <2>1 DEF OddCycles, OddCyclesTo
  <2>3. c <= c'
    BY <2>2, OddCyclesGrow
  <2>4. CASE heavy = "today"
    <3>1. UNCHANGED <<heavy, heavies>>
      BY <1>4, <2>4 DEF Act, MarkHeavy, IsHeavyWindow
    <3> QED
      BY <1>a, <2>3, <3>1 DEF HeavyInv
  <2>5. CASE heavy # "today"
    <3>1. heavies' = heavies + 1 /\ heavy' = UtcDateAt(hour)
      BY <1>4, <2>5 DEF Act, MarkHeavy, IsHeavyWindow, UtcDate
    <3>2. CASE heavy' = "today"
      BY <1>a, <2>3, <2>5, <3>1, <3>2 DEF HeavyInv
    <3>3. CASE heavy' # "today"
      <4> DEFINE next == <<hour, fired + 1>>
      <4>0. hour \in OddHours /\ fired + 1 \in 1..Beats
        BY <1>a, <2>1, <3>1, <3>3 DEF OddHours, DatesDiffer
      <4>1. next \notin OddCycles /\ OddCycles' = OddCycles \cup {next}
        <5>1. next \notin OddCycles
          BY <1>a DEF OddCycles, OddCyclesTo
        <5>2. OddCycles \cup {next} \subseteq OddCycles'
          BY <1>a, <2>1, <2>2, <4>0 DEF OddCycles, OddCyclesTo
        <5>3. ASSUME NEW x \in OddCycles' PROVE x \in OddCycles \cup {next}
          <6>1. /\ x \in OddHours \X (1..Beats) /\ x = <<x[1], x[2]>>
                /\ x[1] < hour \/ (x[1] = hour /\ x[2] <= fired + 1)
            BY <2>1 DEF OddCycles, OddCyclesTo
          <6>2. x[2] <= fired + 1 => x[2] <= fired \/ x[2] = fired + 1
            BY <1>a, <6>1
          <6> QED
            BY <6>1, <6>2 DEF OddCycles, OddCyclesTo
        <5> QED
          BY <5>1, <5>2, <5>3
      <4> HIDE DEF next
      <4>2. Cardinality(OddCycles \cup {next}) = Cardinality(OddCycles) + 1
        BY <4>1, OddCyclesFinite, FS_AddElement DEF OddCycles
      <4>3. c' = c + 1
        BY <4>1, <4>2
      <4> QED
        BY <1>a, <2>5, <3>1, <3>3, <4>3 DEF HeavyInv
    <3> QED
      BY <3>2, <3>3
  <2> QED
    BY <2>4, <2>5
<1>5. CASE Alarm \/ Restart \/ TurnEnds \/ UNCHANGED beatVars
  BY <1>1, <1>5 DEF Alarm, Restart, TurnEnds, beatVars, saved
<1>6. QED
  BY <1>2, <1>3, <1>4, <1>5 DEF BeatNext, Cycle

(* Whatever the time zone, the active hours, the interval and the crashes: *)
(* a day has one heavy heartbeat, and one more at most for each cycle in   *)
(* an active hour in which the date that is saved is not the local one.    *)
THEOREM HeavyRationed == BeatSpec => []HeavyOncePerDate
<1>1. BeatInit => HeavyInv
  <2>1. Cardinality(OddCycles) \in Nat
    BY OddCyclesFinite DEF OddCycles
  <2> QED
    BY <2>1 DEF BeatInit, HeavyInv
<1>2. BeatTypeOK /\ HeavyInv => HeavyOncePerDate
  <2> SUFFICES ASSUME BeatTypeOK, HeavyInv PROVE HeavyOncePerDate
    OBVIOUS
  <2> DEFINE d == Beats * Cardinality(OddHours)
  <2>1. Cardinality(OddCycles) <= d /\ Cardinality(OddCycles) \in Nat /\ d \in Nat
    BY OddCyclesFinite, ClockAssumption DEF OddCycles
  <2> HIDE DEF d
  <2>2. heavies <= 1 + d
    BY <2>1, BeatParts DEF HeavyInv, BeatNumbers
  <2> QED
    BY <2>2 DEF HeavyOncePerDate, OddHours, DatesDiffer, d
<1>3. QED
  BY <1>1, <1>2, BeatBegins, BeatKept, HeavyKept, PTL DEF BeatSpec
=============================================================================
