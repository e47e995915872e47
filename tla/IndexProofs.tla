---------------------------- MODULE IndexProofs ----------------------------
(***************************************************************************)
(* The index follows the disk, for any number of files, texts and          *)
(* coroutines, any length of the watcher's queue and whatever the writers  *)
(* do: but for files that were written too early, and for what a store     *)
(* refused to drop or to change.                                           *)
(***************************************************************************)
EXTENDS MemoryIndex, SequenceTheorems, TLAPS

HasText(u) == u.at \notin {"removing", "removed"} => u.text \in Texts

Coroutines ==
  {Free} \cup {u \in [at : Steps, file : Files, text : Texts \cup {None}, vector : BOOLEAN] : HasText(u)}

Events == [op : {"index", "remove"}, file : Files]

TypeInv ==
  /\ disk \in [Files -> Texts \cup {Blank, None}]
  /\ points \in [Files -> SUBSET Texts]
  /\ rows \in [Files -> Texts \cup {None}]
  /\ hash \in [Files -> Texts \cup {None}]
  /\ phase \in {"down", "syncing", "watching"}
  /\ todo \subseteq Files
  /\ pending \in Seq(Events)
  /\ runs \in [Runs -> Coroutines]

PhaseInv ==
  /\ phase = "watching" => todo = {}
  /\ phase # "watching" => pending = <<>>
  /\ phase = "down" => AllFree /\ todo = {}
  /\ \A r \in Runs : runs[r].file \notin todo

(* Where no writer comes back to a file under work, the file has one       *)
(* coroutine at most, scheduled or under way, unless it is gone.           *)
Alone(f) ==
  /\ \A q, r \in Runs : q # r /\ runs[q].file = f /\ runs[r].file = f => disk[f] = None
  /\ \A r \in Runs, i \in 1 .. Len(pending) :
       runs[r].file = f /\ pending[i].file = f => disk[f] = None
  /\ \A i, j \in 1 .. Len(pending) :
       i # j /\ pending[i].file = f /\ pending[j].file = f => disk[f] = None

(* A removal is scheduled only for a file that is gone.                    *)
QueueInv ==
  \A i \in 1 .. Len(pending) :
    pending[i].op = "remove" /\ pending[i].file \notin raced => disk[pending[i].file] = None

RowsOk(f) ==
  f \notin unwritten =>
    /\ rows[f] \in {None, disk[f]}
    /\ f \in Dated /\ disk[f] \in Texts => rows[f] = disk[f]

VectorsOk(f) == f \notin refused => points[f] \subseteq {disk[f]}

(* A coroutine holds the text of the file, and the stores have nothing of   *)
(* another from the step on that cleans them.                              *)
Sound(u) ==
  /\ u.at \in {"embedding", "comparing", "clearing", "cleared", "upserting", "upserted"} =>
       u.text = disk[u.file] /\ disk[u.file] \in Texts
  /\ u.at = "comparing" => u.file \notin Dated
  /\ u.at \in {"removing", "removed"} => disk[u.file] \notin Texts \/ u.file \notin Dated
  /\ u.at \in {"cleared", "upserting", "upserted", "removed"} => VectorsOk(u.file)
  /\ u.at \in {"upserting", "upserted"} =>
       /\ RowsOk(u.file) /\ hash[u.file] \in {None, disk[u.file]}
       /\ OneAtATime =>
            (u.file \notin unwritten => rows[u.file] = disk[u.file]) /\ hash[u.file] = None
  /\ scenario.faults = {} =>
       /\ u.at \in {"comparing", "clearing", "cleared"} => u.vector = TRUE
       /\ OneAtATime /\ u.at = "upserted" => disk[u.file] \in points[u.file]

RunOk(u) == u.at # "done" /\ u.file \notin raced => Sound(u)

Good(f) == RowsOk(f) /\ VectorsOk(f)

Nothing(f) == rows[f] = None /\ points[f] = {} /\ hash[f] = None

Clear(f) ==
  /\ hash[f] = None
  /\ f \notin unwritten => rows[f] = None
  /\ f \notin refused => points[f] = {}

On(f) == \E r \in Runs : runs[r].file = f

(* A hash on record: whoever skips the file on the strength of it finds    *)
(* nothing older.                                                          *)
HashOk(f) ==
  hash[f] # None =>
    /\ f \notin unwritten =>
         /\ rows[f] \in {None, hash[f]}
         /\ f \in Dated \/ OneAtATime => rows[f] = hash[f]
    /\ f \notin refused => points[f] \subseteq {hash[f]}

Settles(f) ==
  /\ phase # "down" /\ f \notin todo /\ ~UnderWay(f) /\ disk[f] # None => Good(f)
  /\ HashOk(f)
  /\ OneAtATime /\ scenario.faults = {} /\ ~scenario.crash /\ hash[f] # None /\ ~On(f) =>
       hash[f] \in points[f]
  /\ ~scenario.crash /\ disk[f] = None /\ ~UnderWay(f) => Clear(f)
  /\ ~scenario.crash /\ (phase = "down" \/ f \in todo) => Nothing(f)

FileOk(f) == f \notin raced => Settles(f)

IndexInv ==
  /\ TypeInv /\ PhaseInv /\ QueueInv
  /\ OneAtATime => \A f \in Files \ raced : Alone(f)
  /\ \A r \in Runs : RunOk(runs[r])
  /\ \A f \in Files : FileOk(f)

-----------------------------------------------------------------------------
(* Coroutines as they begin.                                               *)

LEMMA Fresh ==
  ASSUME NEW f \in Files
  PROVE  /\ Free \notin [at : Steps, file : Files, text : Texts \cup {None}, vector : BOOLEAN]
         /\ Free.at = "done" /\ Free.file = None /\ None \notin Files
         /\ Removal(f) \in Coroutines /\ Removal(f).at = "removing" /\ Removal(f).file = f
         /\ Opened(f) \in Coroutines /\ Opened(f).file = f
         /\ disk[f] \in Texts => Opened(f).at = "embedding" /\ Opened(f).text = disk[f]
         /\ disk[f] \notin Texts => Opened(f).at = "removing"
<1>1. None \notin Files /\ Free.file = None /\ Free.at = "done"
  BY IndexAssumption DEF Free
<1>2. Free \notin [at : Steps, file : Files, text : Texts \cup {None}, vector : BOOLEAN]
  <2>1. \A u \in [at : Steps, file : Files, text : Texts \cup {None}, vector : BOOLEAN] : u.file \in Files
    OBVIOUS
  <2> SUFFICES ASSUME Free \in [at : Steps, file : Files, text : Texts \cup {None}, vector : BOOLEAN]
               PROVE  FALSE
    OBVIOUS
  <2>2. Free.file \in Files
    BY <2>1
  <2> QED
    BY <1>1, <2>2
<1>3. /\ Free \in [at : {"done"} \cup Steps, file : Files \cup {None}, text : Texts \cup {None}, vector : BOOLEAN]
      /\ Removal(f) = [Free EXCEPT !.at = "removing", !.file = f]
  BY DEF Free, Removal
<1>4. Removal(f) \in Coroutines /\ Removal(f).at = "removing" /\ Removal(f).file = f
  BY <1>3 DEF Coroutines, HasText, Steps
<1>5. CASE disk[f] \in Texts
  <2>1. Opened(f) = [at |-> "embedding", file |-> f, text |-> disk[f], vector |-> FALSE]
    BY <1>5 DEF Opened, Free
  <2>2. Opened(f) \in Coroutines /\ Opened(f).at = "embedding" /\ Opened(f).file = f
        /\ Opened(f).text = disk[f]
    BY <1>5, <2>1 DEF Coroutines, HasText, Steps
  <2> QED
    BY <1>1, <1>2, <1>4, <1>5, <2>2
<1>6. CASE disk[f] \notin Texts
  <2>1. Opened(f) = Removal(f)
    BY <1>6 DEF Opened
  <2> QED
    BY <1>1, <1>2, <1>4, <1>6, <2>1
<1> QED
  BY <1>5, <1>6

(* A coroutine that is under way                                           *)
LEMMA UnderWayRun ==
  ASSUME TypeInv, NEW r \in Runs, runs[r].at # "done"
  PROVE  /\ runs[r] \in [at : Steps, file : Files, text : Texts \cup {None}, vector : BOOLEAN]
         /\ runs[r].file \in Files /\ HasText(runs[r])
<1>1. runs[r] # Free
  BY DEF Free
<1> QED
  BY <1>1 DEF TypeInv, Coroutines

LEMMA FreeRun ==
  ASSUME TypeInv, NEW r \in Runs, NEW f \in Files, runs[r].file = f
  PROVE  runs[r] \in [at : Steps, file : Files, text : Texts \cup {None}, vector : BOOLEAN]
BY IndexAssumption DEF TypeInv, Coroutines, Free

-----------------------------------------------------------------------------
(* A coroutine takes a step.                                               *)

Same == /\ disk' = disk /\ scenario' = scenario /\ phase' = phase
        /\ todo' = todo /\ pending' = pending /\ raced' = raced

(* What the stores know of a file, and whether they did as they were told  *)
Kept(g) ==
  /\ points'[g] = points[g] /\ rows'[g] = rows[g] /\ hash'[g] = hash[g]
  /\ (g \in refused' <=> g \in refused) /\ (g \in unwritten' <=> g \in unwritten)

(* The step of run r from u to v, which touches one file of the stores     *)
Takes(r, u, v) ==
  /\ Same /\ u = runs[r] /\ u.file \in Files
  /\ runs' = [runs EXCEPT ![r] = v] /\ (v = Free \/ (v \in Coroutines /\ v.file = u.file))
  /\ points' \in [Files -> SUBSET Texts]
  /\ rows' \in [Files -> Texts \cup {None}] /\ hash' \in [Files -> Texts \cup {None}]
  /\ \A g \in Files \ {u.file} : Kept(g)

(* What the step may do to other runs over the same file                   *)
MildPoints(f) ==
  \/ f \in refused'
  \/ points'[f] = {}
  \/ f \notin refused /\ points'[f] \in {points[f], points[f] \cup {disk[f]}}

MildRows(f) ==
  \/ f \in unwritten'
  \/ f \notin unwritten /\ rows'[f] = rows[f]
  \/ rows'[f] = disk[f]
  \/ rows'[f] = None /\ (f \notin Dated \/ disk[f] \notin Texts)

Mild(f) == MildPoints(f) /\ MildRows(f) /\ hash'[f] \in {hash[f], None, disk[f]}

LEMMA MildFacts ==
  ASSUME NEW f \in Files, Same, Mild(f)
  PROVE  /\ VectorsOk(f) => VectorsOk(f)'
         /\ RowsOk(f) => RowsOk(f)'
         /\ hash[f] \in {None, disk[f]} => hash'[f] \in {None, disk[f]}
<1>1. disk' = disk
  BY DEF Same
<1>2. VectorsOk(f) => VectorsOk(f)'
  BY <1>1 DEF Mild, MildPoints, VectorsOk
<1>3. RowsOk(f) => RowsOk(f)'
  BY <1>1 DEF Mild, MildRows, RowsOk
<1> QED
  BY <1>2, <1>3 DEF Mild

LEMMA Peer ==
  ASSUME IndexInv, NEW r \in Runs, NEW v, Takes(r, runs[r], v), NEW f \in Files, f = runs[r].file,
         f \notin raced => Mild(f), NEW q \in Runs, q # r
  PROVE  RunOk(runs[q])'
<1> PICK u : u = runs[q]
  OBVIOUS
<1>1. /\ runs'[q] = u /\ OneAtATime' = OneAtATime /\ raced' = raced /\ disk' = disk
      /\ scenario' = scenario /\ Same
  BY DEF IndexInv, TypeInv, Takes, Same, OneAtATime
<1> SUFFICES ASSUME u.at # "done", u.file \notin raced PROVE Sound(u)'
  BY <1>1 DEF RunOk
<1>2. Sound(u) /\ u.file \in Files
  <2>1. TypeInv /\ RunOk(u)
    BY DEF IndexInv
  <2> QED
    BY <2>1, UnderWayRun DEF RunOk
<1>3. CASE u.file # f
  <2>1. Kept(u.file)
    BY <1>2, <1>3 DEF Takes
  <2> QED
    BY <1>1, <1>2, <2>1 DEF Sound, RowsOk, VectorsOk, Kept
<1>4. CASE u.file = f
  <2>1. OneAtATime => disk[f] = None
    BY <1>2, <1>4 DEF IndexInv, Alone
  <2>2. Mild(f)
    BY <1>4
  <2>3. /\ VectorsOk(f) => VectorsOk(f)'
        /\ RowsOk(f) => RowsOk(f)'
        /\ hash[f] \in {None, disk[f]} => hash'[f] \in {None, disk[f]}
    BY <1>1, <2>2, MildFacts
  <2>4. u.at \in {"upserting", "upserted"} => ~OneAtATime
    <3>1. u.at \in {"upserting", "upserted"} => disk[f] \in Texts
      BY <1>2, <1>4 DEF Sound
    <3> QED
      BY <2>1, <3>1, IndexAssumption
  <2> QED
    BY <1>1, <1>2, <1>4, <2>3, <2>4 DEF Sound
<1> QED
  BY <1>3, <1>4

LEMMA OneStep ==
  ASSUME IndexInv, NEW r \in Runs, NEW v, Takes(r, runs[r], v), NEW f \in Files, f = runs[r].file,
         f \notin raced => Mild(f), RunOk(runs[r])', FileOk(f)'
  PROVE  IndexInv'
<1>1. /\ Same /\ runs' = [runs EXCEPT ![r] = v] /\ v \in Coroutines
      /\ v.file \in {f, None} /\ None \notin Files
  BY IndexAssumption DEF Takes, Coroutines, Free
<1>2. TypeInv'
  BY <1>1 DEF IndexInv, TypeInv, Takes, Same
<1>3. phase # "down" /\ f \notin todo /\ todo \subseteq Files
  <2>1. runs[r] # Free
    BY <1>1 DEF Free
  <2> QED
    BY <2>1 DEF IndexInv, PhaseInv, AllFree, TypeInv
<1>4. PhaseInv' /\ QueueInv'
  <2>1. \A q \in Runs : runs'[q].file \notin todo
    BY <1>1, <1>3 DEF IndexInv, PhaseInv, TypeInv
  <2> QED
    BY <1>1, <1>3, <2>1 DEF IndexInv, PhaseInv, QueueInv, Same
<1>5. \A q \in Runs : RunOk(runs[q])'
  BY Peer
<1>6. \A q \in Runs, g \in Files : runs'[q].file = g => runs[q].file = g
  BY <1>1 DEF IndexInv, TypeInv
<1>7. OneAtATime' => \A g \in (Files \ raced)' : Alone(g)'
  <2>1. OneAtATime' = OneAtATime /\ raced' = raced
    BY <1>1 DEF Same, OneAtATime
  <2>2. ASSUME NEW g \in Files, Alone(g) PROVE Alone(g)'
    BY <1>1, <1>6, <2>2 DEF Alone, Same
  <2> QED
    BY <2>1, <2>2 DEF IndexInv
<1>8. ASSUME NEW g \in Files, g # f PROVE FileOk(g)'
  <2>1. Kept(g)
    BY <1>8 DEF Takes
  <2>2. (On(g)' <=> On(g)) /\ (Scheduled(g)' <=> Scheduled(g))
    BY <1>1, <1>8 DEF On, Scheduled, Same, IndexInv, TypeInv
  <2>3. UnderWay(g)' <=> UnderWay(g)
    BY <2>2 DEF UnderWay, On
  <2>4. FileOk(g) /\ OneAtATime' = OneAtATime
    BY <1>1 DEF IndexInv, Same, OneAtATime
  <2>5. (Good(g)' <=> Good(g)) /\ (HashOk(g) => HashOk(g)') /\ (Clear(g) => Clear(g)')
        /\ (Nothing(g) => Nothing(g)')
    BY <1>1, <2>1, <2>4 DEF Good, RowsOk, VectorsOk, HashOk, Clear, Nothing, Kept, Same
  <2> QED
    BY <1>1, <2>1, <2>2, <2>3, <2>4, <2>5 DEF FileOk, Settles, Same, Kept
<1> QED
  BY <1>2, <1>4, <1>5, <1>7, <1>8 DEF IndexInv

-----------------------------------------------------------------------------
(* The steps of a coroutine, one by one.  All but the last leave the file   *)
(* under way, so that only the hash on record can be disturbed.            *)

LEMMA Middle ==
  ASSUME IndexInv, NEW r \in Runs, NEW v, Takes(r, runs[r], v), v \in Coroutines,
         NEW f \in Files, f = runs[r].file, v.file = f,
         f \notin raced => Mild(f) /\ Sound(v)' /\ HashOk(f)'
  PROVE  IndexInv'
<1>1. None \notin Files /\ runs'[r] = v /\ Same
  BY IndexAssumption DEF Takes, IndexInv, TypeInv
<1>2. On(f)' /\ UnderWay(f)'
  BY <1>1 DEF On, UnderWay
<1>3. phase' # "down" /\ f \notin todo'
  <2>1. runs[r] # Free
    BY <1>1 DEF Free
  <2> QED
    BY <1>1, <2>1 DEF IndexInv, PhaseInv, AllFree, Same
<1>4. FileOk(f)' /\ RunOk(v)'
  BY <1>1, <1>2, <1>3 DEF FileOk, Settles, RunOk, Same
<1>5. RunOk(runs[r])'
  BY <1>1, <1>4
<1> QED
  BY <1>4, <1>5, OneStep

LEMMA TextOk ==
  ASSUME IndexInv, NEW r \in Runs, runs[r].at # "done"
  PROVE  /\ runs[r] \in [at : Steps, file : Files, text : Texts \cup {None}, vector : BOOLEAN]
         /\ runs[r].file \in Files /\ RunOk(runs[r]) /\ HasText(runs[r])
         /\ runs[r].file \notin raced => Sound(runs[r]) /\ HashOk(runs[r].file)
         /\ points[runs[r].file] \subseteq Texts
         /\ None \notin Texts /\ None \notin Files
<1>1. TypeInv
  BY DEF IndexInv
<1> QED
  BY <1>1, UnderWayRun, IndexAssumption DEF IndexInv, TypeInv, FileOk, Settles, RunOk

LEMMA Stores ==
  ASSUME IndexInv
  PROVE  /\ points \in [Files -> SUBSET Texts] /\ rows \in [Files -> Texts \cup {None}]
         /\ hash \in [Files -> Texts \cup {None}]
BY DEF IndexInv, TypeInv

LEMMA EmbeddedStep ==
  ASSUME IndexInv, NEW r \in Runs, Embedded(r)
  PROVE  IndexInv'
<1> PICK u, f : u = runs[r] /\ f = u.file
  OBVIOUS
<1>1. u.at = "embedding" /\ u.at # "done"
  BY DEF Embedded, Stands
<1>2. PICK ok \in Succeeds("embed") :
        runs' = [runs EXCEPT ![r].vector = ok,
                             ![r].at = IF f \in Dated THEN "clearing" ELSE "comparing"]
  BY DEF Embedded
<1>3. /\ u \in [at : Steps, file : Files, text : Texts \cup {None}, vector : BOOLEAN] /\ HasText(u)
      /\ f \in Files /\ (f \notin raced => Sound(u) /\ HashOk(f))
  BY <1>1, TextOk
<1>4. ok \in BOOLEAN /\ (scenario.faults = {} => ok = TRUE)
  BY DEF Succeeds
<1> PICK v : v = [u EXCEPT !.vector = ok, !.at = IF f \in Dated THEN "clearing" ELSE "comparing"]
  OBVIOUS
<1>5. /\ v \in Coroutines /\ v.file = f /\ v.text = u.text /\ v.vector = ok
      /\ v.at = IF f \in Dated THEN "clearing" ELSE "comparing"
  <2>1. v \in [at : Steps, file : Files, text : Texts \cup {None}, vector : BOOLEAN]
    BY <1>3, <1>4 DEF Steps
  <2>2. v.file = f /\ v.text = u.text /\ v.vector = ok /\ v.at = IF f \in Dated THEN "clearing" ELSE "comparing"
    BY <1>3, <1>4
  <2>3. HasText(v)
    BY <1>1, <1>3, <1>4, <2>2 DEF HasText
  <2> QED
    BY <2>1, <2>2, <2>3 DEF Coroutines
<1>6. runs' = [runs EXCEPT ![r] = v] /\ runs'[r] = v
  BY <1>2, <1>3 DEF IndexInv, TypeInv
<1>7. /\ Same /\ points' = points /\ rows' = rows /\ hash' = hash /\ OneAtATime' = OneAtATime
      /\ refused' = refused /\ unwritten' = unwritten
  BY DEF Embedded, Same, stores, wrongs, OneAtATime
<1>8. Takes(r, u, v)
  BY <1>3, <1>5, <1>6, <1>7, Stores DEF Takes, Kept
<1>9. Mild(f) /\ (HashOk(f) => HashOk(f)')
  BY <1>3, <1>5, <1>6, <1>7 DEF Mild, MildPoints, MildRows, HashOk
<1>10. f \notin raced => Sound(v)'
  BY <1>1, <1>3, <1>4, <1>5, <1>6, <1>7 DEF Sound, Same
<1> QED
  BY <1>3, <1>5, <1>8, <1>9, <1>10, Middle

LEMMA ComparedStep ==
  ASSUME IndexInv, NEW r \in Runs, Compared(r)
  PROVE  IndexInv'
<1> PICK u, f : u = runs[r] /\ f = u.file
  OBVIOUS
<1> PICK to : to = IF Duplicate(f, u.text) THEN "removing" ELSE "clearing"
  OBVIOUS
<1> PICK v : v = [u EXCEPT !.at = to]
  OBVIOUS
<1>1. u.at = "comparing" /\ u.at # "done"
  BY DEF Compared, Stands
<1>2. /\ u \in [at : Steps, file : Files, text : Texts \cup {None}, vector : BOOLEAN] /\ HasText(u)
      /\ f \in Files /\ (f \notin raced => Sound(u) /\ HashOk(f))
  BY <1>1, TextOk
<1>3. to \in {"removing", "clearing"}
  OBVIOUS
<1>4. runs' = [runs EXCEPT ![r] = v] /\ runs'[r] = v
  BY <1>2 DEF IndexInv, TypeInv, Compared, GoTo
<1>5. v \in Coroutines /\ v.file = f /\ v.text = u.text /\ v.vector = u.vector /\ v.at = to
  <2>1. v \in [at : Steps, file : Files, text : Texts \cup {None}, vector : BOOLEAN]
    BY <1>2, <1>3 DEF Steps
  <2>2. v.file = f /\ v.text = u.text /\ v.vector = u.vector /\ v.at = to
    BY <1>2
  <2>3. HasText(v)
    BY <1>1, <1>2, <1>3, <2>2 DEF HasText
  <2> QED
    BY <2>1, <2>2, <2>3 DEF Coroutines
<1>7. /\ Same /\ points' = points /\ rows' = rows /\ hash' = hash /\ OneAtATime' = OneAtATime
      /\ refused' = refused /\ unwritten' = unwritten
  BY DEF Compared, Same, stores, wrongs, OneAtATime
<1>8. Takes(r, u, v)
  BY <1>2, <1>4, <1>5, <1>7, Stores DEF Takes, Kept
<1>9. Mild(f) /\ (HashOk(f) => HashOk(f)')
  BY <1>2, <1>4, <1>5, <1>7 DEF Mild, MildPoints, MildRows, HashOk
<1>10. f \notin raced => Sound(v)'
  BY <1>1, <1>2, <1>3, <1>4, <1>5, <1>7 DEF Sound, Same
<1> QED
  BY <1>2, <1>5, <1>8, <1>9, <1>10, Middle

LEMMA DeletedStep ==
  ASSUME IndexInv, NEW r \in Runs, Deleted(r)
  PROVE  IndexInv'
<1> PICK u, f : u = runs[r] /\ f = u.file
  OBVIOUS
<1> PICK to : to = IF Stands(r, "clearing") THEN "cleared" ELSE "removed"
  OBVIOUS
<1> PICK v : v = [u EXCEPT !.at = to]
  OBVIOUS
<1>1. u.at \in {"clearing", "removing"} /\ u.at # "done"
  BY DEF Deleted
<1>2. /\ u \in [at : Steps, file : Files, text : Texts \cup {None}, vector : BOOLEAN] /\ HasText(u)
      /\ f \in Files /\ (f \notin raced => Sound(u) /\ HashOk(f))
  BY <1>1, TextOk
<1>3. \/ u.at = "clearing" /\ to = "cleared"
      \/ u.at = "removing" /\ to = "removed"
  BY <1>1 DEF Stands
<1>4. runs' = [runs EXCEPT ![r] = v] /\ runs'[r] = v
  BY <1>2 DEF IndexInv, TypeInv, Deleted, GoTo
<1>5. v \in Coroutines /\ v.file = f /\ v.text = u.text /\ v.vector = u.vector /\ v.at = to
  <2>1. v \in [at : Steps, file : Files, text : Texts \cup {None}, vector : BOOLEAN]
    BY <1>2, <1>3 DEF Steps
  <2>2. v.file = f /\ v.text = u.text /\ v.vector = u.vector /\ v.at = to
    BY <1>2
  <2>3. HasText(v)
    BY <1>1, <1>2, <1>3, <2>2 DEF HasText
  <2> QED
    BY <2>1, <2>2, <2>3 DEF Coroutines
<1>6. PICK ok \in Succeeds("delete") :
        /\ points' = [points EXCEPT ![f] = IF ok THEN {} ELSE @]
        /\ refused' = Noted(refused, f, ok)
  BY DEF Deleted
<1>7. /\ Same /\ rows' = rows /\ hash' = hash /\ OneAtATime' = OneAtATime
      /\ unwritten' = unwritten
  BY DEF Deleted, Same, OneAtATime
<1>8. /\ Takes(r, u, v)
      /\ points'[f] = {} \/ (f \in refused' /\ points'[f] = points[f])
  <2>1. points' \in [Files -> SUBSET Texts]
    BY <1>2, <1>6, Stores
  <2>2. \A g \in Files \ {f} : Kept(g)
    BY <1>2, <1>6, <1>7, Stores DEF Kept, Noted
  <2>3. points'[f] = {} \/ (f \in refused' /\ points'[f] = points[f])
    BY <1>2, <1>6, Stores DEF Noted
  <2> QED
    BY <1>2, <1>4, <1>5, <1>7, <2>1, <2>2, <2>3, Stores DEF Takes
<1>9. Mild(f) /\ (HashOk(f) => HashOk(f)')
  BY <1>2, <1>4, <1>5, <1>7, <1>8 DEF Mild, MildPoints, MildRows, HashOk
<1>10. f \notin raced => Sound(v)'
  <2>1. VectorsOk(f)'
    BY <1>8 DEF VectorsOk
  <2>2. disk' = disk /\ scenario' = scenario /\ v.at \in {"cleared", "removed"}
    BY <1>3, <1>5, <1>7 DEF Same
  <2> QED
    BY <1>1, <1>2, <1>3, <1>5, <2>1, <2>2 DEF Sound
<1> QED
  BY <1>2, <1>5, <1>8, <1>9, <1>10, Middle

LEMMA UpsertedStep ==
  ASSUME IndexInv, NEW r \in Runs, Upserted(r)
  PROVE  IndexInv'
<1> PICK u, f : u = runs[r] /\ f = u.file
  OBVIOUS
<1> PICK v : v = [u EXCEPT !.at = "upserted"]
  OBVIOUS
<1>1. u.at = "upserting" /\ u.at # "done"
  BY DEF Upserted, Stands
<1>2. /\ u \in [at : Steps, file : Files, text : Texts \cup {None}, vector : BOOLEAN] /\ HasText(u)
      /\ f \in Files /\ (f \notin raced => Sound(u) /\ HashOk(f)) /\ None \notin Texts
      /\ points[f] \subseteq Texts
  BY <1>1, TextOk
<1>3. f \notin raced =>
        /\ u.text = disk[f] /\ disk[f] \in Texts /\ hash[f] \in {None, disk[f]}
        /\ VectorsOk(f) /\ RowsOk(f)
        /\ OneAtATime => (f \notin unwritten => rows[f] = disk[f]) /\ hash[f] = None
  BY <1>1, <1>2 DEF Sound
<1>4. runs' = [runs EXCEPT ![r] = v] /\ runs'[r] = v
  BY <1>2 DEF IndexInv, TypeInv, Upserted, GoTo
<1>5. v \in Coroutines /\ v.file = f /\ v.text = u.text /\ v.vector = u.vector /\ v.at = "upserted"
  <2>1. v \in [at : Steps, file : Files, text : Texts \cup {None}, vector : BOOLEAN]
    BY <1>2 DEF Steps
  <2>2. v.file = f /\ v.text = u.text /\ v.vector = u.vector /\ v.at = "upserted"
    BY <1>2
  <2>3. HasText(v)
    BY <1>1, <1>2, <2>2 DEF HasText
  <2> QED
    BY <2>1, <2>2, <2>3 DEF Coroutines
<1>6. PICK ok \in Succeeds("upsert") :
        points' = [points EXCEPT ![f] = IF ok THEN @ \cup {u.text} ELSE @]
  BY DEF Upserted
<1>7. /\ Same /\ rows' = rows /\ hash' = hash /\ OneAtATime' = OneAtATime
      /\ refused' = refused /\ unwritten' = unwritten
  BY DEF Upserted, Same, wrongs, OneAtATime
<1>8. /\ points' \in [Files -> SUBSET Texts]
      /\ \A g \in Files \ {f} : points'[g] = points[g]
      /\ f \notin raced =>
           /\ points'[f] \in {points[f], points[f] \cup {disk[f]}}
           /\ scenario.faults = {} => disk[f] \in points'[f]
  <2>1. scenario.faults = {} => ok = TRUE
    BY DEF Succeeds
  <2>2. points \in [Files -> SUBSET Texts] /\ points' = [points EXCEPT ![f] = points'[f]]
        /\ points'[f] = IF ok THEN points[f] \cup {u.text} ELSE points[f]
    BY <1>2, <1>6, Stores
  <2>3. points'[f] \subseteq Texts
    <3>1. u.text \in Texts
      BY <1>1, <1>2 DEF HasText
    <3> QED
      BY <1>2, <2>2, <3>1
  <2> QED
    BY <1>2, <1>3, <2>1, <2>2, <2>3
<1>9. Takes(r, u, v)
  BY <1>2, <1>4, <1>5, <1>7, <1>8, Stores DEF Takes, Kept
<1>10. f \notin raced => Mild(f) /\ HashOk(f)'
  <2> SUFFICES ASSUME f \notin raced PROVE Mild(f) /\ HashOk(f)'
    OBVIOUS
  <2>1. Mild(f)
    BY <1>3, <1>7, <1>8 DEF Mild, MildPoints, MildRows, VectorsOk
  <2>2. HashOk(f)'
    BY <1>2, <1>3, <1>7, <1>8 DEF HashOk, VectorsOk
  <2> QED
    BY <2>1, <2>2
<1>11. f \notin raced => Sound(v)'
  <2> SUFFICES ASSUME f \notin raced PROVE Sound(v)'
    OBVIOUS
  <2>1. VectorsOk(f)' /\ RowsOk(f)'
    BY <1>3, <1>7, <1>8 DEF VectorsOk, RowsOk, Same
  <2> QED
    BY <1>1, <1>2, <1>3, <1>4, <1>5, <1>7, <1>8, <2>1 DEF Sound, Same
<1> QED
  BY <1>2, <1>5, <1>9, <1>10, <1>11, Middle

(* The last step of a coroutine leaves the file to whoever comes next.     *)
LEMMA Final ==
  ASSUME IndexInv, NEW r \in Runs, NEW f \in Files, f = runs[r].file, runs[r].at # "done",
         Takes(r, runs[r], Free),
         f \notin raced =>
           /\ Mild(f) /\ VectorsOk(f)' /\ RowsOk(f)'
           /\ hash'[f] # None =>
                /\ hash'[f] = disk[f]
                /\ f \notin unwritten' /\ (OneAtATime \/ f \in Dated) => rows'[f] = disk[f]
                /\ OneAtATime /\ scenario.faults = {} => disk[f] \in points'[f]
           /\ disk[f] = None => hash'[f] = None
  PROVE  IndexInv'
<1>1. /\ Same /\ None \notin Texts /\ points'[f] \subseteq Texts
      /\ runs'[r] = Free /\ Free.at = "done" /\ Free.file = None
      /\ OneAtATime' = OneAtATime /\ disk' = disk /\ raced' = raced
  BY TextOk, Fresh DEF Takes, IndexInv, TypeInv, Same, OneAtATime
<1>2. RunOk(runs[r])'
  BY <1>1 DEF RunOk
<1>3. phase' # "down" /\ f \notin todo'
  <2>1. runs[r] # Free
    BY <1>1
  <2> QED
    BY <1>1, <2>1 DEF IndexInv, PhaseInv, AllFree, Same
<1>4. ASSUME f \notin raced PROVE Good(f)' /\ HashOk(f)' /\ (disk[f] = None => Clear(f)')
  <2>1. Good(f)'
    BY <1>4 DEF Good
  <2>2. HashOk(f)'
    BY <1>1, <1>4 DEF HashOk, RowsOk, VectorsOk
  <2>3. disk[f] = None => Clear(f)'
    BY <1>1, <1>4 DEF Clear, RowsOk, VectorsOk
  <2> QED
    BY <2>1, <2>2, <2>3
<1>5. FileOk(f)'
  BY <1>1, <1>3, <1>4 DEF FileOk, Settles, Same
<1> QED
  BY <1>2, <1>5, OneStep

LEMMA RewrittenStep ==
  ASSUME IndexInv, NEW r \in Runs, Rewritten(r)
  PROVE  IndexInv'
<1> PICK u, f : u = runs[r] /\ f = u.file
  OBVIOUS
<1>1. u.at = "cleared" /\ u.at # "done"
  BY DEF Rewritten, Stands
<1>2. /\ u \in [at : Steps, file : Files, text : Texts \cup {None}, vector : BOOLEAN] /\ HasText(u)
      /\ f \in Files /\ (f \notin raced => Sound(u) /\ HashOk(f)) /\ None \notin Texts
  BY <1>1, TextOk
<1>3. f \notin raced =>
        /\ u.text = disk[f] /\ disk[f] \in Texts /\ VectorsOk(f)
        /\ scenario.faults = {} => u.vector = TRUE
  BY <1>1, <1>2 DEF Sound
<1>4. PICK ok \in Succeeds("rows") :
        /\ rows' = [rows EXCEPT ![f] = IF ok THEN u.text ELSE @]
        /\ unwritten' = Noted(unwritten, f, ok)
  BY DEF Rewritten
<1>5. Same /\ points' = points /\ OneAtATime' = OneAtATime /\ refused' = refused
  BY DEF Rewritten, Same, OneAtATime
<1>6. /\ rows' \in [Files -> Texts \cup {None}]
      /\ \A g \in Files \ {f} : rows'[g] = rows[g] /\ (g \in unwritten' <=> g \in unwritten)
      /\ rows'[f] = u.text \/ f \in unwritten'
  BY <1>2, <1>4, Stores DEF Noted
<1>7. f \notin raced => VectorsOk(f)' /\ RowsOk(f)'
                        /\ (f \notin unwritten' => rows'[f] = disk[f])
  BY <1>3, <1>5, <1>6 DEF VectorsOk, RowsOk, Same
<1>a. f \notin raced => MildPoints(f) /\ MildRows(f)
  BY <1>3, <1>5, <1>6 DEF MildPoints, MildRows, VectorsOk
<1>8. CASE u.vector
  <2> PICK v : v = [u EXCEPT !.at = "upserting"]
    OBVIOUS
  <2>1. hash' = [hash EXCEPT ![f] = None]
    BY <1>8 DEF Rewritten
  <2>2. runs' = [runs EXCEPT ![r] = v] /\ runs'[r] = v
    BY <1>2, <1>8 DEF IndexInv, TypeInv, Rewritten, GoTo
  <2>3. v \in Coroutines /\ v.file = f /\ v.text = u.text /\ v.vector = u.vector /\ v.at = "upserting"
    <3>1. v \in [at : Steps, file : Files, text : Texts \cup {None}, vector : BOOLEAN]
      BY <1>2 DEF Steps
    <3>2. v.file = f /\ v.text = u.text /\ v.vector = u.vector /\ v.at = "upserting"
      BY <1>2
    <3>3. HasText(v)
      BY <1>1, <1>2, <3>2 DEF HasText
    <3> QED
      BY <3>1, <3>2, <3>3 DEF Coroutines
  <2>4. hash' \in [Files -> Texts \cup {None}] /\ hash'[f] = None
    BY <1>2, <2>1, Stores
  <2>5. Takes(r, u, v)
    BY <1>2, <1>5, <1>6, <2>1, <2>2, <2>3, <2>4, Stores DEF Takes, Kept
  <2>6. HashOk(f)' /\ (f \notin raced => Mild(f))
    BY <1>a, <2>2, <2>3, <2>4 DEF HashOk, Mild
  <2>7. f \notin raced => Sound(v)'
    BY <1>2, <1>3, <1>5, <1>7, <2>2, <2>3, <2>4 DEF Sound, Same
  <2> QED
    BY <1>2, <2>3, <2>5, <2>6, <2>7, Middle
<1>9. CASE ~u.vector
  <2>1. hash' = [hash EXCEPT ![f] = u.text] /\ runs' = [runs EXCEPT ![r] = Free]
    BY <1>9 DEF Rewritten
  <2>2. hash' \in [Files -> Texts \cup {None}] /\ hash'[f] = u.text
    BY <1>2, <2>1, Stores
  <2>3. Takes(r, u, Free)
    BY <1>2, <1>5, <1>6, <2>1, <2>2, Stores DEF Takes, Kept
  <2>4. f \notin raced => Mild(f)
    BY <1>3, <1>a, <2>2 DEF Mild
  <2> QED
    BY <1>1, <1>2, <1>3, <1>7, <1>9, <2>2, <2>3, <2>4, Final
<1> QED
  BY <1>8, <1>9

LEMMA RecordedStep ==
  ASSUME IndexInv, NEW r \in Runs, Recorded(r)
  PROVE  IndexInv'
<1> PICK u, f : u = runs[r] /\ f = u.file
  OBVIOUS
<1>1. u.at = "upserted" /\ u.at # "done"
  BY DEF Recorded, Stands
<1>2. /\ u \in [at : Steps, file : Files, text : Texts \cup {None}, vector : BOOLEAN] /\ HasText(u)
      /\ f \in Files /\ (f \notin raced => Sound(u)) /\ None \notin Texts
  BY <1>1, TextOk
<1>3. f \notin raced =>
        /\ u.text = disk[f] /\ disk[f] \in Texts /\ VectorsOk(f) /\ RowsOk(f)
        /\ OneAtATime => (f \notin unwritten => rows[f] = disk[f])
        /\ OneAtATime /\ scenario.faults = {} => disk[f] \in points[f]
  BY <1>1, <1>2 DEF Sound
<1>4. hash' = [hash EXCEPT ![f] = u.text] /\ runs' = [runs EXCEPT ![r] = Free]
  BY DEF Recorded
<1>5. /\ Same /\ points' = points /\ rows' = rows
      /\ refused' = refused /\ unwritten' = unwritten
  BY DEF Recorded, Same, wrongs
<1>6. hash' \in [Files -> Texts \cup {None}] /\ hash'[f] = u.text
  BY <1>2, <1>4, Stores
<1>7. Takes(r, u, Free)
  BY <1>2, <1>4, <1>5, <1>6, Stores DEF Takes, Kept
<1>8. f \notin raced => Mild(f) /\ VectorsOk(f)' /\ RowsOk(f)'
  BY <1>3, <1>5, <1>6 DEF Mild, MildPoints, MildRows, VectorsOk, RowsOk, Same
<1>9. f \notin raced =>
        /\ hash'[f] = disk[f] /\ disk[f] # None
        /\ f \notin unwritten' /\ (OneAtATime \/ f \in Dated) => rows'[f] = disk[f]
        /\ OneAtATime /\ scenario.faults = {} => disk[f] \in points'[f]
  BY <1>2, <1>3, <1>5, <1>6 DEF RowsOk
<1> QED
  BY <1>1, <1>2, <1>7, <1>8, <1>9, Final

LEMMA DroppedStep ==
  ASSUME IndexInv, NEW r \in Runs, Dropped(r)
  PROVE  IndexInv'
<1> PICK u, f : u = runs[r] /\ f = u.file
  OBVIOUS
<1>1. u.at = "removed" /\ u.at # "done"
  BY DEF Dropped, Stands
<1>2. /\ u \in [at : Steps, file : Files, text : Texts \cup {None}, vector : BOOLEAN] /\ HasText(u)
      /\ f \in Files /\ (f \notin raced => Sound(u)) /\ None \notin Texts
  BY <1>1, TextOk
<1>3. f \notin raced => VectorsOk(f) /\ (disk[f] \notin Texts \/ f \notin Dated)
  BY <1>1, <1>2 DEF Sound
<1>4. PICK ok \in Succeeds("rows") :
        /\ rows' = [rows EXCEPT ![f] = IF ok THEN None ELSE @]
        /\ unwritten' = Noted(unwritten, f, ok)
  BY DEF Dropped
<1>5. Same /\ points' = points /\ refused' = refused
  BY DEF Dropped, Same
<1>6. hash' = [hash EXCEPT ![f] = None] /\ runs' = [runs EXCEPT ![r] = Free]
  BY DEF Dropped
<1>7. /\ rows' \in [Files -> Texts \cup {None}] /\ (rows'[f] = None \/ f \in unwritten')
      /\ \A g \in Files \ {f} : rows'[g] = rows[g] /\ (g \in unwritten' <=> g \in unwritten)
      /\ hash' \in [Files -> Texts \cup {None}] /\ hash'[f] = None
  BY <1>2, <1>4, <1>6, Stores DEF Noted
<1>8. Takes(r, u, Free)
  BY <1>2, <1>5, <1>6, <1>7, Stores DEF Takes, Kept
<1>9. f \notin raced => Mild(f) /\ VectorsOk(f)' /\ RowsOk(f)'
  BY <1>3, <1>5, <1>7 DEF Mild, MildPoints, MildRows, VectorsOk, RowsOk, Same
<1> QED
  BY <1>1, <1>2, <1>7, <1>8, <1>9, Final

-----------------------------------------------------------------------------
(* The process.                                                            *)

LEMMA AllQuiet ==
  ASSUME IndexInv, AllFree
  PROVE  /\ \A r \in Runs : runs[r].file = None /\ runs[r].at = "done"
         /\ \A f \in Files : ~On(f)
BY IndexAssumption DEF AllFree, Free, On

LEMMA StartStep ==
  ASSUME IndexInv, Start
  PROVE  IndexInv'
<1>1. /\ AllFree /\ pending = <<>> /\ OneAtATime' = OneAtATime /\ raced' = raced
      /\ phase = "down" /\ phase' = "syncing" /\ runs' = runs /\ disk' = disk
  BY DEF IndexInv, PhaseInv, Start, OneAtATime, wrongs
<1>2. TypeInv' /\ PhaseInv' /\ QueueInv' /\ AllFree'
  <2>1. \A r \in Runs : runs[r].file = None
    BY <1>1, AllQuiet
  <2>2. todo' \subseteq Files /\ pending' = <<>>
    BY <1>1 DEF Start
  <2>3. \A r \in Runs : runs'[r].file \notin todo'
    BY <1>1, <2>1, <2>2, IndexAssumption
  <2> QED
    BY <1>1, <2>2, <2>3 DEF IndexInv, TypeInv, PhaseInv, QueueInv, Start, stores, wrongs, AllFree
<1>3. ASSUME NEW f \in Files PROVE Alone(f)'
  BY <1>1, AllQuiet, IndexAssumption DEF Alone, Start
<1>4. ASSUME NEW r \in Runs PROVE RunOk(runs[r])'
  BY <1>1, AllQuiet DEF RunOk
<1>5. ASSUME NEW f \in Files PROVE FileOk(f)'
  <2>1. FileOk(f) /\ (On(f)' <=> On(f))
    BY DEF IndexInv, On, Start
  <2>2. f \notin todo' => disk'[f] = None
    BY DEF Start
  <2>3. (HashOk(f) => HashOk(f)') /\ (Nothing(f) => Nothing(f)' /\ Clear(f)')
    BY <1>1 DEF HashOk, Nothing, Clear, Start, stores, wrongs
  <2> QED
    BY <1>1, <2>1, <2>2, <2>3 DEF FileOk, Settles, Start, stores, wrongs
<1> QED
  BY <1>2, <1>3, <1>4, <1>5 DEF IndexInv

LEMMA WatchStep ==
  ASSUME IndexInv, Watch
  PROVE  IndexInv'
<1>1. /\ todo = {} /\ AllFree /\ phase = "syncing" /\ phase' = "watching"
      /\ disk' = disk /\ points' = points /\ rows' = rows /\ hash' = hash /\ todo' = todo
      /\ pending' = pending /\ runs' = runs /\ scenario' = scenario
      /\ raced' = raced /\ refused' = refused /\ unwritten' = unwritten
      /\ OneAtATime' = OneAtATime
  BY DEF Watch, stores, wrongs, OneAtATime
<1>2. TypeInv' /\ PhaseInv' /\ QueueInv'
  BY <1>1 DEF IndexInv, TypeInv, PhaseInv, QueueInv
<1>3. ASSUME NEW f \in Files, Alone(f) PROVE Alone(f)'
  BY <1>1, <1>3 DEF Alone
<1>4. ASSUME NEW r \in Runs PROVE RunOk(runs[r])'
  BY <1>1, AllQuiet DEF RunOk
<1>5. ASSUME NEW f \in Files PROVE FileOk(f)'
  <2>1. FileOk(f) /\ (On(f)' <=> On(f)) /\ (UnderWay(f)' <=> UnderWay(f))
    BY <1>1 DEF IndexInv, On, UnderWay, Scheduled
  <2>2. (Good(f) <=> Good(f)') /\ (HashOk(f) <=> HashOk(f)') /\ (Clear(f) <=> Clear(f)')
    BY <1>1 DEF Good, RowsOk, VectorsOk, HashOk, Clear
  <2> QED
    BY <1>1, <2>1, <2>2 DEF FileOk, Settles
<1> QED
  BY <1>1, <1>2, <1>3, <1>4, <1>5 DEF IndexInv

LEMMA CrashStep ==
  ASSUME IndexInv, Crash
  PROVE  IndexInv'
<1>1. /\ scenario' = scenario /\ scenario.crash /\ phase' = "down" /\ todo' = {}
      /\ pending' = <<>> /\ OneAtATime' = OneAtATime /\ raced' = raced
      /\ disk' = disk /\ points' = points /\ rows' = rows /\ hash' = hash
      /\ refused' = refused /\ unwritten' = unwritten
  BY DEF Crash, stores, wrongs, OneAtATime
<1>2. TypeInv'
  BY DEF IndexInv, TypeInv, Crash, stores, wrongs, Coroutines
<1>4. ASSUME NEW r \in Runs PROVE runs'[r].file = None /\ runs'[r].at = "done"
  BY DEF Crash, Free
<1>3. PhaseInv' /\ QueueInv' /\ AllFree'
  BY <1>1, <1>4 DEF PhaseInv, QueueInv, Crash, AllFree
<1>5. ASSUME NEW f \in Files PROVE Alone(f)'
  BY <1>1, <1>4, IndexAssumption DEF Alone
<1>6. ASSUME NEW r \in Runs PROVE RunOk(runs[r])'
  BY <1>4 DEF RunOk
<1>7. ASSUME NEW f \in Files PROVE FileOk(f)'
  <2>1. FileOk(f) /\ (HashOk(f) => HashOk(f)')
    BY <1>1 DEF IndexInv, HashOk
  <2> QED
    BY <1>1, <2>1 DEF FileOk, Settles
<1> QED
  BY <1>2, <1>3, <1>5, <1>6, <1>7 DEF IndexInv

(* A coroutine that begins stands well, whatever it begins with.           *)
LEMMA BeginsWell ==
  ASSUME NEW f \in Files, NEW v, v \in {Opened(f), Removal(f)},
         f \notin raced /\ v = Removal(f) => disk[f] \notin Texts \/ f \notin Dated
  PROVE  v \in Coroutines /\ v.file = f /\ RunOk(v)
<1>1. v \in Coroutines /\ v.file = f
  BY Fresh
<1>2. CASE v.at = "embedding" /\ v.text = disk[f] /\ disk[f] \in Texts
  BY <1>1, <1>2 DEF RunOk, Sound
<1>3. CASE v.at = "removing" /\ (f \notin raced => disk[f] \notin Texts \/ f \notin Dated)
  BY <1>1, <1>3 DEF RunOk, Sound
<1> QED
  BY <1>1, <1>2, <1>3, Fresh

LEMMA CheckStep ==
  ASSUME IndexInv, NEW r \in Runs, NEW f \in Files, Check(r, f)
  PROVE  IndexInv'
<1>1. /\ phase = "syncing" /\ phase' = "syncing" /\ AllFree /\ f \in todo /\ pending = <<>>
      /\ disk' = disk /\ points' = points /\ rows' = rows /\ hash' = hash
      /\ todo' = todo \ {f} /\ pending' = pending /\ scenario' = scenario
      /\ raced' = raced /\ refused' = refused /\ unwritten' = unwritten
      /\ OneAtATime' = OneAtATime
  BY DEF IndexInv, PhaseInv, Check, OneAtATime, stores, wrongs
<1>2. \A q \in Runs : runs[q].file = None /\ runs[q].at = "done"
  BY <1>1, AllQuiet
<1>3. None \notin Files /\ FileOk(f) /\ TypeInv /\ todo \subseteq Files
  BY IndexAssumption DEF IndexInv, TypeInv
<1>a. ASSUME NEW g
      PROVE  /\ Good(g)' <=> Good(g)
             /\ HashOk(g)' <=> HashOk(g)
             /\ Nothing(g)' <=> Nothing(g)
             /\ Clear(g)' <=> Clear(g)
             /\ Nothing(g) => Clear(g)
  BY <1>1 DEF Good, RowsOk, VectorsOk, HashOk, Nothing, Clear
<1>4. CASE Unchanged(f)
  <2>1. runs' = runs
    BY <1>4 DEF Check
  <2>2. TypeInv' /\ PhaseInv' /\ QueueInv'
    BY <1>1, <2>1 DEF IndexInv, TypeInv, PhaseInv, QueueInv, AllFree
  <2>3. \A g \in Files : Alone(g)'
    BY <1>1, <1>2, <1>3, <2>1 DEF Alone
  <2>4. \A q \in Runs : RunOk(runs[q])'
    BY <1>2, <2>1 DEF RunOk
  <2>5. ASSUME NEW g \in Files PROVE FileOk(g)'
    <3>1. FileOk(g) /\ (On(g)' <=> On(g)) /\ (UnderWay(g)' <=> UnderWay(g))
      BY <1>1, <2>1 DEF IndexInv, On, UnderWay, Scheduled
    <3>2. g = f /\ g \notin raced => Good(g)'
      <4>1. hash[f] = disk[f] /\ disk[f] # None
        BY <1>4 DEF Unchanged
      <4>2. f \notin raced => HashOk(f)
        BY <1>3 DEF FileOk, Settles
      <4>3. f \notin raced => Good(f)
        BY <4>1, <4>2 DEF HashOk, Good, RowsOk, VectorsOk
      <4> QED
        BY <1>a, <4>3
    <3> QED
      BY <1>1, <1>a, <3>1, <3>2 DEF FileOk, Settles
  <2> QED
    BY <2>2, <2>3, <2>4, <2>5 DEF IndexInv
<1>5. CASE ~Unchanged(f)
  <2> DEFINE v == Opened(f)
  <2>1. runs' = [runs EXCEPT ![r] = v]
    BY <1>1, <1>5 DEF Check
  <2>2. v = Removal(f) => disk[f] \notin Texts \/ f \notin Dated
    BY Fresh
  <2>3. v \in Coroutines /\ v.file = f /\ RunOk(v)
    BY <2>2, BeginsWell
  <2> HIDE DEF v
  <2>4. runs'[r] = v /\ \A q \in Runs \ {r} : runs'[q] = runs[q]
    BY <1>3, <2>1 DEF TypeInv
  <2>5. TypeInv' /\ PhaseInv' /\ QueueInv'
    <3>1. \A q \in Runs : runs'[q].file \notin todo'
      BY <1>1, <1>2, <1>3, <2>3, <2>4
    <3> QED
      BY <1>1, <2>1, <2>3, <3>1 DEF IndexInv, TypeInv, PhaseInv, QueueInv
  <2>6. \A g \in Files : Alone(g)'
    BY <1>1, <1>2, <1>3, <2>4 DEF Alone
  <2>7. ASSUME NEW q \in Runs PROVE RunOk(runs[q])'
    <3>1. CASE q = r
      BY <1>1, <2>1, <2>3, <2>4, <3>1 DEF RunOk, Sound, RowsOk, VectorsOk
    <3>2. CASE q # r
      BY <1>2, <2>4, <3>2 DEF RunOk
    <3> QED
      BY <3>1, <3>2
  <2>8. ASSUME NEW g \in Files PROVE FileOk(g)'
    <3>1. FileOk(g) /\ ~On(g)
      BY <1>1, AllQuiet DEF IndexInv
    <3>2. g # f => (On(g)' <=> On(g)) /\ (UnderWay(g)' <=> UnderWay(g))
      BY <1>1, <1>2, <1>3, <2>3, <2>4 DEF On, UnderWay, Scheduled
    <3>3. g = f => On(g)' /\ UnderWay(g)'
      BY <2>3, <2>4 DEF On, UnderWay
    <3> QED
      BY <1>1, <1>a, <3>1, <3>2, <3>3 DEF FileOk, Settles
  <2> QED
    BY <2>5, <2>6, <2>7, <2>8 DEF IndexInv
<1> QED
  BY <1>4, <1>5

LEMMA BeginStep ==
  ASSUME IndexInv, NEW r \in Runs, Begin(r)
  PROVE  IndexInv'
<1> DEFINE e == pending[1]
           f == e.file
           v == IF e.op = "index" THEN Opened(f) ELSE Removal(f)
<1>1. /\ TypeInv /\ pending # <<>> /\ runs[r] = Free /\ disk' = disk /\ points' = points
      /\ rows' = rows /\ hash' = hash /\ phase' = phase /\ todo' = todo /\ scenario' = scenario
      /\ raced' = raced /\ refused' = refused /\ unwritten' = unwritten
      /\ OneAtATime' = OneAtATime
  BY DEF IndexInv, Begin, stores, wrongs, OneAtATime
<1>2. /\ Len(pending) \in Nat /\ Len(pending) >= 1 /\ e \in Events /\ f \in Files
      /\ 1 \in 1 .. Len(pending)
  <2>1. pending \in Seq(Events)
    BY <1>1 DEF TypeInv
  <2>2. Len(pending) \in Nat /\ Len(pending) >= 1
    BY <1>1, <2>1
  <2>3. e \in Events
    <3> HIDE DEF Events
    <3> QED
      BY <2>1, <2>2
  <2> HIDE DEF e
  <2>4. e.file \in Files
    BY <2>3 DEF Events
  <2> QED
    BY <2>2, <2>3, <2>4
<1>3. /\ pending' \in Seq(Events) /\ Len(pending') = Len(pending) - 1
      /\ \A i \in 1 .. Len(pending') : pending'[i] = pending[i + 1] /\ i + 1 \in 1 .. Len(pending)
  <2>1. pending \in Seq(Events) /\ pending # <<>> /\ pending' = Tail(pending)
    BY <1>1 DEF TypeInv, Begin
  <2> HIDE DEF e, f, v
  <2>2. pending' \in Seq(Events) /\ Len(pending') = Len(pending) - 1
    BY <2>1, HeadTailProperties
  <2>3. ASSUME NEW i \in 1 .. Len(pending')
        PROVE  pending'[i] = pending[i + 1] /\ i + 1 \in 1 .. Len(pending)
    BY <1>2, <2>1, <2>2
  <2> QED
    BY <2>2, <2>3
<1>4. runs' = [runs EXCEPT ![r] = v]
  <2>1. Head(pending) = e
    BY <1>1 DEF TypeInv
  <2>2. runs' = [runs EXCEPT ![r] = IF Head(pending).op = "index" THEN Opened(Head(pending).file)
                                    ELSE Removal(Head(pending).file)]
    BY DEF Begin
  <2> QED
    BY <2>1, <2>2
<1>5. phase = "watching" /\ None \notin Files /\ Free.file = None /\ None \notin Texts
  BY <1>1, IndexAssumption, Fresh, <1>2 DEF IndexInv, PhaseInv
<1>6. e.op = "remove" /\ f \notin raced => disk[f] = None
  BY <1>2 DEF IndexInv, QueueInv
<1>7. v \in {Opened(f), Removal(f)} /\ (f \notin raced /\ v = Removal(f) => disk[f] \notin Texts \/ f \notin Dated)
  BY <1>2, <1>5, <1>6, Fresh DEF Events
<1>8. v \in Coroutines /\ v.file = f /\ RunOk(v)
  <2> HIDE DEF v
  <2> QED
    BY <1>2, <1>7, BeginsWell
<1> HIDE DEF v, f, e
<1>9. runs'[r] = v /\ (\A q \in Runs \ {r} : runs'[q] = runs[q])
  BY <1>1, <1>4 DEF TypeInv
<1>10. TypeInv' /\ PhaseInv'
  <2>1. TypeInv' /\ todo = {}
    BY <1>1, <1>3, <1>4, <1>5, <1>8 DEF IndexInv, TypeInv, PhaseInv
  <2> QED
    BY <1>1, <1>5, <2>1 DEF PhaseInv
<1>11. QueueInv'
  BY <1>1, <1>3 DEF IndexInv, QueueInv
<1>12. ASSUME OneAtATime, NEW g \in Files \ raced, disk[g] # None PROVE Alone(g)'
  <2>1. Alone(g)
    BY <1>12 DEF IndexInv
  <2>2. ASSUME NEW q \in Runs, NEW s \in Runs, q # s, runs'[q].file = g, runs'[s].file = g
        PROVE  FALSE
    <3>1. CASE q # r /\ s # r
      BY <1>9, <1>12, <2>1, <2>2, <3>1 DEF Alone
    <3>2. CASE q = r
      BY <1>2, <1>8, <1>9, <1>12, <2>1, <2>2, <3>2 DEF Alone, f, e
    <3>3. CASE s = r
      BY <1>2, <1>8, <1>9, <1>12, <2>1, <2>2, <3>3 DEF Alone, f, e
    <3> QED
      BY <3>1, <3>2, <3>3
  <2>3. ASSUME NEW q \in Runs, NEW i \in 1 .. Len(pending'),
               runs'[q].file = g, pending'[i].file = g
        PROVE  FALSE
    <3>1. i + 1 \in 1 .. Len(pending) /\ pending[i + 1].file = g /\ i + 1 # 1
      BY <1>3, <2>3
    <3>2. CASE q # r
      BY <1>9, <1>12, <2>1, <2>3, <3>1, <3>2 DEF Alone
    <3>3. CASE q = r
      BY <1>2, <1>8, <1>9, <1>12, <2>1, <2>3, <3>1, <3>3 DEF Alone, f, e
    <3> QED
      BY <3>2, <3>3
  <2>4. ASSUME NEW i \in 1 .. Len(pending'), NEW j \in 1 .. Len(pending'), i # j,
               pending'[i].file = g, pending'[j].file = g
        PROVE  FALSE
    <3>1. /\ i + 1 \in 1 .. Len(pending) /\ pending[i + 1].file = g
          /\ j + 1 \in 1 .. Len(pending) /\ pending[j + 1].file = g /\ i + 1 # j + 1
      BY <1>3, <2>4
    <3> QED
      BY <1>12, <2>1, <3>1 DEF Alone
  <2> QED
    BY <2>2, <2>3, <2>4 DEF Alone
<1>13. ASSUME NEW q \in Runs PROVE RunOk(runs[q])'
  <2>1. CASE q = r
    BY <1>1, <1>8, <1>9, <2>1 DEF RunOk, Sound, RowsOk, VectorsOk
  <2>2. CASE q # r
    BY <1>1, <1>9, <2>2 DEF IndexInv, RunOk, Sound, RowsOk, VectorsOk
  <2> QED
    BY <2>1, <2>2
<1>14. ASSUME NEW g \in Files PROVE FileOk(g)'
  <2>1. FileOk(g)
    BY DEF IndexInv
  <2>2. On(g) => On(g)'
    BY <1>1, <1>5, <1>9 DEF On
  <2>3. UnderWay(g) => UnderWay(g)'
    <3>1. CASE g = f
      BY <1>8, <1>9, <3>1 DEF UnderWay
    <3>2. CASE g # f /\ Scheduled(g)
      <4>1. PICK i \in 1 .. Len(pending) : pending[i].file = g
        BY <1>1, <3>2 DEF Scheduled, TypeInv
      <4>2. i # 1
        BY <3>2, <4>1 DEF f, e
      <4>3. i - 1 \in 1 .. Len(pending') /\ pending'[i - 1] = pending[i]
        BY <1>2, <1>3, <4>1, <4>2
      <4>4. i - 1 \in DOMAIN pending'
        BY <1>3, <4>3
      <4> QED
        BY <4>1, <4>3, <4>4 DEF UnderWay, Scheduled
    <3>3. CASE On(g)
      BY <2>2, <3>3 DEF UnderWay, On
    <3> QED
      BY <3>1, <3>2, <3>3 DEF UnderWay, On
  <2>4. /\ (Good(g) => Good(g)') /\ (Nothing(g) => Nothing(g)')
        /\ (HashOk(g) => HashOk(g)') /\ (Clear(g) => Clear(g)')
    BY <1>1 DEF Good, RowsOk, VectorsOk, HashOk, Nothing, Clear
  <2> QED
    BY <1>1, <1>9, <2>1, <2>2, <2>3, <2>4 DEF FileOk, Settles
<1>15. ASSUME NEW g \in Files, disk[g] = None PROVE Alone(g)'
  BY <1>1, <1>15 DEF Alone
<1> QED
  BY <1>1, <1>10, <1>11, <1>12, <1>13, <1>14, <1>15 DEF IndexInv

-----------------------------------------------------------------------------
(* The writers.                                                            *)

(* A file gets the text x, and an event: one the indexer has nothing to do *)
(* with, or one that is marked, or gets the text it has.                   *)
Announced(f, x, e) ==
  /\ phase = "watching"
  /\ x \in Texts \cup {Blank, None} /\ disk' = [disk EXCEPT ![f] = x]
  /\ e \in Events /\ e.file = f /\ (e.op = "remove" => x = None)
  /\ pending' = Append(pending, e)
  /\ \/ runs' = runs
     \/ x = None /\ \E r \in Runs :
          runs[r] = Free /\ runs' = [runs EXCEPT ![r] = Removal(f)]
  /\ points' = points /\ rows' = rows /\ hash' = hash
  /\ refused' = refused /\ unwritten' = unwritten
  /\ raced' \in {raced, raced \cup {f}} /\ (UnderWay(f) => f \in raced')
  /\ phase' = phase /\ todo' = todo /\ scenario' = scenario

LEMMA AnnouncedStep ==
  ASSUME IndexInv, NEW f \in Files, NEW x, NEW e, Announced(f, x, e)
  PROVE  IndexInv'
<1>1. /\ TypeInv /\ OneAtATime' = OneAtATime /\ phase = "watching" /\ None \notin Files
      /\ None \notin Texts /\ Free.file = None /\ Free.at = "done"
      /\ Removal(f) \in Coroutines /\ Removal(f).at = "removing" /\ Removal(f).file = f
  BY Fresh, IndexAssumption DEF IndexInv, Announced, OneAtATime
<1>2. /\ disk' \in [Files -> Texts \cup {Blank, None}] /\ disk'[f] = x
      /\ \A g \in Files \ {f} : disk'[g] = disk[g]
  BY <1>1 DEF Announced, TypeInv
<1>3. /\ pending' \in Seq(Events) /\ Len(pending) \in Nat /\ Len(pending') = Len(pending) + 1
      /\ \A i \in 1 .. Len(pending) : pending'[i] = pending[i]
      /\ pending'[Len(pending) + 1] = e /\ e.file = f
  BY <1>1 DEF Announced, TypeInv
<1>4. f \notin raced' =>
        /\ \A i \in 1 .. Len(pending) : pending[i].file # f
        /\ \A r \in Runs : runs[r].file # f
  BY <1>1 DEF Announced, UnderWay, Scheduled, TypeInv
<1>5. \A r \in Runs : runs'[r] = runs[r] \/ (runs[r] = Free /\ runs'[r] = Removal(f) /\ x = None)
  BY <1>1 DEF Announced, TypeInv
<1>6. runs' \in [Runs -> Coroutines]
  BY <1>1 DEF Announced, TypeInv
<1>a. \A g \in Files \ {f} : g \in raced' <=> g \in raced
  BY DEF Announced
<1>7. TypeInv' /\ PhaseInv'
  <2>1. TypeInv'
    BY <1>1, <1>2, <1>3, <1>6 DEF TypeInv, Announced
  <2>2. phase' = "watching" /\ todo' = todo /\ todo = {}
    BY <1>1 DEF IndexInv, PhaseInv, Announced
  <2> QED
    BY <2>1, <2>2 DEF PhaseInv
<1>8. \A i \in 1 .. Len(pending) : pending[i].file \in Files
  <2> SUFFICES ASSUME NEW i \in 1 .. Len(pending) PROVE pending[i].file \in Files
    OBVIOUS
  <2>1. pending[i] \in Events
    <3> HIDE DEF Events
    <3> QED
      BY <1>1 DEF TypeInv
  <2> QED
    BY <2>1 DEF Events
<1>9. QueueInv'
  <2> SUFFICES ASSUME NEW i \in 1 .. Len(pending'), pending'[i].op = "remove",
                      pending'[i].file \notin raced'
               PROVE  disk'[pending'[i].file] = None
    BY DEF QueueInv
  <2>1. CASE i = Len(pending) + 1
    BY <1>2, <1>3, <2>1 DEF Announced
  <2>2. CASE i # Len(pending) + 1
    <3>1. i \in 1 .. Len(pending) /\ pending'[i] = pending[i]
      BY <1>3, <2>2
    <3>2. pending[i].file \in Files \ {f}
      BY <1>4, <1>8, <3>1
    <3> QED
      BY <1>2, <1>a, <3>1, <3>2 DEF IndexInv, QueueInv
  <2> QED
    BY <2>1, <2>2
<1>10. ASSUME OneAtATime, NEW g \in Files, g # f, g \notin raced' PROVE Alone(g)'
  <2>1. Alone(g) /\ disk'[g] = disk[g]
    BY <1>2, <1>10, <1>a DEF IndexInv
  <2>2. \A r \in Runs : runs'[r].file = g => runs[r].file = g
    BY <1>1, <1>5, <1>10
  <2>3. \A i \in 1 .. Len(pending') : pending'[i].file = g =>
          i \in 1 .. Len(pending) /\ pending[i].file = g
    BY <1>3, <1>10
  <2> QED
    BY <2>1, <2>2, <2>3 DEF Alone
<1>11. f \notin raced' => Alone(f)'
  <2> SUFFICES ASSUME f \notin raced' PROVE Alone(f)'
    OBVIOUS
  <2>1. CASE x = None
    BY <1>2, <2>1 DEF Alone
  <2>2. CASE x # None
    <3>1. \A r \in Runs : runs'[r].file # f
      BY <1>4, <1>5, <2>2
    <3>2. \A i \in 1 .. Len(pending') : pending'[i].file = f => i = Len(pending) + 1
      BY <1>3, <1>4
    <3> QED
      BY <3>1, <3>2 DEF Alone
  <2> QED
    BY <2>1, <2>2
<1>12. ASSUME NEW r \in Runs PROVE RunOk(runs[r])'
  <2>1. CASE runs'[r] = runs[r] /\ runs[r].at = "done"
    BY <2>1 DEF RunOk
  <2>2. CASE runs'[r] = runs[r] /\ runs[r].at # "done"
    <3> SUFFICES ASSUME runs[r].file \notin raced' PROVE Sound(runs[r])'
      BY <2>2 DEF RunOk
    <3>1. runs[r].file \in Files \ {f}
      BY <1>1, <1>4, <2>2, UnderWayRun
    <3>2. Sound(runs[r])
      BY <1>a, <2>2, <3>1 DEF IndexInv, RunOk
    <3> QED
      BY <1>1, <1>2, <2>2, <3>1, <3>2 DEF Sound, RowsOk, VectorsOk, Announced
  <2>3. CASE runs'[r] = Removal(f) /\ x = None
    BY <1>1, <1>2, <2>3 DEF RunOk, Sound
  <2> QED
    BY <1>5, <2>1, <2>2, <2>3
<1>13. ASSUME NEW g \in Files PROVE FileOk(g)'
  <2> SUFFICES ASSUME g \notin raced' PROVE Settles(g)'
    BY DEF FileOk
  <2>1. Settles(g) /\ (On(g) => On(g)') /\ todo = {} /\ todo' = {} /\ phase' = "watching"
    <3>1. g \notin raced
      BY DEF Announced
    <3> QED
      BY <1>1, <1>5, <3>1 DEF IndexInv, FileOk, On, PhaseInv, Announced
  <2>a. HashOk(g) => HashOk(g)'
    BY <1>1 DEF HashOk, Announced
  <2>2. CASE g = f
    <3>1. Scheduled(g)'
      <4>1. Len(pending) + 1 \in DOMAIN pending' /\ pending'[Len(pending) + 1].file = g
        BY <1>3, <2>2
      <4> QED
        BY <4>1 DEF Scheduled
    <3>2. UnderWay(g)'
      BY <3>1 DEF UnderWay
    <3> QED
      BY <1>1, <2>1, <2>a, <3>2 DEF Settles, Announced
  <2>3. CASE g # f
    <3>1. On(g)' <=> On(g)
      BY <1>1, <1>5, <2>1, <2>3 DEF On
    <3>2. Scheduled(g)' <=> Scheduled(g)
      <4>1. Scheduled(g) <=> \E i \in 1 .. Len(pending) : pending[i].file = g
        BY <1>1 DEF Scheduled, TypeInv
      <4>2. Scheduled(g)' <=> \E i \in 1 .. Len(pending') : pending'[i].file = g
        BY <1>3 DEF Scheduled
      <4> QED
        BY <1>3, <2>3, <4>1, <4>2
    <3>3. UnderWay(g)' <=> UnderWay(g)
      BY <3>1, <3>2 DEF UnderWay, On
    <3>4. (Good(g) => Good(g)') /\ (Clear(g) => Clear(g)') /\ disk'[g] = disk[g]
      BY <1>2, <2>3 DEF Good, RowsOk, VectorsOk, Clear, Announced
    <3> QED
      BY <1>1, <2>1, <2>a, <3>1, <3>3, <3>4 DEF Settles, Announced
  <2> QED
    BY <2>2, <2>3
<1> QED
  BY <1>1, <1>7, <1>9, <1>10, <1>11, <1>12, <1>13 DEF IndexInv

(* Before the watcher runs a write changes the disk and nothing else.      *)
LEMMA SilentStep ==
  ASSUME IndexInv, NEW f \in Files, NEW x \in Texts \cup {Blank, None}, phase # "watching",
         Written(f, x),
         UNCHANGED <<points, rows, hash, phase, todo, pending, runs, scenario,
                     refused, unwritten>>
  PROVE  IndexInv'
<1>1. /\ pending = <<>> /\ pending' = <<>> /\ OneAtATime' = OneAtATime /\ None \notin Files
      /\ raced \subseteq raced' /\ runs' = runs /\ TypeInv
      /\ \A g \in Files \ {f} : disk'[g] = disk[g] /\ (g \in raced' <=> g \in raced)
  BY IndexAssumption DEF IndexInv, TypeInv, PhaseInv, OneAtATime, Written
<1>2. f \notin raced' => ~UnderWay(f) /\ (phase = "down" \/ f \in todo)
  BY DEF Written, TooEarly, IndexInv, TypeInv
<1>3. TypeInv' /\ PhaseInv' /\ QueueInv'
  BY <1>1 DEF IndexInv, TypeInv, PhaseInv, QueueInv, AllFree, Written
<1>4. ASSUME OneAtATime, NEW g \in Files, g \notin raced' PROVE Alone(g)'
  <2>1. CASE g = f
    <3>1. \A r \in Runs : runs[r].file # g
      BY <1>2, <1>4, <2>1 DEF UnderWay
    <3> QED
      BY <1>1, <3>1 DEF Alone
  <2>2. CASE g # f
    <3>1. Alone(g)
      BY <1>1, <1>4 DEF IndexInv
    <3> QED
      BY <1>1, <2>2, <3>1 DEF Alone
  <2> QED
    BY <2>1, <2>2
<1>5. ASSUME NEW r \in Runs PROVE RunOk(runs[r])'
  <2> SUFFICES ASSUME runs[r].at # "done", runs[r].file \notin raced' PROVE Sound(runs[r])'
    BY <1>1 DEF RunOk
  <2>1. runs[r].file \in Files \ {f}
    BY <1>1, <1>2, UnderWayRun DEF UnderWay
  <2>2. Sound(runs[r])
    BY <1>1, <2>1 DEF IndexInv, RunOk
  <2> QED
    BY <1>1, <2>1, <2>2 DEF Sound, RowsOk, VectorsOk
<1>6. ASSUME NEW g \in Files PROVE FileOk(g)'
  <2> SUFFICES ASSUME g \notin raced' PROVE Settles(g)'
    BY DEF FileOk
  <2>1. /\ Settles(g) /\ (On(g)' <=> On(g)) /\ (UnderWay(g)' <=> UnderWay(g))
        /\ (HashOk(g) => HashOk(g)') /\ (Clear(g) => Clear(g)') /\ (Nothing(g) => Nothing(g)')
        /\ (Nothing(g) => Clear(g))
    BY <1>1 DEF IndexInv, FileOk, On, UnderWay, Scheduled, HashOk, Clear, Nothing
  <2>2. CASE g = f
    BY <1>1, <1>2, <2>1, <2>2 DEF Settles
  <2>3. CASE g # f
    <3>1. (Good(g) => Good(g)') /\ disk'[g] = disk[g]
      BY <1>1, <2>3 DEF Good, RowsOk, VectorsOk
    <3> QED
      BY <1>1, <2>1, <3>1 DEF Settles
  <2> QED
    BY <2>2, <2>3
<1> QED
  BY <1>1, <1>3, <1>4, <1>5, <1>6 DEF IndexInv

(* A write while the watcher runs                                          *)
LEMMA NoticedWrite ==
  ASSUME IndexInv, NEW f \in Files, NEW x \in Texts \cup {Blank, None}, phase = "watching",
         NEW op \in {"index", "remove"}, op = "remove" => x = None,
         Written(f, x), Notice(op, f),
         \/ runs' = runs
         \/ x = None /\ \E r \in Runs :
              runs[r] = Free /\ runs' = [runs EXCEPT ![r] = Removal(f)],
         UNCHANGED <<points, rows, hash, phase, todo, scenario, refused, unwritten>>
  PROVE  IndexInv'
<1> DEFINE e == [op |-> op, file |-> f]
<1>1. e \in Events /\ e.file = f /\ (e.op = "remove" => x = None)
  BY DEF Events
<1>2. pending' = Append(pending, e)
  BY DEF Notice
<1> HIDE DEF e
<1>3. disk' = [disk EXCEPT ![f] = x]
  BY DEF Written
<1>4. raced' \in {raced, raced \cup {f}} /\ (UnderWay(f) => f \in raced')
  BY DEF Written, TooEarly
<1>5. Announced(f, x, e)
  BY <1>1, <1>2, <1>3, <1>4 DEF Announced
<1> QED
  BY <1>5, AnnouncedStep

LEMMA EditStep ==
  ASSUME IndexInv, NEW f \in Files, NEW text \in Texts \cup {Blank}, Edit(f, text)
  PROVE  IndexInv'
<1>1. CASE phase = "watching"
  BY <1>1, NoticedWrite DEF Edit, stores
<1>2. CASE phase # "watching"
  BY <1>2, SilentStep DEF Edit, Notice, stores
<1> QED
  BY <1>1, <1>2

LEMMA RemoveStep ==
  ASSUME IndexInv, NEW f \in Files, Remove(f)
  PROVE  IndexInv'
<1>1. CASE phase = "watching"
  BY <1>1, NoticedWrite DEF Remove, stores
<1>2. CASE phase # "watching"
  BY <1>2, SilentStep DEF Remove, Notice, stores
<1> QED
  BY <1>1, <1>2

LEMMA ForgetStep ==
  ASSUME IndexInv, NEW r \in Runs, NEW f \in Files, Forget(r, f)
  PROVE  IndexInv'
BY NoticedWrite DEF Forget, stores

(* A repeated event comes while the indexer is at work on the file.        *)
LEMMA RepeatedStep ==
  ASSUME IndexInv, NEW f \in Files, Touch(f), phase = "watching", UnderWay(f)
  PROVE  IndexInv'
<1> DEFINE e == [op |-> "index", file |-> f]
<1>1. ~OneAtATime
  <2> DEFINE deed == <<"touch", "busy">>
  <2>1. deed \in scenario.deeds /\ deed[2] = "busy"
    BY DEF Touch, Moment
  <2> HIDE DEF deed
  <2> QED
    BY <2>1 DEF OneAtATime
<1>2. /\ OneAtATime' = OneAtATime /\ disk' = disk /\ points' = points /\ rows' = rows
      /\ hash' = hash /\ phase' = phase /\ todo' = todo /\ runs' = runs /\ scenario' = scenario
      /\ raced' = raced /\ refused' = refused /\ unwritten' = unwritten
  BY DEF OneAtATime, Touch, stores, wrongs
<1>3. e \in Events /\ e.file = f /\ e.op # "remove"
  BY DEF Events
<1>4. pending' = Append(pending, e)
  BY DEF Touch, Notice
<1> HIDE DEF e
<1>5. /\ pending \in Seq(Events) /\ pending' \in Seq(Events) /\ Len(pending) \in Nat
      /\ Len(pending') = Len(pending) + 1
      /\ \A i \in 1 .. Len(pending) : pending'[i] = pending[i]
      /\ pending'[Len(pending) + 1] = e
  BY <1>3, <1>4 DEF IndexInv, TypeInv
<1>6. TypeInv' /\ PhaseInv'
  <2>1. TypeInv' /\ todo = {}
    BY <1>2, <1>5 DEF IndexInv, TypeInv, PhaseInv
  <2> QED
    BY <1>2, <2>1 DEF PhaseInv
<1>7. QueueInv'
  <2> SUFFICES ASSUME NEW i \in 1 .. Len(pending'), pending'[i].op = "remove",
                      pending'[i].file \notin raced
               PROVE  disk'[pending'[i].file] = None
    BY <1>2 DEF QueueInv
  <2>1. i \in 1 .. Len(pending) /\ pending'[i] = pending[i]
    BY <1>3, <1>5
  <2> QED
    BY <1>2, <2>1 DEF IndexInv, QueueInv
<1>8. ASSUME NEW r \in Runs PROVE RunOk(runs[r])'
  BY <1>2 DEF IndexInv, RunOk, Sound, RowsOk, VectorsOk
<1>9. ASSUME NEW g \in Files PROVE FileOk(g)'
  <2>1. FileOk(g) /\ (On(g)' <=> On(g))
    BY <1>2 DEF IndexInv, On
  <2>2. Scheduled(g) => Scheduled(g)'
    <3> SUFFICES ASSUME NEW i \in DOMAIN pending, pending[i].file = g PROVE Scheduled(g)'
      BY DEF Scheduled
    <3>1. i \in DOMAIN pending' /\ pending'[i].file = g
      BY <1>5
    <3> QED
      BY <3>1 DEF Scheduled
  <2>3. UnderWay(g) => UnderWay(g)'
    BY <2>1, <2>2 DEF UnderWay, On
  <2>4. /\ (Good(g) => Good(g)') /\ (HashOk(g) => HashOk(g)')
        /\ (Clear(g) => Clear(g)') /\ (Nothing(g) => Nothing(g)')
    BY <1>2 DEF Good, RowsOk, VectorsOk, HashOk, Clear, Nothing
  <2> QED
    BY <1>2, <2>1, <2>3, <2>4 DEF FileOk, Settles
<1> QED
  BY <1>1, <1>2, <1>6, <1>7, <1>8, <1>9 DEF IndexInv

LEMMA Stutter == ASSUME IndexInv, UNCHANGED <<disk, stores, phase, todo, pending, runs, scenario, wrongs>>
                 PROVE IndexInv'
<1>1. /\ disk' = disk /\ points' = points /\ rows' = rows /\ hash' = hash /\ phase' = phase
      /\ todo' = todo /\ pending' = pending /\ runs' = runs /\ scenario' = scenario
      /\ refused' = refused /\ unwritten' = unwritten /\ raced' = raced
  BY DEF stores, wrongs
<1>2. TypeInv' /\ PhaseInv' /\ QueueInv' /\ OneAtATime' = OneAtATime
  BY <1>1 DEF IndexInv, TypeInv, PhaseInv, QueueInv, AllFree, OneAtATime
<1>3. ASSUME NEW f \in Files
      PROVE  (Alone(f)' <=> Alone(f)) /\ (Settles(f)' <=> Settles(f))
  BY <1>1, <1>2 DEF Alone, Settles, UnderWay, Scheduled, Good, RowsOk, VectorsOk, HashOk, Clear,
                    Nothing, On
<1>4. ASSUME NEW r \in Runs PROVE RunOk(runs[r])' <=> RunOk(runs[r])
  BY <1>1, <1>2 DEF RunOk, Sound, RowsOk, VectorsOk
<1> QED
  BY <1>1, <1>2, <1>3, <1>4 DEF IndexInv, FileOk

LEMMA TouchStep ==
  ASSUME IndexInv, NEW f \in Files, Touch(f)
  PROVE  IndexInv'
<1>1. /\ disk' = disk /\ TypeInv /\ raced' = raced
  BY DEF Touch, IndexInv, wrongs
<1>2. CASE phase # "watching"
  BY <1>2, Stutter DEF Touch, Notice
<1>3. CASE phase = "watching" /\ ~UnderWay(f)
  <2> DEFINE e == [op |-> "index", file |-> f]
  <2>1. e \in Events /\ e.file = f /\ e.op # "remove"
    BY DEF Events
  <2>2. pending' = Append(pending, e)
    BY <1>3 DEF Touch, Notice
  <2> HIDE DEF e
  <2>3. disk[f] \in Texts \cup {Blank, None} /\ disk' = [disk EXCEPT ![f] = disk[f]]
    BY <1>1 DEF TypeInv
  <2>4. Announced(f, disk[f], e)
    BY <1>1, <1>3, <2>1, <2>2, <2>3 DEF Announced, Touch, stores, wrongs
  <2> QED
    BY <2>4, AnnouncedStep
<1>4. CASE phase = "watching" /\ UnderWay(f)
  BY <1>4, RepeatedStep
<1> QED
  BY <1>2, <1>3, <1>4

-----------------------------------------------------------------------------
(* The index follows the disk.                                             *)

LEMMA IndexStep == ASSUME IndexInv, [Next]_vars PROVE IndexInv'
<1>1. CASE UNCHANGED vars
  BY <1>1, Stutter DEF vars
<1>2. CASE Start \/ Watch \/ Crash
  BY <1>2, StartStep, WatchStep, CrashStep
<1>3. ASSUME NEW r \in Runs, Advance(r) PROVE IndexInv'
  BY <1>3, EmbeddedStep, ComparedStep, DeletedStep, RewrittenStep, UpsertedStep, RecordedStep,
     DroppedStep DEF Advance
<1>4. ASSUME NEW r \in Runs, Begin(r) PROVE IndexInv'
  BY <1>4, BeginStep
<1>5. ASSUME NEW r \in Runs, NEW f \in Files, Check(r, f) \/ Forget(r, f) PROVE IndexInv'
  BY <1>5, CheckStep, ForgetStep
<1>6. ASSUME NEW f \in Files, Touch(f) \/ Remove(f) PROVE IndexInv'
  BY <1>6, TouchStep, RemoveStep
<1>7. ASSUME NEW f \in Files, NEW text \in Texts \cup {Blank}, Edit(f, text) PROVE IndexInv'
  BY <1>7, EditStep
<1> QED
  BY <1>1, <1>2, <1>3, <1>4, <1>5, <1>6, <1>7 DEF Next

LEMMA IndexStart == ASSUME Init PROVE IndexInv
<1>1. TypeInv /\ QueueInv /\ AllFree
  BY DEF Init, TypeInv, QueueInv, AllFree, Coroutines
<1>2. ASSUME NEW r \in Runs PROVE runs[r].file = None /\ runs[r].at = "done"
  BY DEF Init, Free
<1>a. PhaseInv
  BY <1>1 DEF Init, PhaseInv
<1>3. ASSUME NEW f \in Files PROVE Alone(f)
  BY <1>2, IndexAssumption DEF Alone, Init
<1>4. ASSUME NEW r \in Runs PROVE RunOk(runs[r])
  BY <1>2 DEF RunOk
<1>5. ASSUME NEW f \in Files PROVE FileOk(f)
  BY DEF FileOk, Settles, HashOk, Nothing, Clear, Init
<1> QED
  BY <1>1, <1>a, <1>3, <1>4, <1>5 DEF IndexInv

(* Where no operation may fail, none did.                                  *)
Obliging == scenario.faults = {} => refused = {} /\ unwritten = {}

LEMMA ObligingStep == ASSUME Obliging, [Next]_vars PROVE Obliging'
<1>1. CASE UNCHANGED vars
  BY <1>1 DEF vars, wrongs, Obliging
<1>2. CASE Next
  <2>1. scenario' = scenario
    BY <1>2 DEF Next, Start, Watch, Crash, Advance, Embedded, Compared, Deleted, Rewritten, Upserted,
       Recorded, Dropped, Begin, Check, Forget, Touch, Remove, Edit
  <2> SUFFICES ASSUME scenario.faults = {} PROVE refused' = {} /\ unwritten' = {}
    BY <2>1 DEF Obliging
  <2>2. \A op : Succeeds(op) = {TRUE}
    BY DEF Succeeds
  <2>3. refused = {} /\ unwritten = {}
    BY DEF Obliging
  <2>4. CASE \E r \in Runs : Deleted(r) \/ Rewritten(r) \/ Dropped(r)
    BY <2>2, <2>3, <2>4 DEF Deleted, Rewritten, Dropped, Noted
  <2>5. CASE ~\E r \in Runs : Deleted(r) \/ Rewritten(r) \/ Dropped(r)
    BY <1>2, <2>3, <2>5 DEF Next, Start, Watch, Crash, Advance, Embedded, Compared, Upserted,
       Recorded, Begin, Check, Forget, Touch, Remove, Edit, wrongs
  <2> QED
    BY <2>4, <2>5
<1> QED
  BY <1>1, <1>2

LEMMA IndexInvImplies == ASSUME IndexInv, Obliging PROVE IndexFollowsDisk
<1>1. ASSUME Settled, NEW f \in Files PROVE ~UnderWay(f) /\ ~On(f) /\ f \notin todo /\ phase # "down"
  <2>1. \A r \in Runs : runs[r].file = None
    BY <1>1, AllQuiet DEF Settled
  <2>2. ~Scheduled(f)
    BY <1>1 DEF Settled, Scheduled
  <2> QED
    BY <1>1, <2>1, <2>2, IndexAssumption DEF UnderWay, On, Settled, IndexInv, PhaseInv
<1>2. NothingOutdated
  <2> SUFFICES ASSUME Settled, NEW f \in Files \ raced, disk[f] # None PROVE Good(f)
    BY DEF NothingOutdated, Good, RowsOk, VectorsOk
  <2>1. Settles(f)
    BY DEF IndexInv, FileOk
  <2> QED
    BY <1>1, <2>1 DEF Settles
<1>3. HashMeansIndexed
  <2> SUFFICES ASSUME OneAtATime, ~scenario.crash, scenario.faults = {}, NEW f \in Files \ raced,
                      hash[f] # None, ~On(f)
               PROVE  rows[f] = hash[f] /\ points[f] = {hash[f]}
    BY DEF HashMeansIndexed, On
  <2>1. Settles(f)
    BY DEF IndexInv, FileOk
  <2>2. points[f] \subseteq {hash[f]} /\ hash[f] \in points[f] /\ rows[f] = hash[f]
    BY <2>1 DEF Settles, HashOk, Obliging
  <2> QED
    BY <2>2
<1>4. GoneIsForgotten
  <2> SUFFICES ASSUME Settled, ~scenario.crash, NEW f \in Files \ raced, disk[f] = None PROVE Clear(f)
    BY DEF GoneIsForgotten, Clear
  <2>1. Settles(f)
    BY DEF IndexInv, FileOk
  <2> QED
    BY <1>1, <2>1 DEF Settles
<1> QED
  BY <1>2, <1>3, <1>4 DEF IndexFollowsDisk

(* Whatever the files, the texts, the number of coroutines and the habits   *)
(* of the writers: but for files that were written too early and stores    *)
(* that refused, no search of a settled index returns an older text, a     *)
(* hash on record stands for finished work, and a file that is gone from   *)
(* the disk is gone from both stores, as IndexFollowsDisk says.            *)
THEOREM IndexIsFaithful == Spec => []IndexFollowsDisk
<1>1. Init => IndexInv /\ Obliging
  BY IndexStart DEF Init, Obliging
<1>2. IndexInv /\ Obliging /\ [Next]_vars => IndexInv' /\ Obliging'
  BY IndexStep, ObligingStep
<1>3. IndexInv /\ Obliging => IndexFollowsDisk
  BY IndexInvImplies
<1> QED
  BY <1>1, <1>2, <1>3, PTL DEF Spec
=============================================================================
