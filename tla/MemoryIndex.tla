---------------------------- MODULE MemoryIndex ----------------------------
(***************************************************************************)
(* The search index over the Markdown files of the memory: the class       *)
(* QdrantMemoryIndexer of src/lightclaw/agent/memory/qdrant_indexer.py.    *)
(*                                                                         *)
(* One file has three images, kept in two stores: its vectors (points of   *)
(* Qdrant), its keyword rows and the hash of the text last indexed (two    *)
(* tables of SQLite).  index_file and delete_file_chunks bring them up to  *)
(* date one after the other, with awaits between, and are started by the   *)
(* synchronisation at start-up, by the file watcher and by the forget      *)
(* tool.  Nothing orders two runs over the same file.                      *)
(*                                                                         *)
(* A text stands for the chunks it is cut into; two texts share none.      *)
(***************************************************************************)
EXTENDS Naturals, Sequences, FiniteSets

CONSTANTS
  Files,        \* the Markdown files the index covers
  Dated,        \* those named memory/YYYY-MM-DD.md
  Texts,        \* texts with at least one chunk
  Blank,        \* a text with none
  None,         \* no file, no rows, no hash
  Runs,         \* coroutines of the indexer alive at the same time
  MaxPending,   \* coroutines the watcher has scheduled and the loop not begun
  Scenarios     \* what may happen in one behaviour: what the writers of the
                \* files do and at what moment, whether the process may be
                \* killed and started again, the operations that may fail

Deeds   == {"edit", "touch", "remove", "forget"}
Moments == {"down", "syncing", "busy", "quiet"}

ASSUME IndexAssumption ==
  /\ Dated \subseteq Files
  /\ Blank \notin Texts /\ None \notin Texts /\ Blank # None /\ None \notin Files
  /\ MaxPending \in Nat \ {0}
  /\ Scenarios \subseteq
       [deeds : SUBSET (Deeds \X Moments), crash : BOOLEAN,
        faults : SUBSET {"embed", "delete", "rows", "upsert"}]

VARIABLES
  disk,     \* [Files -> the text of the file]
  points,   \* [Files -> the texts Qdrant has vectors of under this path]
  rows,     \* [Files -> the text chunks_fts has rows of]
  hash,     \* [Files -> the text file_index_meta has the hash of]
  dirty,    \* self._dirty
  phase,    \* whether the process is down, in _initial_sync or serving
  todo,     \* files _initial_sync has still to check
  pending,  \* coroutines scheduled by the watcher, oldest first
  runs,     \* [Runs -> a coroutine and the await it stands at]
  scenario, \* the member of Scenarios this behaviour is about
  \* what went wrong with a file, which the code does not keep:
  refused,   \* the files whose last deletion of vectors failed
  unwritten, \* the files whose last change of rows failed
  raced      \* the files written too early: while the indexer was at work on
             \* them, or before the watcher but after _initial_sync saw them

stores == <<points, rows, hash>>
wrongs == <<refused, unwritten, raced>>
vars   == <<disk, stores, dirty, phase, todo, pending, runs, scenario, wrongs>>

Free == [at |-> "done", file |-> None, text |-> None, vector |-> FALSE]
Steps == {"embedding", "comparing", "clearing", "cleared",
          "upserting", "upserted", "removing", "removed"}

TypeOK ==
  /\ disk \in [Files -> Texts \cup {Blank, None}]
  /\ points \in [Files -> SUBSET Texts]
  /\ rows \in [Files -> Texts \cup {None}]
  /\ hash \in [Files -> Texts \cup {None}]
  /\ dirty \in BOOLEAN
  /\ scenario \in Scenarios
  /\ phase \in {"down", "syncing", "watching"}
  /\ todo \subseteq Files
  /\ pending \in Seq([op : {"index", "remove"}, file : Files])
  /\ Len(pending) <= MaxPending
  /\ \A r \in Runs :
       \/ runs[r] = Free
       \/ runs[r] \in [at : Steps, file : Files, text : Texts \cup {None},
                       vector : BOOLEAN]
  /\ {refused, unwritten, raced} \subseteq SUBSET Files

Init ==
  /\ disk \in [Files -> Texts \cup {Blank, None}]
  /\ points = [f \in Files |-> {}]
  /\ rows = [f \in Files |-> None]
  /\ hash = [f \in Files |-> None]
  /\ dirty = FALSE
  /\ phase = "down" /\ todo = {}
  /\ pending = <<>>
  /\ runs = [r \in Runs |-> Free]
  /\ scenario \in Scenarios
  /\ refused = {} /\ unwritten = {} /\ raced = {}

-----------------------------------------------------------------------------
(* A coroutine between two awaits. *)

Removal(f) == [Free EXCEPT !.at = "removing", !.file = f]

(* index_file up to its first await: the text is read here and used to the end. *)
Opened(f) ==
  IF disk[f] \in Texts
  THEN [Free EXCEPT !.at = "embedding", !.file = f, !.text = disk[f]]
  ELSE Removal(f)

Unchanged(f) == disk[f] # None /\ hash[f] = disk[f]

Succeeds(op) == IF op \in scenario.faults THEN BOOLEAN ELSE {TRUE}

Noted(wrong, f, ok) == IF ok THEN wrong \ {f} ELSE wrong \cup {f}

Stands(r, step) == runs[r].at = step

GoTo(r, step) == runs' = [runs EXCEPT ![r].at = step]

(* Dated files are compared with the others too. *)
FaultyEmbedded(r) ==
  /\ Stands(r, "embedding")
  /\ \E ok \in Succeeds("embed") :
       runs' = [runs EXCEPT ![r].vector = ok, ![r].at = "comparing"]
  /\ UNCHANGED <<disk, stores, dirty, phase, todo, pending, scenario, wrongs>>

Embedded(r) ==
  /\ Stands(r, "embedding")
  /\ \E ok \in Succeeds("embed") :
       runs' = [runs EXCEPT ![r].vector = ok,
                            ![r].at = IF runs[r].file \in Dated
                                      THEN "clearing" ELSE "comparing"]
  /\ UNCHANGED <<disk, stores, dirty, phase, todo, pending, scenario, wrongs>>

Duplicate(f, text) ==
  \E g \in Files \ {f} : rows[g] = text \/ text \in points[g]

(* _filter_duplicate_chunks: a file with nothing new is taken out of the index. *)
Compared(r) ==
  /\ Stands(r, "comparing")
  /\ GoTo(r, IF Duplicate(runs[r].file, runs[r].text) THEN "removing" ELSE "clearing")
  /\ UNCHANGED <<disk, stores, dirty, phase, todo, pending, scenario, wrongs>>

(* Qdrant answers the delete of _delete_from_qdrant; a failure is only logged. *)
Deleted(r) ==
  /\ runs[r].at \in {"clearing", "removing"}
  /\ GoTo(r, IF Stands(r, "clearing") THEN "cleared" ELSE "removed")
  /\ \E ok \in Succeeds("delete") :
       /\ points' = [points EXCEPT ![runs[r].file] = IF ok THEN {} ELSE @]
       /\ refused' = Noted(refused, runs[r].file, ok)
  /\ UNCHANGED <<disk, rows, hash, dirty, phase, todo, pending, scenario,
                 unwritten, raced>>

(* The rows are replaced in one transaction and the hash is dropped; without   *)
(* vectors there is nothing to wait for, and the file is indexed.              *)
Rewritten(r) ==
  LET f == runs[r].file IN
  /\ Stands(r, "cleared")
  /\ \E ok \in Succeeds("rows") :
       /\ rows' = [rows EXCEPT ![f] = IF ok THEN runs[r].text ELSE @]
       /\ unwritten' = Noted(unwritten, f, ok)
  /\ IF runs[r].vector
     THEN /\ hash' = [hash EXCEPT ![f] = None]
          /\ GoTo(r, "upserting")
          /\ UNCHANGED dirty
     ELSE /\ hash' = [hash EXCEPT ![f] = runs[r].text]
          /\ runs' = [runs EXCEPT ![r] = Free]
          /\ dirty' = FALSE
  /\ UNCHANGED <<disk, points, phase, todo, pending, scenario, refused, raced>>

Upserted(r) ==
  /\ Stands(r, "upserting")
  /\ GoTo(r, "upserted")
  /\ \E ok \in Succeeds("upsert") :
       points' = [points EXCEPT ![runs[r].file] =
                    IF ok THEN @ \cup {runs[r].text} ELSE @]
  /\ UNCHANGED <<disk, rows, hash, dirty, phase, todo, pending, scenario, wrongs>>

Recorded(r) ==
  /\ Stands(r, "upserted")
  /\ hash' = [hash EXCEPT ![runs[r].file] = runs[r].text]
  /\ dirty' = FALSE
  /\ runs' = [runs EXCEPT ![r] = Free]
  /\ UNCHANGED <<disk, points, rows, phase, todo, pending, scenario, wrongs>>

(* delete_file_chunks leaves the hash on record. *)
FaultyDropped(r) ==
  /\ Stands(r, "removed")
  /\ \E ok \in Succeeds("rows") :
       /\ rows' = [rows EXCEPT ![runs[r].file] = IF ok THEN None ELSE @]
       /\ unwritten' = Noted(unwritten, runs[r].file, ok)
  /\ runs' = [runs EXCEPT ![r] = Free]
  /\ UNCHANGED <<disk, points, hash, dirty, phase, todo, pending, scenario,
                 refused, raced>>

(* The rest of delete_file_chunks. *)
Dropped(r) ==
  /\ Stands(r, "removed")
  /\ \E ok \in Succeeds("rows") :
       /\ rows' = [rows EXCEPT ![runs[r].file] = IF ok THEN None ELSE @]
       /\ unwritten' = Noted(unwritten, runs[r].file, ok)
  /\ hash' = [hash EXCEPT ![runs[r].file] = None]
  /\ runs' = [runs EXCEPT ![r] = Free]
  /\ UNCHANGED <<disk, points, dirty, phase, todo, pending, scenario, refused, raced>>

-----------------------------------------------------------------------------
(* The process. *)

AllFree == \A r \in Runs : runs[r] = Free

Start ==
  /\ phase = "down"
  /\ phase' = "syncing"
  /\ todo' = {f \in Files : disk[f] # None}
  /\ UNCHANGED <<disk, stores, dirty, pending, runs, scenario, wrongs>>

(* _initial_sync awaits index_file(force=False) for one file after another. *)
Check(r, f) ==
  /\ phase = "syncing" /\ AllFree /\ f \in todo
  /\ todo' = todo \ {f}
  /\ runs' = IF Unchanged(f) THEN runs ELSE [runs EXCEPT ![r] = Opened(f)]
  /\ UNCHANGED <<disk, stores, dirty, phase, pending, scenario, wrongs>>

Watch ==
  /\ phase = "syncing" /\ AllFree /\ todo = {}
  /\ phase' = "watching"
  /\ UNCHANGED <<disk, stores, dirty, todo, pending, runs, scenario, wrongs>>

(* The loop begins the coroutines of run_coroutine_threadsafe in their order. *)
Begin(r) ==
  /\ pending # <<>> /\ runs[r] = Free
  /\ pending' = Tail(pending)
  /\ LET next == Head(pending) IN
     runs' = [runs EXCEPT ![r] = IF next.op = "index" THEN Opened(next.file)
                                                     ELSE Removal(next.file)]
  /\ UNCHANGED <<disk, stores, dirty, phase, todo, scenario, wrongs>>

Crash ==
  /\ scenario.crash /\ phase # "down"
  /\ phase' = "down" /\ todo' = {}
  /\ pending' = <<>> /\ dirty' = FALSE
  /\ runs' = [r \in Runs |-> Free]
  /\ UNCHANGED <<disk, stores, scenario, wrongs>>

-----------------------------------------------------------------------------
(* The files are written by tools, by the nightly jobs and by the user. *)

Scheduled(f) == \E i \in DOMAIN pending : pending[i].file = f
UnderWay(f)  == Scheduled(f) \/ \E r \in Runs : runs[r].file = f

Moment(f) ==
  IF phase # "watching" THEN phase ELSE IF UnderWay(f) THEN "busy" ELSE "quiet"

(* While the indexer is at work on the file, or where nobody will notice.  *)
TooEarly(f) == UnderWay(f) \/ (phase = "syncing" /\ f \notin todo)

Written(f, text) ==
  /\ disk' = [disk EXCEPT ![f] = text]
  /\ raced' = IF TooEarly(f) THEN raced \cup {f} ELSE raced

(* The handlers of the watcher, which runs only while the process serves. *)
Notice(op, f) ==
  IF phase = "watching"
  THEN /\ Len(pending) < MaxPending
       /\ pending' = Append(pending, [op |-> op, file |-> f])
       /\ dirty' = (dirty \/ op = "index")
  ELSE UNCHANGED <<pending, dirty>>

Edit(f, text) ==
  /\ <<"edit", Moment(f)>> \in scenario.deeds
  /\ disk[f] # text
  /\ Written(f, text)
  /\ Notice("index", f)
  /\ UNCHANGED <<stores, phase, todo, runs, scenario, refused, unwritten>>

(* A second event for one write, or a write of the same text. *)
Touch(f) ==
  /\ <<"touch", Moment(f)>> \in scenario.deeds
  /\ disk[f] # None
  /\ Notice("index", f)
  /\ UNCHANGED <<disk, stores, phase, todo, runs, scenario, wrongs>>

Remove(f) ==
  /\ <<"remove", Moment(f)>> \in scenario.deeds
  /\ disk[f] # None
  /\ Written(f, None)
  /\ Notice("remove", f)
  /\ UNCHANGED <<stores, phase, todo, runs, scenario, refused, unwritten>>

(* memory_forget_by_file unlinks the file and calls delete_file_chunks itself. *)
Forget(r, f) ==
  /\ phase = "watching" /\ <<"forget", Moment(f)>> \in scenario.deeds
  /\ disk[f] # None /\ runs[r] = Free
  /\ Written(f, None)
  /\ runs' = [runs EXCEPT ![r] = Removal(f)]
  /\ Notice("remove", f)
  /\ UNCHANGED <<stores, phase, todo, scenario, refused, unwritten>>

Advance(r) ==
  \/ Embedded(r) \/ Compared(r) \/ Deleted(r) \/ Rewritten(r)
  \/ Upserted(r) \/ Recorded(r) \/ Dropped(r)

Next ==
  \/ Start \/ Watch \/ Crash
  \/ \E r \in Runs : Advance(r) \/ Begin(r)
  \/ \E r \in Runs, f \in Files : Check(r, f) \/ Forget(r, f)
  \/ \E f \in Files : Touch(f) \/ Remove(f)
  \/ \E f \in Files, text \in Texts \cup {Blank} : Edit(f, text)

Spec == Init /\ [][Next]_vars

(* Qdrant and the embedding service answer or fail, and the loop goes round. *)
Fairness ==
  /\ WF_vars(\E r \in Runs : Begin(r))
  /\ \A r \in Runs : WF_vars(Advance(r))

FairSpec == Spec /\ Fairness

-----------------------------------------------------------------------------
Settled == phase = "watching" /\ pending = <<>> /\ AllFree

(* No writer returns to a file while the indexer is at work on it.             *)
OneAtATime == \A deed \in scenario.deeds : deed[2] # "busy"

(* Once the indexer has nothing left to do, a file that exists and was never   *)
(* written too early is found by the text it has now or not at all, however    *)
(* often it was interrupted or told of one write twice, and whichever vectors  *)
(* could not be made; a dated file is always found by its keywords.  A store   *)
(* that refused to drop what it had of the file keeps it, until the next time  *)
(* it does as it is told: the code logs the refusal and goes on.               *)
NothingOutdated ==
  Settled => \A f \in Files \ raced : disk[f] # None =>
    /\ f \notin unwritten =>
         /\ rows[f] \in {None, disk[f]}
         /\ f \in Dated /\ disk[f] \in Texts => rows[f] = disk[f]
    /\ f \notin refused => points[f] \subseteq {disk[f]}

(* The hash stands for finished work: while no coroutine is at work on a file  *)
(* whose hash is on record, both stores hold just the text of that hash.       *)
(* _initial_sync skips a file on the strength of it.  Not so when writers      *)
(* overtake the indexer, when a store fails, or when the process is killed.    *)
HashMeansIndexed ==
  OneAtATime /\ ~scenario.crash /\ scenario.faults = {} =>
    \A f \in Files \ raced :
      hash[f] # None /\ ~(\E r \in Runs : runs[r].file = f) =>
        rows[f] = hash[f] /\ points[f] = {hash[f]}

(* Once the indexer has nothing left to do, a file that is gone from the disk  *)
(* is gone from both stores, as memory_forget_by_file tells the user, unless   *)
(* it went too early or a store refused; a kill may leave it there, as         *)
(* _initial_sync looks only at files that exist.                               *)
GoneIsForgotten ==
  Settled /\ ~scenario.crash => \A f \in Files \ raced : disk[f] = None =>
    /\ hash[f] = None
    /\ f \notin unwritten => rows[f] = None
    /\ f \notin refused => points[f] = {}

(* The index follows the disk: no older text, no hash without its work, and    *)
(* nothing of a file that is gone.                                             *)
IndexFollowsDisk == NothingOutdated /\ HashMeansIndexed /\ GoneIsForgotten

(* A dated file that keeps a text, and was never written too early, is in the  *)
(* end found by its words at any time, and by its vectors again and again,     *)
(* even if another file holds the same text (every repeated event takes the    *)
(* vectors away for a while).                                                  *)
DatedFound ==
  scenario.faults = {} => \A f \in Dated, text \in Texts :
    <>[](phase = "watching" /\ disk[f] = text /\ f \notin raced) =>
      <>[](rows[f] = text) /\ []<>(points[f] = {text})

=============================================================================
