------------------------ MODULE SessionDistillation ------------------------
(***************************************************************************)
(* src/lightclaw/agent/memory/session_distillation_service.py: what was    *)
(* said in the session files since the last run is given to a model, whose *)
(* digest is appended to today's memory note, and the raw text is indexed  *)
(* for search.  A state file remembers how many messages of each session   *)
(* are done.                                                               *)
(*                                                                         *)
(* A run awaits the model twice between reading the state file and writing *)
(* it: meanwhile sessions grow, the cap of ephemeral sessions and the      *)
(* condensed save behind a turn replace their files with shorter ones,     *)
(* summary_memory marks messages as done in the same state file, and a     *)
(* second run may start (the dreaming job and the API both lead here, with *)
(* no lock).  The process may die between the three things a run writes.   *)
(* A message is one unit of the character budget, and is named by its      *)
(* number in the order in which the session was said; the state file       *)
(* counts positions in the file as it is.  The modification time in the    *)
(* state file is left out: whether it differs or not, a session without    *)
(* new messages is skipped.                                                *)
(***************************************************************************)
EXTENDS Integers, FiniteSets, Sequences, SequencesExt

CONSTANTS
  Sessions,      \* session files
  Runs,          \* runs of distill_sessions_to_daily_md that may overlap
  Matches,       \* [Sessions -> SUBSET Sessions]: files whose name contains the id
  MaxChars,      \* max_chars_per_run, in messages
  MaxSessions,   \* max_sessions_per_run
  MaxMessages,   \* bound: messages in one session
  Scenarios      \* bound: the sessions and runs that meet in one behaviour,
                 \* the sessions whose files are shortened, the calls of
                 \* mark_session_summarized, the crashes and failing writes

ASSUME BoundsAssumption ==
  /\ {MaxChars, MaxSessions, MaxMessages} \subseteq Nat \ {0}
  /\ Scenarios \subseteq [sessions: SUBSET Sessions, runs: SUBSET Runs,
                          shortened: SUBSET Sessions, marks: Nat, faults: Nat]
  /\ Matches \in [Sessions -> SUBSET Sessions]
  /\ \A s \in Sessions : s \in Matches[s]

VARIABLES
  length,   \* [Sessions -> Nat]: messages that were said
  dropped,  \* [Sessions -> Nat]: the first of them, no longer in the file
  text,     \* [Sessions -> SET]: the messages that carry text
  recent,   \* the session files, latest modification first
  stale,    \* sessions not modified today
  files,    \* the state file: a function from some sessions to message_count
  due,      \* BOOLEAN: should_distill, by the state file's last_run_ts
  fts,      \* [Sessions -> SET]: the messages in the row of the search index
  run,      \* [Runs -> what a run holds in its local variables]
  scenario,    \* the member of Scenarios this behaviour is about
  marks, faults,
  noted,    \* history: messages in the daily note
  doubled,  \* history: messages that were put in the daily note again
  fate,     \* history: why a message counts as done
  raced     \* history: a run saved over a state file changed since it read it

disk == <<length, dropped, text, recent, stale>>
history == <<noted, doubled, fate, raced>>
vars == <<disk, files, due, fts, run, scenario, marks, faults, history>>

Messages == Sessions \X (1..MaxMessages)

(* distilled, judged: given to the model, which digested it or found       *)
(* nothing in it; summarised: by summary_memory; historical: of a session  *)
(* of an earlier day; cut: lost to the character budget; swept: counted as *)
(* summarised through the name of another session; shortened: where a      *)
(* counter led to when the file below it was shortened.                    *)
Fates == {"distilled", "judged", "summarised", "historical", "cut", "swept", "shortened"}

(* The state file as a total function.                                     *)
Done(f, s) == IF s \in DOMAIN f THEN f[s] ELSE 0

(* The last message that a state file passes over.                         *)
Reach(f, s) == dropped[s] + Done(f, s)

(* len(messages), of the file as it is.                                    *)
InFile(s) == length[s] - dropped[s]

StateFiles == UNION {[S -> 0..MaxMessages] : S \in SUBSET Sessions}

NoFiles == [s \in {} |-> 0]

(* What a scan passes over for good.                                       *)
Losses == Messages \X {"cut", "historical"}

Held == [at: {"idle", "llm", "dedup"}, base: StateFiles, files: StateFiles,
         payload: SUBSET Messages, gone: SUBSET Losses]

Idle == [at |-> "idle", base |-> NoFiles, files |-> NoFiles,
         payload |-> {}, gone |-> {}]

TypeOK ==
  /\ length \in [Sessions -> 0..MaxMessages]
  /\ dropped \in [Sessions -> 0..MaxMessages]
  /\ \A s \in Sessions : dropped[s] <= length[s]
  /\ text \in [Sessions -> SUBSET (1..MaxMessages)]
  /\ \A s \in Sessions : text[s] \subseteq 1..length[s]
  /\ recent \in Seq(Sessions)
  /\ ToSet(recent) = {s \in Sessions : length[s] > 0}
  /\ stale \subseteq Sessions
  /\ files \in StateFiles
  /\ due \in BOOLEAN
  /\ fts \in [Sessions -> SUBSET (1..MaxMessages)]
  /\ \A s \in Sessions : fts[s] \subseteq text[s]
  /\ run \in [Runs -> Held]
  /\ \A r \in Runs : run[r].at # "idle" => run[r].payload # {}
  /\ scenario \in Scenarios
  /\ marks \in 0..scenario.marks /\ faults \in 0..scenario.faults
  /\ noted \subseteq Messages /\ doubled \subseteq noted
  /\ fate \subseteq Messages \X Fates
  /\ raced \in BOOLEAN

Init ==
  /\ length = [s \in Sessions |-> 0]
  /\ dropped = [s \in Sessions |-> 0]
  /\ text = [s \in Sessions |-> {}]
  /\ recent = <<>>
  /\ stale = {}
  /\ files = NoFiles
  /\ due = TRUE
  /\ fts = [s \in Sessions |-> {}]
  /\ run = [r \in Runs |-> Idle]
  /\ scenario \in Scenarios
  /\ marks = 0 /\ faults = 0
  /\ noted = {} /\ doubled = {} /\ fate = {} /\ raced = FALSE

-----------------------------------------------------------------------------
(* The surroundings: the session store and the clock.                      *)

(* The session files when s was written to last.                           *)
Latest(s) ==
  IF s \in ToSet(recent)
    THEN <<s>> \o RemoveAt(recent, CHOOSE i \in DOMAIN recent : recent[i] = s)
    ELSE <<s>> \o recent

Say(s, hasText) ==
  /\ s \in scenario.sessions /\ length[s] < MaxMessages
  /\ length' = [length EXCEPT ![s] = @ + 1]
  /\ text' = [text EXCEPT ![s] = IF hasText THEN @ \cup {length'[s]} ELSE @]
  /\ recent' = Latest(s)
  /\ stale' = stale \ {s}
  /\ UNCHANGED <<dropped, files, due, fts, run, scenario, marks, faults, history>>

(* The state files that a later save or scan may start from.               *)
InUse == {files} \cup UNION {{run[r].base, run[r].files} : r \in {q \in Runs : run[q].at # "idle"}}

(* The file of s is saved without its first k messages: the ephemeral cap  *)
(* of RunController, or the condensed save behind a turn.  No counter      *)
(* follows, so that each leads k messages further.                         *)
Shorten(s, k) ==
  /\ s \in scenario.shortened
  /\ k \in 1..(InFile(s) - 1)
  /\ dropped' = [dropped EXCEPT ![s] = @ + k]
  /\ recent' = Latest(s)
  /\ stale' = stale \ {s}
  /\ fate' = fate \cup {<<<<s, m>>, "shortened">> :
                m \in {n \in 1..MaxMessages :
                        \E f \in InUse : n > Reach(f, s) /\ n <= Reach(f, s) + k}}
  /\ UNCHANGED <<length, text, files, due, fts, run, scenario, marks, faults,
                 noted, doubled, raced>>

Midnight ==
  /\ stale # ToSet(recent)
  /\ stale' = ToSet(recent)
  /\ UNCHANGED <<length, dropped, text, recent, files, due, fts, run, scenario, marks,
                 faults, history>>

(* interval_hours have passed since last_run_ts.                           *)
Elapse ==
  /\ ~due
  /\ due' = TRUE
  /\ UNCHANGED <<disk, files, fts, run, scenario, marks, faults, history>>

(* The messages at the first n positions of the file of s, those included  *)
(* that are yet to be said.                                                *)
First(s, n) == {m \in 1..MaxMessages : m > dropped[s] /\ m <= dropped[s] + n}

(* mark_session_summarized, called when summary_memory has written the     *)
(* first n messages of s to the daily note itself.                         *)
Mark(s, n) ==
  LET passed == {t \in Matches[s] : length[t] > 0 /\ n > Done(files, t)}
  IN /\ marks < scenario.marks /\ marks' = marks + 1
     /\ n \in 1..InFile(s)
     /\ files' = [t \in DOMAIN files \cup passed |-> IF t \in passed THEN n ELSE files[t]]
     /\ noted' = noted \cup {<<s, m>> : m \in text[s] \cap First(s, n)}
     /\ fate' = fate \cup {<<<<s, m>>, "summarised">> : m \in First(s, n)}
                     \cup UNION {{<<<<t, m>>, "swept">> : m \in First(t, n)} : t \in passed \ {s}}
     /\ UNCHANGED <<disk, due, fts, run, scenario, faults, doubled, raced>>

-----------------------------------------------------------------------------
(* A run.                                                                  *)

NewMessages(acc, s) == {m \in text[s] : m > Reach(acc.files, s)}

(* What the loop of the scan does with a session; acc is what it has       *)
(* gathered so far.                                                        *)
Take(acc, s) ==
  LET new == NewMessages(acc, s)
      historical == s \in stale /\ s \notin DOMAIN acc.files
      room == IF historical THEN 0 ELSE MaxChars - acc.chars
      kept == {m \in new : Cardinality({k \in new : k <= m}) <= room}
      label == IF historical THEN "historical" ELSE "cut"
  IN [files |-> [t \in DOMAIN acc.files \cup {s} |->
                   IF t = s THEN InFile(s) ELSE acc.files[t]],
      payload |-> acc.payload \cup {<<s, m>> : m \in kept},
      gone |-> acc.gone \cup {<<<<s, m>>, label>> : m \in new \ kept},
      chars |-> acc.chars + Cardinality(kept),
      sessions |-> acc.sessions + (IF kept = {} THEN 0 ELSE 1)]

(* A session that is skipped uses up the budget of sessions.               *)
FaultyVisit(acc, s) ==
  IF acc.sessions >= MaxSessions \/ acc.chars >= MaxChars THEN acc
  ELSE [Take(acc, s) EXCEPT !.sessions = acc.sessions + 1]

Visit(acc, s) ==
  IF acc.sessions >= MaxSessions \/ acc.chars >= MaxChars THEN acc ELSE Take(acc, s)

Scan ==
  LET start == [files |-> files, payload |-> {}, gone |-> {}, chars |-> 0, sessions |-> 0]
      upTo[n \in 0..Len(recent)] ==
        IF n = 0 THEN start ELSE Visit(upTo[n - 1], recent[n])
  IN  upTo[Len(recent)]

(* The counters are taken from the files when the run saves.               *)
FaultySave(state) ==
  /\ files' = [s \in DOMAIN state |-> InFile(s)]
  /\ due' = FALSE

(* A run that is done with its messages saves the state file it read.      *)
Save(state) == files' = state /\ due' = FALSE

Forget(gone, payload, label) ==
  fate' = fate \cup gone \cup {<<x, label>> : x \in payload}

(* Called when should_distill says so; nothing is awaited up to the model. *)
Begin(r) ==
  LET scan == Scan
  IN /\ r \in scenario.runs /\ run[r].at = "idle"
     /\ due
     /\ IF scan.payload = {}
          THEN /\ Save(scan.files)
               /\ Forget(scan.gone, {}, "judged")
               /\ run' = run
          ELSE /\ run' = [run EXCEPT ![r] =
                    [at |-> "llm", base |-> files, files |-> scan.files,
                     payload |-> scan.payload, gone |-> scan.gone]]
               /\ UNCHANGED <<files, due, fate>>
     /\ UNCHANGED <<disk, fts, scenario, marks, faults, noted, doubled, raced>>

(* The model or the deduplication after it raises, or the note cannot be   *)
(* written: nothing is saved.                                              *)
Fail(r) ==
  /\ run[r].at # "idle"
  /\ run' = [run EXCEPT ![r] = Idle]
  /\ UNCHANGED <<disk, files, due, fts, scenario, marks, faults, history>>

(* NOTHING_TO_DISTILL, or every line of the digest was already known.      *)
Nothing(r) ==
  /\ run[r].at # "idle"
  /\ Save(run[r].files)
  /\ Forget(run[r].gone, run[r].payload, "judged")
  /\ raced' = (raced \/ files # run[r].base)
  /\ run' = [run EXCEPT ![r] = Idle]
  /\ UNCHANGED <<disk, fts, scenario, marks, faults, noted, doubled>>

Digest(r) ==
  /\ run[r].at = "llm"
  /\ run' = [run EXCEPT ![r].at = "dedup"]
  /\ UNCHANGED <<disk, files, due, fts, scenario, marks, faults, history>>

(* The index is emptied of the sessions the run did not read.              *)
FaultyIndexed(payload) ==
  [s \in Sessions |-> {x[2] : x \in {y \in payload : y[1] = s}}]

(* The row of a session is replaced by the text of this run.               *)
Indexed(payload) ==
  [s \in Sessions |-> LET row == {x[2] : x \in {y \in payload : y[1] = s}}
                      IN IF row = {} THEN fts[s] ELSE row]

(* The note, the state file, the index, in this order and with no await    *)
(* in between; upTo is the last of them that is written, and the process   *)
(* dies there unless it is the index.                                      *)
Write(r, upTo) ==
  LET p == run[r].payload
  IN /\ run[r].at = "dedup"
     /\ noted' = noted \cup p
     /\ doubled' = doubled \cup (noted \cap p)
     /\ IF upTo = "note"
          THEN UNCHANGED <<files, due, fate, raced>>
          ELSE /\ Save(run[r].files)
               /\ Forget(run[r].gone, p, "distilled")
               /\ raced' = (raced \/ files # run[r].base)
     /\ IF upTo = "index"
          THEN /\ fts' = Indexed(p)
               /\ run' = [run EXCEPT ![r] = Idle]
               /\ faults' = faults
          ELSE /\ faults < scenario.faults /\ faults' = faults + 1
               /\ fts' = fts
               /\ run' = [q \in Runs |-> Idle]
     /\ UNCHANGED <<disk, scenario, marks>>

(* _save_state swallows the error and the run goes on to the index.        *)
WriteUnsaved(r) ==
  LET p == run[r].payload
  IN /\ run[r].at = "dedup"
     /\ faults < scenario.faults /\ faults' = faults + 1
     /\ noted' = noted \cup p
     /\ doubled' = doubled \cup (noted \cap p)
     /\ fts' = Indexed(p)
     /\ run' = [run EXCEPT ![r] = Idle]
     /\ UNCHANGED <<disk, files, due, scenario, marks, fate, raced>>

Crash ==
  /\ faults < scenario.faults /\ faults' = faults + 1
  /\ \E r \in Runs : run[r] # Idle
  /\ run' = [r \in Runs |-> Idle]
  /\ UNCHANGED <<disk, files, due, fts, scenario, marks, history>>

(* search_sessions: the messages a query can find.  The lines of a session *)
(* are scanned only as long as the state file does not list it.            *)
Findable(s) ==
  fts[s] \cup (IF s \in DOMAIN files THEN {} ELSE {m \in text[s] : m > dropped[s]})

Next ==
  \/ \E s \in Sessions, hasText \in BOOLEAN : Say(s, hasText)
  \/ \E s \in Sessions, k \in 1..MaxMessages : Shorten(s, k)
  \/ Midnight
  \/ Elapse
  \/ \E s \in Sessions, n \in 1..MaxMessages : Mark(s, n)
  \/ \E r \in Runs : Begin(r)
  \/ \E r \in Runs : Fail(r)
  \/ \E r \in Runs : Nothing(r)
  \/ \E r \in Runs : Digest(r)
  \/ \E r \in Runs, upTo \in {"note", "state", "index"} : Write(r, upTo)
  \/ \E r \in Runs : WriteUnsaved(r)
  \/ Crash

Spec == Init /\ [][Next]_vars

(* The scheduler comes back when the interval is over, and a model that is *)
(* asked again and again answers at some point, with a digest that can be  *)
(* written or with nothing.                                                *)
Fairness ==
  /\ WF_vars(Elapse)
  /\ \A r \in Runs : /\ WF_vars(Begin(r))
                     /\ SF_vars(Nothing(r) \/ Write(r, "index"))

FairSpec == Spec /\ Fairness

-----------------------------------------------------------------------------
(* What the state file promises.                                           *)

(* The messages of s that the next scan will pass over.                    *)
Passed(s) == {m \in text[s] : m <= Reach(files, s)}

FateOf(s, m) == {l \in Fates : <<<<s, m>>, l>> \in fate}

(* A message that will never be read again has met some fate: in           *)
(* particular, what is said while the model thinks is not counted with     *)
(* what the model was given.  One of the fates is a file that became       *)
(* shorter: its counter then stands for as many later messages, which are  *)
(* passed over although nobody read them.                                  *)
EveryCountExplained == \A s \in Sessions : \A m \in Passed(s) : FateOf(s, m) # {}

(* The daily note repeats a message only after a crash or a failed write,  *)
(* when a run saved over what someone else had counted meanwhile, or when  *)
(* the message was counted through the name of another session or by a     *)
(* file that became shorter, maybe before it was said: the next scan sets  *)
(* such a counter back.                                                    *)
RepeatsAreExcused ==
  \A x \in doubled :
    faults > 0 \/ raced \/ \E label \in {"swept", "shortened"} : <<x, label>> \in fate

(* The counter of a session is right on both sides: nothing is passed over *)
(* without a fate, nothing is digested again without a cause.              *)
CountedOnce == EveryCountExplained /\ RepeatsAreExcused

(* A session that was distilled is found by search_sessions, although from *)
(* then on only the index is asked, and the index holds only what the      *)
(* notes have.                                                             *)
SearchFollowsNotes ==
  \A s \in Sessions :
    /\ (\E m \in text[s] : "distilled" \in FateOf(s, m)) /\ faults = 0 => Findable(s) # {}
    /\ \A m \in fts[s] : <<s, m>> \in noted

(* Whatever the budgets, and however many sessions are in the way, a       *)
(* session whose users fall silent is done with at some point.             *)
EveryMessageDone ==
  \A s \in Sessions : text[s] # Passed(s) ~> text[s] = Passed(s)

=============================================================================
