------------------------------ MODULE Dreaming ------------------------------
(***************************************************************************)
(* The nightly consolidation of memory: DreamingPipeline of                *)
(* src/lightclaw/agent/memory/dreaming_pipeline.py, over the daily talk.   *)
(*                                                                         *)
(* A run asks the model for candidates (Light), for their relation to what *)
(* is known (REM), and then archives and empties the talk, promotes        *)
(* candidates to MEMORY.md, prunes it, distills and updates a section of   *)
(* USER.md (Deep).  Nothing keeps two runs apart: cron starts them, and so *)
(* does the API.  An action is what happens between two awaits.            *)
(*                                                                         *)
(* A candidate is a message and the file it was taken from.  A line of     *)
(* MEMORY.md is a member of Lines, or the turn whose message it is made    *)
(* of, by promotion or by the distillation of the notes.                   *)
(***************************************************************************)
EXTENDS DailyTalk, MemoryDecay

CONSTANTS
  Dreams,         \* runs of the pipeline
  Kinds,          \* the runs there may be: full or light ingest, dry or not
  Lines,          \* lines MEMORY.md may hold besides promoted ones
  LineOf,         \* [Lines \cup Turns -> the line as MemoryDecay sees it]
  Mentions,       \* [Lines \cup Turns -> the lines whose text it contains]
  Secret,         \* turns whose text matches _SECRET_PATTERN
  Fleeting,       \* turns whose text is of an ephemeral type
  Words,          \* lines of the user in USER.md
  PromoteUnknown, \* UNKNOWN_USER_MEMORY_PROMOTION_ENABLED
  Openings        \* what may lie there at the start: the files, the turns
                  \* over before, and what is still to be written by hand

Digest == "digest"  \* what session distillation writes into a daily note

(* The managed section of USER.md: its markers with the block between *)
Section == <<"begin", "block", "end">>

(* Where a whole section begins, and what stands in a text besides it *)
Sections(text) ==
  {i \in 1 .. Len(text) - 2 :
     text[i] = "begin" /\ text[i + 1] = "block" /\ text[i + 2] = "end"}

Own(text) ==
  LET i == CHOOSE k \in Sections(text) : TRUE
  IN  IF Sections(text) = {} THEN text
      ELSE SubSeq(text, 1, i - 1) \o SubSeq(text, i + 3, Len(text))

ASSUME DreamAssumption ==
  /\ Kinds \subseteq [full : BOOLEAN, dry : BOOLEAN]
  /\ Lines \cap Turns = {} /\ Words \cap ToSet(Section) = {}
  /\ \A o \in Openings : /\ o.memory \subseteq Lines /\ o.over \subseteq Turns
                         /\ o.talk.msgs \in Seq(o.over)
                         /\ o.talk.msgs # <<>> => o.talk.date = 1
                         /\ o.profile \in Seq(Words \cup ToSet(Section))
                         /\ Own(o.profile) \in Seq(Words)
                         /\ o.coming \ Lines \subseteq Words
  /\ Secret \cup Fleeting \subseteq Turns
  /\ \A l \in Lines \cup Turns : l \in Mentions[l]

VARIABLES
  dream,    \* [Dreams -> a run: its step and what it holds]
  notes,    \* [Days -> memory/YYYY-MM-DD.md]
  memory,   \* MEMORY.md
  profile,  \* USER.md: lines of the user, the markers and the block between
  pruned,   \* memory/.pruned: the lines taken out of MEMORY.md
  evidence, \* messages written under memory/.dreams/candidates
  coming,   \* lines that tools and the user have still to write
  status,   \* status.json: the outcome of the last full run, and whether
            \* the fields of the light ingest are there
  late      \* history: messages that came into the talk while a dream was
            \* between its archive and the end of its rollover

dreamVars == <<dream, notes, memory, pruned, profile, evidence, coming, status, late>>
files     == <<talk, notes, memory, pruned, profile, evidence, status>>
vars      == <<talkVars, dreamVars>>

Rolling == {"rolling", "rollwrite"}
Idle    == [at |-> "idle", full |-> TRUE, dry |-> FALSE, cands |-> {},
            sure |-> FALSE, best |-> {}, update |-> FALSE, today |-> 0]

InitDreams ==
  /\ dream = [d \in Dreams |-> Idle]
  /\ notes = [x \in Days |-> {}]
  /\ \E o \in Openings : /\ InitTalk(o.talk, o.over, o.kills)
                         /\ memory = o.memory /\ profile = o.profile
                         /\ coming = o.coming
  /\ pruned = {} /\ evidence = {} /\ late = {}
  /\ status = [full |-> "none", ingest |-> FALSE]

Over == [Idle EXCEPT !.at = "done"]

Moves(d, step) == dream' = [dream EXCEPT ![d].at = step]

(* _run_light_phase, the files it reads: every message with its source *)
Sources ==
  {<<m, 0>> : m \in ToSet(talk.msgs)}
    \cup {c \in Turns \X Days : c[1] \in notes[c[2]]}

(* run, run_light_only: without a source there is no candidate and a full
   run returns without a status. *)
BeginDream(d) ==
  /\ dream[d].at = "idle"
  /\ \E k \in Kinds :
       /\ dream' = [dream EXCEPT ![d] =
                      IF Sources = {} /\ k.full THEN Over
                      ELSE [Idle EXCEPT !.at = "light", !.full = k.full, !.dry = k.dry,
                                        !.cands = Sources]]
  /\ UNCHANGED <<talkVars, notes, memory, pruned, profile, evidence, coming, status, late>>

(* Only ephemeral candidates are left out. *)
FaultyFiltered(cands) == {c \in cands : c[1] \notin Fleeting}

(* _filter_secrets, _filter_ephemeral *)
Filtered(cands) == {c \in cands : c[1] \notin Secret \cup Fleeting}

(* The candidates are persisted as they came. *)
FaultyPersisted(d, cands) == {c[1] : c \in cands}

(* _persist_candidates *)
Persisted(d, cands) == IF dream[d].dry THEN {} ELSE {c[1] : c \in cands}

(* _parse_light_llm_output: what can be made of the answers to the sources,
   nothing of one that is no JSON; the candidates are sure of themselves, or
   have the confidence 0.5 of an answer that names none. *)
Found(d) == [cands : SUBSET dream[d].cands, sure : BOOLEAN]

LightAnswer(d) ==
  /\ dream[d].at = "light"
  /\ \E found \in Found(d) :
       LET kept == Filtered(found.cands) IN
       IF dream[d].full
         THEN /\ dream' = [dream EXCEPT ![d] =
                             IF kept = {} THEN Over
                             ELSE [@ EXCEPT !.at = "rem", !.cands = kept, !.sure = found.sure]]
              /\ UNCHANGED <<evidence, status>>
         ELSE /\ dream' = [dream EXCEPT ![d] = Over]
              /\ evidence' = evidence \cup Persisted(d, kept)
              /\ status' = IF dream[d].dry THEN status ELSE [status EXCEPT !.ingest = TRUE]
  /\ UNCHANGED <<talkVars, notes, memory, pruned, profile, coming, late>>

(* _write_status: it replaces the whole file. *)
Status(outcome) == [full |-> outcome, ingest |-> FALSE]

(* The note of the day is replaced by the talk even if the talk is empty. *)
FaultyArchived == [notes EXCEPT ![day] = ToSet(talk.msgs)]

(* _deep_archive_daily_talk: the talk becomes the note of its day. *)
Archived == [notes EXCEPT ![talk.date] = ToSet(talk.msgs)]

(* _parse_rem_llm_output: the candidates recommended, and whether any signal
   asks for an update of the profile; neither, of an answer no stage of the
   parser can read. *)
Signals(d) == [best : SUBSET dream[d].cands, update : BOOLEAN]

(* The answer of the REM phase (none, if it fails), then without an await
   the evidence, and the archive; writing it may fail and end the run. *)
RemAnswer(d) ==
  /\ dream[d].at = "rem"
  /\ \E s \in Signals(d) :
       \/ /\ dream' = [dream EXCEPT ![d].best = s.best, ![d].update = s.update, ![d].today = day,
                         ![d].at = IF dream[d].dry \/ talk.msgs = <<>> THEN "promote"
                                   ELSE "rolling"]
          /\ notes' = IF dream[d].dry \/ talk.msgs = <<>> THEN notes ELSE Archived
          /\ UNCHANGED status
       \/ /\ ~dream[d].dry /\ talk.msgs # <<>>
          /\ dream' = [dream EXCEPT ![d] = Over]
          /\ status' = Status("error")
          /\ UNCHANGED notes
  /\ evidence' = evidence \cup Persisted(d, dream[d].cands)
  /\ UNCHANGED <<talkVars, memory, pruned, profile, coming, late>>

(* maybe_rollover: the read of the file, or an exception *)
RollRead(d) ==
  /\ dream[d].at = "rolling"
  /\ \/ Moves(d, IF Stale(dream[d].today) THEN "rollwrite" ELSE "promote")
     \/ Moves(d, "promote")
  /\ UNCHANGED <<talkVars, notes, memory, pruned, profile, evidence, coming, status, late>>

(* ... and the new header over whatever is there now *)
RollWrite(d) ==
  /\ dream[d].at = "rollwrite"
  /\ talk' = [date |-> dream[d].today, msgs |-> <<>>]
  /\ Moves(d, "promote")
  /\ UNCHANGED <<day, turn, said, kills, notes, memory, pruned, profile, evidence, coming, status, late>>

(* The promotion score in hundredths, of an answer within the ranges the
   prompt gives: 0.5 of the confidence, 0.3 when recommended, 0.2 of a
   score_delta of at most 0.20. *)
PromotionScore(d, c) ==
  (IF dream[d].sure THEN 45 ELSE 25) + (IF c \in dream[d].best THEN 30 + 4 ELSE 0)

(* _rehydrate_verify: the text is in the talk, or half of its keywords are;
   the daily notes are looked up beside the talk, where none is. *)
Rehydrated(c, alike) ==
  /\ c[2] = 0 /\ talk.date # 0
  /\ c \in alike \/ \E m \in ToSet(talk.msgs) : Text[m] = Text[c[1]]

(* _deep_promote_candidates: the trust level of a candidate is never set,
   so its speaker is unknown. *)
Promoted(d, alike) ==
  {c[1] : c \in {x \in dream[d].cands :
                   PromoteUnknown /\ PromotionScore(d, x) >= 60 /\ Rehydrated(x, alike)}}

Promote(d) ==
  /\ dream[d].at = "promote"
  /\ IF dream[d].dry
       THEN dream' = [dream EXCEPT ![d] = Over] /\ UNCHANGED memory
       ELSE /\ \E alike \in SUBSET dream[d].cands : memory' = memory \cup Promoted(d, alike)
            /\ dream' = [dream EXCEPT ![d] =
                           [Idle EXCEPT !.at = IF memory' = {} THEN "distill" ELSE "score",
                                        !.cands = memory', !.update = dream[d].update]]
  /\ UNCHANGED <<talkVars, notes, pruned, profile, evidence, coming, status, late>>

(* The lines are those read before the scores were asked for. *)
FaultyRewritten(scored, chosen) ==
  {l \in scored \cap memory : Mentions[l] \cap chosen = {}}

(* _deep_prune, the rewrite: MEMORY.md is read again, and every line that
   contains the text of a chosen entry goes. *)
Rewritten(scored, chosen) == {l \in memory : Mentions[l] \cap chosen = {}}

(* What scoring may find of each line: whether it is protected, and its score *)
Outlook == [l \in Lines \cup Turns |->
              {[kept |-> Protected(c), score |-> FinalScore(LineOf[l], c)] :
                 c \in Reclassified(LineOf[l])}]

Verdicts(lines) ==
  LET unsure  == {l \in lines : Cardinality(Outlook[l]) > 1}
      answers == {f \in [unsure -> UNION {Outlook[l] : l \in unsure}] :
                    \A l \in unsure : f[l] \in Outlook[l]}
  IN  {[l \in lines |-> IF l \in unsure THEN f[l] ELSE CHOOSE o \in Outlook[l] : TRUE] :
         f \in answers}

(* _write_prune_archive: the entries chosen, but not the other lines that
   go with them *)
Pruned(chosen) == chosen

(* The scores are there, and dream.cands are the lines they are of; or they
   could not be had. *)
Prune(d) ==
  /\ dream[d].at = "score"
  /\ LET lines == dream[d].cands
         sets  == UNION {PruneChoices(lines, v) : v \in Verdicts(lines)}
     IN  \E chosen \in sets \cup {{}} :
           /\ memory' = Rewritten(lines, chosen)
           /\ pruned' = pruned \cup Pruned(chosen)
  /\ dream' = [dream EXCEPT ![d].at = "distill", ![d].cands = {}]
  /\ UNCHANGED <<talkVars, notes, profile, evidence, coming, status, late>>

(* Where a line stands first *)
Place(text, x) == CHOOSE i \in 1 .. Len(text) : text[i] = x /\ \A j \in 1 .. i - 1 : text[j] # x

(* The text after the block is lost. *)
FaultyUpserted(text) ==
  IF {"begin", "end"} \subseteq ToSet(text)
    THEN SubSeq(text, 1, Place(text, "begin") - 1) \o Section
    ELSE text \o Section

(* _upsert_managed_section *)
Upserted(text) ==
  IF {"begin", "end"} \subseteq ToSet(text)
    THEN SubSeq(text, 1, Place(text, "begin") - 1) \o Section
           \o SubSeq(text, Place(text, "end") + 1, Len(text))
    ELSE text \o Section

(* _deep_update_managed_files, of which USER.md stands for the five *)
Managed(d) == IF dream[d].update THEN Upserted(profile) ELSE profile

(* _deep_distillation: first the sessions, when it is due, into the note of
   the day *)
DistillSessions(d) ==
  /\ dream[d].at = "distill"
  /\ notes' \in {notes, [notes EXCEPT ![day] = @ \cup {Digest}]}
  /\ Moves(d, "gist")
  /\ UNCHANGED <<talkVars, memory, pruned, profile, evidence, coming, status, late>>

(* What distill_to_memory_md may make of the daily notes: messages, whatever
   they hold.  It adds to MEMORY.md; when it is not due, or fails, nothing. *)
Gists == SUBSET ((UNION {notes[x] : x \in Days}) \ {Digest})

(* ... and then the notes, when that is due, into MEMORY.md; at last the
   managed files and the status *)
EndDream(d) ==
  /\ dream[d].at = "gist"
  /\ \E gist \in Gists : memory' = memory \cup gist
  /\ profile' = Managed(d)
  /\ status' = Status("ok")
  /\ dream' = [dream EXCEPT ![d] = Over]
  /\ UNCHANGED <<talkVars, notes, pruned, evidence, coming, late>>

(* A tool of the agent adds a line to MEMORY.md, the user one to USER.md. *)
Remember(l) ==
  /\ l \in coming
  /\ coming' = coming \ {l}
  /\ IF l \in Lines THEN memory' = memory \cup {l} /\ UNCHANGED profile
                   ELSE profile' = Append(profile, l) /\ UNCHANGED memory
  /\ UNCHANGED <<talkVars, dream, notes, pruned, evidence, status, late>>

Kill ==
  /\ TurnsKilled
  /\ dream' = [d \in Dreams |-> IF dream[d].at = "idle" THEN dream[d]
                                ELSE Over]
  /\ UNCHANGED <<notes, memory, pruned, profile, evidence, coming, status, late>>

Write(t) ==
  /\ WriteTalk(t)
  /\ late' = IF \E d \in Dreams : dream[d].at \in Rolling THEN late \cup (ToSet(talk'.msgs) \ ToSet(talk.msgs))
             ELSE late
  /\ UNCHANGED <<dream, notes, memory, pruned, profile, evidence, coming, status>>

DreamStep(d) ==
  BeginDream(d) \/ LightAnswer(d) \/ RemAnswer(d) \/ RollRead(d) \/ RollWrite(d)
    \/ Promote(d) \/ Prune(d) \/ DistillSessions(d) \/ EndDream(d)

Init == InitDreams

Next ==
  \/ \E t \in Turns : TurnStep(t) /\ UNCHANGED dreamVars
  \/ \E t \in Turns : Write(t)
  \/ NextDay /\ UNCHANGED dreamVars
  \/ \E d \in Dreams : DreamStep(d)
  \/ \E l \in coming : Remember(l)
  \/ Kill

Spec == Init /\ [][Next]_vars

TypeOK ==
  /\ day \in Days /\ kills \in 0 .. MaxKills
  /\ talk.date \in 0 .. MaxDay /\ ToSet(talk.msgs) \subseteq Turns
  /\ \A t \in Turns : turn[t].at \in TurnSteps /\ said[t] \in 0 .. MaxDay
  /\ \A d \in Dreams :
       dream[d].at \in {"idle", "light", "rem", "promote", "score", "distill", "gist", "done"}
                        \cup Rolling
  /\ notes \in [Days -> SUBSET (Turns \cup {Digest})]
  /\ memory \cup pruned \subseteq Lines \cup Turns
  /\ evidence \cup late \subseteq Turns
  /\ status \in [full : {"none", "ok", "error"}, ingest : BOOLEAN]

-----------------------------------------------------------------------------
(* A file of the talk, and the note made of it, hold what was said on the
   day they are named for and nothing else, although a turn may read the
   file on one day and write it on the next, and dreams and other turns
   write it in between: _append_message_sync keeps only a file of its day. *)
TalkOfOneDay ==
  /\ \A m \in ToSet(talk.msgs) : said[m] = talk.date
  /\ \A x \in Days : \A m \in notes[x] \ {Digest} : said[m] = x

(* What a dream throws away with the talk of a past day is in the note of
   that day, or came into the talk in the moments between the archive and
   the rollover, written for the first time or again by a turn that had read
   it; so it is after kills, failed archives and other dreams. *)
DiscardedIsArchived ==
  [][talk' # talk /\ turn' = turn =>
       \A m \in ToSet(talk.msgs) : m \in notes[said[m]] \cup late]_vars

(* A candidate whose text looks like a secret is in no file of candidates and
   is never promoted, by full runs and by the light ingest, although the talk
   and the notes hold it.  MEMORY.md gets one only where a dream distills the
   notes, which nothing filters. *)
SecretsStayOut ==
  [][/\ evidence' \cap Secret = {}
     /\ (memory' \ memory) \cap Secret # {} =>
          \E d \in Dreams : dream[d].at = "gist" /\ dream'[d].at = "done"]_vars

(* A dry run leaves every file as it was, in each of its phases. *)
DryRunsLeaveNoTrace ==
  [][\A d \in Dreams : dream'[d] # dream[d] /\ dream[d].dry => files' = files]_vars

(* A line of MEMORY.md goes only if it was there when the scores were asked
   for, may be forgotten by its type and tier and is kept in the archive, or
   contains the text of a line that is: what tools of the agent write while
   the model is asked, and what another dream promotes, survives the
   rewrite. *)
KeptUnlessForgettable ==
  [][\A l \in memory \ memory' : \E x \in Mentions[l] \cap pruned' :
       /\ \E c \in Reclassified(LineOf[x]) : ~Protected(c)
       /\ \E d \in Dreams : dream[d].at = "score" /\ x \in dream[d].cands]_vars

(* The lines the user wrote in USER.md stay, in their order, and besides
   them there is at most one managed section, and no marker of another,
   however often it is brought up to date. *)
UserTextSurvives ==
  [][IsPrefix(Own(profile), Own(profile')) /\ Own(profile') \in Seq(Words)]_vars
=============================================================================
