--------------------------- MODULE DreamingProofs ---------------------------
(***************************************************************************)
(* Invariants and action properties of turns and dreams in any number,     *)
(* over any days, kinds of runs, kills and files: the talk and its notes   *)
(* keep the days apart; secrets are in no file of candidates and not in    *)
(* MEMORY.md; dry runs write nothing; a dream throws away nothing of the   *)
(* talk that it has not archived; MEMORY.md forgets only what it may; the  *)
(* lines of the user in USER.md stay. None of them leans on how lines are  *)
(* scored.                                                                 *)
(***************************************************************************)
EXTENDS Dreaming, SequenceTheorems, TLAPS

(* The turns whose text has not been given to the store.                   *)
Unsaid == {t \in Turns : turn[t].at \in {"new", "context", "append"}}

(* The file f holds messages of its day s, none of a turn in u.            *)
Dated(f, s, u) ==
  /\ f.msgs \in Seq(Turns)
  /\ \A i \in DOMAIN f.msgs : s[f.msgs[i]] = f.date /\ f.msgs[i] \notin u

(* A turn about to write has read a dated file and speaks on its day.      *)
DatedTurn(t) ==
  /\ DOMAIN turn[t] = {"at", "today", "old"}
  /\ turn[t].at = "write" => Dated(turn[t].old, said, Unsaid) /\ said[t] = turn[t].today

DatedNotes ==
  /\ DOMAIN notes = Days
  /\ \A x \in Days : \A m \in notes[x] \ {Digest} :
       m \in Turns /\ said[m] = x /\ m \notin Unsaid

DaysInv ==
  /\ DOMAIN turn = Turns /\ DOMAIN said = Turns
  /\ Dated(talk, said, Unsaid)
  /\ \A t \in Turns : DatedTurn(t)
  /\ DatedNotes

-----------------------------------------------------------------------------
(* The days.                                                               *)

LEMMA DaysInit == Init => DaysInv
<1> SUFFICES ASSUME Init
             PROVE  DaysInv
  OBVIOUS
<1>1. PICK o \in Openings : InitTalk(o.talk, o.over, o.kills)
  BY DEF Init, InitDreams
<1>2. o.over \subseteq Turns /\ talk.msgs \in Seq(o.over) /\ (talk.msgs # <<>> => talk.date = 1)
  BY <1>1, DreamAssumption DEF InitTalk
<1>3. talk.msgs \in Seq(Turns)
  BY <1>2, SeqMonotonic
<1>4. ASSUME NEW i \in DOMAIN talk.msgs
      PROVE  said[talk.msgs[i]] = talk.date /\ talk.msgs[i] \notin Unsaid
  <2>1. talk.msgs[i] \in o.over /\ talk.msgs # <<>>
    BY <1>2, ElementOfSeq, LenProperties
  <2>2. QED
    BY <1>1, <1>2, <2>1 DEF InitTalk, Unsaid
<1>5. Dated(talk, said, Unsaid)
  BY <1>3, <1>4 DEF Dated
<1>6. \A t \in Turns : DatedTurn(t)
  BY <1>1 DEF InitTalk, DatedTurn
<1>7. DatedNotes
  BY DEF Init, InitDreams, DatedNotes
<1>8. QED
  BY <1>1, <1>5, <1>6, <1>7 DEF InitTalk, DaysInv

(* What is dated stays so when those who have spoken are taken to have     *)
(* spoken, and on the same day.                                            *)
LEMMA StillDated ==
  ASSUME NEW f, NEW s, NEW u, NEW s2, NEW u2, Dated(f, s, u),
         \A m \in Turns \ u : s2[m] = s[m] /\ m \notin u2
  PROVE  Dated(f, s2, u2)
<1>1. ASSUME NEW i \in DOMAIN f.msgs
      PROVE  f.msgs[i] \in Turns
  BY ElementOfSeq, LenProperties DEF Dated
<1>2. QED
  BY <1>1 DEF Dated

(* A step after which those who had spoken have spoken, on the same day.   *)
SpokenStay == \A m \in Turns \ Unsaid : said'[m] = said[m] /\ m \notin Unsaid'

LEMMA NotesStillDated == DatedNotes /\ notes' = notes /\ SpokenStay => DatedNotes'
BY DEF DatedNotes, SpokenStay

LEMMA TurnStillDated ==
  ASSUME NEW t \in Turns, DatedTurn(t), turn'[t] = turn[t], SpokenStay
  PROVE  DatedTurn(t)'
<1>1. CASE turn[t].at = "write"
  <2>1. t \notin Unsaid /\ said'[t] = said[t]
    BY <1>1 DEF Unsaid, SpokenStay
  <2>2. Dated(turn[t].old, said', Unsaid')
    BY <1>1, StillDated DEF DatedTurn, SpokenStay
  <2>3. QED
    BY <2>1, <2>2 DEF DatedTurn
<1>2. CASE turn[t].at # "write"
  BY <1>2 DEF DatedTurn
<1>3. QED
  BY <1>1, <1>2

(* A step of turn t that leaves the files alone: t becomes v, and if it    *)
(* had not spoken it may speak today.                                      *)
LEMMA TurnDated ==
  ASSUME DaysInv, NEW t \in Turns, NEW v, NEW n,
         turn' = [turn EXCEPT ![t] = v], talk' = talk, notes' = notes,
         DOMAIN v = {"at", "today", "old"}, t \in Unsaid,
         said' \in {said, [said EXCEPT ![t] = n]},
         v.at = "write" => v.old = talk /\ v.today = n /\ said' = [said EXCEPT ![t] = n]
  PROVE  DaysInv'
<1>1. SpokenStay
  BY DEF DaysInv, Unsaid, SpokenStay
<1>2. Dated(talk, said', Unsaid')
  BY <1>1, StillDated DEF DaysInv, SpokenStay
<1>3. ASSUME NEW r \in Turns
      PROVE  DatedTurn(r)'
  <2>1. CASE r = t
    BY <1>2, <2>1 DEF DatedTurn, DaysInv
  <2>2. CASE r # t
    <3>1. turn'[r] = turn[r] /\ DatedTurn(r)
      BY <2>2 DEF DaysInv
    <3>2. QED
      BY <1>1, <3>1, TurnStillDated
  <2>3. QED
    BY <2>1, <2>2
<1>4. DatedNotes'
  BY <1>1, NotesStillDated DEF DaysInv
<1>5. QED
  BY <1>2, <1>3, <1>4 DEF DaysInv

LEMMA TurnStepDated ==
  ASSUME DaysInv, NEW t \in Turns, TurnStep(t), notes' = notes
  PROVE  DaysInv'
<1>1. DOMAIN turn = Turns /\ DOMAIN said = Turns /\ DOMAIN turn[t] = {"at", "today", "old"}
  BY DEF DaysInv, DatedTurn
<1>2. ASSUME NEW step \in {"context", "append", "done"}, t \in Unsaid,
             turn' = [turn EXCEPT ![t].at = step], talk' = talk, said' = said
      PROVE  DaysInv'
  <2> DEFINE v == [turn[t] EXCEPT !.at = step]
  <2>1. turn' = [turn EXCEPT ![t] = v]
    BY <1>2
  <2>2. DOMAIN v = {"at", "today", "old"} /\ v.at = step
    BY <1>1
  <2> HIDE DEF v
  <2>3. QED
    BY <1>2, <2>1, <2>2, TurnDated
<1>3. CASE CheckRollover(t)
  <2>1. PICK step \in {"context", "append"} : turn' = [turn EXCEPT ![t].at = step]
    BY <1>3 DEF CheckRollover
  <2>2. QED
    BY <1>2, <1>3, <2>1 DEF CheckRollover, Unsaid
<1>4. CASE ContextBuilt(t)
  <2>1. PICK step \in {"append", "done"} : turn' = [turn EXCEPT ![t].at = step]
    BY <1>4 DEF ContextBuilt
  <2>2. QED
    BY <1>2, <1>4, <2>1 DEF ContextBuilt, Unsaid
<1>5. CASE ReadTalk(t)
  <2> DEFINE v == IF Worthless(t, talk.msgs) THEN [turn[t] EXCEPT !.at = "done"]
                  ELSE [at |-> "write", today |-> day, old |-> talk]
  <2>1. turn' = [turn EXCEPT ![t] = v]
    BY <1>5 DEF ReadTalk
  <2>2. DOMAIN v = {"at", "today", "old"}
    BY <1>1
  <2>3. v.at = "write" => v.old = talk /\ v.today = day
    BY <1>1
  <2>4. t \in Unsaid /\ said' = [said EXCEPT ![t] = day] /\ talk' = talk
    BY <1>5 DEF ReadTalk, Unsaid
  <2> HIDE DEF v
  <2>5. QED
    BY <2>1, <2>2, <2>3, <2>4, TurnDated
<1>6. QED
  BY <1>3, <1>4, <1>5 DEF TurnStep

(* A dated file to which a turn that has spoken on its day is appended     *)
LEMMA AppendDated ==
  ASSUME NEW f, NEW s, NEW u, NEW t \in Turns, Dated(f, s, u), s[t] = f.date, t \notin u
  PROVE  Dated([date |-> f.date, msgs |-> Append(f.msgs, t)], s, u)
<1> DEFINE msgs == Append(f.msgs, t)
<1>1. msgs \in Seq(Turns)
  BY AppendProperties DEF Dated
<1>2. ASSUME NEW i \in DOMAIN msgs
      PROVE  msgs[i] = t \/ (i \in DOMAIN f.msgs /\ msgs[i] = f.msgs[i])
  BY AppendProperties, LenProperties DEF Dated
<1>3. \A i \in DOMAIN msgs : s[msgs[i]] = f.date /\ msgs[i] \notin u
  BY <1>2 DEF Dated
<1> HIDE DEF msgs
<1>4. QED
  BY <1>1, <1>3 DEF Dated, msgs

(* The write keeps what was read only if it is of the day.                 *)
LEMMA WriteTalkDated ==
  ASSUME DaysInv, NEW t \in Turns, WriteTalk(t), notes' = notes
  PROVE  DaysInv'
<1> DEFINE old  == turn[t].old
           now  == turn[t].today
           kept == [date |-> now, msgs |-> IF old.date = now THEN old.msgs ELSE <<>>]
<1>1. Dated(old, said, Unsaid) /\ said[t] = now /\ t \notin Unsaid
  BY DEF WriteTalk, DaysInv, DatedTurn, Unsaid
<1>2. said' = said /\ turn' = [turn EXCEPT ![t] = [at |-> "done", today |-> 0, old |-> NoTalk]]
  BY DEF WriteTalk
<1>3. SpokenStay
  BY <1>2 DEF DaysInv, Unsaid, SpokenStay
<1>4. Dated(kept, said, Unsaid)
  BY <1>1, EmptySeq DEF Dated
<1>5. talk' = [date |-> kept.date, msgs |-> Append(kept.msgs, t)]
  BY DEF WriteTalk, Appended
<1>6. Dated(talk, said, Unsaid)'
  <2>1. Dated(kept, said', Unsaid')
    BY <1>3, <1>4, StillDated DEF SpokenStay
  <2>2. said'[t] = kept.date /\ t \notin Unsaid'
    BY <1>1, <1>3 DEF SpokenStay
  <2> HIDE DEF kept
  <2>3. QED
    BY <1>5, <2>1, <2>2, AppendDated
<1>7. ASSUME NEW r \in Turns
      PROVE  DatedTurn(r)'
  <2>1. CASE r = t
    BY <1>2, <2>1 DEF DaysInv, DatedTurn
  <2>2. CASE r # t
    <3>1. turn'[r] = turn[r] /\ DatedTurn(r)
      BY <1>2, <2>2 DEF DaysInv
    <3>2. QED
      BY <1>3, <3>1, TurnStillDated
  <2>3. QED
    BY <2>1, <2>2
<1>8. DatedNotes'
  BY <1>3, NotesStillDated DEF DaysInv
<1>9. QED
  BY <1>2, <1>6, <1>7, <1>8 DEF DaysInv

(* A step that leaves the turns alone, and of which the talk and the notes *)
(* are seen to be dated                                                    *)
LEMMA FilesDated ==
  ASSUME DaysInv, turn' = turn, said' = said,
         Dated(talk', said, Unsaid), DatedNotes'
  PROVE  DaysInv'
<1>1. SpokenStay /\ Unsaid' = Unsaid
  BY DEF SpokenStay, Unsaid
<1>2. \A t \in Turns : DatedTurn(t)'
  BY <1>1, TurnStillDated DEF DaysInv
<1>3. QED
  BY <1>1, <1>2 DEF DaysInv

LEMMA NothingSaidDated ==
  ASSUME DaysInv, turn' = turn, said' = said, talk' = talk, notes' = notes
  PROVE  DaysInv'
<1>1. DatedNotes'
  BY NotesStillDated DEF DaysInv, SpokenStay, Unsaid
<1>2. QED
  BY <1>1, FilesDated DEF DaysInv

LEMMA KillDated == DaysInv /\ Kill => DaysInv'
<1> SUFFICES ASSUME DaysInv, Kill
             PROVE  DaysInv'
  OBVIOUS
<1>1. SpokenStay
  BY DEF DaysInv, Kill, TurnsKilled, Unsaid, SpokenStay
<1>2. Dated(talk, said, Unsaid)'
  BY <1>1, StillDated DEF DaysInv, Kill, TurnsKilled, SpokenStay
<1>3. \A t \in Turns : DatedTurn(t)'
  BY DEF DaysInv, DatedTurn, Kill, TurnsKilled
<1>4. DatedNotes'
  BY <1>1, NotesStillDated DEF DaysInv, Kill
<1>5. QED
  BY <1>2, <1>3, <1>4 DEF DaysInv, Kill, TurnsKilled

(* A dream makes a note of the talk, which is dated, and adds the digest.  *)
LEMMA RemAnswerDated ==
  ASSUME DaysInv, NEW d \in Dreams, RemAnswer(d)
  PROVE  DaysInv'
<1>1. turn' = turn /\ said' = said /\ talk' = talk /\ notes' \in {notes, Archived}
  BY DEF RemAnswer, talkVars
<1>2. ASSUME NEW m \in ToSet(talk.msgs)
      PROVE  m \in Turns /\ said[m] = talk.date /\ m \notin Unsaid
  <2>1. PICK i \in DOMAIN talk.msgs : m = talk.msgs[i]
    BY DEF ToSet
  <2>2. talk.msgs[i] \in Turns
    BY <2>1, ElementOfSeq, LenProperties DEF DaysInv, Dated
  <2>3. QED
    BY <2>1, <2>2 DEF DaysInv, Dated
<1>3. Unsaid' = Unsaid
  BY <1>1 DEF Unsaid
<1>4. DatedNotes'
  BY <1>1, <1>2, <1>3 DEF DaysInv, DatedNotes, Archived
<1>5. QED
  BY <1>1, <1>4, FilesDated DEF DaysInv

LEMMA DistillDated ==
  ASSUME DaysInv, NEW d \in Dreams, DistillSessions(d)
  PROVE  DaysInv'
<1>1. turn' = turn /\ said' = said /\ talk' = talk
  BY DEF DistillSessions, talkVars
<1>2. Unsaid' = Unsaid
  BY <1>1 DEF Unsaid
<1>3. DOMAIN notes' = DOMAIN notes /\ \A x \in Days : notes'[x] \ {Digest} \subseteq notes[x]
  BY DEF DistillSessions, DaysInv, DatedNotes
<1>4. DatedNotes'
  BY <1>1, <1>2, <1>3 DEF DaysInv, DatedNotes
<1>5. QED
  BY <1>1, <1>4, FilesDated DEF DaysInv

LEMMA RollWriteDated ==
  ASSUME DaysInv, NEW d \in Dreams, RollWrite(d)
  PROVE  DaysInv'
<1>1. turn' = turn /\ said' = said /\ notes' = notes /\ talk'.msgs = <<>>
  BY DEF RollWrite
<1>2. Dated(talk', said, Unsaid)
  BY <1>1, EmptySeq DEF Dated
<1>3. DatedNotes'
  BY <1>1, NotesStillDated DEF DaysInv, SpokenStay, Unsaid
<1>4. QED
  BY <1>1, <1>2, <1>3, FilesDated

LEMMA DaysStep == DaysInv /\ [Next]_vars => DaysInv'
<1> SUFFICES ASSUME DaysInv, [Next]_vars
             PROVE  DaysInv'
  OBVIOUS
<1>1. CASE UNCHANGED vars
  BY <1>1, NothingSaidDated DEF vars, talkVars, dreamVars
<1>2. ASSUME NEW t \in Turns, TurnStep(t), UNCHANGED dreamVars
      PROVE  DaysInv'
  BY <1>2, TurnStepDated DEF dreamVars
<1>3. ASSUME NEW t \in Turns, Write(t)
      PROVE  DaysInv'
  BY <1>3, WriteTalkDated DEF Write
<1>4. CASE NextDay /\ UNCHANGED dreamVars
  BY <1>4, NothingSaidDated DEF NextDay, dreamVars
<1>5. ASSUME NEW d \in Dreams, DreamStep(d)
      PROVE  DaysInv'
  <2>1. CASE BeginDream(d)
    BY <2>1, NothingSaidDated DEF BeginDream, talkVars
  <2>2. CASE LightAnswer(d)
    BY <2>2, NothingSaidDated DEF LightAnswer, talkVars
  <2>3. CASE RemAnswer(d)
    BY <2>3, RemAnswerDated
  <2>4. CASE RollRead(d)
    BY <2>4, NothingSaidDated DEF RollRead, talkVars
  <2>5. CASE RollWrite(d)
    BY <2>5, RollWriteDated
  <2>6. CASE Promote(d)
    BY <2>6, NothingSaidDated DEF Promote, talkVars
  <2>7. CASE Prune(d)
    BY <2>7, NothingSaidDated DEF Prune, talkVars
  <2>8. CASE DistillSessions(d)
    BY <2>8, DistillDated
  <2>9. CASE EndDream(d)
    BY <2>9, NothingSaidDated DEF EndDream, talkVars
  <2>10. QED
    BY <1>5, <2>1, <2>2, <2>3, <2>4, <2>5, <2>6, <2>7, <2>8, <2>9 DEF DreamStep
<1>6. ASSUME NEW l \in coming, Remember(l)
      PROVE  DaysInv'
  BY <1>6, NothingSaidDated DEF Remember, talkVars
<1>7. CASE Kill
  BY <1>7, KillDated
<1>8. QED
  BY <1>1, <1>2, <1>3, <1>4, <1>5, <1>6, <1>7 DEF Next

LEMMA DaysMeanOneDay == DaysInv => TalkOfOneDay
<1> SUFFICES ASSUME DaysInv
             PROVE  TalkOfOneDay
  OBVIOUS
<1>1. \A m \in ToSet(talk.msgs) : said[m] = talk.date
  BY DEF DaysInv, Dated, ToSet
<1>2. QED
  BY <1>1 DEF DaysInv, DatedNotes, TalkOfOneDay

(* Whatever turns and dreams interleave, and whoever is killed, DAILY_TALK.md *)
(* and each daily note hold only what was said on the day they are named    *)
(* for: _append_message_sync and _deep_archive_daily_talk.                  *)
THEOREM DaysStayApart == Spec => []TalkOfOneDay
<1>1. Init => DaysInv
  BY DaysInit
<1>2. DaysInv /\ [Next]_vars => DaysInv'
  BY DaysStep
<1>3. DaysInv => TalkOfOneDay
  BY DaysMeanOneDay
<1>4. QED
  BY <1>1, <1>2, <1>3, PTL DEF Spec

-----------------------------------------------------------------------------
(* The secrets.                                                            *)

Clean == {"rem", "rolling", "rollwrite", "promote"}

(* A run that has filtered its candidates, and not yet promoted them, holds *)
(* no secret.                                                              *)
CleanDream(d) ==
  /\ DOMAIN dream[d] = DOMAIN Idle
  /\ dream[d].at \in Clean => \A c \in dream[d].cands : c[1] \notin Secret

SecretInv ==
  /\ DOMAIN dream = Dreams
  /\ \A d \in Dreams : CleanDream(d)
  /\ evidence \cap Secret = {}

LEMMA SecretInit == Init => SecretInv
<1> SUFFICES ASSUME Init
             PROVE  SecretInv
  OBVIOUS
<1> QED
  BY DEF Init, InitDreams, Idle, CleanDream, Clean, SecretInv

(* One run becomes v; if it is clean, it was, or v has been filtered.      *)
LEMMA OneDreamClean ==
  ASSUME SecretInv, NEW d \in Dreams, NEW v,
         dream' = [dream EXCEPT ![d] = v], DOMAIN v = DOMAIN Idle,
         v.at \in Clean => \A c \in v.cands : c[1] \notin Secret,
         evidence' \cap Secret = {}
  PROVE  SecretInv'
BY DEF SecretInv, CleanDream

(* One run takes a step and keeps what it holds.                           *)
LEMMA MovedDreamClean ==
  ASSUME SecretInv, NEW d \in Dreams, NEW step, Moves(d, step),
         step \in Clean => dream[d].at \in Clean,
         evidence' = evidence
  PROVE  SecretInv'
<1> DEFINE v == [dream[d] EXCEPT !.at = step]
<1>1. DOMAIN dream[d] = DOMAIN Idle /\ DOMAIN Idle = {"at", "full", "dry", "cands", "sure",
                                                      "best", "update", "today"}
  BY DEF SecretInv, CleanDream, Idle
<1>2. v.at = step /\ v.cands = dream[d].cands /\ DOMAIN v = DOMAIN Idle
  BY <1>1
<1>3. dream' = [dream EXCEPT ![d] = v]
  BY DEF Moves
<1> HIDE DEF v
<1>4. QED
  BY <1>2, <1>3, OneDreamClean DEF SecretInv, CleanDream

LEMMA OverIsClean == DOMAIN Over = DOMAIN Idle /\ Over.at \notin Clean
BY DEF Over, Idle, Clean

LEMMA BeginDreamClean ==
  ASSUME SecretInv, NEW d \in Dreams, BeginDream(d)
  PROVE  SecretInv'
<1>1. PICK k \in Kinds :
        dream' = [dream EXCEPT ![d] =
                    IF Sources = {} /\ k.full THEN Over
                    ELSE [Idle EXCEPT !.at = "light", !.full = k.full, !.dry = k.dry,
                                      !.cands = Sources]]
  BY DEF BeginDream
<1> DEFINE v == [Idle EXCEPT !.at = "light", !.full = k.full, !.dry = k.dry, !.cands = Sources]
<1>2. DOMAIN v = DOMAIN Idle /\ v.at \notin Clean
  BY DEF Idle, Clean
<1>3. evidence' \cap Secret = {}
  BY DEF BeginDream, SecretInv
<1>4. \E w \in {Over, v} : dream' = [dream EXCEPT ![d] = w]
  BY <1>1
<1> HIDE DEF v
<1>5. QED
  BY <1>2, <1>3, <1>4, OneDreamClean, OverIsClean

(* _filter_secrets stands before everything that is written.               *)
LEMMA LightAnswerClean ==
  ASSUME SecretInv, NEW d \in Dreams, LightAnswer(d)
  PROVE  SecretInv'
<1>1. PICK found \in Found(d) :
        IF dream[d].full
          THEN /\ dream' = [dream EXCEPT ![d] =
                              IF Filtered(found.cands) = {} THEN Over
                              ELSE [@ EXCEPT !.at = "rem", !.cands = Filtered(found.cands),
                                             !.sure = found.sure]]
               /\ evidence' = evidence
          ELSE /\ dream' = [dream EXCEPT ![d] = Over]
               /\ evidence' = evidence \cup Persisted(d, Filtered(found.cands))
  BY DEF LightAnswer
<1> DEFINE kept == Filtered(found.cands)
           v    == [dream[d] EXCEPT !.at = "rem", !.cands = kept, !.sure = found.sure]
<1>2. \A c \in kept : c[1] \notin Secret
  BY DEF Filtered
<1>3. DOMAIN v = DOMAIN Idle /\ v.cands = kept
  BY DEF SecretInv, CleanDream, Idle
<1>5. evidence' \cap Secret = {}
  BY <1>1, <1>2 DEF SecretInv, Persisted
<1>6. \E w \in {Over, v} : dream' = [dream EXCEPT ![d] = w]
  BY <1>1
<1> HIDE DEF v, kept
<1>7. QED
  BY <1>2, <1>3, <1>5, <1>6, OneDreamClean, OverIsClean

LEMMA RemAnswerClean ==
  ASSUME SecretInv, NEW d \in Dreams, RemAnswer(d)
  PROVE  SecretInv'
<1>1. dream[d].at \in Clean /\ \A c \in dream[d].cands : c[1] \notin Secret
  BY DEF RemAnswer, SecretInv, CleanDream, Clean
<1>2. evidence' \cap Secret = {}
  BY <1>1 DEF RemAnswer, SecretInv, Persisted
<1>3. DOMAIN dream[d] = {"at", "full", "dry", "cands", "sure", "best", "update", "today"}
      /\ DOMAIN Idle = DOMAIN dream[d]
  BY DEF SecretInv, CleanDream, Idle
<1>4. PICK s \in Signals(d) :
        \/ dream' = [dream EXCEPT ![d] = Over]
        \/ dream' = [dream EXCEPT ![d].best = s.best, ![d].update = s.update, ![d].today = day,
                       ![d].at = IF dream[d].dry \/ talk.msgs = <<>> THEN "promote"
                                 ELSE "rolling"]
  BY DEF RemAnswer
<1> DEFINE v == [dream[d] EXCEPT !.best = s.best, !.update = s.update, !.today = day,
                   !.at = IF dream[d].dry \/ talk.msgs = <<>> THEN "promote" ELSE "rolling"]
<1>5. DOMAIN v = DOMAIN Idle /\ v.cands = dream[d].cands
  BY <1>3
<1>6. \E w \in {Over, v} : dream' = [dream EXCEPT ![d] = w]
  BY <1>4 DEF SecretInv
<1> HIDE DEF v
<1>7. QED
  BY <1>1, <1>2, <1>5, <1>6, OneDreamClean, OverIsClean

LEMMA PromoteClean ==
  ASSUME SecretInv, NEW d \in Dreams, Promote(d)
  PROVE  SecretInv'
<1> DEFINE v == [Idle EXCEPT !.at = IF memory' = {} THEN "distill" ELSE "score",
                             !.cands = memory', !.update = dream[d].update]
<1>1. \E w \in {Over, v} : dream' = [dream EXCEPT ![d] = w]
  BY DEF Promote
<1>2. DOMAIN v = DOMAIN Idle /\ v.at \notin Clean
  BY DEF Idle, Clean
<1> HIDE DEF v
<1>3. evidence' \cap Secret = {}
  BY DEF Promote, SecretInv
<1> QED
  BY <1>1, <1>2, <1>3, OneDreamClean, OverIsClean

LEMMA PruneClean ==
  ASSUME SecretInv, NEW d \in Dreams, Prune(d)
  PROVE  SecretInv'
<1> DEFINE v == [dream[d] EXCEPT !.at = "distill", !.cands = {}]
<1>1. evidence' = evidence
  BY DEF Prune
<1>2. dream' = [dream EXCEPT ![d] = v]
  BY DEF Prune, SecretInv
<1>3. DOMAIN v = DOMAIN Idle /\ v.at \notin Clean
  BY DEF SecretInv, CleanDream, Idle, Clean
<1> HIDE DEF v
<1>4. QED
  BY <1>1, <1>2, <1>3, OneDreamClean DEF SecretInv

LEMMA SecretStep == SecretInv /\ [Next]_vars => SecretInv'
<1> SUFFICES ASSUME SecretInv, [Next]_vars
             PROVE  SecretInv'
  OBVIOUS
<1>1. ASSUME UNCHANGED <<dream, evidence>>
      PROVE  SecretInv'
  BY <1>1 DEF SecretInv, CleanDream
<1>2. CASE UNCHANGED vars
  BY <1>1, <1>2 DEF vars, dreamVars
<1>3. ASSUME NEW t \in Turns, TurnStep(t), UNCHANGED dreamVars
      PROVE  SecretInv'
  BY <1>1, <1>3 DEF dreamVars
<1>4. ASSUME NEW t \in Turns, Write(t)
      PROVE  SecretInv'
  BY <1>1, <1>4 DEF Write
<1>5. CASE NextDay /\ UNCHANGED dreamVars
  BY <1>1, <1>5 DEF dreamVars
<1>6. ASSUME NEW d \in Dreams, DreamStep(d)
      PROVE  SecretInv'
  <2>1. CASE BeginDream(d)
    BY <2>1, BeginDreamClean
  <2>2. CASE LightAnswer(d)
    BY <2>2, LightAnswerClean
  <2>3. CASE RemAnswer(d)
    BY <2>3, RemAnswerClean
  <2>4. CASE RollRead(d)
    BY <2>4, MovedDreamClean DEF RollRead, Clean
  <2>5. CASE RollWrite(d)
    BY <2>5, MovedDreamClean DEF RollWrite, Clean
  <2>6. CASE Promote(d)
    BY <2>6, PromoteClean
  <2>7. CASE Prune(d)
    BY <2>7, PruneClean
  <2>8. CASE DistillSessions(d)
    BY <2>8, MovedDreamClean DEF DistillSessions, Clean
  <2>9. CASE EndDream(d)
    <3>1. dream' = [dream EXCEPT ![d] = Over] /\ evidence' = evidence
      BY <2>9 DEF EndDream
    <3>2. QED
      BY <3>1, OneDreamClean, OverIsClean DEF SecretInv
  <2>10. QED
    BY <1>6, <2>1, <2>2, <2>3, <2>4, <2>5, <2>6, <2>7, <2>8, <2>9 DEF DreamStep
<1>7. ASSUME NEW l \in coming, Remember(l)
      PROVE  SecretInv'
  BY <1>1, <1>7 DEF Remember
<1>8. CASE Kill
  <2>1. evidence' = evidence
    BY <1>8 DEF Kill
  <2>2. \A d \in Dreams : CleanDream(d)'
    BY <1>8, OverIsClean DEF Kill, SecretInv, CleanDream
  <2>3. QED
    BY <1>8, <2>1, <2>2 DEF Kill, SecretInv
<1>9. QED
  BY <1>2, <1>3, <1>4, <1>5, <1>6, <1>7, <1>8 DEF Next

LEMMA SecretAlways == Spec => []SecretInv
BY SecretInit, SecretStep, PTL DEF Spec

LEMMA DaysAlways == Spec => []DaysInv
BY DaysInit, DaysStep, PTL DEF Spec

(* No candidate whose text looks like a secret comes to the files of       *)
(* candidates or is promoted, by any number of full runs and light         *)
(* ingests, although the talk and the notes they read hold it:             *)
(* _filter_secrets.  Only the distillation of the notes at the end of a    *)
(* dream may write one to MEMORY.md.                                       *)
THEOREM SecretsNeverWritten == Spec => SecretsStayOut
<1>1. SecretInv /\ SecretInv' /\ [Next]_vars =>
        [/\ evidence' \cap Secret = {}
         /\ (memory' \ memory) \cap Secret # {} =>
              \E d \in Dreams : dream[d].at = "gist" /\ dream'[d].at = "done"]_vars
  <2> SUFFICES ASSUME SecretInv, SecretInv', [Next]_vars, NEW m \in (memory' \ memory) \cap Secret
               PROVE  \E d \in Dreams : dream[d].at = "gist" /\ dream'[d].at = "done"
    BY DEF SecretInv
  <2>1. ASSUME NEW d \in Dreams, Promote(d) PROVE FALSE
    <3>1. \A c \in dream[d].cands : c[1] \notin Secret
      BY <2>1 DEF Promote, SecretInv, CleanDream, Clean
    <3>2. PICK alike \in SUBSET dream[d].cands : memory' = memory \cup Promoted(d, alike)
      BY <2>1 DEF Promote
    <3> QED
      BY <3>1, <3>2 DEF Promoted
  <2>2. ASSUME NEW d \in Dreams, EndDream(d) PROVE dream[d].at = "gist" /\ dream'[d].at = "done"
    BY <2>2 DEF EndDream, Over, Idle, SecretInv
  <2>3. ASSUME NEW l \in coming, Remember(l) PROVE FALSE
    <3>1. memory' \subseteq memory \cup Lines
      BY <2>3 DEF Remember
    <3> QED
      BY <3>1, DreamAssumption
  <2>4. ASSUME NEW d \in Dreams, Prune(d) PROVE FALSE
    BY <2>4 DEF Prune, Rewritten
  <2> QED
    BY <2>1, <2>2, <2>3, <2>4
       DEF Next, vars, dreamVars, Write, DreamStep, BeginDream, LightAnswer, RemAnswer,
           RollRead, RollWrite, DistillSessions, Kill
<1> QED
  BY <1>1, SecretAlways, PTL DEF Spec, SecretsStayOut

-----------------------------------------------------------------------------
(* What a run holds.                                                       *)

Known   == Lines \cup Turns
Writing == Rolling \cup {"score", "distill", "gist"}

(* A dry run never comes to the steps that write; until the promotion a    *)
(* run holds messages, then lines of MEMORY.md.                            *)
Holds(v) ==
  /\ v.dry => v.at \notin Writing
  /\ v.at \in Clean \cup {"light"} => \A c \in v.cands : c[1] \in Turns
  /\ v.at = "score" => v.cands \subseteq Known

HeldInv ==
  /\ \A d \in Dreams : Holds(dream[d])
  /\ memory \subseteq Known

LEMMA OverHolds == Holds(Over)
BY DEF Holds, Over, Idle, Writing, Rolling, Clean

LEMMA DreamFields ==
  ASSUME SecretInv, NEW d \in Dreams
  PROVE  DOMAIN dream = Dreams
         /\ DOMAIN dream[d] = {"at", "full", "dry", "cands", "sure", "best", "update", "today"}
BY DEF SecretInv, CleanDream, Idle

LEMMA OneDreamHeld ==
  ASSUME SecretInv, HeldInv, NEW d \in Dreams, NEW v, Holds(v),
         dream' = [dream EXCEPT ![d] = v], memory' \subseteq Known
  PROVE  HeldInv'
BY DreamFields DEF HeldInv

LEMMA MovedDreamHeld ==
  ASSUME SecretInv, HeldInv, NEW d \in Dreams, NEW step, Moves(d, step), memory' = memory,
         \/ dream[d].at \in Rolling /\ step \in {"rollwrite", "promote"}
         \/ dream[d].at = "distill" /\ step = "gist"
  PROVE  HeldInv'
<1> DEFINE v == [dream[d] EXCEPT !.at = step]
<1>1. v.at = step /\ v.cands = dream[d].cands /\ v.dry = dream[d].dry
  BY DreamFields
<1>2. dream' = [dream EXCEPT ![d] = v]
  BY DEF Moves
<1> HIDE DEF v
<1>3. Holds(v)
  BY <1>1 DEF HeldInv, Holds, Writing, Rolling, Clean
<1> QED
  BY <1>2, <1>3, OneDreamHeld DEF HeldInv

LEMMA SourcesAreTurns == DaysInv => \A c \in Sources : c[1] \in Turns
<1> SUFFICES ASSUME DaysInv, NEW c \in Sources PROVE c[1] \in Turns
  OBVIOUS
<1>1. CASE c \in {<<m, 0>> : m \in ToSet(talk.msgs)}
  <2>1. PICK i \in DOMAIN talk.msgs : c = <<talk.msgs[i], 0>>
    BY <1>1 DEF ToSet
  <2>2. talk.msgs[i] \in Turns
    BY <2>1, ElementOfSeq, LenProperties DEF DaysInv, Dated
  <2> QED
    BY <2>1, <2>2
<1>2. CASE c \in Turns \X Days
  BY <1>2
<1> QED
  BY <1>1, <1>2 DEF Sources

LEMMA HeldStep ==
  ASSUME DaysInv, SecretInv, HeldInv, NEW d \in Dreams, DreamStep(d)
  PROVE  HeldInv'
<1>0. memory \subseteq Known
  BY DEF HeldInv
<1>1. CASE BeginDream(d)
  <2>1. PICK k \in Kinds :
          dream' = [dream EXCEPT ![d] =
                      IF Sources = {} /\ k.full THEN Over
                      ELSE [Idle EXCEPT !.at = "light", !.full = k.full, !.dry = k.dry,
                                        !.cands = Sources]]
    BY <1>1 DEF BeginDream
  <2> DEFINE v == [Idle EXCEPT !.at = "light", !.full = k.full, !.dry = k.dry, !.cands = Sources]
  <2>2. v.at = "light" /\ v.cands = Sources
    BY DEF Idle
  <2>3. \E w \in {Over, v} : dream' = [dream EXCEPT ![d] = w]
    BY <2>1
  <2> HIDE DEF v
  <2>4. Holds(v)
    BY <2>2, SourcesAreTurns DEF Holds, Writing, Rolling
  <2> QED
    BY <1>0, <1>1, <2>3, <2>4, OverHolds, OneDreamHeld DEF BeginDream
<1>2. CASE LightAnswer(d)
  <2>1. PICK found \in Found(d) :
          IF dream[d].full
            THEN dream' = [dream EXCEPT ![d] =
                             IF Filtered(found.cands) = {} THEN Over
                             ELSE [@ EXCEPT !.at = "rem", !.cands = Filtered(found.cands),
                                            !.sure = found.sure]]
            ELSE dream' = [dream EXCEPT ![d] = Over]
    BY <1>2 DEF LightAnswer
  <2> DEFINE kept == Filtered(found.cands)
             v    == [dream[d] EXCEPT !.at = "rem", !.cands = kept, !.sure = found.sure]
  <2>2. \A c \in kept : c[1] \in Turns
    <3>1. found.cands \subseteq dream[d].cands
      BY DEF Found
    <3> QED
      BY <1>2, <3>1 DEF LightAnswer, Filtered, HeldInv, Holds
  <2>3. v.at = "rem" /\ v.cands = kept /\ v.dry = dream[d].dry
    BY DreamFields
  <2>4. \E w \in {Over, v} : dream' = [dream EXCEPT ![d] = w]
    BY <2>1, DreamFields
  <2> HIDE DEF v, kept
  <2>5. Holds(v)
    BY <2>2, <2>3 DEF Holds, Writing, Rolling
  <2> QED
    BY <1>0, <1>2, <2>4, <2>5, OverHolds, OneDreamHeld DEF LightAnswer
<1>3. CASE RemAnswer(d)
  <2>1. PICK s \in Signals(d) :
          \/ dream' = [dream EXCEPT ![d] = Over]
          \/ dream' = [dream EXCEPT ![d].best = s.best, ![d].update = s.update, ![d].today = day,
                         ![d].at = IF dream[d].dry \/ talk.msgs = <<>> THEN "promote"
                                   ELSE "rolling"]
    BY <1>3 DEF RemAnswer
  <2> DEFINE v == [dream[d] EXCEPT !.best = s.best, !.update = s.update, !.today = day,
                     !.at = IF dream[d].dry \/ talk.msgs = <<>> THEN "promote" ELSE "rolling"]
  <2>2. /\ v.cands = dream[d].cands /\ v.dry = dream[d].dry
        /\ v.at \in {"promote", "rolling"} /\ (dream[d].dry => v.at = "promote")
    BY DreamFields
  <2>3. \E w \in {Over, v} : dream' = [dream EXCEPT ![d] = w]
    BY <2>1, DreamFields
  <2> HIDE DEF v
  <2>4. Holds(v)
    BY <1>3, <2>2 DEF RemAnswer, HeldInv, Holds, Writing, Rolling, Clean
  <2> QED
    BY <1>0, <1>3, <2>3, <2>4, OverHolds, OneDreamHeld DEF RemAnswer
<1>4. CASE RollRead(d) \/ RollWrite(d)
  <2>1. PICK step \in {"rollwrite", "promote"} : Moves(d, step)
    BY <1>4 DEF RollRead, RollWrite
  <2> QED
    BY <1>4, <2>1, MovedDreamHeld DEF RollRead, RollWrite, Rolling
<1>5. CASE Promote(d)
  <2>1. CASE dream[d].dry
    BY <1>0, <1>5, <2>1, OverHolds, OneDreamHeld DEF Promote
  <2>2. CASE ~dream[d].dry
    <3> DEFINE v == [Idle EXCEPT !.at = IF memory' = {} THEN "distill" ELSE "score",
                                 !.cands = memory', !.update = dream[d].update]
    <3>1. PICK alike \in SUBSET dream[d].cands : memory' = memory \cup Promoted(d, alike)
      BY <1>5, <2>2 DEF Promote
    <3>2. Promoted(d, alike) \subseteq Turns
      BY <1>5 DEF Promote, Promoted, HeldInv, Holds, Clean
    <3>3. memory' \subseteq Known
      BY <1>0, <3>1, <3>2 DEF Known
    <3>4. dream' = [dream EXCEPT ![d] = v]
      BY <1>5, <2>2 DEF Promote
    <3>5. ~v.dry /\ v.cands = memory' /\ v.at \in {"distill", "score"}
      BY DEF Idle
    <3> HIDE DEF v
    <3>6. Holds(v)
      BY <3>3, <3>5 DEF Holds, Clean
    <3> QED
      BY <3>3, <3>4, <3>6, OneDreamHeld
  <2> QED
    BY <2>1, <2>2
<1>6. CASE Prune(d)
  <2> DEFINE v == [dream[d] EXCEPT !.at = "distill", !.cands = {}]
  <2>1. memory' \subseteq Known
    BY <1>0, <1>6 DEF Prune, Rewritten
  <2>2. dream' = [dream EXCEPT ![d] = v]
    BY <1>6, DreamFields DEF Prune
  <2>3. v.at = "distill" /\ v.dry = dream[d].dry
    BY DreamFields
  <2> HIDE DEF v
  <2>4. Holds(v)
    BY <1>6, <2>3 DEF Prune, HeldInv, Holds, Writing, Clean
  <2> QED
    BY <2>1, <2>2, <2>4, OneDreamHeld
<1>7. CASE DistillSessions(d)
  BY <1>7, MovedDreamHeld DEF DistillSessions
<1>8. CASE EndDream(d)
  <2>1. memory' \subseteq Known
    BY <1>0, <1>8 DEF EndDream, Gists, DaysInv, DatedNotes, Known
  <2> QED
    BY <1>8, <2>1, OverHolds, OneDreamHeld DEF EndDream
<1> QED
  BY <1>1, <1>2, <1>3, <1>4, <1>5, <1>6, <1>7, <1>8 DEF DreamStep

LEMMA HeldAlways == Spec => []HeldInv
<1>1. Init => HeldInv
  <2> SUFFICES ASSUME Init PROVE HeldInv
    OBVIOUS
  <2>1. PICK o \in Openings : memory = o.memory
    BY DEF Init, InitDreams
  <2> QED
    BY <2>1, DreamAssumption DEF Init, InitDreams, HeldInv, Holds, Idle, Writing, Rolling,
                                Clean, Known
<1>2. DaysInv /\ SecretInv /\ HeldInv /\ [Next]_vars => HeldInv'
  <2> SUFFICES ASSUME DaysInv, SecretInv, HeldInv, [Next]_vars PROVE HeldInv'
    OBVIOUS
  <2>1. CASE UNCHANGED <<dream, memory>>
    BY <2>1 DEF HeldInv
  <2>2. ASSUME NEW d \in Dreams, DreamStep(d) PROVE HeldInv'
    BY <2>2, HeldStep
  <2>3. ASSUME NEW l \in coming, Remember(l) PROVE HeldInv'
    BY <2>3 DEF Remember, HeldInv, Known
  <2>4. CASE Kill
    BY <2>4, OverHolds DEF Kill, HeldInv
  <2> QED
    BY <2>1, <2>2, <2>3, <2>4 DEF Next, vars, dreamVars, Write
<1> QED
  BY <1>1, <1>2, DaysAlways, SecretAlways, PTL DEF Spec

-----------------------------------------------------------------------------
(* Dry runs.                                                               *)

LEMMA DryStepWritesNothing ==
  ASSUME SecretInv, HeldInv, NEW d \in Dreams, DreamStep(d), dream[d].dry
  PROVE  files' = files
<1>1. dream[d].at \notin Writing
  BY DEF HeldInv, Holds
<1>2. CASE BeginDream(d)
  BY <1>2 DEF BeginDream, files, talkVars
<1>3. CASE LightAnswer(d)
  <2>1. evidence' = evidence /\ status' = status
    BY <1>3 DEF LightAnswer, Persisted
  <2> QED
    BY <1>3, <2>1 DEF LightAnswer, files, talkVars
<1>4. CASE RemAnswer(d)
  <2>1. evidence' = evidence /\ notes' = notes /\ status' = status
    BY <1>4 DEF RemAnswer, Persisted
  <2> QED
    BY <1>4, <2>1 DEF RemAnswer, files, talkVars
<1>5. CASE Promote(d)
  BY <1>5 DEF Promote, files, talkVars
<1> QED
  BY <1>1, <1>2, <1>3, <1>4, <1>5
     DEF DreamStep, RollRead, RollWrite, Prune, DistillSessions, EndDream, Writing, Rolling

(* A dry run leaves every file as it was, in each of its phases, whatever  *)
(* else goes on: the checks of _persist_candidates, of the archive, of the *)
(* promotion and of the status are in the right places.                    *)
THEOREM DryRunsAreDry == Spec => DryRunsLeaveNoTrace
<1>1. SecretInv /\ HeldInv /\ [Next]_vars =>
        [\A d \in Dreams : dream'[d] # dream[d] /\ dream[d].dry => files' = files]_vars
  <2> SUFFICES ASSUME SecretInv, HeldInv, [Next]_vars,
                      NEW d \in Dreams, dream'[d] # dream[d], dream[d].dry
               PROVE  files' = files
    OBVIOUS
  <2>1. ASSUME NEW e \in Dreams, DreamStep(e) PROVE files' = files
    <3>1. CASE e = d
      BY <2>1, <3>1, DryStepWritesNothing
    <3>2. CASE e # d
      <4>1. \E v : dream' = [dream EXCEPT ![e] = v]
        BY <2>1 DEF DreamStep, BeginDream, LightAnswer, RemAnswer, RollRead, RollWrite,
                    Promote, Prune, DistillSessions, EndDream, Moves
      <4> QED
        BY <3>2, <4>1, DreamFields
    <3> QED
      BY <3>1, <3>2
  <2>2. CASE Kill
    BY <2>2 DEF Kill, TurnsKilled, files
  <2> QED
    BY <2>1, <2>2 DEF Next, vars, dreamVars, Write, Remember
<1> QED
  BY <1>1, SecretAlways, HeldAlways, PTL DEF Spec, DryRunsLeaveNoTrace

-----------------------------------------------------------------------------
(* What MEMORY.md forgets.                                                 *)

(* Every line chosen was scored and found to be in no protected class.     *)
LEMMA ChosenAreForgettable ==
  ASSUME NEW lines \in SUBSET Known, NEW v \in Verdicts(lines),
         NEW chosen \in PruneChoices(lines, v), NEW x \in chosen
  PROVE  x \in lines /\ \E c \in Reclassified(LineOf[x]) : ~Protected(c)
<1>1. x \in lines /\ ~v[x].kept
  BY DEF PruneChoices, kSubset
<1> DEFINE View(c) == [kept |-> Protected(c), score |-> FinalScore(LineOf[x], c)]
<1>2. Outlook[x] = {View(c) : c \in Reclassified(LineOf[x])}
  BY <1>1 DEF Outlook, Known
<1>3. Parsed(LineOf[x]) \in Reclassified(LineOf[x])
  BY DEF Reclassified
<1>4. (CHOOSE o \in Outlook[x] : TRUE) \in Outlook[x]
  BY <1>2, <1>3
<1>5. v[x] \in Outlook[x]
  BY <1>1, <1>4 DEF Verdicts
<1>6. PICK c \in Reclassified(LineOf[x]) : v[x] = View(c)
  BY <1>2, <1>5
<1>7. ~Protected(c)
  BY <1>1, <1>6
<1> QED
  BY <1>1, <1>7

(* MEMORY.md loses a line only if its text contains an entry that was      *)
(* scored, may be forgotten and is in the archive: _deep_prune reads the   *)
(* file again before it rewrites it.                                       *)
THEOREM OnlyForgettable == Spec => KeptUnlessForgettable
<1>1. SecretInv /\ HeldInv /\ [Next]_vars =>
        [\A l \in memory \ memory' : \E x \in Mentions[l] \cap pruned' :
           /\ \E c \in Reclassified(LineOf[x]) : ~Protected(c)
           /\ \E d \in Dreams : dream[d].at = "score" /\ x \in dream[d].cands]_vars
  <2> SUFFICES ASSUME SecretInv, HeldInv, [Next]_vars, NEW l \in memory \ memory'
               PROVE  \E x \in Mentions[l] \cap pruned' :
                        /\ \E c \in Reclassified(LineOf[x]) : ~Protected(c)
                        /\ \E d \in Dreams : dream[d].at = "score" /\ x \in dream[d].cands
    OBVIOUS
  <2>1. ASSUME NEW d \in Dreams, Prune(d)
        PROVE  \E x \in Mentions[l] \cap pruned' :
                 /\ \E c \in Reclassified(LineOf[x]) : ~Protected(c)
                 /\ \E e \in Dreams : dream[e].at = "score" /\ x \in dream[e].cands
    <3> DEFINE lines == dream[d].cands
    <3>1. dream[d].at = "score" /\ lines \subseteq Known
      BY <2>1 DEF Prune, HeldInv, Holds
    <3>2. PICK chosen \in (UNION {PruneChoices(lines, v) : v \in Verdicts(lines)}) \cup {{}} :
            memory' = Rewritten(lines, chosen) /\ pruned' = pruned \cup chosen
      BY <2>1 DEF Prune, Pruned
    <3>3. PICK x : x \in Mentions[l] \cap chosen
      BY <3>2 DEF Rewritten
    <3>4. PICK v \in Verdicts(lines) : chosen \in PruneChoices(lines, v)
      BY <3>2, <3>3
    <3>5. x \in lines /\ \E c \in Reclassified(LineOf[x]) : ~Protected(c)
      BY <3>1, <3>3, <3>4, ChosenAreForgettable
    <3> QED
      BY <3>1, <3>2, <3>3, <3>5
  <2>2. CASE memory' = memory
    BY <2>2
  <2>3. ASSUME NEW d \in Dreams, Promote(d) \/ EndDream(d) PROVE memory \subseteq memory'
    BY <2>3 DEF Promote, EndDream
  <2>4. ASSUME NEW k \in coming, Remember(k) PROVE memory \subseteq memory'
    BY <2>4 DEF Remember
  <2> QED
    BY <2>1, <2>2, <2>3, <2>4
       DEF Next, vars, dreamVars, Write, DreamStep, BeginDream, LightAnswer, RemAnswer,
           RollRead, RollWrite, DistillSessions, Kill
<1> QED
  BY <1>1, SecretAlways, HeldAlways, PTL DEF Spec, KeptUnlessForgettable

-----------------------------------------------------------------------------
(* What a dream throws away.                                               *)

(* What is in the talk was said on a day there is a note for.              *)
KnownDays ==
  /\ day \in Days
  /\ \A t \in Turns : turn[t].at = "write" => turn[t].today \in Days
  /\ talk.msgs # <<>> => talk.date \in Days

LEMMA KnownDaysStep ==
  ASSUME DaysInv, KnownDays, [Next]_vars
  PROVE  KnownDays'
<1>0. DOMAIN turn = Turns /\ \A t \in Turns : DOMAIN turn[t] = {"at", "today", "old"}
  BY DEF DaysInv, DatedTurn
<1>1. CASE UNCHANGED <<day, talk, turn>>
  BY <1>1 DEF KnownDays
<1>2. ASSUME NEW t \in Turns, TurnStep(t) PROVE KnownDays'
  <2>1. CASE CheckRollover(t) \/ ContextBuilt(t)
    <3>1. PICK step \in {"context", "append", "done"} : turn' = [turn EXCEPT ![t].at = step]
      BY <2>1 DEF CheckRollover, ContextBuilt
    <3>2. turn'[t].at = step /\ \A r \in Turns \ {t} : turn'[r] = turn[r]
      BY <1>0, <3>1
    <3> QED
      BY <2>1, <3>2 DEF KnownDays, CheckRollover, ContextBuilt
  <2>2. CASE ReadTalk(t)
    <3>1. turn'[t].at = "write" => turn'[t].today = day
      BY <1>0, <2>2 DEF ReadTalk
    <3>2. \A r \in Turns \ {t} : turn'[r] = turn[r]
      BY <1>0, <2>2 DEF ReadTalk
    <3> QED
      BY <2>2, <3>1, <3>2 DEF KnownDays, ReadTalk
  <2> QED
    BY <1>2, <2>1, <2>2 DEF TurnStep
<1>3. ASSUME NEW t \in Turns, Write(t) PROVE KnownDays'
  BY <1>0, <1>3 DEF KnownDays, Write, WriteTalk, Appended
<1>4. CASE NextDay
  BY <1>4, TalkAssumption DEF KnownDays, NextDay, Days
<1>5. ASSUME NEW d \in Dreams, RollWrite(d) PROVE KnownDays'
  BY <1>5 DEF KnownDays, RollWrite
<1>6. CASE Kill
  BY <1>6 DEF KnownDays, Kill, TurnsKilled
<1> QED
  BY <1>1, <1>2, <1>3, <1>4, <1>5, <1>6
     DEF Next, vars, talkVars, DreamStep, BeginDream, LightAnswer, RemAnswer, RollRead,
         Promote, Prune, DistillSessions, EndDream, Remember

LEMMA KnownDaysAlways == Spec => []KnownDays
<1>1. Init => KnownDays
  <2> SUFFICES ASSUME Init PROVE KnownDays
    OBVIOUS
  <2>1. PICK o \in Openings : InitTalk(o.talk, o.over, o.kills)
    BY DEF Init, InitDreams
  <2> QED
    BY <2>1, DreamAssumption, TalkAssumption DEF InitTalk, KnownDays, Days
<1>2. DaysInv /\ KnownDays /\ [Next]_vars => KnownDays'
  BY KnownDaysStep
<1> QED
  BY <1>1, <1>2, DaysAlways, PTL DEF Spec

(* While a dream is between the archive and the end of its rollover, what  *)
(* is in the talk is in the note of its day, or came there meanwhile.      *)
Rolls == \E d \in Dreams : dream[d].at \in Rolling
Kept  == \A m \in ToSet(talk.msgs) : m \in notes[said[m]] \cup late

LEMMA TalkIsSaid ==
  ASSUME DaysInv, KnownDays, NEW m \in ToSet(talk.msgs)
  PROVE  m \in Turns /\ m \notin Unsaid /\ said[m] = talk.date /\ talk.date \in Days
<1>1. PICK i \in DOMAIN talk.msgs : m = talk.msgs[i]
  BY DEF ToSet
<1>2. m \in Turns
  BY <1>1, ElementOfSeq, LenProperties DEF DaysInv, Dated
<1>3. talk.msgs # <<>>
  BY <1>1
<1> QED
  BY <1>1, <1>2, <1>3 DEF DaysInv, Dated, KnownDays

LEMMA RollsStep ==
  ASSUME SecretInv, NEW d \in Dreams, NEW v, dream' = [dream EXCEPT ![d] = v],
         v.at \notin Rolling, Rolls'
  PROVE  Rolls
BY DreamFields DEF Rolls

LEMMA KeptStep ==
  ASSUME DaysInv, SecretInv, KnownDays, Rolls => Kept, [Next]_vars, Rolls'
  PROVE  Kept'
<1>1. ASSUME Rolls, UNCHANGED <<talk, late, said, notes>> PROVE Kept'
  BY <1>1 DEF Kept
<1>2. CASE UNCHANGED vars
  BY <1>1, <1>2 DEF vars, talkVars, dreamVars, Rolls
<1>3. ASSUME NEW t \in Turns, TurnStep(t), UNCHANGED dreamVars PROVE Kept'
  <2>1. \A m \in ToSet(talk.msgs) : said'[m] = said[m]
    <3>1. said' = said \/ (said' = [said EXCEPT ![t] = day] /\ t \in Unsaid)
      BY <1>3 DEF TurnStep, CheckRollover, ContextBuilt, ReadTalk, Unsaid
    <3>2. \A m \in ToSet(talk.msgs) : m \in Turns \ Unsaid
      BY TalkIsSaid
    <3> QED
      BY <3>1, <3>2 DEF DaysInv
  <2>2. Rolls /\ talk' = talk /\ notes' = notes /\ late' = late
    BY <1>3 DEF TurnStep, CheckRollover, ContextBuilt, ReadTalk, dreamVars, Rolls
  <2> QED
    BY <2>1, <2>2 DEF Kept
<1>4. ASSUME NEW t \in Turns, Write(t) PROVE Kept'
  <2>1. Rolls /\ said' = said /\ notes' = notes
    BY <1>4 DEF Write, WriteTalk, Rolls
  <2>2. late' = late \cup (ToSet(talk'.msgs) \ ToSet(talk.msgs))
    BY <1>4, <2>1 DEF Write, Rolls
  <2> QED
    BY <2>1, <2>2 DEF Kept
<1>5. CASE NextDay /\ UNCHANGED dreamVars
  BY <1>1, <1>5 DEF NextDay, dreamVars, Rolls
<1>6. ASSUME NEW d \in Dreams, DreamStep(d) PROVE Kept'
  <2>1. CASE /\ UNCHANGED <<talk, late, said, notes>>
             /\ \/ dream[d].at \in Rolling
                \/ \E v : dream' = [dream EXCEPT ![d] = v] /\ v.at \notin Rolling
    BY <1>1, <2>1, RollsStep DEF Rolls
  <2>2. CASE BeginDream(d)
    <3>1. PICK k \in Kinds :
            dream' = [dream EXCEPT ![d] =
                        IF Sources = {} /\ k.full THEN Over
                        ELSE [Idle EXCEPT !.at = "light", !.full = k.full, !.dry = k.dry,
                                          !.cands = Sources]]
      BY <2>2 DEF BeginDream
    <3> DEFINE v == IF Sources = {} /\ k.full THEN Over
                    ELSE [Idle EXCEPT !.at = "light", !.full = k.full, !.dry = k.dry,
                                      !.cands = Sources]
    <3>2. v.at \notin Rolling
      BY DEF Over, Idle, Rolling
    <3> QED
      BY <2>1, <2>2, <3>1, <3>2 DEF BeginDream, talkVars
  <2>3. CASE LightAnswer(d)
    <3>1. \E w, v : dream' = [dream EXCEPT ![d] = v]
                    /\ v \in {Over, [dream[d] EXCEPT !.at = "rem", !.cands = w[1], !.sure = w[2]]}
      <4>1. PICK found \in Found(d) :
              IF dream[d].full
                THEN dream' = [dream EXCEPT ![d] =
                                 IF Filtered(found.cands) = {} THEN Over
                                 ELSE [@ EXCEPT !.at = "rem", !.cands = Filtered(found.cands),
                                                !.sure = found.sure]]
                ELSE dream' = [dream EXCEPT ![d] = Over]
        BY <2>3 DEF LightAnswer
      <4> DEFINE w == <<Filtered(found.cands), found.sure>>
      <4>2. w[1] = Filtered(found.cands) /\ w[2] = found.sure
        OBVIOUS
      <4> QED
        BY <4>1, <4>2, DreamFields
    <3>2. PICK w, v : dream' = [dream EXCEPT ![d] = v]
                      /\ v \in {Over, [dream[d] EXCEPT !.at = "rem", !.cands = w[1], !.sure = w[2]]}
      BY <3>1
    <3>3. v.at \notin Rolling
      BY <3>2, DreamFields DEF Over, Idle, Rolling
    <3> QED
      BY <2>1, <2>3, <3>2, <3>3 DEF LightAnswer, talkVars
  <2>4. CASE RemAnswer(d)
    <3>1. talk' = talk /\ said' = said /\ late' = late
      BY <2>4 DEF RemAnswer, talkVars
    <3>2. CASE notes' = Archived
      <4>1. \A m \in ToSet(talk.msgs) : m \in notes'[said[m]]
        BY <3>2, TalkIsSaid DEF Archived, DaysInv, DatedNotes
      <4> QED
        BY <3>1, <4>1 DEF Kept
    <3>3. CASE notes' # Archived
      <4>1. PICK s \in Signals(d) :
              \/ dream' = [dream EXCEPT ![d] = Over] /\ notes' = notes
              \/ /\ dream' = [dream EXCEPT ![d].best = s.best, ![d].update = s.update,
                                ![d].today = day,
                                ![d].at = IF dream[d].dry \/ talk.msgs = <<>> THEN "promote"
                                          ELSE "rolling"]
                 /\ dream[d].dry \/ talk.msgs = <<>>
                 /\ notes' = notes
        BY <2>4, <3>3 DEF RemAnswer
      <4> DEFINE v == [dream[d] EXCEPT !.best = s.best, !.update = s.update, !.today = day,
                         !.at = "promote"]
      <4>2. Over.at \notin Rolling /\ v.at \notin Rolling
        BY DreamFields DEF Over, Idle, Rolling
      <4>3. notes' = notes /\ \E w \in {Over, v} : dream' = [dream EXCEPT ![d] = w]
        BY <4>1, DreamFields
      <4> HIDE DEF v
      <4> QED
        BY <2>1, <3>1, <4>2, <4>3
    <3> QED
      BY <3>2, <3>3
  <2>5. CASE RollRead(d)
    BY <2>1, <2>5 DEF RollRead, talkVars, Rolling
  <2>6. CASE RollWrite(d)
    BY <2>6 DEF RollWrite, Kept, ToSet
  <2>7. CASE Promote(d)
    <3> DEFINE v == [Idle EXCEPT !.at = IF memory' = {} THEN "distill" ELSE "score",
                                 !.cands = memory', !.update = dream[d].update]
    <3>1. \E w \in {Over, v} : dream' = [dream EXCEPT ![d] = w]
      BY <2>7 DEF Promote
    <3>2. Over.at \notin Rolling /\ v.at \notin Rolling
      BY DEF Over, Idle, Rolling
    <3> HIDE DEF v
    <3> QED
      BY <2>1, <2>7, <3>1, <3>2 DEF Promote, talkVars
  <2>8. CASE Prune(d)
    <3> DEFINE v == [dream[d] EXCEPT !.at = "distill", !.cands = {}]
    <3>1. dream' = [dream EXCEPT ![d] = v]
      BY <2>8, DreamFields DEF Prune
    <3>2. v.at \notin Rolling
      BY DreamFields DEF Rolling
    <3> HIDE DEF v
    <3> QED
      BY <2>1, <2>8, <3>1, <3>2 DEF Prune, talkVars
  <2>9. CASE DistillSessions(d)
    <3>1. Rolls
      <4> DEFINE v == [dream[d] EXCEPT !.at = "gist"]
      <4>1. dream' = [dream EXCEPT ![d] = v] /\ v.at \notin Rolling
        BY <2>9, DreamFields DEF DistillSessions, Moves, Rolling
      <4> HIDE DEF v
      <4> QED
        BY <4>1, RollsStep
    <3>2. DOMAIN notes = Days /\ notes' \in {notes, [notes EXCEPT ![day] = @ \cup {Digest}]}
      BY <2>9 DEF DistillSessions, DaysInv, DatedNotes
    <3>3. \A m \in ToSet(talk.msgs) : notes[said[m]] \subseteq notes'[said[m]]
      BY <3>2, TalkIsSaid
    <3> QED
      BY <2>9, <3>1, <3>3 DEF DistillSessions, talkVars, Kept
  <2>10. CASE EndDream(d)
    <3>1. Over.at \notin Rolling
      BY DEF Over, Idle, Rolling
    <3> QED
      BY <2>1, <2>10, <3>1 DEF EndDream, talkVars
  <2> QED
    BY <1>6, <2>2, <2>3, <2>4, <2>5, <2>6, <2>7, <2>8, <2>9, <2>10 DEF DreamStep
<1>7. ASSUME NEW l \in coming, Remember(l) PROVE Kept'
  BY <1>1, <1>7 DEF Remember, talkVars, Rolls
<1>8. CASE Kill
  <2>1. ~Rolls'
    BY <1>8 DEF Kill, Rolls, Rolling, Over, Idle
  <2> QED
    BY <2>1
<1> QED
  BY <1>2, <1>3, <1>4, <1>5, <1>6, <1>7, <1>8 DEF Next

LEMMA KeptAlways == Spec => [](Rolls => Kept)
<1>1. Init => (Rolls => Kept)
  BY DEF Init, InitDreams, Rolls, Rolling, Idle
<1>2. DaysInv /\ SecretInv /\ KnownDays /\ (Rolls => Kept) /\ [Next]_vars => (Rolls => Kept)'
  BY KeptStep
<1> QED
  BY <1>1, <1>2, DaysAlways, SecretAlways, KnownDaysAlways, PTL DEF Spec

(* A dream throws away no message of the talk that is not in the note of   *)
(* its day, or came into the talk after the archive: by any number of      *)
(* dreams and turns, kills and failures of the archive.                    *)
THEOREM NothingDiscarded == Spec => DiscardedIsArchived
<1>1. DaysInv /\ (Rolls => Kept) /\ [Next]_vars =>
        [talk' # talk /\ turn' = turn =>
           \A m \in ToSet(talk.msgs) : m \in notes[said[m]] \cup late]_vars
  <2> SUFFICES ASSUME DaysInv, Rolls => Kept, [Next]_vars, talk' # talk, turn' = turn
               PROVE  Kept
    BY DEF Kept
  <2>1. ASSUME NEW d \in Dreams, RollWrite(d) PROVE Kept
    BY <2>1 DEF RollWrite, Rolls, Rolling
  <2>2. ASSUME NEW t \in Turns, Write(t) PROVE FALSE
    <3>1. turn[t].at = "write" /\ turn'[t].at = "done"
      BY <2>2 DEF Write, WriteTalk, DaysInv
    <3> QED
      BY <3>1
  <2> QED
    BY <2>1, <2>2
       DEF Next, vars, talkVars, dreamVars, TurnStep, CheckRollover, ContextBuilt, ReadTalk,
           NextDay, DreamStep, BeginDream, LightAnswer, RemAnswer, RollRead, Promote, Prune,
           DistillSessions, EndDream, Remember, Kill, TurnsKilled
<1> QED
  BY <1>1, DaysAlways, KeptAlways, PTL DEF Spec, DiscardedIsArchived

-----------------------------------------------------------------------------
(* USER.md.                                                                *)

Writable == Words \cup {"begin", "block", "end"}

WellKept(text) == text \in Seq(Writable) /\ Own(text) \in Seq(Words)

LEMMA MarkersAre == ToSet(Section) = {"begin", "block", "end"}
<1>1. DOMAIN Section = 1 .. 3 /\ Section[1] = "begin" /\ Section[2] = "block" /\ Section[3] = "end"
  BY DEF Section
<1>2. 1 .. 3 = {1, 2, 3}
  OBVIOUS
<1> QED
  BY <1>1, <1>2 DEF ToSet

LEMMA WordsAre ==
  /\ Words \subseteq Writable /\ "begin" \in Writable /\ "block" \in Writable /\ "end" \in Writable
  /\ "begin" \notin Words /\ "block" \notin Words /\ "end" \notin Words
BY MarkersAre, DreamAssumption DEF Writable

LEMMA WordAt ==
  ASSUME NEW X, NEW s \in Seq(X)
  PROVE  Len(s) \in Nat /\ \A i \in 1 .. Len(s) : s[i] \in X
BY LenProperties, ElementOfSeq

LEMMA PartOf ==
  ASSUME NEW X, NEW s \in Seq(X), NEW m \in Nat \ {0}, NEW n \in Nat, m <= n + 1, n <= Len(s)
  PROVE  /\ SubSeq(s, m, n) \in Seq(X) /\ Len(SubSeq(s, m, n)) = n + 1 - m
         /\ \A i \in 1 .. (n + 1 - m) : SubSeq(s, m, n)[i] = s[m + i - 1]
OBVIOUS

LEMMA SameSeq ==
  ASSUME NEW X, NEW a \in Seq(X), NEW b \in Seq(X), Len(a) = Len(b),
         \A i \in 1 .. Len(a) : a[i] = b[i]
  PROVE  a = b
OBVIOUS

(* The elements of a \o b are those of a, and then those of b.             *)
Joins(c, a, b, X) ==
  /\ c \in Seq(X) /\ Len(c) = Len(a) + Len(b) /\ Len(a) \in Nat /\ Len(b) \in Nat
  /\ \A i \in 1 .. Len(a) : c[i] = a[i]
  /\ \A i \in 1 .. Len(b) : c[Len(a) + i] = b[i]

LEMMA JoinAt ==
  ASSUME NEW X, NEW a \in Seq(X), NEW b \in Seq(X)
  PROVE  Joins(a \o b, a, b, X)
<1> DEFINE c == a \o b
<1>1. /\ c \in Seq(X) /\ Len(c) = Len(a) + Len(b) /\ Len(a) \in Nat /\ Len(b) \in Nat
      /\ \A i \in 1 .. (Len(a) + Len(b)) : c[i] = IF i <= Len(a) THEN a[i] ELSE b[i - Len(a)]
  BY ConcatProperties, LenProperties
<1> HIDE DEF c
<1>2. ASSUME NEW i \in 1 .. Len(a) PROVE c[i] = a[i]
  BY <1>1
<1>3. ASSUME NEW i \in 1 .. Len(b) PROVE c[Len(a) + i] = b[i]
  <2>1. /\ Len(a) + i \in 1 .. (Len(a) + Len(b)) /\ ~(Len(a) + i <= Len(a))
        /\ Len(a) + i - Len(a) = i
    BY <1>1
  <2> QED
    BY <1>1, <2>1
<1> QED
  BY <1>1, <1>2, <1>3 DEF Joins, c

(* A text with a section between p and q                                   *)
Holding(p, q) == (p \o Section) \o q

LEMMA HoldingAt ==
  ASSUME NEW p \in Seq(Words), NEW q \in Seq(Words)
  PROVE  LET t == Holding(p, q)
             k == Len(p)
         IN  /\ t \in Seq(Writable) /\ k \in Nat /\ Len(q) \in Nat /\ Len(t) = k + 3 + Len(q)
             /\ \A i \in 1 .. k : t[i] = p[i]
             /\ t[k + 1] = "begin" /\ t[k + 2] = "block" /\ t[k + 3] = "end"
             /\ \A i \in 1 .. Len(q) : t[k + 3 + i] = q[i]
<1> DEFINE k == Len(p)
           a == p \o Section
           t == Holding(p, q)
<1>1. p \in Seq(Writable) /\ q \in Seq(Writable)
  BY WordsAre, SeqMonotonic
<1>2. /\ Section \in Seq(Writable) /\ Len(Section) = 3 /\ Section[1] = "begin"
      /\ Section[2] = "block" /\ Section[3] = "end"
  BY WordsAre DEF Section
<1>3. t = a \o q
  BY DEF Holding
<1> HIDE DEF t
<1>4. Joins(a, p, Section, Writable)
  BY <1>1, <1>2, JoinAt
<1> HIDE DEF a
<1>5. /\ a \in Seq(Writable) /\ Len(a) = Len(p) + Len(Section) /\ Len(p) \in Nat
      /\ \A i \in 1 .. Len(p) : a[i] = p[i]
      /\ \A i \in 1 .. Len(Section) : a[Len(p) + i] = Section[i]
  BY <1>4 DEF Joins
<1>6. /\ t \in Seq(Writable) /\ Len(t) = Len(a) + Len(q) /\ Len(q) \in Nat
      /\ \A i \in 1 .. Len(a) : t[i] = a[i]
      /\ \A i \in 1 .. Len(q) : t[Len(a) + i] = q[i]
  <2>1. Joins(t, a, q, Writable)
    BY <1>1, <1>3, <1>5, JoinAt
  <2> QED
    BY <2>1 DEF Joins
<1>7. Len(a) = k + 3 /\ k \in Nat
  BY <1>2, <1>5
<1>8. \A i \in 1 .. k : i \in 1 .. Len(a)
  BY <1>7
<1>9. \A i \in 1 .. k : t[i] = p[i]
  BY <1>5, <1>6, <1>8
<1>10. a[k + 1] = "begin" /\ a[k + 2] = "block" /\ a[k + 3] = "end"
  BY <1>2, <1>5
<1>11. t[k + 1] = "begin" /\ t[k + 2] = "block" /\ t[k + 3] = "end"
  <2>1. k + 1 \in 1 .. Len(a) /\ k + 2 \in 1 .. Len(a) /\ k + 3 \in 1 .. Len(a)
    BY <1>7
  <2> QED
    BY <1>6, <1>10, <2>1
<1>12. Len(t) = k + 3 + Len(q) /\ \A i \in 1 .. Len(q) : t[k + 3 + i] = q[i]
  BY <1>6, <1>7
<1> QED
  BY <1>6, <1>7, <1>9, <1>11, <1>12 DEF t

(* What is known of such a text by its places                              *)
LEMMA HoldingOwn ==
  ASSUME NEW p \in Seq(Words), NEW q \in Seq(Words)
  PROVE  LET t == Holding(p, q) IN
         /\ t \in Seq(Writable) /\ Own(t) = p \o q /\ Upserted(t) = t
<1> DEFINE t == Holding(p, q)
           k == Len(p)
           n == Len(t)
<1>1. /\ t \in Seq(Writable) /\ k \in Nat /\ Len(q) \in Nat /\ n = k + 3 + Len(q)
      /\ \A i \in 1 .. k : t[i] = p[i]
      /\ t[k + 1] = "begin" /\ t[k + 2] = "block" /\ t[k + 3] = "end"
      /\ \A i \in 1 .. Len(q) : t[k + 3 + i] = q[i]
  BY HoldingAt
<1> HIDE DEF t
<1>2. /\ \A i \in 1 .. k : t[i] \in Words
      /\ \A i \in (k + 4) .. n : t[i] \in Words
  <2>1. \A i \in 1 .. k : t[i] \in Words
    BY <1>1, WordAt
  <2>2. ASSUME NEW i \in (k + 4) .. n PROVE t[i] \in Words
    <3>1. i - k - 3 \in 1 .. Len(q) /\ i = k + 3 + (i - k - 3)
      BY <1>1
    <3>2. q[i - k - 3] \in Words
      BY <3>1, WordAt
    <3> QED
      BY <1>1, <3>1, <3>2
  <2> QED
    BY <2>1, <2>2
<1> HIDE DEF k, n
<1>3. ASSUME NEW i \in 1 .. n PROVE /\ t[i] = "begin" => i = k + 1
                                    /\ t[i] = "end" => i = k + 3
  <2>1. i \in 1 .. k \/ i = k + 1 \/ i = k + 2 \/ i = k + 3 \/ i \in (k + 4) .. n
    BY <1>1
  <2> QED
    BY <1>1, <1>2, <2>1, WordsAre
<1>4. k + 1 \in 1 .. n /\ k + 3 \in 1 .. n /\ k + 1 \in 1 .. (n - 2)
  BY <1>1
<1>5. Sections(t) = {k + 1}
  <2>1. k + 1 \in Sections(t)
    <3>1. k + 1 + 1 = k + 2 /\ k + 1 + 2 = k + 3
      BY <1>1
    <3> QED
      BY <1>1, <1>4, <3>1 DEF Sections, n
  <2>2. \A i \in Sections(t) : i \in 1 .. n /\ t[i] = "begin"
    BY <1>1 DEF Sections, n
  <2> QED
    BY <1>3, <2>1, <2>2
<1> DEFINE a == SubSeq(t, 1, k)
           b == SubSeq(t, k + 4, n)
<1>6. a = p
  <2>1. /\ a \in Seq(Writable) /\ Len(a) = k + 1 - 1
        /\ \A i \in 1 .. (k + 1 - 1) : a[i] = t[1 + i - 1]
    <3>1. 1 \in Nat \ {0} /\ 1 <= k + 1 /\ k <= Len(t)
      BY <1>1 DEF n
    <3> HIDE DEF a
    <3> QED
      BY <1>1, <3>1, PartOf DEF a
  <2> HIDE DEF a
  <2>2. Len(a) = Len(p) /\ \A i \in 1 .. Len(a) : a[i] = p[i]
    BY <1>1, <2>1 DEF k
  <2>3. p \in Seq(Writable)
    BY WordsAre, SeqMonotonic
  <2> QED
    BY <2>1, <2>2, <2>3, SameSeq
<1>7. b = q
  <2>1. /\ b \in Seq(Writable) /\ Len(b) = n + 1 - (k + 4)
        /\ \A i \in 1 .. (n + 1 - (k + 4)) : b[i] = t[k + 4 + i - 1]
    <3>1. k + 4 \in Nat \ {0} /\ k + 4 <= n + 1 /\ n <= Len(t) /\ n \in Nat
      BY <1>1 DEF n
    <3> HIDE DEF b
    <3> QED
      BY <1>1, <3>1, PartOf DEF b
  <2> HIDE DEF b
  <2>2. n + 1 - (k + 4) = Len(q)
    BY <1>1
  <2>3. ASSUME NEW i \in 1 .. Len(q) PROVE b[i] = q[i]
    <3>1. k + 4 + i - 1 = k + 3 + i
      BY <1>1
    <3> QED
      BY <1>1, <2>1, <2>2, <3>1
  <2>4. q \in Seq(Writable)
    BY WordsAre, SeqMonotonic
  <2> QED
    BY <2>1, <2>2, <2>3, <2>4, SameSeq
<1>8. Own(t) = p \o q
  <2>1. \E c \in Sections(t) : Own(t) = SubSeq(t, 1, c - 1) \o SubSeq(t, c + 3, n)
    <3>1. Sections(t) # {}
      BY <1>5
    <3> QED
      BY <3>1 DEF Own, n
  <2>2. PICK c \in Sections(t) : Own(t) = SubSeq(t, 1, c - 1) \o SubSeq(t, c + 3, n)
    BY <2>1
  <2>3. c - 1 = k /\ c + 3 = k + 4
    BY <1>1, <1>5
  <2>4. Own(t) = a \o b
    BY <2>2, <2>3
  <2> HIDE DEF a, b
  <2> QED
    BY <1>6, <1>7, <2>4
<1>9. Place(t, "begin") = k + 1 /\ Place(t, "end") = k + 3
  <2>1. \A j \in 1 .. (k + 1 - 1) : t[j] # "begin"
    <3>1. \A j \in 1 .. (k + 1 - 1) : j \in 1 .. n /\ j # k + 1
      BY <1>1
    <3> QED
      BY <1>3, <3>1
  <2>2. \A j \in 1 .. (k + 3 - 1) : t[j] # "end"
    <3>1. \A j \in 1 .. (k + 3 - 1) : j \in 1 .. n /\ j # k + 3
      BY <1>1
    <3> QED
      BY <1>3, <3>1
  <2>3. Place(t, "begin") = k + 1
    BY <1>1, <1>3, <1>4, <2>1 DEF Place, n
  <2>4. Place(t, "end") = k + 3
    BY <1>1, <1>3, <1>4, <2>2 DEF Place, n
  <2> QED
    BY <2>3, <2>4
<1>10. "begin" \in ToSet(t) /\ "end" \in ToSet(t)
  <2>1. DOMAIN t = 1 .. n
    BY <1>1, LenProperties DEF n
  <2> QED
    BY <1>1, <1>4, <2>1 DEF ToSet
<1>11. Upserted(t) = t
  <2>1. Upserted(t) = (SubSeq(t, 1, Place(t, "begin") - 1) \o Section)
                        \o SubSeq(t, Place(t, "end") + 1, Len(t))
    BY <1>10 DEF Upserted
  <2>2. Place(t, "begin") - 1 = k /\ Place(t, "end") + 1 = k + 4
    BY <1>1, <1>9
  <2>3. Upserted(t) = (a \o Section) \o b
    BY <2>1, <2>2 DEF n
  <2> HIDE DEF a, b
  <2>4. Upserted(t) = (p \o Section) \o q
    BY <1>6, <1>7, <2>3
  <2> QED
    BY <2>4 DEF Holding, t
<1> QED
  BY <1>1, <1>8, <1>11 DEF t

LEMMA PlainOwn ==
  ASSUME NEW p \in Seq(Words)
  PROVE  p \in Seq(Writable) /\ Own(p) = p /\ Upserted(p) = Holding(p, <<>>)
<1>1. p \in Seq(Writable) /\ Len(p) \in Nat /\ \A i \in 1 .. Len(p) : p[i] # "begin"
  BY WordsAre, WordAt, SeqMonotonic
<1>2. Sections(p) = {}
  BY <1>1 DEF Sections
<1>3. "begin" \notin ToSet(p)
  <2>1. DOMAIN p = 1 .. Len(p)
    BY LenProperties
  <2> QED
    BY <1>1, <2>1 DEF ToSet
<1>4. Upserted(p) = p \o Section
  BY <1>3 DEF Upserted
<1>5. p \o Section \in Seq(Writable)
  <2>1. Section \in Seq(Writable)
    BY WordsAre DEF Section
  <2> QED
    BY <1>1, <2>1, ConcatProperties
<1> DEFINE a == p \o Section
<1> HIDE DEF a
<1>6. a \o <<>> = a
  BY <1>5, ConcatEmptySeq DEF a
<1> QED
  BY <1>1, <1>2, <1>4, <1>6 DEF Own, Holding, a

(* Such a text holds the lines of the user only, or a section among them.  *)
LEMMA WellKeptIs ==
  ASSUME NEW t, WellKept(t)
  PROVE  t \in Seq(Words) \/ \E p, q \in Seq(Words) : t = Holding(p, q)
<1>1. CASE Sections(t) = {}
  BY <1>1 DEF Own, WellKept
<1>2. CASE Sections(t) # {}
  <2> DEFINE i == CHOOSE k \in Sections(t) : TRUE
             n == Len(t)
             p == SubSeq(t, 1, i - 1)
             q == SubSeq(t, i + 3, n)
  <2>1. i \in Sections(t)
    BY <1>2
  <2>2. Own(t) = p \o q
    BY <1>2 DEF Own
  <2>3. t \in Seq(Writable) /\ n \in Nat /\ p \o q \in Seq(Words)
    BY <2>2, LenProperties DEF WellKept
  <2>4. i \in 1 .. (n - 2) /\ t[i] = "begin" /\ t[i + 1] = "block" /\ t[i + 2] = "end"
    BY <2>1 DEF Sections
  <2> HIDE DEF i, n
  <2>5. /\ p \in Seq(Writable) /\ Len(p) = i - 1 /\ \A j \in 1 .. (i - 1) : p[j] = t[j]
    <3>1. 1 \in Nat \ {0} /\ i - 1 \in Nat /\ 1 <= i - 1 + 1 /\ i - 1 <= Len(t)
          /\ i - 1 + 1 - 1 = i - 1 /\ \A j \in 1 .. (i - 1) : 1 + j - 1 = j
      BY <2>3, <2>4 DEF n
    <3> HIDE DEF p
    <3>2. /\ p \in Seq(Writable) /\ Len(p) = i - 1 + 1 - 1
          /\ \A j \in 1 .. (i - 1 + 1 - 1) : p[j] = t[1 + j - 1]
      BY <2>3, <3>1, PartOf DEF p
    <3> QED
      BY <3>1, <3>2
  <2>6. /\ q \in Seq(Writable) /\ Len(q) = n - i - 2
        /\ \A j \in 1 .. (n - i - 2) : q[j] = t[i + 2 + j]
    <3>1. i + 3 \in Nat \ {0} /\ n \in Nat /\ i + 3 <= n + 1 /\ n <= Len(t)
          /\ n + 1 - (i + 3) = n - i - 2 /\ \A j \in 1 .. (n - i - 2) : i + 3 + j - 1 = i + 2 + j
      BY <2>3, <2>4 DEF n
    <3> HIDE DEF q
    <3>2. /\ q \in Seq(Writable) /\ Len(q) = n + 1 - (i + 3)
          /\ \A j \in 1 .. (n + 1 - (i + 3)) : q[j] = t[i + 3 + j - 1]
      BY <2>3, <3>1, PartOf DEF q
    <3> QED
      BY <3>1, <3>2
  <2> HIDE DEF p, q
  <2>7. p \in Seq(Words) /\ q \in Seq(Words)
    <3> DEFINE c == p \o q
    <3>1. /\ Len(c) = Len(p) + Len(q) /\ Len(p) \in Nat /\ Len(q) \in Nat
          /\ \A j \in 1 .. Len(p) : c[j] = p[j]
          /\ \A j \in 1 .. Len(q) : c[Len(p) + j] = q[j]
      <4>1. Joins(c, p, q, Writable)
        BY <2>5, <2>6, JoinAt
      <4> HIDE DEF c
      <4> QED
        BY <4>1 DEF Joins
    <3>2. \A j \in 1 .. Len(c) : c[j] \in Words
      BY <2>3, WordAt
    <3> HIDE DEF c
    <3>3. \A j \in 1 .. Len(p) : p[j] \in Words
      BY <3>1, <3>2
    <3>4. ASSUME NEW j \in 1 .. Len(q) PROVE q[j] \in Words
      <4>1. Len(p) + j \in 1 .. Len(c)
        BY <3>1
      <4> QED
        BY <3>1, <3>2, <4>1
    <3>5. p = [j \in 1 .. Len(p) |-> p[j]] /\ q = [j \in 1 .. Len(q) |-> q[j]]
      BY <2>5, <2>6
    <3> QED
      BY <3>1, <3>3, <3>4, <3>5
  <2> DEFINE h == Holding(p, q)
  <2>8. /\ h \in Seq(Writable) /\ Len(h) = Len(p) + 3 + Len(q)
        /\ \A j \in 1 .. Len(p) : h[j] = p[j]
        /\ h[Len(p) + 1] = "begin" /\ h[Len(p) + 2] = "block" /\ h[Len(p) + 3] = "end"
        /\ \A j \in 1 .. Len(q) : h[Len(p) + 3 + j] = q[j]
    BY <2>7, HoldingAt
  <2> HIDE DEF h
  <2>9. Len(h) = n /\ i \in Nat
    BY <2>3, <2>4, <2>5, <2>6, <2>8
  <2>10. h[i] = t[i] /\ h[i + 1] = t[i + 1] /\ h[i + 2] = t[i + 2]
    <3>1. Len(p) + 1 = i /\ Len(p) + 2 = i + 1 /\ Len(p) + 3 = i + 2
      BY <2>5, <2>9
    <3> QED
      BY <2>4, <2>8, <3>1
  <2>11. ASSUME NEW j \in (i + 3) .. n PROVE h[j] = t[j]
    <3>1. j - i - 2 \in 1 .. (n - i - 2) /\ i + 2 + (j - i - 2) = j /\ Len(p) + 3 + (j - i - 2) = j
      BY <2>3, <2>5, <2>9
    <3> QED
      BY <2>6, <2>8, <3>1
  <2>12. ASSUME NEW j \in 1 .. n PROVE h[j] = t[j]
    <3>1. j \in 1 .. (i - 1) \/ j = i \/ j = i + 1 \/ j = i + 2 \/ j \in (i + 3) .. n
      BY <2>3, <2>9
    <3> QED
      BY <2>5, <2>8, <2>10, <2>11, <3>1
  <2>13. h = t
    BY <2>3, <2>8, <2>9, <2>12, SameSeq DEF n
  <2> QED
    BY <2>7, <2>13 DEF h
<1> QED
  BY <1>1, <1>2

-----------------------------------------------------------------------------
(* Bringing the section up to date keeps the lines of the user, and a line *)
(* more comes after those that are there.                                  *)
LEMMA UpsertKeeps ==
  ASSUME NEW t, WellKept(t)
  PROVE  WellKept(Upserted(t)) /\ Own(Upserted(t)) = Own(t)
<1>1. CASE t \in Seq(Words)
  <2>1. Own(t) = t /\ Upserted(t) = Holding(t, <<>>) /\ <<>> \in Seq(Words)
    BY <1>1, PlainOwn
  <2>2. Holding(t, <<>>) \in Seq(Writable) /\ Own(Holding(t, <<>>)) = t \o <<>>
    BY <1>1, <2>1, HoldingOwn
  <2>3. t \o <<>> = t
    BY <1>1, ConcatEmptySeq
  <2> QED
    BY <1>1, <2>1, <2>2, <2>3 DEF WellKept
<1>2. CASE \E p, q \in Seq(Words) : t = Holding(p, q)
  <2>1. Upserted(t) = t
    BY <1>2, HoldingOwn
  <2> QED
    BY <2>1
<1> QED
  BY <1>1, <1>2, WellKeptIs

GoesLast(a, b, l) == Append(a \o b, l) = a \o Append(b, l)

LEMMA AppendJoined ==
  ASSUME NEW X, NEW a \in Seq(X), NEW b \in Seq(X), NEW l \in X
  PROVE  GoesLast(a, b, l)
<1>1. a \o b \in Seq(X) /\ <<l>> \in Seq(X)
  BY ConcatProperties
<1>2. Append(a \o b, l) = (a \o b) \o <<l>>
  BY <1>1, AppendIsConcat
<1>3. Append(b, l) = b \o <<l>>
  BY AppendIsConcat
<1> QED
  BY <1>1, <1>2, <1>3, ConcatAssociative DEF GoesLast

LEMMA AppendKeeps ==
  ASSUME NEW t, WellKept(t), NEW l \in Words
  PROVE  WellKept(Append(t, l)) /\ Own(Append(t, l)) = Append(Own(t), l)
<1>1. CASE t \in Seq(Words)
  <2>1. Append(t, l) \in Seq(Words)
    BY <1>1, AppendProperties
  <2>2. Own(t) = t /\ Own(Append(t, l)) = Append(t, l) /\ Append(t, l) \in Seq(Writable)
    BY <1>1, <2>1, PlainOwn
  <2> QED
    BY <2>1, <2>2 DEF WellKept
<1>2. ASSUME NEW p \in Seq(Words), NEW q \in Seq(Words), t = Holding(p, q)
      PROVE  WellKept(Append(t, l)) /\ Own(Append(t, l)) = Append(Own(t), l)
  <2> DEFINE r == Append(q, l)
             a == p \o Section
  <2>1. r \in Seq(Words)
    BY AppendProperties
  <2>2. a \in Seq(Writable) /\ q \in Seq(Writable) /\ l \in Writable
    <3>1. p \in Seq(Writable) /\ q \in Seq(Writable) /\ l \in Writable
      BY WordsAre, SeqMonotonic
    <3>2. Section \in Seq(Writable)
      BY WordsAre DEF Section
    <3> QED
      BY <3>1, <3>2, ConcatProperties
  <2>3. Append(a \o q, l) = a \o r
    <3>1. GoesLast(a, q, l)
      <4> HIDE DEF a
      <4> QED
        BY <2>2, AppendJoined
    <3> QED
      BY <3>1 DEF GoesLast
  <2>4. Append(t, l) = Holding(p, r)
    BY <1>2, <2>3 DEF Holding
  <2>5. Append(p \o q, l) = p \o r
    <3>1. GoesLast(p, q, l)
      BY AppendJoined
    <3> QED
      BY <3>1 DEF GoesLast
  <2>6. Own(t) = p \o q
    BY <1>2, HoldingOwn
  <2> HIDE DEF r
  <2>7. Holding(p, r) \in Seq(Writable) /\ Own(Holding(p, r)) = p \o r
    BY <2>1, HoldingOwn
  <2>8. p \o r \in Seq(Words)
    BY <2>1, ConcatProperties
  <2> QED
    BY <2>4, <2>5, <2>6, <2>7, <2>8 DEF WellKept
<1> QED
  BY <1>1, <1>2, WellKeptIs

LEMMA OwnPrefix ==
  ASSUME NEW s \in Seq(Words), NEW l \in Words
  PROVE  IsPrefix(s, s) /\ IsPrefix(s, Append(s, l))
<1>1. Len(s) \in Nat /\ SubSeq(s, 1, Len(s)) = SubSeq(s, 1, Len(s))
  BY LenProperties
<1> DEFINE r == Append(s, l)
           u == SubSeq(r, 1, Len(s))
<1>2. /\ r \in Seq(Words) /\ Len(r) = Len(s) + 1
      /\ \A i \in 1 .. Len(s) : r[i] = s[i]
  BY AppendProperties
<1> HIDE DEF r
<1>3. u = s
  <2>1. 1 \in Nat \ {0} /\ 1 <= Len(s) + 1 /\ Len(s) <= Len(r) /\ Len(s) + 1 - 1 = Len(s)
        /\ \A i \in 1 .. Len(s) : 1 + i - 1 = i
    BY <1>1, <1>2
  <2>2. /\ u \in Seq(Words) /\ Len(u) = Len(s) + 1 - 1
        /\ \A i \in 1 .. (Len(s) + 1 - 1) : u[i] = r[1 + i - 1]
    <3> HIDE DEF u
    <3> QED
      BY <1>1, <1>2, <2>1, PartOf DEF u
  <2> HIDE DEF u
  <2> QED
    BY <1>2, <2>1, <2>2, SameSeq
<1>4. SubSeq(s, 1, Len(s)) = s
  BY SubSeqFull
<1>5. Len(s) <= Len(r)
  BY <1>1, <1>2
<1>6. IsPrefix(s, r)
  BY <1>3, <1>4, <1>5 DEF IsPrefix
<1>7. IsPrefix(s, s)
  BY <1>1 DEF IsPrefix
<1> QED
  BY <1>6, <1>7 DEF r

(* USER.md holds the lines of the user and at most one section, and what   *)
(* the user has still to write are such lines.                             *)
ProfileInv == WellKept(profile) /\ coming \ Lines \subseteq Words

LEMMA ProfileInit == Init => ProfileInv
<1> SUFFICES ASSUME Init
             PROVE  ProfileInv
  OBVIOUS
<1>1. PICK o \in Openings : profile = o.profile /\ coming = o.coming
  BY DEF Init, InitDreams
<1>2. ToSet(Section) = {"begin", "block", "end"}
  BY MarkersAre
<1> QED
  BY <1>1, <1>2, DreamAssumption DEF ProfileInv, WellKept, Writable

LEMMA ProfileStep ==
  ProfileInv /\ [Next]_vars =>
    ProfileInv' /\ IsPrefix(Own(profile), Own(profile')) /\ Own(profile') \in Seq(Words)
<1> SUFFICES ASSUME ProfileInv, [Next]_vars
             PROVE  /\ ProfileInv'
                    /\ IsPrefix(Own(profile), Own(profile')) /\ Own(profile') \in Seq(Words)
  OBVIOUS
<1>1. WellKept(profile) /\ Own(profile) \in Seq(Words) /\ coming \ Lines \subseteq Words
  BY DEF ProfileInv, WellKept
<1> SUFFICES /\ WellKept(profile') /\ coming' \ Lines \subseteq Words
             /\ IsPrefix(Own(profile), Own(profile'))
  BY DEF ProfileInv, WellKept
<1>2. IsPrefix(Own(profile), Own(profile))
  BY <1>1 DEF IsPrefix
<1>3. CASE profile' = profile /\ coming' \subseteq coming
  BY <1>1, <1>2, <1>3
<1>4. ASSUME NEW d \in Dreams, EndDream(d)
      PROVE  /\ WellKept(profile') /\ coming' \ Lines \subseteq Words
             /\ IsPrefix(Own(profile), Own(profile'))
  <2>1. coming' = coming /\ profile' \in {profile, Upserted(profile)}
    BY <1>4 DEF EndDream, Managed
  <2> QED
    BY <1>1, <1>2, <2>1, UpsertKeeps
<1>5. ASSUME NEW l \in coming, Remember(l)
      PROVE  /\ WellKept(profile') /\ coming' \ Lines \subseteq Words
             /\ IsPrefix(Own(profile), Own(profile'))
  <2>1. CASE l \in Lines
    BY <1>1, <1>2, <1>5, <2>1 DEF Remember
  <2>2. CASE l \notin Lines
    <3>1. l \in Words /\ profile' = Append(profile, l) /\ coming' \subseteq coming
      BY <1>1, <1>5, <2>2 DEF Remember
    <3> QED
      BY <1>1, <3>1, AppendKeeps, OwnPrefix
  <2> QED
    BY <2>1, <2>2
<1> QED
  BY <1>3, <1>4, <1>5
     DEF Next, vars, talkVars, dreamVars, TurnStep, NextDay, DreamStep, BeginDream, LightAnswer,
         RemAnswer, RollRead, RollWrite, Promote, Prune, DistillSessions, Write, Kill

(* The lines of the user in USER.md stay and keep their order, and besides *)
(* them there is one managed section at most, however many dreams bring it *)
(* up to date and whatever the user adds before, between and after:        *)
(* _upsert_managed_section replaces what stands between its markers.       *)
THEOREM UserTextKept == Spec => UserTextSurvives
<1>1. ProfileInv /\ [Next]_vars => ProfileInv'
  BY ProfileStep
<1>2. ProfileInv /\ [Next]_vars =>
        [IsPrefix(Own(profile), Own(profile')) /\ Own(profile') \in Seq(Words)]_vars
  BY ProfileStep
<1> QED
  BY <1>1, <1>2, ProfileInit, PTL DEF Spec, UserTextSurvives
=============================================================================
