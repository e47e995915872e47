------------------------------- MODULE Recall -------------------------------
(***************************************************************************)
(* What a turn is reminded of: AutoRecallInjector of                       *)
(* src/lightclaw/agent/core/recall.py, over the memory search of           *)
(* src/lightclaw/agent/memory/memory_query_service.py, for the actor of    *)
(* src/lightclaw/agent/core/actor_context.py.                              *)
(*                                                                         *)
(* A text is the name of what it says: a chunk of the index, a snippet of  *)
(* another session, one of the two files, or the notice of a failure.      *)
(***************************************************************************)
EXTENDS MemorySearch

CONSTANTS
  Snippets,  \* what the search of sessions may return
  SecretTexts, \* texts in which contains_secret finds something
  Short,     \* snippets of less than 20 characters
  Size,      \* [Texts -> their length, with the line of their source]
  Start      \* [Texts -> the first 200 characters]

MemoryMd  == "MEMORY.md"
TalkMd    == "DAILY_TALK.md"
Failed    == "Memory search failed."
Texts     == Chunks \cup Snippets \cup {MemoryMd, TalkMd, Failed}

ASSUME RecallAssumption ==
  /\ {MemoryMd, TalkMd, Failed} \cap (Chunks \cup Snippets) = {}
  /\ SecretTexts \subseteq Texts /\ Short \subseteq Snippets
  /\ Size \in [Texts -> Nat]

(* The switches of constant.py, and the length of the block *)
Settings == [memoryMd : BOOLEAN, talk : BOOLEAN, semantic : BOOLEAN, secret : BOOLEAN,
             old : BOOLEAN, toGroup : BOOLEAN, toPrivate : BOOLEAN, room : Nat]

-----------------------------------------------------------------------------
(* The actor.                                                              *)

Actor(trust, owner, group) == [trust |-> trust, owner |-> owner, group |-> group]

Trust        == {"owner", "trusted", "group_member", "unknown", "system"}
SystemActor  == Actor("system", FALSE, FALSE)
UnknownActor == Actor("unknown", FALSE, FALSE)

(* resolve_principal: the first entry of the channel and the sender.  An
   entry names the owner or somebody trusted. *)
Resolved(channel, sender, entries) ==
  LET Names(e) == e.channel = channel /\ e.sender = sender
      named    == Pick(entries, {i \in DOMAIN entries : Names(entries[i])})
  IN  IF named = <<>> \/ "" \in {channel, sender} THEN UnknownActor
      ELSE IF named[1].principal = "owner" THEN Actor("owner", TRUE, FALSE)
      ELSE Actor("trusted", FALSE, FALSE)

(* actor_context_from_dict: no trust, or one it does not know, is the
   owner's; but nobody is the owner unless it says so. *)
FromDict(d) ==
  Actor(IF d.trust \in Trust THEN d.trust ELSE "owner", d.owner, d.group)

(* A request without an actor, or with an empty one: the middleware has no
   channel to make an exception for. *)
NoActor == [trust |-> "none", owner |-> FALSE, group |-> FALSE]

ActorOf(d) == IF d = NoActor THEN UnknownActor ELSE FromDict(d)

-----------------------------------------------------------------------------
(* MemoryQueryService.memory_search: the sections of its answer.           *)

Section(form, text, score) == [form |-> form, text |-> text, score |-> score]

MemorySections(results) ==
  [i \in 1 .. Len(results) |-> Section("memory", results[i].chunk, results[i].score)]

(* The heading stands before the first session, in its section. *)
SessionSections(snippets) ==
  [i \in 1 .. Len(snippets) |->
     Section(IF i = 1 THEN "headed" ELSE "session", snippets[i], 0)]

(* What the backend found or that it failed, and what the sessions hold, of
   which there is none when their search fails or takes too long.  With a
   session found, the words of a failed backend are left out. *)
Sections(failed, results, sessions) ==
  LET found == Pick(sessions, {i \in DOMAIN sessions : sessions[i] \notin Short})
  IN  IF found # <<>> THEN MemorySections(results) \o SessionSections(found)
      ELSE IF failed THEN <<Section("bare", Failed, 0)>>
      ELSE MemorySections(results)

-----------------------------------------------------------------------------
(* The candidates.                                                         *)

Candidate(source, scope, text, meta, score) ==
  [source |-> source, scope |-> scope, text |-> text, meta |-> meta, score |-> score]

(* _parse_semantic_result: only a section that starts with the name of a
   session is recognised as one. *)
Parsed(s) ==
  CASE s.form = "memory"  -> Candidate("qdrant_memory", "user_memory", s.text, TRUE, s.score)
    [] s.form = "session" -> Candidate("session_fts", "current_session", s.text, FALSE, Unit \div 2)
    [] OTHER              -> Candidate("unknown", "unknown", s.text, TRUE, Unit \div 2)

Private == {"owner_memory", "private_session"}

(* The texts are not searched for secrets. *)
FaultyPasses(c, actor, set) ==
  /\ c.meta \/ set.old
  /\ actor.trust \in {"unknown", "group_member"} => c.scope \notin Private
  /\ actor.group /\ c.scope \in Private => set.toGroup
  /\ ~actor.group /\ c.scope = "group_memory" => set.toPrivate

(* _apply_filters: a secret that may be shown is shown to everyone. *)
Passes(c, actor, set) ==
  IF c.text \in SecretTexts THEN set.secret
  ELSE /\ c.meta \/ set.old
       /\ actor.trust \in {"unknown", "group_member"} => c.scope \notin Private
       /\ actor.group /\ c.scope \in Private => set.toGroup
       /\ ~actor.group /\ c.scope = "group_memory" => set.toPrivate

(* MEMORY.md is read for its owner; the talk needs the switch for old
   metadata, and passes no filter. *)
FromFiles(actor, set) ==
  (IF set.memoryMd /\ actor.owner
     THEN <<Candidate("memory_md", "owner_memory", MemoryMd, TRUE, 0)>> ELSE <<>>)

Talks(set) ==
  IF set.talk /\ set.old THEN <<Candidate("daily_talk", "global", TalkMd, FALSE, 0)>> ELSE <<>>

(* get_block, without what is rendered; sections is <<>> when nothing is
   searched for or found, or when the search fails or takes too long. *)
Gathered(sections, actor, set) ==
  LET Allowed(cands) == Pick(cands, {i \in DOMAIN cands : Passes(cands[i], actor, set)})
      semantic == IF set.semantic THEN sections ELSE <<>>
  IN  Allowed(FromFiles(actor, set)) \o Talks(set)
        \o Allowed([i \in 1 .. Len(semantic) |-> Parsed(semantic[i])])

(* Two candidates that start alike count as one, the first. *)
Distinct(cands) ==
  Pick(cands, {i \in DOMAIN cands :
                 \A j \in 1 .. i - 1 : Start[cands[j].text] # Start[cands[i].text]})

Total(cands) ==
  LET upTo[n \in 0 .. Len(cands)] ==
        IF n = 0 THEN 0 ELSE upTo[n - 1] + Size[cands[n].text]
  IN  upTo[Len(cands)]

(* _render_block: what does not fit any more is left out, and the next one
   is tried. *)
Fitting(cands, room) ==
  LET Kept(block, c) ==
        IF Total(block) + Size[c.text] <= room THEN Append(block, c) ELSE block
      upTo[n \in 0 .. Len(cands)] == IF n = 0 THEN <<>> ELSE Kept(upTo[n - 1], cands[n])
  IN  upTo[Len(cands)]

Ranked(cands) == ByScore(Distinct(cands))

(* The block a turn gets *)
Reminders(sections, actor, set) ==
  Fitting(Ranked(Gathered(sections, actor, set)), set.room)
=============================================================================
