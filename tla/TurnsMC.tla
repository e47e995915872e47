------------------------------ MODULE TurnsMC ------------------------------
(* Two turns at a time out of five: three of users and one of proactivity in
   a session, and one of the heartbeat in a hidden session; and turns alone
   that are reminded of a small memory. *)
EXTENDS Turns

CONSTANTS t1, t2, t3, t4, t5, s1, s2, note, secret, vague, wordy, said, brief

SessionOfMC == [t \in Turns |-> IF t = t3 THEN s2 ELSE s1]
CallsMC     == [t \in Turns |-> IF t \in {t1, t3} THEN 2 ELSE 1]

(* t1 asks as the owner of the configuration, t2 and t3 as the system, t4 as
   a member of a group, and t5 as nobody. *)
Entries == <<[channel |-> "chat", sender |-> "ann", principal |-> "owner"],
             [channel |-> "chat", sender |-> "bob", principal |-> "friend"]>>

AskerMC ==
  [t \in Turns |->
     CASE t = t1 -> Resolved("chat", "ann", Entries)
       [] t = t4 -> Actor("group_member", FALSE, TRUE)
       [] t = t5 -> NoActor
       [] OTHER  -> SystemActor]

(* The secret is marked, and the keywords find it all the same. *)
ChunkOfMC ==
  [c \in Chunks |->
     CASE c = note   -> [vec |-> 80, text |-> 60, hits |-> 3, day |-> 1, age |-> 1, imp |-> 80,
                         barred |-> FALSE, words |-> {"a", "b", "c"}]
       [] c = secret -> [vec |-> 90, text |-> 95, hits |-> 4, day |-> 2, age |-> 0, imp |-> 50,
                         barred |-> TRUE, words |-> {"a", "d"}]
       [] c = vague  -> [vec |-> 70, text |-> 0, hits |-> 0, day |-> 0, age |-> 1, imp |-> 10,
                         barred |-> FALSE, words |-> {"a", "b"}]
       [] OTHER      -> [vec |-> 50, text |-> 99, hits |-> 6, day |-> 2, age |-> 3, imp |-> 50,
                         barred |-> FALSE, words |-> {"e"}]]

SizeMC  == [x \in Texts |-> IF x \in {MemoryMd, TalkMd} THEN 3 ELSE IF x = Failed THEN 1 ELSE 2]
StartMC == [x \in Texts |-> IF x = said THEN note ELSE x]

All == [memoryMd |-> TRUE, talk |-> TRUE, semantic |-> TRUE, secret |-> FALSE, old |-> TRUE,
        toGroup |-> FALSE, toPrivate |-> FALSE, room |-> 12]

SettingsMC == {All, [All EXCEPT !.room = 6], [All EXCEPT !.talk = FALSE, !.room = 4],
               [All EXCEPT !.old = FALSE], [All EXCEPT !.secret = TRUE],
               [All EXCEPT !.semantic = FALSE]}

Ranges == {NoRange, [kind |-> "hard", days |-> {1}], [kind |-> "wide", days |-> {1}],
           [kind |-> "soft", days |-> {2}]}

Late == [mode |-> "late", range |-> NoRange, sessions |-> <<>>]

(* Turns of two calls search for less. *)
QueriesOf(t) ==
  IF t \in {t1, t3}
    THEN {Late, [Late EXCEPT !.mode = "hybrid", !.sessions = <<brief, said>>],
          [Late EXCEPT !.mode = "degraded"], [Late EXCEPT !.mode = "failed"]}
    ELSE [mode : {"hybrid", "words", "degraded"}, range : Ranges, sessions : {<<>>, <<brief, said>>}]
           \cup {[Late EXCEPT !.mode = "failed", !.sessions = x] : x \in {<<>>, <<said>>}}

Quiescent == [live |-> {}, file |-> [s \in Sessions |-> <<>>], settings |-> All,
              queries |-> {Late}, differs |-> FALSE, cancels |-> {}, kills |-> 0, deletes |-> 0]

Earlier == <<<<Before, "user", 0>>, <<Before, "ai", 1>>>>
Longer  == Earlier \o <<<<Before, "user", 2>>, <<Before, "call", 3>>, <<Before, "tool", 3>>>>

(* What is said before the turns *)
Past(msgs) == [s \in Sessions |-> IF s = s1 THEN msgs ELSE <<>>]

OpeningsMC ==
  {[Quiescent EXCEPT !.live = {t1, t2}, !.file = Past(msgs), !.kills = 1] :
     msgs \in {Earlier, Longer}}
    \cup {[Quiescent EXCEPT !.live = {t1, t4}, !.file = Past(Earlier), !.deletes = 1],
          [Quiescent EXCEPT !.live = {t1, t3}, !.cancels = {t1, t3}],
          [Quiescent EXCEPT !.live = {t2, t3}, !.differs = TRUE]}
    \cup {[Quiescent EXCEPT !.live = {t}, !.settings = set, !.queries = QueriesOf(t)] :
            t \in Turns, set \in SettingsMC}
    \cup {[Quiescent EXCEPT !.live = {t}, !.differs = TRUE] : t \in Turns}
=============================================================================
