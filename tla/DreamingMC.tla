----------------------------- MODULE DreamingMC -----------------------------
(* Two turns and two dreams over two days, and five lines of MEMORY.md. *)
EXTENDS Dreaming

CONSTANTS t1, t2, d1, d2, name, must, rain, chore, fresh

Plain == [topics |-> {}, tiers |-> {}, boiler |-> FALSE, days |-> NoDate,
          refs |-> 0, rich |-> 100]

(* The turns say the same. *)
TextMC == [t \in Turns |-> "hello"]

LineOfMC ==
  [l \in Lines \cup Turns |->
     CASE l = name  -> [Plain EXCEPT !.tiers = {"permanent"}, !.days = 120]
       [] l = must  -> [Plain EXCEPT !.topics = {"constraint", "config"}, !.days = 63]
       [] l = rain  -> [Plain EXCEPT !.topics = {"fact_weather"}, !.days = 9, !.refs = 1]
       [] l = chore -> Plain
       [] OTHER     -> [Plain EXCEPT !.topics = {"preference"}, !.days = 0]]

(* The line of the name speaks of the weather, too. *)
MentionsMC == [l \in Lines \cup Turns |-> IF l = name THEN {name, rain} ELSE {l}]

KindsMC == [full : {TRUE}, dry : BOOLEAN] \cup {[full |-> FALSE, dry |-> FALSE]}

(* The user is about to edit the profile; or nothing was said yet and little
   is known; or the agent is about to add to a full memory. *)
OpeningsMC ==
  {[talk |-> [date |-> 1, msgs |-> <<t1>>], over |-> {t1}, memory |-> {must},
    profile |-> <<"top", "begin", "block", "end", "bottom">>, coming |-> {"mine"},
    kills |-> MaxKills],
   [talk |-> NoTalk, over |-> {}, memory |-> {}, profile |-> <<"top">>, coming |-> {},
    kills |-> 0],
   [talk |-> [date |-> 1, msgs |-> <<t1>>], over |-> Turns,
    memory |-> {name, must, rain, chore}, profile |-> <<"top">>, coming |-> {fresh},
    kills |-> MaxKills]}
=============================================================================
