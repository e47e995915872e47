--------------------------- MODULE ContextGuardMC ---------------------------
(* Histories of up to five messages: turns with and without tool calls, a  *)
(* chain of two calls, parallel calls, a call that was cancelled, and an   *)
(* answer whose call was compacted away.                                   *)
EXTENDS ContextGuard

Human == [kind |-> "human", calls |-> {}]
Ai == [kind |-> "ai", calls |-> {}]
Call(ids) == [kind |-> "ai", calls |-> ids]
Tool(id) == [kind |-> "tool", calls |-> {id}]

Shapes ==
  { <<Human>>,
    <<Human, Ai, Human>>,
    <<Human, Call({1}), Tool(1), Call({2}), Tool(2)>>,
    <<Human, Call({1, 2}), Tool(1), Tool(2)>>,
    <<Human, Ai, Human, Call({1}), Tool(1)>>,
    <<Human, Call({1}), Human>>,
    <<Tool(1), Ai, Human>> }

(* The text of a message may be empty, a tool always says something.       *)
Sizes(m) == IF m.kind = "tool" THEN {1, 4} ELSE {0, 2}

Sized(shape) ==
  {[i \in DOMAIN shape |-> [n |-> i, kind |-> shape[i].kind, size |-> size[i],
                            calls |-> shape[i].calls]] :
     size \in {s \in [DOMAIN shape -> {0, 1, 2, 4}] :
                 \A i \in DOMAIN shape : s[i] \in Sizes(shape[i])}}

MCInputs ==
  [history: UNION {Sized(shape) : shape \in Shapes}, prepends: BOOLEAN,
   fixed: {0, 2}, recall: {0, 3, 9}, reminder: {0, 2}, limit: {3, 8}]
=============================================================================
