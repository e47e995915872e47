------------------------ MODULE SessionDistillationMC ------------------------
(* A small instance of SessionDistillation for TLC.                        *)
EXTENDS SessionDistillation

CONSTANTS s1, s2, r1, r2

(* Session names where s1's id is part of the name of s2's file.           *)
LongerName == [s \in Sessions |-> IF s = s1 THEN {s1, s2} ELSE {s}]
(* Two sessions and one run at a time: names, budgets and the index.  Or   *)
(* one session and runs that overlap: the state file that is read too      *)
(* early.  Or one session whose file is shortened.                         *)
WideOrOverlapping ==
  {[sessions |-> {s1, s2}, runs |-> {r1}, shortened |-> {}, marks |-> 1, faults |-> 0],
   [sessions |-> {s1}, runs |-> {r1, r2}, shortened |-> {}, marks |-> 1, faults |-> 1],
   [sessions |-> {s1}, runs |-> {r1}, shortened |-> {s1}, marks |-> 1, faults |-> 0]}
=============================================================================
