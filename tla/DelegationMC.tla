---------------------------- MODULE DelegationMC ----------------------------
(* Inputs of the calls: a writer before two readers; a writer only; two    *)
(* tasks of one id; and a call with too many tasks.                        *)
EXTENDS Delegation

Task(id, writes) == [id |-> id, writes |-> writes]

MCTaskLists ==
  { <<Task("a", TRUE), Task("b", FALSE), Task("c", FALSE)>>,
    <<Task("a", TRUE)>>,
    <<Task("a", FALSE), Task("a", TRUE)>>,
    <<Task("a", FALSE), Task("b", FALSE), Task("c", FALSE), Task("d", FALSE)>> }
MCLimits == {0, 3}
=============================================================================
