--------------------------- MODULE CronManagerMC ---------------------------
(* Small instances of CronManager for TLC.                                 *)
EXTENDS CronManager, TLC

MCDefinition(limits) == [enabled: BOOLEAN, valid: BOOLEAN, limit: limits]

UnitSpecs == MCDefinition({1})
GoodSpecs == {d \in UnitSpecs : d.valid}

Names == Permutations(Jobs)

(* What can still be read: the content of a semaphore or of a state object *)
(* that nothing refers to never matters again, since its identity is given *)
(* a new content when it is reused.                                        *)
LiveView ==
  <<life, repo, sched, rt, states, slots, ctl, torn,
    [j \in Jobs |->
       [g \in Gens |-> IF UnusedSem(j, g) THEN None ELSE sem[j][g]]],
    [j \in Jobs |->
       [g \in Gens |-> IF UnusedObj(j, g) THEN None ELSE status[j][g]]]>>
=============================================================================
