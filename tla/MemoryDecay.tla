---------------------------- MODULE MemoryDecay ----------------------------
(***************************************************************************)
(* How lines of MEMORY.md are read, scored and chosen for removal:         *)
(* memory_parser.py, decay_scorer.py and the arithmetic of                 *)
(* DreamingPipeline._deep_prune, all under src/lightclaw/agent/memory/.    *)
(*                                                                         *)
(* A line is what these functions see of it:                               *)
(*   topics    the type rules of the parser its text matches               *)
(*   tiers     the persistence rules it matches                            *)
(*   boiler    whether it reads like a template's instructions             *)
(*   days      the age of its newest date, or NoDate                       *)
(*   refs      the daily notes that mention it                             *)
(*   rich      the density of its text, in thousandths                     *)
(* Scores are in hundred-thousandths.  Ages are whole numbers of           *)
(* half-lives, where the powers of two are exact.                          *)
(***************************************************************************)
EXTENDS Integers, FiniteSets, Sequences, SequencesExt, FiniteSetsExt

NoDate == -1

(* _TYPE_RULES and _PERSISTENCE_RULES: the first that matches wins. *)
TypeRules == <<"preference", "constraint", "decision", "todo", "config",
               "fact_version", "fact_weather", "fact_transient">>
TierRules == <<"permanent", "stable", "ephemeral">>
LlmTypes  == {"preference", "constraint", "decision", "todo", "config",
              "fact", "meta"}
Tiers     == {"permanent", "stable", "transient", "ephemeral"}

FirstIn(rules, matched, fallback) ==
  LET i == SelectInSeq(rules, LAMBDA r : r \in matched)
  IN  IF i = 0 THEN fallback ELSE rules[i]

(* MemoryParser._build_entry *)
Parsed(line) ==
  LET type == FirstIn(TypeRules, line.topics, "unknown")
      tier == CASE type \in {"preference", "constraint", "config"} -> "stable"
                [] type \in {"fact_version", "fact_weather"} -> "ephemeral"
                [] OTHER -> "transient"
  IN  [type |-> IF line.boiler THEN "meta" ELSE type,
       tier |-> FirstIn(TierRules, line.tiers, tier)]

HalfLife == [permanent |-> 60, stable |-> 21, transient |-> 10, ephemeral |-> 3]

(* DecayScorer._score_recency *)
Recency(line, tier) ==
  IF line.days = NoDate THEN 150 ELSE 1000 \div 2 ^ (line.days \div HalfLife[tier])

(* DecayScorer._score_frequency and _score_consolidation: the hits of an
   entry are the days it was met on. *)
Frequency(line)     == 200 * Min({line.refs, 5})
Consolidation(line) == <<0, 333, 667, 1000>>[1 + Min({line.refs, 3})]

(* DecayScorer._score_persistence *)
Persistence(class) ==
  IF class.type = "meta" THEN 50
  ELSE [permanent |-> 950, stable |-> 750, transient |-> 400,
        ephemeral |-> 100][class.tier]

(* DecayScorer.score: the recency is of the tier the parser found, the
   persistence of the class the model may have corrected. *)
FinalScore(line, class) ==
  30 * Recency(line, Parsed(line).tier)
    + 25 * (IF Parsed(line).type = "meta" THEN 0 ELSE Frequency(line))
    + 20 * (IF Parsed(line).type = "meta" THEN 0 ELSE Consolidation(line))
    + 15 * Persistence(class)
    + 10 * (IF Parsed(line).type = "meta" THEN 0 ELSE line.rich)

(* DecayScorer._llm_reclassify: only entries of unknown type are asked
   about, and an answer may name any valid class, none, or be lost. *)
Reclassified(line) ==
  IF Parsed(line).type = "unknown"
    THEN {Parsed(line)} \cup [type : LlmTypes, tier : Tiers]
    ELSE {Parsed(line)}

ProtectedTypes == {"identity", "constraint", "todo", "decision"}

(* _deep_prune, the entries it never takes *)
Protected(class) == class.type \in ProtectedTypes \/ class.tier = "permanent"

(* The dynamic threshold: 0.35 at first, 0.05 more for every 100 entries,
   at most 0.50. *)
Threshold(total) == Max({35000, Min({50000, 35000 + 50 * total})})

(* max(1, int(total * max_prune_ratio)) with the ratio 0.20 *)
Cap(total) == Max({1, total \div 5})

(* The sets _deep_prune may choose: the Cap(total) prunable entries of the
   lowest score, ties broken by the order of the file. *)
PruneChoices(lines, found) ==
  LET total == Cardinality(lines)
      prunable == {l \in lines : ~found[l].kept /\ found[l].score < Threshold(total)}
      n == Min({Cap(total), Cardinality(prunable)})
  IN  {s \in kSubset(n, prunable) :
         \A a \in s, b \in prunable \ s : found[a].score <= found[b].score}
=============================================================================
