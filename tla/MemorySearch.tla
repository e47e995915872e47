---------------------------- MODULE MemorySearch ----------------------------
(***************************************************************************)
(* What a search of the memory returns: QdrantMemorySearcher of            *)
(* src/lightclaw/agent/memory/qdrant_searcher.py.                          *)
(*                                                                         *)
(* Chunks are found by the distance of their vectors, which Qdrant filters *)
(* by their payload, and by keywords in SQLite, which does not.  The two   *)
(* are merged, weighed by date, age, importance and former hits, cut at a  *)
(* threshold and put in an order of relevance and diversity.               *)
(*                                                                         *)
(* Scores are integers: 1 of the program is Unit.  Ages are in half-lives. *)
(***************************************************************************)
EXTENDS Integers, Sequences, FiniteSets, SequencesExt

CONSTANTS
  Chunks,  \* chunks of the index
  ChunkOf  \* [Chunks -> what a query finds of it: vec and text, the scores in
           \* percent, 0 where it is not found; hits, the keywords found; day,
           \* the date of its file or Undated; age, since that date or, of files
           \* without one, since their last change, 0 if they do not age; imp,
           \* its importance in percent; barred, marked as secret, raw session
           \* or tool output; words, of its snippet]

Undated == 0
Unit    == 10000

ASSUME ChunksAssumption ==
  /\ IsFiniteSet(Chunks)
  /\ \A c \in Chunks : /\ ChunkOf[c].vec \in 0 .. 100 /\ ChunkOf[c].text \in 0 .. 99
                       /\ ChunkOf[c].imp \in 0 .. 100 /\ ChunkOf[c].age \in Nat
                       /\ ChunkOf[c].barred \in BOOLEAN /\ IsFiniteSet(ChunkOf[c].words)

(* SearchConfig with the defaults of create_search_config_from_env, of a
   query for at most three results of a score of at least 0.2. *)
MaxResults == 3
MinScore   == 20 * 100
VectorPart == 70
TextPart   == 30
Lambda     == 70
Floor      == 15 * 100
Limit      == IF 4 * MaxResults < 200 THEN 4 * MaxResults ELSE 200

(* The dates a query speaks of: none, or days it names, softly or not; more
   than a month of them are wide. *)
NoRange == [kind |-> "none", days |-> {}]

Strict(range) == range.kind \in {"hard", "wide"}

(* The elements at the given places, in their order *)
Pick(s, places) ==
  LET upTo[n \in 0 .. Len(s)] ==
        IF n = 0 THEN <<>>
        ELSE IF n \in places THEN Append(upTo[n - 1], s[n])
        ELSE upTo[n - 1]
  IN  upTo[Len(s)]

(* x stands behind what has at least its key. *)
Insert(s, x, key) ==
  LET front == {i \in DOMAIN s : key[s[i]] >= key[x]}
  IN  Append(Pick(s, front), x) \o Pick(s, DOMAIN s \ front)

(* A sequence by falling key, equals in the order they came *)
Falling(s, key) ==
  LET upTo[n \in 0 .. Len(s)] ==
        IF n = 0 THEN <<>> ELSE Insert(upTo[n - 1], s[n], key)
  IN  upTo[Len(s)]

ByScore(s) == Falling(s, [r \in ToSet(s) |-> r.score])

FirstOf(s, n) == SubSeq(s, 1, IF Len(s) < n THEN Len(s) ELSE n)

(* _build_date_path_filter: the payload of undated files never matches; for
   a wide range there is no filter. *)
Vectors(range) ==
  LET found == {c \in Chunks : /\ ChunkOf[c].vec > 0 /\ ~ChunkOf[c].barred
                               /\ range.kind = "hard" => ChunkOf[c].day \in range.days}
  IN  FirstOf(Falling(SetToSeq(found), [c \in found |-> ChunkOf[c].vec]), Limit)

(* _path_in_date_range, _apply_date_filter: undated files always pass. *)
Within(c, range) ==
  Strict(range) => ChunkOf[c].day \in range.days \cup {Undated}

(* The rows of SQLite: more are fetched where some will be left out. *)
Rows(range) ==
  LET found == {c \in Chunks : ChunkOf[c].text > 0}
      rows  == FirstOf(Falling(SetToSeq(found), [c \in found |-> ChunkOf[c].text]),
                       IF Strict(range) THEN 3 * Limit ELSE Limit)
  IN  Pick(rows, {i \in DOMAIN rows : Within(rows[i], range)})

(* _search_keyword *)
Keywords(range) == FirstOf(Rows(range), Limit)

(* A chunk found by keywords only has no importance and no former hits. *)
Result(c, score, known, count) ==
  [chunk |-> c, score |-> score, imp |-> IF known THEN ChunkOf[c].imp ELSE 50,
   count |-> IF known THEN count[c] ELSE 0]

(* _merge_hybrid_results *)
Merged(vectors, keywords, count) ==
  LET Score(c) == (IF c \in ToSet(vectors) THEN VectorPart * ChunkOf[c].vec ELSE 0)
                    + (IF c \in ToSet(keywords) THEN TextPart * ChunkOf[c].text ELSE 0)
      new      == {i \in DOMAIN keywords : keywords[i] \notin ToSet(vectors)}
      all      == vectors \o Pick(keywords, new)
  IN  [i \in 1 .. Len(all) |->
         Result(all[i], Score(all[i]), all[i] \in ToSet(vectors), count)]

(* _fts_only_search: further keywords found add a tenth each, up to four. *)
WordsOnly(range, count) ==
  LET found   == Rows(range)
      Bonus(c) == 10 + (IF ChunkOf[c].hits < 5 THEN ChunkOf[c].hits ELSE 5) - 1
  IN  [i \in 1 .. Len(found) |->
         Result(found[i], 10 * ChunkOf[found[i]].text * Bonus(found[i]), FALSE, count)]

(* _apply_date_filter, _apply_date_boost *)
Dated(results, range) ==
  LET Raised(r) == IF range.kind = "soft" /\ ChunkOf[r.chunk].day \in range.days
                     THEN [r EXCEPT !.score = (3 * @) \div 2] ELSE r
      kept == Pick(results, {i \in DOMAIN results : Within(results[i].chunk, range)})
  IN  [i \in 1 .. Len(kept) |-> Raised(kept[i])]

(* _apply_temporal_decay: not within days the query names. *)
Decayed(r, range) ==
  IF Strict(range) THEN r ELSE [r EXCEPT !.score = @ \div (2 ^ ChunkOf[r.chunk].age)]

(* The whole part of log2(1 + n) *)
Log(n) == CHOOSE k \in 0 .. n : 2 ^ k <= 1 + n /\ 1 + n < 2 ^ (k + 1)

(* _apply_importance_boost: an importance of 0 counts as none given. *)
Boosted(r) ==
  LET imp == IF r.imp > 0 THEN r.imp ELSE 50
  IN  [r EXCEPT !.score = (((@ * (50 + imp)) \div 100) * (100 + 15 * Log(r.count))) \div 100]

(* search: what is important passes at half the threshold, and when nothing
   passes, the best alone does if it is above the noise. *)
Passing(results) ==
  LET Passes(r) == r.score >= MinScore \/ (r.imp >= 70 /\ 2 * r.score >= MinScore)
      passing   == Pick(results, {i \in DOMAIN results : Passes(results[i])})
  IN  IF passing # <<>> \/ results = <<>> THEN passing
      ELSE IF results[1].score >= Floor THEN <<results[1]>> ELSE <<>>

(* _jaccard_similarity, in percent *)
Alike(c, d) ==
  LET a == ChunkOf[c].words
      b == ChunkOf[d].words
  IN  IF a \cup b = {} THEN 100
      ELSE (100 * Cardinality(a \cap b)) \div Cardinality(a \cup b)

Greatest(S) == CHOOSE x \in S : \A y \in S : y <= x

(* What is relevant and unlike what was chosen, when all scores are equal
   each as relevant as the other *)
Worth(r, chosen, results) ==
  LET scores == {x.score : x \in ToSet(results)}
      low    == CHOOSE x \in scores : \A y \in scores : x <= y
      width  == Greatest(scores) - low
  IN  Lambda * 100 * (IF width = 0 THEN 1 ELSE r.score - low)
        - (100 - Lambda) * (IF width = 0 THEN 1 ELSE width)
            * Greatest({0} \cup {Alike(r.chunk, s.chunk) : s \in ToSet(chosen)})

(* _select_best_mmr_candidate: of equals the one with the higher score,
   then the first. *)
Best(left, chosen, results) ==
  Falling(ByScore(left), [r \in ToSet(left) |-> Worth(r, chosen, results)])[1]

WithBest(chosen, results) ==
  LET left == Pick(results, {i \in DOMAIN results : results[i] \notin ToSet(chosen)})
  IN  IF left = <<>> THEN chosen ELSE Append(chosen, Best(left, chosen, results))

(* _mmr_rerank: the best of those that are left, until none is *)
Diverse(results) ==
  LET upTo[n \in 0 .. Len(results)] ==
        IF n = 0 THEN <<>> ELSE WithBest(upTo[n - 1], results)
  IN  IF Len(results) <= 1 THEN results ELSE upTo[Len(results)]

(* search, from the merge on *)
Weighed(results, range) ==
  LET dated == Dated(results, range)
  IN  ByScore([i \in 1 .. Len(dated) |-> Boosted(Decayed(dated[i], range))])

(* The whole of search: mode is "hybrid"; "words", without an embedding
   function; or "degraded", when the embedding or Qdrant fails. *)
SearchResults(mode, range, count) ==
  LET found == CASE mode = "words"    -> WordsOnly(range, count)
                 [] mode = "degraded" -> Merged(<<>>, Keywords(range), count)
                 [] OTHER             -> Merged(Vectors(range), Keywords(range), count)
  IN  FirstOf(Diverse(Passing(Weighed(found, range))), MaxResults)
=============================================================================
