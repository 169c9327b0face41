----------------------------- MODULE RankFusion -----------------------------
(***************************************************************************)
(* The client-side reference of the hybrid-rrf workload: reciprocal rank   *)
(* fusion of the exact BM25 and KNN lists, and the score of a returned     *)
(* page against it.  Scores are kept exact: 1 / (k + rank) is multiplied   *)
(* by Scale, so that the code's tolerances, *)
(* which only absorb f64 and f32 rounding, become equality.                *)
(***************************************************************************)
EXTENDS Naturals, Sequences, SequencesExt

CONSTANTS Rows, \* row ids, numbers
          Window, \* W, candidates of each list
          RankConstant, \* k
          Scale \* a common multiple of k + 1 .. k + W

ASSUME FusionAssumption ==
  /\ IsFiniteSet(Rows) /\ Rows \subseteq Nat
  /\ Window \in Nat /\ RankConstant \in Nat /\ Scale \in Nat
  /\ \A r \in 1..Window : RankConstant + r > 0 /\ Scale % (RankConstant + r) = 0

VARIABLES lists, \* the two candidate lists and top
          reference, \* their fusion, <<>> before
          answer \* the returned page and its score, <<>> before
fusionVars == <<lists, reference, answer>>

At(r) == Scale \div (RankConstant + r)

(* sequences over S of at most n elements, none twice *)
Ranked(S, n) == {s \in UNION {[1..m -> S] : m \in 0..n} : IsInjective(s)}

-----------------------------------------------------------------------------
(* rrf_fuse: a repeated id counts at its first rank, ties by id *)
RankIn(list, id)  == CHOOSE r \in DOMAIN list : list[r] = id
ScoreIn(list, id) == IF Contains(list, id) THEN At(RankIn(list, id)) ELSE 0
RrfFuse ==
  LET score  == [id \in Rows |-> ScoreIn(lists.bm25, id) + ScoreIn(lists.knn, id)]
      scored == {id \in Rows : score[id] > 0}
      Before(a, b) == score[a] > score[b] \/ (score[a] = score[b] /\ a < b)
  IN  [score |-> score,
       ids |-> CHOOSE s \in [1..Cardinality(scored) -> scored] : \A i, j \in DOMAIN s : i < j => Before(s[i], s[j])]

FusedScore(id) == reference.score[id]
Fused          == reference.ids

(* the reference refuses a BM25 list that is too long or repeats an id *)
CheckReference == Len(lists.bm25) <= Window /\ IsInjective(lists.bm25)

Expected == IF lists.top < Len(Fused) THEN lists.top ELSE Len(Fused)

(* score_query: hits above the cutoff, and tied ones up to their slots *)
Above     == {id \in Rows : Expected > 0 /\ FusedScore(id) > FusedScore(Fused[Expected])}
Tied      == {id \in Rows : Expected > 0 /\ FusedScore(id) = FusedScore(Fused[Expected])}
TieSlots  == Expected - Cardinality(Above)
(* mistake: a tied id may stand in for a missed higher one *)
ScoreQueryAnyTie(page) ==
  LET hits == Cardinality(ToSet(page) \cap (Above \cup Tied)) IN IF hits < Expected THEN hits ELSE Expected

ScoreQuery(page) ==
  LET got  == ToSet(page)
      tied == Cardinality(got \cap Tied)
  IN  Cardinality(got \cap Above) + (IF tied < TieSlots THEN tied ELSE TieSlots)

ReferenceTopIds == {Fused[i] : i \in 1..Expected}
StrictHits(page) == Cardinality(ToSet(page) \cap ReferenceTopIds)

-----------------------------------------------------------------------------
(* Every returned score must lie on the lattice of RRF scores. *)
CheckRrfScore(s) ==
  \E a \in 1..Window : s = At(a) \/ \E b \in 1..Window : s = At(a) + At(b)

CheckPageScores(scores) ==
  /\ \A i \in DOMAIN scores : CheckRrfScore(scores[i])
  /\ \A i \in 1..(Len(scores) - 1) : scores[i] >= scores[i + 1]

(* score_page: "refused", or the hits *)
ScorePage(page, scores) ==
  IF Len(page) > lists.top \/ ~IsInjective(page) \/ ~CheckPageScores(scores) THEN {}
  ELSE {[hits |-> ScoreQuery(page), strict |-> StrictHits(page)]}

-----------------------------------------------------------------------------
FusionInit ==
  /\ lists \in [bm25 : Ranked(Rows, Window), knn : {s \in Ranked(Rows, Window) : Len(s) = Window}, top : 1..Window]
  /\ reference = <<>> /\ answer = <<>>

(* before the timed window *)
BuildReference ==
  /\ reference = <<>> /\ CheckReference
  /\ reference' = RrfFuse
  /\ UNCHANGED <<lists, answer>>

(* the server may return any page, with the scores its own fusion gives *)
Answer ==
  /\ reference # <<>> /\ answer = <<>>
  /\ \E page \in Ranked(Rows, lists.top) :
       answer' = [page |-> page, scored |-> ScorePage(page, [i \in DOMAIN page |-> FusedScore(page[i])])]
  /\ UNCHANGED <<lists, reference>>

-----------------------------------------------------------------------------
(* The ids a correct server may put on the page: the best Expected ones,   *)
(* any of the tied ones in the last places.                                *)
LegalTops ==
  {T \in SUBSET {id \in Rows : FusedScore(id) > 0} :
     /\ Cardinality(T) = Expected
     /\ \A x \in T, y \in {id \in Rows : FusedScore(id) > 0} \ T : FusedScore(x) >= FusedScore(y)}

BestOverlap(page) ==
  CHOOSE n \in 0..lists.top :
    /\ \E T \in LegalTops : Cardinality(ToSet(page) \cap T) = n
    /\ \A T \in LegalTops : Cardinality(ToSet(page) \cap T) <= n

(* The published recall of a page is its overlap with the legal top page   *)
(* nearest to it, whatever ties the cutoff splits: 1 exactly for a legal   *)
(* page, and never raised by a tied id that replaced a higher one. A page  *)
(* the server fused as asked and ranked by score is never refused.         *)
RecallIsBestOverlap ==
  answer # <<>> =>
    /\ \A s \in answer.scored : s.hits = BestOverlap(answer.page) /\ s.strict <= s.hits
    /\ ToSet(answer.page) \in LegalTops /\ (\A i \in 1..(Len(answer.page) - 1) :
          FusedScore(answer.page[i]) >= FusedScore(answer.page[i + 1])) =>
            \E s \in answer.scored : s.hits = Expected
=============================================================================
