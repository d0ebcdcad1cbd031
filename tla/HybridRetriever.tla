--------------------------- MODULE HybridRetriever ---------------------------
(***************************************************************************)
(* One query through the hybrid pipeline (HybridRetriever.retrieve,        *)
(* src/retrieval/strategies.py): both legs, their fusion, the reranker     *)
(* (src/retrieval/rerank.py), and the spans of the latency tracer around   *)
(* the stages (src/retrieval/tracing.py).                                  *)
(*                                                                         *)
(* The dense leg may return any hits within the candidate pool, the sparse *)
(* one the best of a snapshot.  The text of a chunk is the leg it comes    *)
(* from: the two indexes may hold different versions of a chunk, and the   *)
(* cross-encoder scores the text it is given.                              *)
(***************************************************************************)
EXTENDS Fusion, Reranker, SparseIndex

CONSTANTS
    Snapshots,     \* Seq([id, score]): scored chunks of the sparse index
    Legs,          \* what Qdrant may return for the query
    Weights,       \* [sparse, dense]: weights of the legs, per deployment
    CrossEncoders, \* [id -> [copy -> score]], how the model may score
    TopKs,         \* top_k of the request
    CandidateK,    \* candidates per leg
    RerankTopK,    \* top_k of the reranker
    MinScore       \* min_score of the reranker

ASSUME SnapshotsType == \A snapshot \in Snapshots : snapshot \in Seq([id : Int, score : Int])
ASSUME LegsFitThePool ==
    /\ CandidateK \in 0..MaxRank
    /\ \A leg \in Legs : IsLeg(leg) /\ Cardinality(DOMAIN leg) <= CandidateK
ASSUME WeightsType == Weights \subseteq [sparse : Nat, dense : Nat]
ASSUME EveryTextHasAScore ==
    \A score \in CrossEncoders :
        /\ \A snapshot \in Snapshots : \A i \in DOMAIN snapshot :
              score[snapshot[i].id].sparse \in Int
        /\ \A leg \in Legs : \A x \in DOMAIN leg : score[x].dense \in Int
ASSUME CutsType == TopKs \subseteq Nat /\ RerankTopK \in Nat /\ MinScore \in Int

VARIABLES
    weights, normalize, encoder, top_k,  \* the deployment and the request
    stage,    \* the stage that runs next, "done" or "raised"
    sparse,   \* what the sparse leg returned
    dense,    \* what the dense leg returned
    fused,    \* Seq([id, copy, source])
    results,  \* Seq([id, copy, source]), what the caller gets
    spans,    \* names of the spans recorded
    failed    \* the stage that raised, or "none"

inputs == <<weights, normalize, encoder, top_k>>
vars == <<inputs, stage, sparse, dense, fused, results, spans, failed>>

-----------------------------------------------------------------------------
Init ==
    /\ weights \in Weights
    /\ normalize \in BOOLEAN
    /\ encoder \in CrossEncoders
    /\ top_k \in TopKs
    /\ stage = "sparse"
    /\ sparse = <<>>
    /\ dense = <<>>
    /\ fused = <<>>
    /\ results = <<>>
    /\ spans = <<>>
    /\ failed = "none"

(* The current stage returns, its span is recorded, and "next" follows. *)
Close(next) ==
    /\ spans' = Append(spans, stage)
    /\ stage' = next
    /\ UNCHANGED <<inputs, failed>>

SparseStage ==
    /\ stage = "sparse"
    /\ \E snapshot \in Snapshots, blank \in BOOLEAN :
          sparse' = SearchSparse(snapshot, blank, CandidateK)
    /\ Close("dense")
    /\ UNCHANGED <<dense, fused, results>>

DenseStage ==
    /\ stage = "dense"
    /\ dense' \in Legs
    /\ Close("fuse")
    /\ UNCHANGED <<sparse, fused, results>>

FuseStage ==
    /\ stage = "fuse"
    /\ fused' = Fuse(sparse, dense, weights, normalize)
    /\ Close("rerank")
    /\ UNCHANGED <<sparse, dense, results>>

ModelScore(candidates) == [c \in candidates |-> encoder[c.id][c.copy]]
Kept(ranked) == SubSeq(ranked, 1, Least(Len(ranked), top_k))

(* Mutant: only the first candidates of the fused ranking are scored. *)
RerankFirst(candidates) ==
    LET pool == {candidates[i] : i \in 1..Least(CandidateK, Len(candidates))}
    IN  Kept(Rerank(pool, ModelScore(pool), [top_k |-> RerankTopK, min_score |-> {MinScore}]))

(* Every candidate is scored; the reranker's top_k cuts first, then the    *)
(* request's.                                                              *)
Reranked(candidates) ==
    LET all == {candidates[i] : i \in DOMAIN candidates}
    IN  Kept(Rerank(all, ModelScore(all), [top_k |-> RerankTopK, min_score |-> {MinScore}]))

RerankStage ==
    /\ stage = "rerank"
    /\ results' = Reranked(fused)
    /\ Close("done")
    /\ UNCHANGED <<sparse, dense, fused>>

(* The dense leg cannot reach Qdrant, or a model does not load.  The span  *)
(* is recorded after its yield, so the exception passes it by.             *)
StageRaises ==
    /\ stage \in {"dense", "rerank"}
    /\ stage' = "raised"
    /\ failed' = stage
    /\ UNCHANGED <<inputs, sparse, dense, fused, results, spans>>

Next ==
    \/ SparseStage
    \/ DenseStage
    \/ FuseStage
    \/ RerankStage
    \/ StageRaises

Spec == Init /\ [][Next]_vars

-----------------------------------------------------------------------------
Candidates == DOMAIN sparse \cup DOMAIN dense
Position(s, x) == CHOOSE i \in DOMAIN s : s[i].id = x

(* x is ranked before y by the raw scores of a leg, or the leg has only x. *)
LegPrefers(leg, x, y) ==
    x \in DOMAIN leg /\ (y \in DOMAIN leg => Precedes(leg, x, y))

(* The fused ranking has each hit of either leg exactly once, with a copy  *)
(* its leg returned, and never reverses two hits that the legs agree on:   *)
(* if no leg prefers y to x and a leg of positive weight prefers x, x      *)
(* comes first, normalized or not.                                         *)
FusionRespectsTheLegs ==
    stage \in {"rerank", "done"} =>
        /\ Len(fused) = Cardinality(Candidates)
        /\ {fused[i].id : i \in DOMAIN fused} = Candidates
        /\ \A i \in DOMAIN fused :
              fused[i].id \in DOMAIN (IF fused[i].copy = "dense" THEN dense ELSE sparse)
        /\ \A x, y \in Candidates :
              /\ ~LegPrefers(sparse, y, x)
              /\ ~LegPrefers(dense, y, x)
              /\ \/ LegPrefers(sparse, x, y) /\ weights.sparse > 0
                 \/ LegPrefers(dense, x, y) /\ weights.dense > 0
              => Position(fused, x) < Position(fused, y)

(* Normalized scores of the two legs are comparable: of a chunk in both,   *)
(* each with two hits or more, the dense copy is kept only if the sparse   *)
(* leg has a better hit and the dense leg a worse one (or all its hits     *)
(* score alike).                                                           *)
CopiesAreComparable ==
    stage \in {"rerank", "done"} /\ normalize =>
        \A i \in DOMAIN fused :
            LET x == fused[i].id IN
            /\ fused[i].copy = "dense"
            /\ x \in DOMAIN sparse
            /\ Cardinality(DOMAIN sparse) > 1
            /\ Cardinality(DOMAIN dense) > 1
            => /\ \E y \in DOMAIN sparse : sparse[y] > sparse[x]
               /\ \/ \E y \in DOMAIN dense : dense[x] > dense[y]
                  \/ \A y \in DOMAIN dense : dense[x] = dense[y]

(* The results are the best of all candidates as the cross-encoder scores  *)
(* them, whatever the fused order: sorted, above the minimum score, and    *)
(* short of a candidate only if full, or if the candidate scores too low.  *)
(* Fusion weights and ranks therefore never change what a caller gets.     *)
ResultsAreTheBest ==
    stage = "done" =>
        LET kept == {results[i] : i \in DOMAIN results}
            Better(c, d) == Above(ModelScore({c, d}), c, d)
            full == Len(results) = Least(RerankTopK, top_k)
        IN  /\ Len(results) <= Least(RerankTopK, top_k)
            /\ \A i, j \in DOMAIN results : i < j => Better(results[i], results[j])
            /\ \A i \in DOMAIN fused :
                  LET c == fused[i] IN
                  IF encoder[c.id][c.copy] < MinScore
                  THEN c \notin kept
                  ELSE c \in kept \/ (full /\ \A d \in kept : Better(d, c))

(* A span is recorded for every stage that was run, the one that raised    *)
(* included: "span closes even if the body raises" (tracing.py).           *)
RaisedStageHasSpan ==
    stage = "raised" => failed \in {spans[i] : i \in DOMAIN spans}

=============================================================================
