-------------------------------- MODULE Fusion --------------------------------
(***************************************************************************)
(* Reciprocal rank fusion of the two retrieval legs                        *)
(* (src/retrieval/fusion.py), without state.                               *)
(*                                                                         *)
(* A leg is a function from the ids of its hits to their raw scores: the   *)
(* order in which a leg returns its hits is lost to rank_leg, which sorts  *)
(* by score, then by id.  Ids are integers, in the order of their strings. *)
(* Scores of fused hits are exact: RRF contributions are integers, in      *)
(* units of 1 / Scale.                                                     *)
(***************************************************************************)
EXTENDS Integers, SequencesExt, Sorting

CONSTANTS
    RrfK,    \* smoothing constant of RRF
    MaxRank, \* bound of the model: hits in a leg
    Scale    \* a common multiple of RrfK + 1 .. RrfK + MaxRank

ASSUME RrfKPositive == RrfK \in Nat \ {0}
ASSUME MaxRankNat == MaxRank \in Nat
ASSUME ScaleIsExact ==
    /\ Scale \in Nat \ {0}
    /\ \A rank \in 1..MaxRank : Scale % (RrfK + rank) = 0

-----------------------------------------------------------------------------
(* A leg: the hits of a query with their scores. *)
IsLeg(leg) ==
    /\ IsFiniteSet(DOMAIN leg)
    /\ DOMAIN leg \subseteq Int
    /\ leg \in [DOMAIN leg -> Int]

(* Mutant: scores are divided by their span without the minimum taken off. *)
NormalizeUnshifted(leg) ==
    LET scores == {leg[x] : x \in DOMAIN leg}
    IN  IF Cardinality(scores) <= 1 THEN [score |-> leg, span |-> 1]
        ELSE [score |-> leg, span |-> Max(scores) - Min(scores)]

(* Min-max scores of a leg, as integers over a common "span".  Equal       *)
(* scores become one, and a lone hit keeps its raw score.                  *)
Normalize(leg) ==
    LET scores == {leg[x] : x \in DOMAIN leg}
        low == Min(scores)
        high == Max(scores)
    IN  IF Cardinality(DOMAIN leg) <= 1 THEN [score |-> leg, span |-> 1]
        ELSE IF low = high
        THEN [score |-> [x \in DOMAIN leg |-> 1], span |-> 1]
        ELSE [score |-> [x \in DOMAIN leg |-> leg[x] - low], span |-> high - low]

(* The leg as fuse() ranks it, normalized or not. *)
Prepared(leg, normalize) ==
    IF normalize THEN Normalize(leg) ELSE [score |-> leg, span |-> 1]

(* Best first: by score, then by id. *)
Precedes(score, x, y) == score[x] > score[y] \/ (score[x] = score[y] /\ x < y)

BestFirst(score) ==
    {pair \in (DOMAIN score) \X (DOMAIN score) : Precedes(score, pair[1], pair[2])}

(* Mutant: the leg is sorted ascending. *)
RankAscending(score, x) ==
    1 + Cardinality({y \in DOMAIN score : Precedes(score, x, y)})

Rank(score, x) == 1 + Cardinality({y \in DOMAIN score : Precedes(score, y, x)})

(* What a leg adds to the fused score of x. *)
Contribution(score, weight, x) ==
    IF x \in DOMAIN score THEN weight * (Scale \div (RrfK + Rank(score, x))) ELSE 0

(* The copy of x that survives deduplication: the dense one only if its    *)
(* score is higher than the sparse one's.                                  *)
Copy(sparse, dense, x) ==
    IF /\ x \in DOMAIN dense.score
       /\ x \in DOMAIN sparse.score =>
             dense.score[x] * sparse.span > sparse.score[x] * dense.span
    THEN "dense"
    ELSE "sparse"

(* The fused score of every hit of either leg. *)
Fused(sparse, dense, weights) ==
    [x \in DOMAIN sparse \cup DOMAIN dense |->
        Contribution(sparse, weights.sparse, x) + Contribution(dense, weights.dense, x)]

(* The fused ranking: each hit once, with the copy that was kept, and the  *)
(* source rewritten.                                                       *)
Fuse(sparseLeg, denseLeg, weights, normalize) ==
    LET sparse == Prepared(sparseLeg, normalize)
        dense == Prepared(denseLeg, normalize)
        score == Fused(sparse.score, dense.score, weights)
        order == Sorted(DOMAIN score, BestFirst(score))
    IN  [i \in DOMAIN order |->
            [id |-> order[i], copy |-> Copy(sparse, dense, order[i]),
             source |-> "fused"]]

=============================================================================
