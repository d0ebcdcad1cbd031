------------------------------- MODULE Reranker -------------------------------
(***************************************************************************)
(* The cross-encoder reranker (src/retrieval/rerank.py), without state.    *)
(*                                                                         *)
(* "score" is what the model makes of each candidate; "config" holds the   *)
(* two settings that decide what is kept: top_k and min_score, a set with  *)
(* the minimum, empty for None.                                            *)
(***************************************************************************)
EXTENDS Integers, Sequences, Sorting

Least(a, b) == IF a < b THEN a ELSE b

(* Best first: by score, then by id. *)
Above(score, c, d) ==
    \/ score[c] > score[d]
    \/ score[c] = score[d] /\ c.id < d.id

Highest(score, candidates) ==
    {pair \in candidates \X candidates : Above(score, pair[1], pair[2])}

(* Mutant: the cut is made before the sort, in the order of the ids. *)
RerankCutFirst(candidates, score, config) ==
    LET ids == Sorted(candidates, {pair \in candidates \X candidates : pair[1].id < pair[2].id})
        kept == {ids[i] : i \in 1..Least(Len(ids), config.top_k)}
    IN  Sorted(kept, Highest(score, kept))

(* Drop the candidates that score too low, sort the rest, keep top_k. *)
Rerank(candidates, score, config) ==
    LET high == {c \in candidates : \A low \in config.min_score : score[c] >= low}
        ranked == Sorted(high, Highest(score, high))
    IN  SubSeq(ranked, 1, Least(Len(ranked), config.top_k))

=============================================================================
