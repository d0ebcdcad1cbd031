-------------------------- MODULE MCHybridRetriever --------------------------
(* Small instances of HybridRetriever: four chunks, at most three hits     *)
(* per leg, negative, zero and positive scores.                            *)
EXTENDS HybridRetriever

CONSTANT Ids

Scores == {-1, 0, 2}

MCLegs == UNION {[S -> Scores] : S \in {T \in SUBSET Ids : Cardinality(T) <= CandidateK}}

(* Any of the chunks, in the order of their ids or against it. *)
MCSnapshots ==
    LET Built(scores, order) ==
            SelectSeq([i \in DOMAIN order |->
                          [id |-> order[i],
                           score |-> IF order[i] \in DOMAIN scores THEN scores[order[i]] ELSE 9]],
                      LAMBDA chunk : chunk.id \in DOMAIN scores)
    IN  {Built(scores, order) : scores \in UNION {[S -> Scores] : S \in SUBSET Ids},
                                order \in {<<1, 2, 3, 4>>, <<4, 3, 2, 1>>}}

MCWeights == {[sparse |-> 6, dense |-> 5], [sparse |-> 0, dense |-> 1]}

(* The copies of a chunk score alike, against the order of the ids; or the *)
(* dense copy scores higher, and chunk 1 too low in either.                *)
MCCrossEncoders ==
    {[x \in Ids |-> [sparse |-> 4 - x, dense |-> 4 - x]],
     [x \in Ids |-> [sparse |-> x - 2, dense |-> IF x = 1 THEN 0 - 1 ELSE 2]]}

=============================================================================
