------------------------------ MODULE SparseIndex ------------------------------
(***************************************************************************)
(* The search of the sparse index (BM25Index.search,                       *)
(* src/ingest/bm25_index.py), without state.  A snapshot is the sequence   *)
(* of its chunks, in build order, each with the score that BM25 gives it   *)
(* for the query: any number, zero and negative ones included.             *)
(***************************************************************************)
EXTENDS Integers, Sequences, FiniteSets

(* The chunks before i in the stable sort by falling score. *)
Before(snapshot, i) ==
    {j \in DOMAIN snapshot :
        \/ snapshot[j].score > snapshot[i].score
        \/ snapshot[j].score = snapshot[i].score /\ j < i}

(* The top_k first of all chunks, those without a term of the query        *)
(* included; nothing for a blank query, as over a corpus without terms.    *)
SearchSparse(snapshot, blank, top_k) ==
    LET hits == {i \in DOMAIN snapshot :
                    ~blank /\ Cardinality(Before(snapshot, i)) < top_k}
    IN  [id \in {snapshot[i].id : i \in hits} |->
            (CHOOSE chunk \in {snapshot[i] : i \in hits} : chunk.id = id).score]

=============================================================================
