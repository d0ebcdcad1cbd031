---------------------------- MODULE MCRetrieveApi ----------------------------
(***************************************************************************)
(* Small instances of RetrieveApi: two documents of one chunk each, one    *)
(* query that ranks both, pages of one result, and every way to send       *)
(* filters (null, empty, one document).                                    *)
(***************************************************************************)
EXTENDS RetrieveApi, TLC

CONSTANTS a0, b0, A, B, q

MCDocOf == [id \in ChunkId |-> IF id = a0 THEN A ELSE B]
MCRankTwo == q :> <<a0, b0>>

Request(pages, filters) ==
    [query : {q}, top_k : {2}, page : pages, page_size : {1}, filters : filters]

MCPages == Request({1, 2}, {None}) \cup Request({1}, {{}})
MCFilters == Request({1}, {None, {B}})
MCOneRequest == Request({1}, {None})

Symmetry == Permutations(Threads)

=============================================================================
