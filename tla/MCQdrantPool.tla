----------------------------- MODULE MCQdrantPool -----------------------------
(* Small instances of QdrantPool: fewer clients than threads, a search     *)
(* (one retried request), an upsert of two batches (two retried requests), *)
(* a count (two requests, none retried), and a count that finds no         *)
(* collection (one request, as a health check).                            *)
EXTENDS QdrantPool

Search == [calls |-> 1, retried |-> TRUE]
UpsertTwo == [calls |-> 2, retried |-> TRUE]
Count == [calls |-> 2, retried |-> FALSE]
Probe == [calls |-> 1, retried |-> FALSE]

MCOps == {Search, UpsertTwo, Count, Probe}

=============================================================================
