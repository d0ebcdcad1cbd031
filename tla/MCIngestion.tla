----------------------------- MODULE MCIngestion -----------------------------
(***************************************************************************)
(* Small instances of Ingestion for TLC.  A document of two chunks, which  *)
(* an edit shortens to one, and another document: the corpora that tell    *)
(* the properties apart, two that share a chunk and one that shares none.  *)
(***************************************************************************)
EXTENDS Ingestion

CONSTANTS a0, a1, b0, Long, Short, Other

MCChunksOf ==
    [c \in Corpora |->
        CASE c = Long -> <<a0, a1>>
          [] c = Short -> <<a0>>
          [] c = Other -> <<b0>>]

=============================================================================
