---------------------------- MODULE DurableIndex ----------------------------
(***************************************************************************)
(* What ingestion promises the rest of Retrieve-Me, with nothing of how it *)
(* keeps the promise: chunks get indexed and stay indexed, a run reports   *)
(* success only for chunks that are indexed, and the running service       *)
(* searches the one sparse snapshot it loaded until it stops.              *)
(* Module Ingestion implements this specification, and RetrieveApi serves  *)
(* queries in the environment it describes.                                *)
(***************************************************************************)
CONSTANT ChunkId

VARIABLES
    indexed,  \* chunks with a point in the dense collection
    acked,    \* chunks of the runs that reported success
    up,       \* whether the service answers queries
    served    \* chunks of the sparse snapshot the service holds in memory

vars == <<indexed, acked, up, served>>

TypeOK ==
    /\ indexed \subseteq ChunkId
    /\ acked \subseteq ChunkId
    /\ up \in BOOLEAN
    /\ served \subseteq ChunkId

Init ==
    /\ indexed = {}
    /\ acked = {}
    /\ up = FALSE
    /\ served = {}

(* One upsert request reaches the dense collection. *)
Index(ids) ==
    /\ indexed' = indexed \cup ids
    /\ UNCHANGED <<acked, up, served>>

(* A run ends well: everything it was given is indexed by then. *)
Ack(ids) ==
    /\ ids \subseteq indexed
    /\ acked' = acked \cup ids
    /\ UNCHANGED <<indexed, up, served>>

(* The service loads some earlier sparse snapshot, possibly none: when it  *)
(* boots, or without warmup for the first request that needs it.           *)
Load(ids) ==
    /\ ~up
    /\ ids \subseteq indexed
    /\ up' = TRUE
    /\ served' = ids
    /\ UNCHANGED <<indexed, acked>>

Stop ==
    /\ up
    /\ up' = FALSE
    /\ served' = {}
    /\ UNCHANGED <<indexed, acked>>

Next ==
    \/ \E ids \in SUBSET ChunkId : Index(ids) \/ Ack(ids) \/ Load(ids)
    \/ Stop

Spec == Init /\ [][Next]_vars

=============================================================================
