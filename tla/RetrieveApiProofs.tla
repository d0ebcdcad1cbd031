--------------------------- MODULE RetrieveApiProofs ---------------------------
(***************************************************************************)
(* Proofs about RetrieveApi for any number of threads, requests, chunks    *)
(* and documents: a reply answers its request and is no longer than its    *)
(* page, pages of one list have nothing in common, a miss searches what    *)
(* was acknowledged before it, and only the sparse leg passes a filter by, *)
(* whatever is ingested, expires, loads or stops in between.               *)
(***************************************************************************)
EXTENDS RetrieveApi, ListProofs

-----------------------------------------------------------------------------
(* The inductive invariant *)

(* Success is reported only for chunks that are indexed. *)
AckedIsIndexed == acked \subseteq indexed

(* Threads serve requests only while the service is up. *)
DownIsFree == ~up => \A t \in Threads : pc[t] = "free"

(* A request is no older than what it counts as acknowledged, and has no   *)
(* hits before its first leg returned.                                     *)
HitsComeFromLegs ==
    \A t \in Threads :
        /\ acked0[t] \subseteq acked
        /\ pc[t] \in {"free", "lookup", "sparse"} => hits[t] = {}

(* The body was made for a request with the key of r, from the chunks that *)
(* the legs returned then.                                                 *)
MadeFor(body, r) ==
    \E s \in Requests, ids \in SUBSET ChunkId, degraded \in BOOLEAN :
        /\ CacheKey(s) = CacheKey(r)
        /\ body = Body(s, Matches(s, ids), degraded)

(* An entry was made for every request that has its key, and a reply with  *)
(* status 200 for the request of its thread.                               *)
EntriesAreMade ==
    \A r \in Requests :
        cache[CacheKey(r)] # None => MadeFor(cache[CacheKey(r)], r)
RepliesAreMade ==
    \A t \in Threads : Replied(t) => MadeFor(reply[t].body, req[t])

RInv ==
    /\ TypeOK
    /\ AckedIsIndexed
    /\ DownIsFree
    /\ HitsComeFromLegs
    /\ EntriesAreMade
    /\ RepliesAreMade
    /\ MissSeesAcked
    /\ OnlySparseLeaks

USE DEF vars, indexVars, threadVars

-----------------------------------------------------------------------------
(* Keys and bodies *)

(* A body answers every request that has the key of the one it was made    *)
(* for: the key holds all that a body repeats of its request.              *)
LEMMA BodyIsForItsKey ==
    ASSUME NEW r \in Requests, NEW s \in Requests, CacheKey(r) = CacheKey(s),
           NEW matches, NEW degraded
    PROVE  IsFor(Body(r, matches, degraded), s)
  <1>1. /\ r.query = s.query /\ r.page = s.page /\ r.page_size = s.page_size
        /\ Items(r.filters) = Items(s.filters)
    BY DEF CacheKey
  <1> DEFINE b == Body(r, matches, degraded)
  <1>2. /\ b.query = r.query /\ b.page = r.page /\ b.page_size = r.page_size
        /\ b.applied_filters = r.filters
    BY DEF Body
  <1> QED
    BY <1>1, <1>2 DEF IsFor

(* A pool holds some of the chunks found: all of them, or as many as it    *)
(* has room for.                                                           *)
LEMMA PoolsAreFull ==
    ASSUME NEW found \in SUBSET ChunkId, NEW pool \in Pools(found)
    PROVE  /\ pool \subseteq found
           /\ pool = found \/ Cardinality(pool) = CandidateK
  <1>1. /\ pool \in SUBSET found
        /\ Cardinality(pool) = Min(CandidateK, Cardinality(found))
    BY DEF Pools
  <1>2. IsFiniteSet(found)
    BY ChunkIdFinite, FS_Subset
  <1>3. Cardinality(found) = Cardinality(pool) => found = pool
    BY <1>1, <1>2, FS_Subset
  <1> QED
    BY <1>1, <1>3 DEF Min

LEMMA Initially == Init => RInv
  <1> SUFFICES ASSUME Init PROVE RInv
    OBVIOUS
  <1>1. TypeOK
    <2>1. Index!TypeOK
      BY DEF Init, Index!Init, Index!TypeOK
    <2>2. req \in [Threads -> Requests]
      BY RequestsType DEF Init
    <2> QED
      BY <2>1, <2>2, MaxStopsType DEF Init, TypeOK
  <1>2. EntriesAreMade
    BY DEF Init, EntriesAreMade, Keys
  <1> QED
    BY <1>1, <1>2
    DEF Init, Index!Init, RInv, AckedIsIndexed, DownIsFree, HitsComeFromLegs,
        RepliesAreMade, Replied, MissSeesAcked, OnlySparseLeaks

-----------------------------------------------------------------------------
(* Each conjunct is preserved by every step *)

LEMMA TypeStep == RInv /\ [Next]_vars => TypeOK'
  <1> SUFFICES ASSUME RInv, [Next]_vars PROVE TypeOK'
    OBVIOUS
  <1> USE DEF TypeOK, Index!TypeOK, RInv
  <1>1. ASSUME NEW t \in Threads, Receive(t) PROVE TypeOK'
    BY <1>1 DEF Receive
  <1>2. ASSUME NEW t \in Threads, LookupHit(t) \/ LookupMiss(t) PROVE TypeOK'
    BY <1>2 DEF LookupHit, LookupMiss
  <1>3. ASSUME NEW t \in Threads, SparseLeg(t) PROVE TypeOK'
    <2>1. PICK pool \in Pools(served) : hits' = [hits EXCEPT ![t] = pool]
      BY <1>3 DEF SparseLeg
    <2>2. pool \subseteq ChunkId
      BY <2>1, PoolsAreFull
    <2>3. hits' \in [Threads -> SUBSET ChunkId]
      BY <2>1, <2>2
    <2> QED
      BY <1>3, <2>3 DEF SparseLeg
  <1>4. ASSUME NEW t \in Threads, DenseLeg(t) PROVE TypeOK'
    <2>1. PICK pool \in Pools(Filtered(t)) :
             hits' = [hits EXCEPT ![t] = @ \cup pool]
      BY <1>4 DEF DenseLeg
    <2>2. pool \subseteq ChunkId
      BY <2>1, PoolsAreFull DEF Filtered
    <2>3. hits' \in [Threads -> SUBSET ChunkId]
      BY <2>1, <2>2
    <2> QED
      BY <1>4, <2>3 DEF DenseLeg
  <1>5. ASSUME NEW t \in Threads, DenseLegSwallowsError(t) \/ PipelineRaises(t)
        PROVE  TypeOK'
    BY <1>5 DEF DenseLegSwallowsError, PipelineRaises
  <1>6. ASSUME NEW t \in Threads, Store(t) PROVE TypeOK'
    BY <1>6 DEF Store
  <1>7. ASSUME NEW t \in Threads, Deliver(t) PROVE TypeOK'
    BY <1>7 DEF Deliver
  <1>8. CASE Expire
    BY <1>8 DEF Expire
  <1>9. CASE IndexGrows
    BY <1>9 DEF IndexGrows, Index!Index, Index!Ack
  <1>10. CASE ServiceLoads
    BY <1>10 DEF ServiceLoads, Index!Load
  <1>11. CASE ServiceStops
    <2>1. stops' \in 0..MaxStops
      BY <1>11, MaxStopsType DEF ServiceStops
    <2> QED
      BY <1>11, <2>1 DEF ServiceStops, Index!Stop
  <1>12. CASE UNCHANGED vars
    <2>1. UNCHANGED <<indexVars, cache, pc, req, hits, reply, stops, acked0, swallowed>>
      BY <1>12
    <2> QED
      BY <2>1
  <1> QED
    BY <1>1, <1>2, <1>3, <1>4, <1>5, <1>6, <1>7, <1>8, <1>9, <1>10, <1>11, <1>12
    DEF Next, Serve

LEMMA AckedStep == RInv /\ [Next]_vars => AckedIsIndexed'
  <1> SUFFICES ASSUME RInv, [Next]_vars PROVE AckedIsIndexed'
    OBVIOUS
  <1>1. UNCHANGED <<indexed, acked>> => AckedIsIndexed'
    BY DEF RInv, AckedIsIndexed
  <1>2. CASE IndexGrows
    BY <1>2 DEF IndexGrows, Index!Index, Index!Ack, RInv, AckedIsIndexed
  <1> QED
    BY <1>1, <1>2
    DEF Next, Serve, Receive, Deliver, LookupHit, LookupMiss, SparseLeg,
        DenseLeg, DenseLegSwallowsError, PipelineRaises, Store, Expire,
        ServiceLoads, ServiceStops, Index!Load, Index!Stop

(* A thread that moves was serving a request, or begins to: the service is *)
(* up in either case.                                                      *)
LEMMA DownStep == RInv /\ [Next]_vars => DownIsFree'
  <1> SUFFICES ASSUME RInv, [Next]_vars PROVE DownIsFree'
    OBVIOUS
  <1> USE DEF RInv, DownIsFree
  <1>1. ASSUME NEW t \in Threads, Receive(t) PROVE DownIsFree'
    BY <1>1 DEF Receive
  <1>2. ASSUME NEW t \in Threads, Serve(t) \/ Deliver(t) PROVE DownIsFree'
    <2>1. pc[t] # "free" /\ UNCHANGED up
      BY <1>2
      DEF Serve, LookupHit, LookupMiss, SparseLeg, DenseLeg,
          DenseLegSwallowsError, PipelineRaises, Store, Deliver
    <2> QED
      BY <2>1
  <1>3. CASE ServiceLoads
    BY <1>3 DEF ServiceLoads, Index!Load
  <1>4. CASE ServiceStops
    BY <1>4 DEF ServiceStops
  <1>5. CASE Expire \/ IndexGrows \/ UNCHANGED vars
    BY <1>5 DEF Expire, IndexGrows, Index!Index, Index!Ack
  <1> QED
    BY <1>1, <1>2, <1>3, <1>4, <1>5 DEF Next

LEMMA HitsStep == RInv /\ [Next]_vars => HitsComeFromLegs'
  <1> SUFFICES ASSUME RInv, [Next]_vars PROVE HitsComeFromLegs'
    OBVIOUS
  <1> USE DEF RInv, TypeOK, HitsComeFromLegs
  <1>1. ASSUME NEW t \in Threads, Receive(t) PROVE HitsComeFromLegs'
    BY <1>1 DEF Receive
  <1>2. ASSUME NEW t \in Threads, LookupHit(t) \/ LookupMiss(t)
        PROVE  HitsComeFromLegs'
    BY <1>2 DEF LookupHit, LookupMiss
  <1>3. ASSUME NEW t \in Threads, SparseLeg(t) PROVE HitsComeFromLegs'
    BY <1>3 DEF SparseLeg
  <1>4. ASSUME NEW t \in Threads, DenseLeg(t) PROVE HitsComeFromLegs'
    <2>1. /\ pc' = [pc EXCEPT ![t] = "store"]
          /\ \A u \in Threads : u # t => hits'[u] = hits[u]
          /\ UNCHANGED <<acked, acked0>>
      BY <1>4 DEF DenseLeg
    <2> QED
      BY <2>1
  <1>5. ASSUME NEW t \in Threads, DenseLegSwallowsError(t) \/ PipelineRaises(t)
        PROVE  HitsComeFromLegs'
    BY <1>5 DEF DenseLegSwallowsError, PipelineRaises
  <1>6. ASSUME NEW t \in Threads, Store(t) PROVE HitsComeFromLegs'
    BY <1>6 DEF Store
  <1>7. ASSUME NEW t \in Threads, Deliver(t) PROVE HitsComeFromLegs'
    BY <1>7 DEF Deliver
  <1>8. CASE Expire \/ UNCHANGED vars
    BY <1>8 DEF Expire
  <1>9. CASE IndexGrows
    BY <1>9 DEF IndexGrows, Index!Index, Index!Ack
  <1>10. CASE ServiceLoads
    BY <1>10 DEF ServiceLoads, Index!Load
  <1>11. CASE ServiceStops
    BY <1>11 DEF ServiceStops, Index!Stop
  <1> QED
    BY <1>1, <1>2, <1>3, <1>4, <1>5, <1>6, <1>7, <1>8, <1>9, <1>10, <1>11
    DEF Next, Serve

LEMMA EntriesStep == RInv /\ [Next]_vars => EntriesAreMade'
  <1> SUFFICES ASSUME RInv, [Next]_vars PROVE EntriesAreMade'
    OBVIOUS
  <1>1. ASSUME NEW t \in Threads, Store(t) PROVE EntriesAreMade'
    <2> DEFINE body == Body(req[t], Matches(req[t], hits[t]), swallowed[t])
    <2>1. cache' = [cache EXCEPT ![CacheKey(req[t])] = body] \/ UNCHANGED cache
      BY <1>1 DEF Store
    <2>2. CASE UNCHANGED cache
      BY <2>2 DEF RInv, EntriesAreMade
    <2>3. CASE cache' = [cache EXCEPT ![CacheKey(req[t])] = body]
      <3> SUFFICES ASSUME NEW r \in Requests, cache'[CacheKey(r)] # None
                   PROVE  MadeFor(cache'[CacheKey(r)], r)
        BY DEF EntriesAreMade
      <3>1. /\ req[t] \in Requests /\ CacheKey(r) \in DOMAIN cache
            /\ hits[t] \in SUBSET ChunkId /\ swallowed[t] \in BOOLEAN
        BY DEF RInv, TypeOK, Keys
      <3>2. CASE CacheKey(r) = CacheKey(req[t])
        <4>1. cache'[CacheKey(r)] = body
          BY <2>3, <3>1, <3>2
        <4>2. MadeFor(body, r)
          BY <3>1, <3>2 DEF MadeFor
        <4> QED
          BY <4>1, <4>2
      <3>3. CASE CacheKey(r) # CacheKey(req[t])
        BY <2>3, <3>1, <3>3 DEF RInv, EntriesAreMade
      <3> QED
        BY <3>2, <3>3
    <2> QED
      BY <2>1, <2>2, <2>3
  <1>2. CASE Expire
    BY <1>2 DEF Expire, RInv, TypeOK, EntriesAreMade, Keys
  <1>3. UNCHANGED cache => EntriesAreMade'
    BY DEF RInv, EntriesAreMade
  <1> QED
    BY <1>1, <1>2, <1>3
    DEF Next, Serve, Receive, Deliver, LookupHit, LookupMiss, SparseLeg,
        DenseLeg, DenseLegSwallowsError, PipelineRaises, IndexGrows,
        ServiceLoads, ServiceStops

(* The reply of a hit is the entry of the request's key, which is for the  *)
(* request by EntriesAreMade; that of a miss is made for it.                *)
LEMMA RepliesStep == RInv /\ [Next]_vars => RepliesAreMade'
  <1> SUFFICES ASSUME RInv, [Next]_vars PROVE RepliesAreMade'
    OBVIOUS
  <1>1. ASSUME NEW t \in Threads, LookupHit(t) PROVE RepliesAreMade'
    <2>1. /\ req[t] \in Requests /\ UNCHANGED req
          /\ \A u \in Threads : u # t => pc'[u] = pc[u] /\ reply'[u] = reply[u]
          /\ reply'[t] = Ok("HIT", cache[CacheKey(req[t])])
          /\ cache[CacheKey(req[t])] # None
      BY <1>1 DEF LookupHit, RInv, TypeOK
    <2>2. MadeFor(reply'[t].body, req[t])
      BY <2>1 DEF Ok, RInv, EntriesAreMade
    <2> QED
      BY <2>1, <2>2 DEF RInv, RepliesAreMade, Replied
  <1>2. ASSUME NEW t \in Threads, Store(t) PROVE RepliesAreMade'
    <2> DEFINE body == Body(req[t], Matches(req[t], hits[t]), swallowed[t])
    <2>1. /\ req[t] \in Requests /\ UNCHANGED req
          /\ \A u \in Threads : u # t => pc'[u] = pc[u] /\ reply'[u] = reply[u]
          /\ reply'[t] = Ok("MISS", body)
      BY <1>2 DEF Store, RInv, TypeOK
    <2>2. MadeFor(body, req[t])
      BY <2>1 DEF RInv, TypeOK, MadeFor
    <2>3. MadeFor(reply'[t].body, req[t])
      BY <2>1, <2>2 DEF Ok
    <2> QED
      BY <2>1, <2>3 DEF RInv, RepliesAreMade, Replied
  <1>3. ASSUME NEW t \in Threads, PipelineRaises(t) PROVE RepliesAreMade'
    BY <1>3 DEF PipelineRaises, BadGateway, RInv, TypeOK, RepliesAreMade, Replied
  <1>4. ASSUME NEW t \in Threads,
               Receive(t) \/ LookupMiss(t) \/ SparseLeg(t) \/ DenseLeg(t)
                 \/ DenseLegSwallowsError(t) \/ Deliver(t)
        PROVE  RepliesAreMade'
    <2>1. /\ pc'[t] # "replied"
          /\ \A u \in Threads : u # t =>
                pc'[u] = pc[u] /\ reply'[u] = reply[u] /\ req'[u] = req[u]
      BY <1>4
      DEF Receive, LookupMiss, SparseLeg, DenseLeg, DenseLegSwallowsError,
          Deliver, RInv, TypeOK
    <2> QED
      BY <2>1 DEF RInv, RepliesAreMade, Replied
  <1>5. CASE ServiceStops
    BY <1>5 DEF ServiceStops, RepliesAreMade, Replied
  <1>6. CASE Expire \/ IndexGrows \/ ServiceLoads \/ UNCHANGED vars
    <2>1. UNCHANGED <<pc, req, reply>>
      BY <1>6 DEF Expire, IndexGrows, ServiceLoads
    <2> QED
      BY <2>1 DEF RInv, RepliesAreMade, Replied
  <1> QED
    BY <1>1, <1>2, <1>3, <1>4, <1>5, <1>6 DEF Next, Serve

(* When the dense leg returns, the collection holds what was acknowledged  *)
(* by now, and so what was when the request came in.                       *)
LEMMA MissStep == RInv /\ [Next]_vars => MissSeesAcked'
  <1> SUFFICES ASSUME RInv, [Next]_vars PROVE MissSeesAcked'
    OBVIOUS
  <1> USE DEF RInv, TypeOK, MissSeesAcked
  <1>1. ASSUME NEW t \in Threads, DenseLeg(t) PROVE MissSeesAcked'
    <2>1. /\ UNCHANGED <<req, acked0, swallowed>>
          /\ \A u \in Threads : u # t => pc'[u] = pc[u] /\ hits'[u] = hits[u]
          /\ \E pool \in Pools(Filtered(t)) : hits'[t] = hits[t] \cup pool
      BY <1>1 DEF DenseLeg
    <2>2. acked0[t] \subseteq indexed
      BY DEF AckedIsIndexed, HitsComeFromLegs
    <2>3. PICK pool \in Pools(Filtered(t)) : hits'[t] = hits[t] \cup pool
      BY <2>1
    <2>4. /\ pool \subseteq Filtered(t)
          /\ pool = Filtered(t) \/ Cardinality(pool) = CandidateK
      <3>1. Filtered(t) \in SUBSET ChunkId
        BY DEF Filtered, Index!TypeOK
      <3> QED
        BY <3>1, PoolsAreFull
    <2> DEFINE passing == {id \in hits'[t] : Passes(id, req[t].filters)}
    <2>5. CASE pool = Filtered(t)
      <3>1. {id \in acked0[t] : Passes(id, req[t].filters)} \subseteq hits'[t]
        BY <2>2, <2>3, <2>5 DEF Filtered
      <3> QED
        BY <2>1, <3>1
    <2>6. CASE Cardinality(pool) = CandidateK
      <3>1. pool \subseteq passing
        BY <2>3, <2>4 DEF Filtered
      <3>2. IsFiniteSet(passing)
        <4>1. passing \subseteq ChunkId
          BY <2>3, <2>4 DEF Filtered, Index!TypeOK
        <4> QED
          BY <4>1, ChunkIdFinite, FS_Subset
      <3>3. /\ Cardinality(pool) <= Cardinality(passing)
            /\ Cardinality(passing) \in Nat
        BY <3>1, <3>2, FS_Subset, FS_CardinalityType
      <3>4. Cardinality(passing) >= CandidateK
        BY <2>6, <3>3, CandidateKPositive
      <3> QED
        BY <2>1, <3>4
    <2> QED
      BY <2>4, <2>5, <2>6
  <1>2. ASSUME NEW t \in Threads,
               Receive(t) \/ LookupHit(t) \/ LookupMiss(t) \/ SparseLeg(t)
                 \/ PipelineRaises(t) \/ Store(t) \/ Deliver(t)
        PROVE  MissSeesAcked'
    <2>1. /\ pc'[t] # "store"
          /\ \A u \in Threads : u # t =>
                /\ pc'[u] = pc[u] /\ req'[u] = req[u] /\ hits'[u] = hits[u]
                /\ acked0'[u] = acked0[u] /\ swallowed'[u] = swallowed[u]
      BY <1>2
      DEF Receive, LookupHit, LookupMiss, SparseLeg, PipelineRaises, Store, Deliver
    <2> QED
      BY <2>1
  <1>3. ASSUME NEW t \in Threads, DenseLegSwallowsError(t) PROVE MissSeesAcked'
    BY <1>3 DEF DenseLegSwallowsError
  <1>4. CASE ServiceStops
    BY <1>4 DEF ServiceStops
  <1>5. CASE Expire \/ IndexGrows \/ ServiceLoads \/ UNCHANGED vars
    BY <1>5 DEF Expire, IndexGrows, ServiceLoads
  <1> QED
    BY <1>1, <1>2, <1>3, <1>4, <1>5 DEF Next, Serve

(* The snapshot does not change while threads have hits: a service that    *)
(* loads one has no request in its handler yet.                            *)
LEMMA LeakStep == RInv /\ [Next]_vars => OnlySparseLeaks'
  <1> SUFFICES ASSUME RInv, [Next]_vars PROVE OnlySparseLeaks'
    OBVIOUS
  <1> USE DEF RInv, TypeOK, OnlySparseLeaks
  <1>1. ASSUME NEW t \in Threads, Receive(t) PROVE OnlySparseLeaks'
    <2>1. /\ hits[t] = {} /\ UNCHANGED <<served, hits>>
          /\ \A u \in Threads : u # t => req'[u] = req[u]
      BY <1>1 DEF Receive, HitsComeFromLegs
    <2> QED
      BY <2>1
  <1>2. ASSUME NEW t \in Threads, SparseLeg(t) \/ DenseLeg(t) \/ Deliver(t)
        PROVE  OnlySparseLeaks'
    <2>1. /\ UNCHANGED <<served, req>>
          /\ \A u \in Threads : u # t => hits'[u] = hits[u]
          /\ {id \in hits'[t] : ~Passes(id, req[t].filters)} \subseteq served
      <3>1. CASE SparseLeg(t)
        <4>1. PICK pool \in Pools(served) : hits' = [hits EXCEPT ![t] = pool]
          BY <3>1 DEF SparseLeg
        <4>2. pool \subseteq served
          BY <4>1 DEF Pools
        <4> QED
          BY <3>1, <4>1, <4>2 DEF SparseLeg
      <3>2. CASE DenseLeg(t)
        <4>1. PICK pool \in Pools(Filtered(t)) :
                 hits' = [hits EXCEPT ![t] = @ \cup pool]
          BY <3>2 DEF DenseLeg
        <4>2. \A id \in pool : Passes(id, req[t].filters)
          BY <4>1 DEF Pools, Filtered
        <4> QED
          BY <3>2, <4>1, <4>2 DEF DenseLeg
      <3>3. CASE Deliver(t)
        BY <3>3 DEF Deliver
      <3> QED
        BY <1>2, <3>1, <3>2, <3>3
    <2> QED
      BY <2>1
  <1>3. CASE ServiceLoads
    <2>1. \A t \in Threads : hits[t] = {}
      BY <1>3 DEF ServiceLoads, Index!Load, DownIsFree, HitsComeFromLegs
    <2> QED
      BY <1>3, <2>1 DEF ServiceLoads
  <1>4. CASE ServiceStops
    BY <1>4 DEF ServiceStops
  <1>5. UNCHANGED <<served, req, hits>> => OnlySparseLeaks'
    OBVIOUS
  <1> QED
    BY <1>1, <1>2, <1>3, <1>4, <1>5
    DEF Next, Serve, LookupHit, LookupMiss, DenseLegSwallowsError,
        PipelineRaises, Store, Expire, IndexGrows, Index!Index, Index!Ack

-----------------------------------------------------------------------------
(* Pages *)

(* The matches of a request are distinct chunks, no more than its top_k.   *)
LEMMA MatchesAreDistinct ==
    ASSUME NEW r \in Requests, NEW ids
    PROVE  LET m == Matches(r, ids)
           IN  /\ m \in Seq(ChunkId)
               /\ Len(m) <= r.top_k
               /\ \A i, j \in 1..Len(m) : m[i] = m[j] => i = j
  <1> DEFINE ranking == RankOf[r.query]
             found == {i \in DOMAIN ranking : ranking[i] \in ids}
             order == {pair \in found \X found : pair[1] < pair[2]}
             ranked == Sorted(found, order)
             n == Min(Len(ranked), Min(RerankTopK, r.top_k))
             m == Matches(r, ids)
  <1>1. m = [k \in 1..n |-> ranking[ranked[k]]]
    BY DEF Matches
  <1>2. /\ ranking \in Seq(ChunkId)
        /\ \A i, j \in DOMAIN ranking : ranking[i] = ranking[j] => i = j
    BY RankOfType, RequestsType
  <1>3. r.top_k \in Nat \ {0} /\ RerankTopK \in Nat \ {0}
    BY RequestsType, RerankTopKPositive
  <1> HIDE DEF ranking, m
  <1>4. found \subseteq DOMAIN ranking /\ DOMAIN ranking = 1..Len(ranking)
    BY <1>2
  <1>5. IsFiniteSet(found)
    <2>1. IsFiniteSet(1..Len(ranking))
      BY <1>2, FS_Interval
    <2> QED
      BY <1>4, <2>1, FS_Subset
  <1> HIDE DEF found
  <1>6. IsStrictOrder(order, found)
    <2>1. \A i, j \in found : <<i, j>> \in order <=> i < j
      OBVIOUS
    <2>2. \A i \in found : i \in Int
      BY <1>2, <1>4
    <2> HIDE DEF order
    <2> QED
      BY <2>1, <2>2 DEF IsStrictOrder
  <1> HIDE DEF order
  <1>7. /\ ranked \in Seq(found)
        /\ \A i, j \in DOMAIN ranked : ranked[i] = ranked[j] => i = j
    BY <1>5, <1>6, SortedIsSorted
  <1> HIDE DEF ranked
  <1>8. /\ n \in Nat /\ n <= Len(ranked) /\ n <= r.top_k
        /\ Len(ranked) \in Nat /\ DOMAIN ranked = 1..Len(ranked)
    BY <1>3, <1>7 DEF Min
  <1> HIDE DEF n
  <1>9. \A k \in 1..n : k \in DOMAIN ranked /\ ranked[k] \in found
    BY <1>7, <1>8
  <1>10. m \in [1..n -> ChunkId]
    BY <1>1, <1>2, <1>4, <1>9
  <1>11. m \in Seq(ChunkId) /\ Len(m) = n
    BY <1>8, <1>10
  <1>12. \A i, j \in 1..n : m[i] = m[j] => i = j
    BY <1>1, <1>2, <1>4, <1>7, <1>9
  <1> QED
    BY <1>8, <1>11, <1>12 DEF m

(* A page is the slice of the matches that starts after the pages before   *)
(* it and ends where it is full, or the matches are.                       *)
IsSlice(p, S, m, skipped, size) ==
    LET last == Min(skipped + size, Len(m))
    IN  /\ skipped \in Nat
        /\ Len(p) = IF skipped < last THEN last - skipped ELSE 0
        /\ p \in Seq(S)
        /\ \A i \in 1..Len(p) : skipped + i \in 1..Len(m) /\ p[i] = m[skipped + i]

(* What a body lists is a slice of the ranking, at the offset of its page. *)
LEMMA PagesAreSlices ==
    ASSUME NEW S, NEW m \in Seq(S), NEW page \in Nat \ {0}, NEW size \in Nat \ {0}
    PROVE  IsSlice(Paginate(m, page, size), S, m, (page - 1) * size, size)
  <1> DEFINE skipped == (page - 1) * size
             last == Min(skipped + size, Len(m))
             p == Paginate(m, page, size)
  <1>1. skipped \in Nat
    <2>1. \A n \in Nat : n * size \in Nat
      OBVIOUS
    <2>2. page - 1 \in Nat
      OBVIOUS
    <2> QED
      BY <2>1, <2>2
  <1>2. p = SubSeq(m, skipped + 1, last)
    BY DEF Paginate
  <1> HIDE DEF skipped, p
  <1>3. last \in Nat /\ last <= Len(m) /\ Len(m) \in Nat
    BY <1>1 DEF Min
  <1> HIDE DEF last
  <1>4. \A i \in skipped + 1..last : i \in 1..Len(m) /\ m[i] \in S
    BY <1>1, <1>3
  <1>5. /\ p \in Seq(S)
        /\ Len(p) = IF skipped + 1 <= last THEN last - (skipped + 1) + 1 ELSE 0
        /\ \A i \in 1..last - (skipped + 1) + 1 : p[i] = m[skipped + 1 + i - 1]
    BY <1>1, <1>2, <1>3, <1>4, SubSeqProperties
  <1>6. Len(p) = IF skipped < last THEN last - skipped ELSE 0
    BY <1>1, <1>3, <1>5
  <1>7. ASSUME NEW i \in 1..Len(p)
        PROVE  skipped + i \in 1..Len(m) /\ p[i] = m[skipped + i]
    <2>1. i \in 1..last - (skipped + 1) + 1 /\ skipped + 1 + i - 1 = skipped + i
      BY <1>1, <1>3, <1>6
    <2>2. skipped + i \in skipped + 1..last
      BY <1>1, <1>3, <1>6
    <2> QED
      BY <1>4, <1>5, <2>1, <2>2
  <1> QED
    BY <1>1, <1>5, <1>6, <1>7 DEF skipped, last, p, IsSlice

(* The pages before a page end before it starts. *)
LEMMA PagesFollow ==
    ASSUME NEW a \in Nat \ {0}, NEW b \in Nat \ {0}, NEW size \in Nat \ {0}, a < b
    PROVE  (a - 1) * size + size <= (b - 1) * size
  <1>1. (a - 1) * size + size = a * size
    OBVIOUS
  <1>2. \A n \in Nat : n * size >= 0
    OBVIOUS
  <1>3. b - 1 - a \in Nat
    OBVIOUS
  <1>4. (b - 1) * size = a * size + (b - 1 - a) * size
    OBVIOUS
  <1>5. a * size \in Int /\ (b - 1 - a) * size \in Int
    OBVIOUS
  <1> QED
    BY <1>1, <1>2, <1>3, <1>4, <1>5

(* A body fits the request it was made for, and its page ends with the     *)
(* last match exactly if there is no next one.                             *)
LEMMA BodyFits ==
    ASSUME NEW r \in Requests, NEW ids, NEW degraded
    PROVE  LET body == Body(r, Matches(r, ids), degraded)
           IN  /\ Len(body.results) <= r.page_size
               /\ body.total <= r.top_k
               /\ IF body.results = <<>>
                  THEN ~body.has_next
                  ELSE body.has_next <=> LastOf(body.results) # LastOf(body.matches)
  <1> DEFINE m == Matches(r, ids)
             page == r.page
             size == r.page_size
             p == Paginate(m, page, size)
             body == Body(r, m, degraded)
             skipped == (page - 1) * size
             last == Min(skipped + size, Len(m))
  <1>1. /\ body.results = p /\ body.total = Len(m) /\ body.matches = m
        /\ body.has_next = (page * size < Len(m))
    BY DEF Body
  <1>2. page \in Nat \ {0} /\ size \in Nat \ {0}
    BY RequestsType
  <1>3. /\ m \in Seq(ChunkId) /\ Len(m) <= r.top_k
        /\ \A i, j \in 1..Len(m) : m[i] = m[j] => i = j
    BY MatchesAreDistinct
  <1> HIDE DEF m, page, size, body
  <1>4. /\ skipped \in Nat
        /\ Len(p) = IF skipped < last THEN last - skipped ELSE 0
        /\ p \in Seq(ChunkId)
        /\ \A i \in 1..Len(p) : skipped + i \in 1..Len(m) /\ p[i] = m[skipped + i]
    <2>1. IsSlice(p, ChunkId, m, skipped, size)
      BY <1>2, <1>3, PagesAreSlices
    <2> QED
      BY <2>1 DEF IsSlice
  <1>5. page * size = skipped + size
    BY <1>2
  <1> HIDE DEF p, skipped
  <1>6. Len(m) \in Nat /\ Len(p) \in Nat
    BY <1>3, <1>4
  <1>7. Len(p) <= size
    BY <1>2, <1>4, <1>6 DEF Min
  <1>8. ASSUME p = <<>> PROVE ~body.has_next
    <2>1. Len(p) = 0
      BY <1>8
    <2>2. ~(skipped < last)
      BY <1>2, <1>4, <1>6, <2>1 DEF Min
    <2>3. ~(page * size < Len(m))
      BY <1>2, <1>4, <1>5, <1>6, <2>2 DEF Min
    <2> QED
      BY <1>1, <2>3
  <1>9. ASSUME p # <<>> PROVE body.has_next <=> LastOf(p) # LastOf(m)
    <2>1. Len(p) \in 1..Len(p) /\ Len(p) # 0
      BY <1>4, <1>6, <1>9
    <2>2. /\ skipped < last /\ skipped + Len(p) = last
          /\ last \in 1..Len(m)
      BY <1>2, <1>4, <1>6, <2>1 DEF Min
    <2>3. LastOf(p) = m[last]
      BY <1>4, <2>1, <2>2 DEF LastOf
    <2>4. LastOf(m) = m[Len(m)] /\ Len(m) \in 1..Len(m)
      BY <1>6, <2>2 DEF LastOf
    <2>5. last = Len(m) <=> ~(page * size < Len(m))
      BY <1>2, <1>4, <1>5, <1>6 DEF Min
    <2> HIDE DEF last
    <2> QED
      BY <1>1, <1>3, <2>2, <2>3, <2>4, <2>5
  <1> QED
    BY <1>1, <1>3, <1>7, <1>8, <1>9 DEF m, size, body

-----------------------------------------------------------------------------
(* Theorems *)

(* The invariant of the endpoint holds in every reachable state, for any   *)
(* threads, requests and collection.                                       *)
THEOREM RetrieveInvariance == Spec => []RInv
  <1>1. RInv /\ [Next]_vars => RInv'
    BY TypeStep, AckedStep, DownStep, HitsStep, EntriesStep, RepliesStep,
       MissStep, LeakStep
    DEF RInv
  <1> QED
    BY Initially, <1>1, PTL DEF Spec

(* Every variable of the endpoint keeps its type. *)
THEOREM RetrieveTypes == Spec => []TypeOK
  BY RetrieveInvariance, PTL DEF RInv

(* A 200 answers the request it is sent for, from the pipeline or from the *)
(* cache: the filters, page and query of that request, no more than its    *)
(* page and its top_k allow, and has_next exactly when matches are left    *)
(* (retrieve, cache_key, paginate).                                        *)
THEOREM RepliesSafe == Spec => []ReplyAnswersRequest
  <1>1. RInv => ReplyAnswersRequest
    <2> SUFFICES ASSUME RInv, NEW t \in Threads, Replied(t)
                 PROVE  LET body == reply[t].body
                            r == req[t]
                        IN  /\ IsFor(body, r)
                            /\ Len(body.results) <= r.page_size
                            /\ body.total <= r.top_k
                            /\ IF body.results = <<>>
                               THEN ~body.has_next
                               ELSE body.has_next <=>
                                       LastOf(body.results) # LastOf(body.matches)
      BY DEF ReplyAnswersRequest
    <2> DEFINE body == reply[t].body
               r == req[t]
    <2>1. r \in Requests /\ MadeFor(body, r)
      BY DEF RInv, TypeOK, RepliesAreMade
    <2>2. PICK s \in Requests, ids \in SUBSET ChunkId, degraded \in BOOLEAN :
             CacheKey(s) = CacheKey(r) /\ body = Body(s, Matches(s, ids), degraded)
      BY <2>1 DEF MadeFor
    <2> HIDE DEF body, r
    <2>3. IsFor(body, r)
      BY <2>1, <2>2, BodyIsForItsKey
    <2>4. s.page_size = r.page_size /\ s.top_k = r.top_k
      BY <2>2 DEF CacheKey
    <2>5. /\ Len(body.results) <= s.page_size
          /\ body.total <= s.top_k
          /\ IF body.results = <<>>
             THEN ~body.has_next
             ELSE body.has_next <=> LastOf(body.results) # LastOf(body.matches)
      BY <2>2, BodyFits
    <2> QED
      BY <2>3, <2>4, <2>5 DEF body, r
  <1> QED
    BY <1>1, RetrieveInvariance, PTL

(* Of two pages of one list, the chunks of the first are not on the other. *)
LEMMA PagesDiffer ==
    ASSUME NEW S, NEW m \in Seq(S), \A i, j \in 1..Len(m) : m[i] = m[j] => i = j,
           NEW size \in Nat \ {0}, NEW a \in Nat \ {0}, NEW b \in Nat \ {0}, a < b,
           NEW i \in DOMAIN Paginate(m, a, size), NEW j \in DOMAIN Paginate(m, b, size)
    PROVE  Paginate(m, a, size)[i] # Paginate(m, b, size)[j]
  <1> DEFINE p == Paginate(m, a, size)
             q == Paginate(m, b, size)
             before == (a - 1) * size
             between == (b - 1) * size
  <1>1. /\ before \in Nat /\ p \in Seq(S)
        /\ Len(p) = IF before < Min(before + size, Len(m))
                    THEN Min(before + size, Len(m)) - before ELSE 0
        /\ \A k \in 1..Len(p) : before + k \in 1..Len(m) /\ p[k] = m[before + k]
    <2>1. IsSlice(p, S, m, before, size)
      BY PagesAreSlices
    <2> HIDE DEF p, before
    <2> QED
      BY <2>1 DEF IsSlice
  <1>2. /\ between \in Nat /\ q \in Seq(S)
        /\ \A k \in 1..Len(q) : between + k \in 1..Len(m) /\ q[k] = m[between + k]
    <2>1. IsSlice(q, S, m, between, size)
      BY PagesAreSlices
    <2> HIDE DEF q, between
    <2> QED
      BY <2>1 DEF IsSlice
  <1>3. before + size <= between
    BY PagesFollow
  <1>4. i \in DOMAIN p /\ j \in DOMAIN q
    OBVIOUS
  <1> HIDE DEF p, q, before, between
  <1>5. i \in 1..Len(p) /\ j \in 1..Len(q)
    BY <1>1, <1>2, <1>4
  <1>6. before + i <= before + size
    BY <1>1, <1>5 DEF Min
  <1>7. before + i # between + j
    BY <1>1, <1>2, <1>3, <1>5, <1>6
  <1>8. /\ before + i \in 1..Len(m) /\ p[i] = m[before + i]
        /\ between + j \in 1..Len(m) /\ q[j] = m[between + j]
    BY <1>1, <1>2, <1>5
  <1>9. p[i] # q[j]
    BY <1>7, <1>8
  <1> QED
    BY <1>9 DEF p, q

(* Two cached pages that were cut from one list of matches have no chunk   *)
(* in common, whichever requests stored them, and when.                    *)
THEOREM PagesSafe == Spec => []PagesAreDisjoint
  <1>1. RInv => PagesAreDisjoint
    <2> SUFFICES ASSUME RInv, NEW b \in Bodies, NEW c \in Bodies,
                        b.page_size = c.page_size, b.matches = c.matches,
                        b.page # c.page,
                        NEW i \in DOMAIN b.results, NEW j \in DOMAIN c.results
                 PROVE  b.results[i] # c.results[j]
      BY DEF PagesAreDisjoint
    <2>1. ASSUME NEW body \in Bodies
          PROVE  \E s \in Requests, ids \in SUBSET ChunkId, degraded \in BOOLEAN :
                    body = Body(s, Matches(s, ids), degraded)
      <3>1. PICK r \in Requests : body = cache[CacheKey(r)] /\ body # None
        BY DEF Bodies, Keys
      <3> QED
        BY <3>1 DEF RInv, EntriesAreMade, MadeFor
    <2>2. ASSUME NEW body \in Bodies
          PROVE  /\ body.results = Paginate(body.matches, body.page, body.page_size)
                 /\ body.page \in Nat \ {0} /\ body.page_size \in Nat \ {0}
                 /\ body.matches \in Seq(ChunkId)
                 /\ \A x, y \in 1..Len(body.matches) :
                       body.matches[x] = body.matches[y] => x = y
      <3>1. PICK s \in Requests, ids \in SUBSET ChunkId, degraded \in BOOLEAN :
               body = Body(s, Matches(s, ids), degraded)
        BY <2>1
      <3>2. /\ body.matches = Matches(s, ids)
            /\ body.page = s.page /\ body.page_size = s.page_size
            /\ body.results = Paginate(Matches(s, ids), s.page, s.page_size)
        BY <3>1 DEF Body
      <3>3. s.page \in Nat \ {0} /\ s.page_size \in Nat \ {0}
        BY RequestsType
      <3> QED
        BY <3>2, <3>3, MatchesAreDistinct
    <2>3. CASE b.page < c.page
      BY <2>2, <2>3, PagesDiffer
    <2>4. CASE c.page < b.page
      BY <2>2, <2>4, PagesDiffer
    <2>5. b.page < c.page \/ c.page < b.page
      BY <2>2
    <2> QED
      BY <2>3, <2>4, <2>5
  <1> QED
    BY <1>1, RetrieveInvariance, PTL

(* A miss finds every chunk that was acknowledged before its request came  *)
(* in and passes its filters, unless the dense leg turned an error into an *)
(* empty answer, or its pool is full of others that pass them.             *)
THEOREM MissSafe == Spec => []MissSeesAcked
  BY RetrieveInvariance, PTL DEF RInv

(* What a filter should have kept out comes from the sparse snapshot.      *)
THEOREM LeakSafe == Spec => []OnlySparseLeaks
  BY RetrieveInvariance, PTL DEF RInv

=============================================================================
