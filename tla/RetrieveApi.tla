----------------------------- MODULE RetrieveApi -----------------------------
(***************************************************************************)
(* POST /retrieve (src/api/routers/retrieve.py) over the Redis query cache *)
(* (src/api/cache.py) and the two retrieval legs, while ingestion writes   *)
(* and the service stops and boots around it.                              *)
(*                                                                         *)
(* The handler is a plain function, so each request runs in a thread of    *)
(* its own and every call it makes can interleave with the other requests  *)
(* and with ingestion.  What ingestion may do meanwhile is DurableIndex,   *)
(* which module Ingestion implements.                                      *)
(*                                                                         *)
(* Ranking is abstracted to a fixed order of the chunks per query (the     *)
(* cross-encoder scores text alone, and breaks ties by chunk id), without  *)
(* the chunks below its minimum score.  A leg returns at most its pool of  *)
(* candidates; which ones it prefers is left open.  The clock is           *)
(* abstracted away: a cached entry may expire at any time.                 *)
(***************************************************************************)
EXTENDS Integers, Sequences, FiniteSets, Sorting

CONSTANTS
    ChunkId,
    Docs,        \* document ids
    DocOf,       \* the document of a chunk
    RankOf,      \* per query, the chunks it matches, best first
    Requests,    \* what callers send
    Threads,     \* the threads that serve requests
    CandidateK,  \* candidates a leg returns at most
    RerankTopK,  \* candidates the reranker keeps
    None,        \* JSON null: no filters, no header, no entry, no body
    MaxStops     \* bound of the model: times the service stops

ASSUME ChunkIdFinite == IsFiniteSet(ChunkId)
ASSUME DocOfType == DocOf \in [ChunkId -> Docs]
ASSUME RankOfType ==
    \A q \in DOMAIN RankOf :
        /\ RankOf[q] \in Seq(ChunkId)
        /\ \A i, j \in DOMAIN RankOf[q] : RankOf[q][i] = RankOf[q][j] => i = j
ASSUME CandidateKPositive == CandidateK \in Nat \ {0}
ASSUME RerankTopKPositive == RerankTopK \in Nat \ {0}
ASSUME MaxStopsType == MaxStops \in Nat
ASSUME RequestsType ==
    /\ Requests # {}
    /\ \A r \in Requests :
          /\ r.query \in DOMAIN RankOf
          /\ {r.top_k, r.page, r.page_size} \subseteq Nat \ {0}
          /\ r.filters = None \/ r.filters \subseteq Docs

VARIABLES
    indexed, acked, up, served,  \* the stores and the service: DurableIndex
    cache,       \* [Key -> body or None], Redis
    pc,          \* [Threads -> ...], the call a thread is about to make
    req,         \* [Threads -> Requests], the request it serves
    hits,        \* [Threads -> SUBSET ChunkId], what the legs returned so far
    reply,       \* [Threads -> reply or None]
    stops,       \* times the service stopped
    acked0,      \* history: what was acked when the request came in
    swallowed    \* history: whether the dense leg turned an error into []

indexVars == <<indexed, acked, up, served>>
threadVars == <<pc, req, hits, reply, acked0, swallowed>>
vars == <<indexVars, cache, threadVars, stops>>

Index == INSTANCE DurableIndex

-----------------------------------------------------------------------------
(* Filters that are null and filters that are empty are the same key. *)
Items(filters) == IF filters = None THEN {} ELSE filters

(* Mutant: the key forgets the page. *)
CacheKeyNoPage(r) ==
    [query |-> r.query, top_k |-> r.top_k, page |-> 1,
     page_size |-> r.page_size, filters |-> Items(r.filters)]

(* Mutant: the key forgets the filters. *)
CacheKeyNoFilters(r) ==
    [query |-> r.query, top_k |-> r.top_k, page |-> r.page,
     page_size |-> r.page_size, filters |-> {}]

CacheKey(r) ==
    [query |-> r.query, top_k |-> r.top_k, page |-> r.page,
     page_size |-> r.page_size, filters |-> Items(r.filters)]

Keys == {CacheKey(r) : r \in Requests}

Min(a, b) == IF a < b THEN a ELSE b

(* A Qdrant filter demands every item, and a chunk has one doc_id. *)
Passes(id, filters) == Items(filters) \subseteq {DocOf[id]}

(* What a leg may return of the chunks it can find: all of them if they    *)
(* fit its pool, else as many as the pool holds.                           *)
Pools(found) ==
    {pool \in SUBSET found :
        Cardinality(pool) = Min(CandidateK, Cardinality(found))}

(* Mutant: the slice runs one result into the next page. *)
PaginateLong(matches, page, page_size) ==
    SubSeq(matches, (page - 1) * page_size + 1,
           Min((page - 1) * page_size + page_size + 1, Len(matches)))

Paginate(matches, page, page_size) ==
    SubSeq(matches, (page - 1) * page_size + 1,
           Min((page - 1) * page_size + page_size, Len(matches)))

(* Fuse, rerank, and cut: by the reranker's top_k, then by the request's.  *)
Matches(r, ids) ==
    LET ranking == RankOf[r.query]
        found == {i \in DOMAIN ranking : ranking[i] \in ids}
        ranked == Sorted(found, {pair \in found \X found : pair[1] < pair[2]})
    IN  [n \in 1..Min(Len(ranked), Min(RerankTopK, r.top_k)) |-> ranking[ranked[n]]]

(* The response body.  History: "matches", the list the page is cut from,  *)
(* and "degraded", whether the dense leg was lost to an error.             *)
Body(r, matches, degraded) ==
    [query |-> r.query,
     results |-> Paginate(matches, r.page, r.page_size),
     total |-> Len(matches),
     page |-> r.page,
     page_size |-> r.page_size,
     applied_filters |-> r.filters,
     has_next |-> r.page * r.page_size < Len(matches),
     matches |-> matches,
     degraded |-> degraded]

Ok(x, body) == [status |-> 200, xcache |-> x, body |-> body]
BadGateway == [status |-> 502, xcache |-> None, body |-> None]

-----------------------------------------------------------------------------
Init ==
    /\ Index!Init
    /\ cache = [k \in Keys |-> None]
    /\ pc = [t \in Threads |-> "free"]
    /\ req = [t \in Threads |-> CHOOSE r \in Requests : TRUE]
    /\ hits = [t \in Threads |-> {}]
    /\ reply = [t \in Threads |-> None]
    /\ stops = 0
    /\ acked0 = [t \in Threads |-> {}]
    /\ swallowed = [t \in Threads |-> FALSE]

(* A request gets as far as the handler once get_pipeline has returned,    *)
(* and so not before the service has loaded its sparse snapshot.           *)
Receive(t) ==
    /\ up
    /\ pc[t] = "free"
    /\ pc' = [pc EXCEPT ![t] = "lookup"]
    /\ \E r \in Requests : req' = [req EXCEPT ![t] = r]
    /\ acked0' = [acked0 EXCEPT ![t] = acked]
    /\ UNCHANGED <<indexVars, cache, hits, reply, stops, swallowed>>

LookupHit(t) ==
    /\ pc[t] = "lookup"
    /\ cache[CacheKey(req[t])] # None
    /\ pc' = [pc EXCEPT ![t] = "replied"]
    /\ reply' = [reply EXCEPT ![t] = Ok("HIT", cache[CacheKey(req[t])])]
    /\ UNCHANGED <<indexVars, cache, req, hits, stops, acked0, swallowed>>

(* No entry; or a Redis error, which is served as a miss. *)
LookupMiss(t) ==
    /\ pc[t] = "lookup"
    /\ pc' = [pc EXCEPT ![t] = "sparse"]
    /\ UNCHANGED <<indexVars, cache, req, hits, reply, stops, acked0, swallowed>>

(* BM25 ranks every chunk of the loaded snapshot; filters are not passed.  *)
SparseLeg(t) ==
    /\ pc[t] = "sparse"
    /\ pc' = [pc EXCEPT ![t] = "dense"]
    /\ \E pool \in Pools(served) : hits' = [hits EXCEPT ![t] = pool]
    /\ UNCHANGED <<indexVars, cache, req, reply, stops, acked0, swallowed>>

(* The points that pass the request's filters, in the collection as it is. *)
Filtered(t) == {id \in indexed : Passes(id, req[t].filters)}

(* Mutant: the candidates are the intersection of the legs, not the union. *)
DenseLegIntersect(t) ==
    /\ pc[t] = "dense"
    /\ pc' = [pc EXCEPT ![t] = "store"]
    /\ \E pool \in Pools(Filtered(t)) :
           hits' = [hits EXCEPT ![t] = @ \cap pool]
    /\ UNCHANGED <<indexVars, cache, req, reply, stops, acked0, swallowed>>

(* Mutant: the filter is not sent to Qdrant. *)
DenseLegUnfiltered(t) ==
    /\ pc[t] = "dense"
    /\ pc' = [pc EXCEPT ![t] = "store"]
    /\ \E pool \in Pools(indexed) : hits' = [hits EXCEPT ![t] = @ \cup pool]
    /\ UNCHANGED <<indexVars, cache, req, reply, stops, acked0, swallowed>>

DenseLeg(t) ==
    /\ pc[t] = "dense"
    /\ pc' = [pc EXCEPT ![t] = "store"]
    /\ \E pool \in Pools(Filtered(t)) :
           hits' = [hits EXCEPT ![t] = @ \cup pool]
    /\ UNCHANGED <<indexVars, cache, req, reply, stops, acked0, swallowed>>

(* Whatever HTTP error Qdrant answers with, once the retries are used up,  *)
(* is taken for a missing collection, and the leg returns nothing.         *)
DenseLegSwallowsError(t) ==
    /\ pc[t] = "dense"
    /\ pc' = [pc EXCEPT ![t] = "store"]
    /\ swallowed' = [swallowed EXCEPT ![t] = TRUE]
    /\ UNCHANGED <<indexVars, cache, req, hits, reply, stops, acked0>>

(* Mutant: the handler runs the pipeline again instead of answering 502.   *)
PipelineRetries(t) ==
    /\ pc[t] \in {"sparse", "dense"}
    /\ pc' = [pc EXCEPT ![t] = "sparse"]
    /\ hits' = [hits EXCEPT ![t] = {}]
    /\ UNCHANGED <<indexVars, cache, req, reply, stops, acked0, swallowed>>

(* Any exception out of the pipeline: no client free in the pool, a dead   *)
(* connection, a model that does not load.                                 *)
PipelineRaises(t) ==
    /\ pc[t] \in {"sparse", "dense"}
    /\ pc' = [pc EXCEPT ![t] = "replied"]
    /\ reply' = [reply EXCEPT ![t] = BadGateway]
    /\ UNCHANGED <<indexVars, cache, req, hits, stops, acked0, swallowed>>

(* Mutant: the entry is stored under the request, not under its key. *)
StoreUnderRequest(t) ==
    LET body == Body(req[t], Matches(req[t], hits[t]), swallowed[t]) IN
    /\ pc[t] = "store"
    /\ pc' = [pc EXCEPT ![t] = "replied"]
    /\ reply' = [reply EXCEPT ![t] = Ok("MISS", body)]
    /\ cache' = [k \in DOMAIN cache \cup {req[t]} |->
                    IF k = req[t] THEN body ELSE cache[k]]
    /\ UNCHANGED <<indexVars, req, hits, stops, acked0, swallowed>>

(* The body is built, stored under the key, and returned.  A Redis error   *)
(* only loses the entry.                                                   *)
Store(t) ==
    LET body == Body(req[t], Matches(req[t], hits[t]), swallowed[t]) IN
    /\ pc[t] = "store"
    /\ pc' = [pc EXCEPT ![t] = "replied"]
    /\ reply' = [reply EXCEPT ![t] = Ok("MISS", body)]
    /\ \/ cache' = [cache EXCEPT ![CacheKey(req[t])] = body]
       \/ UNCHANGED cache
    /\ UNCHANGED <<indexVars, req, hits, stops, acked0, swallowed>>

(* The caller reads the reply; the thread goes back to the pool. *)
Deliver(t) ==
    /\ pc[t] = "replied"
    /\ pc' = [pc EXCEPT ![t] = "free"]
    /\ hits' = [hits EXCEPT ![t] = {}]
    /\ reply' = [reply EXCEPT ![t] = None]
    /\ acked0' = [acked0 EXCEPT ![t] = {}]
    /\ swallowed' = [swallowed EXCEPT ![t] = FALSE]
    /\ UNCHANGED <<indexVars, cache, req, stops>>

-----------------------------------------------------------------------------
Expire ==
    /\ \E k \in Keys : cache[k] # None /\ cache' = [cache EXCEPT ![k] = None]
    /\ UNCHANGED <<indexVars, threadVars, stops>>

(* Ingestion and loading, as DurableIndex has them. *)
IndexGrows ==
    /\ \E ids \in SUBSET ChunkId : Index!Index(ids) \/ Index!Ack(ids)
    /\ UNCHANGED <<cache, threadVars, stops>>

ServiceLoads ==
    /\ \E ids \in SUBSET ChunkId : Index!Load(ids)
    /\ UNCHANGED <<cache, threadVars, stops>>

(* The process ends: its requests end with it, the cache stays in Redis. *)
ServiceStops ==
    /\ stops < MaxStops
    /\ stops' = stops + 1
    /\ Index!Stop
    /\ pc' = [t \in Threads |-> "free"]
    /\ hits' = [t \in Threads |-> {}]
    /\ reply' = [t \in Threads |-> None]
    /\ acked0' = [t \in Threads |-> {}]
    /\ swallowed' = [t \in Threads |-> FALSE]
    /\ UNCHANGED <<cache, req>>

Serve(t) ==
    \/ LookupHit(t)
    \/ LookupMiss(t)
    \/ SparseLeg(t)
    \/ DenseLeg(t)
    \/ DenseLegSwallowsError(t)
    \/ PipelineRaises(t)
    \/ Store(t)

Next ==
    \/ \E t \in Threads : Receive(t) \/ Serve(t) \/ Deliver(t)
    \/ Expire
    \/ IndexGrows
    \/ ServiceLoads
    \/ ServiceStops

Spec == Init /\ [][Next]_vars

(* A thread that serves a request is scheduled by the operating system, and *)
(* each call it makes is bounded by a timeout.                              *)
FairSpec == Spec /\ \A t \in Threads : WF_vars(Serve(t))

-----------------------------------------------------------------------------
LastOf(s) == s[Len(s)]

Bodies == {cache[k] : k \in Keys} \ {None}
Replied(t) == pc[t] = "replied" /\ reply[t].status = 200

TypeOK ==
    /\ Index!TypeOK
    /\ DOMAIN cache = Keys
    /\ pc \in [Threads -> {"free", "lookup", "sparse", "dense", "store",
                           "replied"}]
    /\ req \in [Threads -> Requests]
    /\ hits \in [Threads -> SUBSET ChunkId]
    /\ DOMAIN reply = Threads
    /\ stops \in 0..MaxStops
    /\ acked0 \in [Threads -> SUBSET ChunkId]
    /\ swallowed \in [Threads -> BOOLEAN]

(* Same query, page and page size, and the filters that were asked for,    *)
(* null and empty alike.                                                   *)
IsFor(body, r) ==
    /\ <<body.query, body.page, body.page_size>>
         = <<r.query, r.page, r.page_size>>
    /\ Items(body.applied_filters) = Items(r.filters)

(* A 200 answers the request it is sent for, from the pipeline or from the *)
(* cache: it is for that request, has never more results than fit the page *)
(* or the request's top_k, and has_next exactly when the last match is not *)
(* on it.                                                                  *)
ReplyAnswersRequest ==
    \A t \in Threads : Replied(t) =>
        LET body == reply[t].body
            r == req[t]
        IN  /\ IsFor(body, r)
            /\ Len(body.results) <= r.page_size
            /\ body.total <= r.top_k
            /\ IF body.results = <<>>
               THEN ~body.has_next
               ELSE body.has_next <=> LastOf(body.results) # LastOf(body.matches)

(* Two cached pages cut from the same ranking do not repeat a chunk: a     *)
(* caller who walks the pages sees each result once.                       *)
PagesAreDisjoint ==
    \A b, c \in Bodies :
        /\ b.query = c.query
        /\ b.page_size = c.page_size
        /\ b.matches = c.matches
        /\ b.page # c.page
        => {b.results[i] : i \in DOMAIN b.results}
             \cap {c.results[i] : i \in DOMAIN c.results} = {}

(* A miss sees every upload that was acknowledged before the request came  *)
(* in, unless the dense leg lost it to an error: whatever loaded, stopped  *)
(* or was ingested since, an acked chunk that passes the filters is one of *)
(* the candidates, or the pool is full of others that pass them, too.      *)
MissSeesAcked ==
    \A t \in Threads :
        LET passing(ids) == {id \in ids : Passes(id, req[t].filters)} IN
        pc[t] = "store" /\ ~swallowed[t] =>
            \/ passing(acked0[t]) \subseteq hits[t]
            \/ Cardinality(passing(hits[t])) >= CandidateK

(* A filter binds the dense leg alone: a candidate of another document     *)
(* comes from the sparse snapshot the service has loaded, never from what  *)
(* was ingested since.                                                     *)
OnlySparseLeaks ==
    \A t \in Threads :
        {id \in hits[t] : ~Passes(id, req[t].filters)} \subseteq served

(* Every request is answered, or dies with the service. *)
RequestsEnd ==
    \A t \in Threads : pc[t] \notin {"free", "replied"}
                           ~> pc[t] = "replied" \/ ~up

-----------------------------------------------------------------------------
(* What documents of the repository say, and the code does not.          *)

(* "They are searchable in the query inspector as soon as the upload       *)
(* finishes" (dashboard/src/components/DocumentUpload.tsx), and            *)
(* "searchable immediately" (src/api/routers/documents.py), without Qdrant *)
(* errors and for a request, a pool and a reranker that have room for      *)
(* every chunk.                                                            *)
UploadIsSearchable ==
    \A t \in Threads :
        /\ Replied(t)
        /\ ~reply[t].body.degraded
        /\ Cardinality(ChunkId) <= Min(req[t].top_k, Min(CandidateK, RerankTopK))
        => \A id \in acked0[t] :
                Passes(id, req[t].filters) =>
                    \E i \in DOMAIN reply[t].body.matches :
                        reply[t].body.matches[i] = id

=============================================================================
