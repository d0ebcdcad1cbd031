# Retrieve-Me, formally

Retrieve-Me answers queries over a document collection with two retrieval
legs: BM25 over a pickled, in-memory index, and vector search in Qdrant.  The
legs are fused by reciprocal rank, reranked by a cross-encoder, paginated, and
cached in Redis.  Documents enter through a command line tool or through
`POST /documents`; a dashboard in the browser makes both kinds of calls.  The
same reranker, with a citation generator and a judge, is evaluated offline on a
golden set of queries.

This directory holds TLA+ modules of that system, TLC configurations that
check them on small instances, and proofs that TLAPS checks for every value of
the constants.  Paths below are relative to the repository; line numbers of
every definition are in `PROJECT.json` under `map`.

Run from this directory:

    tlc -config Ingestion.cfg MCIngestion     # any run of PROJECT.json
    tlapm IngestionProofs.tla                       # any module *Proofs

## 1. Inventory

| Component | State it keeps | Operations | What makes it correct |
| --- | --- | --- | --- |
| Ingestion (`src/ingest/loader.py`, `src/api/routers/documents.py`) | none of its own between runs; during a run, the batch it is at | `ingest()` from the tool's `main()` or from `upload_documents()` | chunks of a successful run are, and stay, in the dense collection; the sparse file never runs ahead of it |
| Dense index (`src/ingest/dense_index.py`) | the Qdrant collection, points by `uuid5(chunk_id)` | `ensure_collection`, `upsert`, `search`, `count`, `drop_collection(_if_empty)`, `health_check` | writing twice equals writing once; no operation loses points |
| Qdrant client pool (same file) | queue of idle clients | `acquire` / release, `close`, `retry_with_backoff` | a client has one owner, none is lost, callers fail only when all are busy |
| Sparse index (`src/ingest/bm25_index.py`) | chunks and scores in memory, one pickle file | `build`, `search`, `save`, `load` | a file is absent, or loads, or its damage has a known cause |
| Service process (`src/api/main.py`, `dependencies.py`, `config/pipeline.py`) | the pipeline, built at the start or by the first requests, of which `lru_cache` keeps the first that is ready; the event loop | `lifespan`, `load_pipeline_config`, `build_pipeline`, `load_bm25_index`, `get_pipeline` | comes back after a stop; serves an index behind the dense collection; answers what it accepted |
| Upload endpoint (`src/api/routers/documents.py`) | none | `upload_documents` | what is reported as indexed is indexed |
| Retrieval endpoint (`src/api/routers/retrieve.py`) | none; one thread per request | `retrieve()`, `cache_key`, `paginate` | a reply answers its own request; pages do not repeat results; what was acknowledged is searched |
| Query cache (`src/api/cache.py`) | Redis entries with a TTL | `get`, `set`, `clear` | errors degrade to misses |
| Hybrid retriever, fusion, reranker, tracer (`src/retrieval/`) | spans of the tracer; lazily loaded models | `retrieve`, `fuse`, `fuse_many`, `rerank`, `span` | fusion keeps what both legs agree on; results are the best candidates; each stage is timed |
| Chunker (`src/ingest/chunking.py`) | none | `split` | chunks cover the text in order, share the configured overlap, and stay near the budget |
| Health probes (`src/api/routers/health.py`) | none | `/healthz`, `/readyz` | ready means the service can serve |
| Embeddings | lazily loaded model | `encode` | – |
| Generation, judge, metrics (`src/generation/`, `src/eval/`) | the verdicts of a batch | `generate`, `judge_batch`, `summarize`, nDCG, recall, precision, MRR | citations refer to retrieved chunks; a batch ends, with a verdict per query or an error; metrics agree on what was found |
| Reranker tuner (`src/retrieval/rerank.py`) | the setting it swaps on a shared reranker | `grid_search`, `threshold_sweep` | the setting is put back however a walk ends; the winner is what the report says |
| Dashboard (`dashboard/src`) | React state of two panels; promises | `handleInspect`, `handleUpload`, `apiFetch` with its timeout | a panel shows what became of its last call, and spins only while one is pending |
| Docker, proxy, scripts | containers and volumes | restart, rebuild, proxy | the indexes survive what the operator does |

How they interact.  A run of `ingest()` writes Qdrant batch by batch, then
replaces the pickle file; the service reads that file once, when it starts or,
without warmup, for its first request, and Qdrant at every query.  Tool runs
are processes of their own in the same container (`docker compose exec api
...`) and share the file and the collection with the service's uploads.
Request handlers are plain functions that FastAPI runs in threads: they share
the pipeline object, the pool of eight Qdrant clients and the Redis cache.
`upload_documents()` is `async` but never awaits while it ingests, so the
event loop accepts and answers nothing else meanwhile, and uploads exclude
each other; threads that already serve a query go on.  The dashboard gives up
a call after its timeout without telling the service, which finishes it.

What is hard: nothing orders tool runs against uploads, crashes, restarts or
queries; the two indexes are written by separate steps and read at different
times; a request reads Redis, the sparse snapshot and Qdrant one after the
other; retries repeat what may already have been applied; the pool is smaller
than the number of threads; the browser, the proxy, the event loop and the
threads each end a call in their own way; and the boundary arithmetic of
chunking, pagination, fusion and metrics has cases (a lone hit, a tie, a tail)
that tests with two or three examples miss.  `PROJECT.json` lists each hazard
at its line with the properties that cover it.

## 2. Modules

| Module | Models | Composes |
| --- | --- | --- |
| `DurableIndex` | what ingestion promises the retrieval side (abstract) | – |
| `Ingestion`, `MCIngestion`, `IngestionProofs` | ingestion runs, the two stores, the life of the container | implements `DurableIndex` |
| `RetrieveApi`, `MCRetrieveApi`, `RetrieveApiProofs` | `POST /retrieve` over cache and legs | instantiates `DurableIndex` as its environment |
| `QdrantPool`, `MCQdrantPool`, `QdrantPoolProofs` | the client pool and the retry loop | – |
| `Sorting`, `ListProofs` | `sorted()` as the code uses it, and lemmas on lists that several proofs need | – |
| `Fusion`, `SparseIndex`, `Reranker` | reciprocal rank fusion, the sparse search and the cut of the reranker, as operators | `Fusion` and `Reranker` extend `Sorting` |
| `HybridRetriever`, `MCHybridRetriever`, `HybridRetrieverProofs` | the stages of one query | extends these three |
| `Chunking`, `MCChunking`, `ChunkingProofs` | packing sentences into chunks | – |
| `PipelineConfig`, `Admission` | which pipeline files load; which files of an upload are indexed, as operators | – |
| `Service` | one service process: start, pipeline, event loop, queries and uploads | extends these two |
| `Dashboard`, `MCDashboard`, `DashboardProofs` | the two panels in front of the service | extends `Service` |
| `Metrics` | the metrics, as operators on exact integers | – |
| `JudgeHarness` | a batch through generator and judge | extends `Metrics` |
| `RerankerTuner` | the two walks of the tuner | extends `Metrics`, `Reranker` |
| `Evaluation`, `MCEvaluation`, `EvaluationProofs` | an offline job: a batch or a walk | extends `JudgeHarness`, `RerankerTuner` |

Definitions marked `Mutant:` are plausible bugs.  Each stands right before the
definition it would replace, and each checked property fails under one of
them; no specification uses them.

### Ingestion

Each run has a `phase`: `check` and `create` are the two calls of
`ensure_collection`, `upsert` the batch loop, `dump` the time between opening
the pickle file and closing it.  `BuildAndOpen` makes the file `Torn`, because
`open("wb")` truncates; `Dump` completes it.  A run that dies while dumping is
`broken`, any other dead run `failed`.  `UpsertFails` may have applied the
batch (a lost reply); up to `MaxRetries * MaxRetries` attempts are made,
because `ingest()` retries an `upsert()` that retries.  `Abort` is an
exception nothing retries, or a kill.

Abstractions: a corpus is the sequence of chunk ids it splits into, and a
chunk's text is the corpus it was last written from, so an edited document is
another corpus with the same ids.  Several writers that had the file open
together (`clash`) leave one writer's index or an unreadable mixture.
Stopping the container kills tool runs too: they are exec'd in it.  `StopApi`
keeps the file system; `Redeploy` (a recreated container) loses the file, as
no volume is mounted there, while Qdrant has one.

The service reads the file in one step (`LoadIndex`).  With
`warmup_on_startup` it does so before it is up (`Boot`), and an unreadable file
ends the container (`BootRaises`).  Without, it is up with nothing loaded
(`BootCold`) until a request needs the index (`FirstLoad`); an unreadable file
then costs that request a 500, and the next one tries again.  `Redeploy` may
bring another setting.

### DurableIndex

Four variables (`indexed`, `acked`, `up`, `served`) and four actions (`Index`,
`Ack`, `Load`, `Stop`).  `Ingestion` implements it with `indexed` = ids that
have a point, `acked` = chunks of successful runs, `up` = the service holds an
index, `served` = ids of that index.  It says that
chunks once indexed stay indexed, that acknowledgement follows indexing, and
that the service holds one sparse snapshot, a part of what is indexed, until
it stops.  `RetrieveApi` uses the actions of the same module for whatever
ingestion does during a request, so the two large models are never multiplied.

### RetrieveApi

A thread goes `free -> lookup -> sparse -> dense -> store -> replied -> free`;
every arrow is one call into Redis, the index in memory or Qdrant, and other
threads, ingestion, expiry and a stop of the service interleave between them.
`LookupMiss` is always possible, because Redis errors are served as misses,
and so is a `Store` that stores nothing.  `DenseLegSwallowsError` is the
`except UnexpectedResponse` of `DenseIndex.search`, `PipelineRaises` the 502.
A stop ends the requests and leaves Redis alone.

Abstractions: per query a fixed order of the chunks, in place of cross-encoder
scores; each leg returns any `CandidateK` of the chunks it finds, or all if
there are no more (`Pools`; which ones it prefers is in `HybridRetriever`);
only `doc_id` filters; no clock, so an entry may expire
whenever it exists.  `matches` and `degraded` in a body, `acked0` and
`swallowed` are history variables: the program does not have them and no
guard reads them.

### QdrantPool

`idle` is the `queue.Queue`, `held` the client each thread has.  An operation
is a number of requests and whether they are retried (`search` one retried
request, `upsert` one per batch, `count` two or one not retried).  A client is
kept while its thread sleeps between attempts.  `Exhausted` requires an empty
queue: `Queue.get` looks once more when its timeout is over.  `close()` is two
steps, `empty()` and `get_nowait()`, and any thread may come between.

### Fusion, SparseIndex, Reranker and HybridRetriever

A leg is a function from ids to raw scores: `rank_leg` sorts again, so the
order in which a leg returns hits is lost.  Min-max scores are kept as
integers over a common `span`, and a contribution `weight / (k + rank)` as an
integer number of `1 / Scale`, so all comparisons are exact; rounding of
floating point numbers is not modelled.  Fusion and the reranker sort by a key
that ends in the id, so the order is total: `Sorted` puts a value at the
position given by the number of values before it.  The copy of a chunk that
survives deduplication decides the text the cross-encoder scores: a chunk's
text is the leg it comes from, since the two indexes may hold different
versions.  The tracer's spans are part of the model though the service runs
without a tracer. The sparse leg is `SearchSparse` over a snapshot: the best
`CandidateK` of all its chunks, those without a term of the query included,
ties in build order; BM25's scores are any integers.  The dense leg is any set
of hits that fits the pool.

### Chunking

A sentence is the number of tokens up to its end.  `_pack` appends the next
sentence and cuts all but a suffix, so the list it keeps is a run
`first .. next - 1` of sentences, and a chunk is one run, or two once the tail
was merged into it.  The regular expressions are not modelled: they only
decide where sentences end.

### Service, Admission, PipelineConfig

A call goes `idle -> sent -> provide (-> build) -> search -> done -> over` (a
query) or `idle -> sent -> ingestor -> read -> ingest -> dump -> done -> over`
(an upload); `reset` is a refused or broken connection.  What the loop does
(`Accept`, `StartIngest`, `Reply`) has `loop = None` in its guard, because an
ingestion holds the loop from `StartIngest` to `IngestReturns` or
`IngestRaises`; what a thread does (`PipelineHit`, `PipelineMiss`,
`BuildPipeline`, `Search`, `BuildIngestor`) has not.  `PipelineMiss` and
`BuildPipeline` are two steps since `lru_cache` calls the function without a
lock: several requests may build, and the first that is ready is kept. A
pipeline is `Buildable` if its file is one that `Loads` and the sparse index
file is not `"torn"`.  That file is torn from `StartDump` to `IngestReturns`;
it stays so if the dump fails (`DumpRaises`) or the process stops in it, and a
run of the tool may leave it torn or readable at any time (`ToolWrites`).
`Lifespan` builds the pipeline before requests are accepted if warmup is on,
and when it cannot the process ends and is started again (`LifespanRaises`),
again and again until something writes the file; without warmup the request
gets a 500 (`BuildRaises`).  `Stop` resets every connection and keeps of the
running ingestion what it had written (`WrittenUpTo`).

`Admission` is the loop over the files of one upload: `Accepted` files are
listed in the response, and of two with one stem the last reaches the chunker
(`Kept`), in the place of the first (`Place`, a dict's order).  `store` says
which upload and file each document in the indexes comes from: the steps in
which an ingestion writes it are `Ingestion`'s, what a search returns is
`RetrieveApi`'s.

### Dashboard

`waiting` holds the calls whose promise is pending; the other variables are
the states of `App`, with the call a value comes from in place of the value.
A promise settles by a reply, a reset or the abort of `client.ts` (`TimeOut`,
possible at any time), and the service goes on with a call its client gave
up.  Neither panel keeps a second call from starting (`Inspect`, `Submit`).
`overlapped` and `raced` are history variables that say the user did that; the
properties that except such behaviours name them.

### Metrics, JudgeHarness, RerankerTuner, Evaluation

Scores are integers in units of `1 / Unit`, and the discount of a rank is any
falling sequence of positive integers, so comparisons are exact up to the
rounding of `\div`.  `UnitResolves` says that a unit is fine enough for that:
one rank can be told from the next, and a lone hit at the cutoff from none, as
floating point numbers do at the code's cutoff of ten.  An answer is the
sequence of its `[n]` markers, any numbers; a judge's reply is two scores, or
text that does not parse. `GenerateFails`, `JudgeRaises` and `TunerRaises` are
the models or the retrieval failing at any call; a second failure of the
generator, and any other, ends the job, and the verdicts before it are lost.
`ScoreQuery` and `TunerRaises` set the reranker's `config` as the loop does,
and `TunerReturns`/`TunerRaises` put it back as the `finally` does.
`Evaluation` starts one job; a batch is judged over what the reranker keeps.

## 3. Runs

"distinct" is the number of states TLC finds.

| Run | Bounds | Shows | distinct |
| --- | --- | --- | --- |
| `ingestion` | 1 tool run, 2 uploads, 2 corpora over 2 chunks, batches of 1, 2 retries (4 attempts), 1 stop, warmup on at first | `SparseBehindDense`, `ServedBehindDense`, `AckedIsIndexed`, `TornExplained`, `CreateRaceNeedsATool`, `SerialIngestsAgree`, and the inductive invariant; refinement of `DurableIndex`; no lost points; runs end; the service recovers | 630 k |
| `ingestion_indexes_agree` | 2 uploads of disjoint corpora, no tool run, no stop | violation: after two uploads the sparse index holds the second only | – |
| `retrieve_pages` | 2 threads, 2 pages, null and empty filters, 2 chunks, pool of 2 | replies answer their requests; pages are disjoint; misses search what was acknowledged | 3.3 M |
| `retrieve_filters` | 1 thread, 1 filter or none, 2 chunks, pool of 1, 2 stops | keys tell filters apart; a miss searches what was acknowledged and passes, or fills its pool with what passes; only the sparse leg passes a filter by; requests end | 158 k |
| `retrieve_upload` | 1 thread, 1 request, no stop | violation: a cached reply hides an upload until it expires | – |
| `pool` | 2 clients, 3 threads with 1 operation each, 2 attempts | ownership, leaks, exhaustion; operations end | 609 k |
| `hybrid_fusion` | 4 chunks, dense legs of up to 3, sparse snapshots of up to 4 in both build orders, scores -1, 0, 2; 2 weightings; 2 cross-encoders; top_k 1 and 3 | fusion and reranking | 2.0 M |
| `hybrid_spans` | as `hybrid_fusion` | violation: a stage that raises leaves no span | – |
| `chunking_safety` | all documents of up to 6 sentences of 1 to 4 tokens; budget 5, overlap 3, minimum 4 | cover, overlap, bounded excess | 47 k |
| `dashboard` | 3 calls of 2 queries and 2 uploads; warmup on and off; a good and a bad pipeline file; a torn index file; any timeouts; 1 stop | what a panel reports, shows and spins for; accepted calls are answered | 286 k |
| `dashboard_pipeline` | 2 calls, no stop | violation: two first requests build a pipeline each | – |
| `evaluation` | 2 golden queries over 4 chunks of 3 documents, scores 0 to 2, cutoff 3 in place of 10; grids `<<1, 2, 3, 4>>` and `<<>>`; thresholds 0 to 2; answers of up to 3 markers | citations, metrics, tuned settings; jobs end and put the setting back | 77 k |

Why these bounds are enough to be worth running: two uploads and a tool are
the smallest number with every kind of overlap (tool with upload, upload after
upload); a corpus of two chunks with batches of one can stop in the middle,
and `Short` is `Long` without its second chunk, as an edited document would
be.  In the violation run, `Other` is disjoint from `Short`.  Two retries are
the fewest for which nested budgets differ from a single one.  One stop can
hit any step, and lets the service come back with warmup or without it to what
was left; the proofs cover any number of stops, runs and chunks. Two threads
over one key, and two keys that differ only in the page, are enough for every
interleaving of cache accesses; one thread and two stops are enough for an
entry to outlive the service that stored it.  Two chunks over a pool of one
make the collection exceed what a leg returns, and over a pool of two they do
not.  Three threads over two clients wait, time out and meet `close()`.  Four
chunks with pools of three make the fused pool exceed the pool of a leg, with
ties, negative scores, lone hits and weights of zero.  Sentences below and at
the overlap (3), at the minimum (4) and six of them make packing overlap,
exceed, and merge. `RrfK = 2` makes `Scale = 60` exact.  In `dashboard` the
first upload has two files of one document and three that are skipped, the
second edits that document and has another one without text; three calls are
enough for two uploads and a query, or two queries and an upload, to overlap
in every order, and the stop meets each of them anywhere, a dump included.  In
`evaluation` one document has two chunks, so it can be ranked twice above the
cutoff; the grid goes past the cutoff by one; a threshold drops every chunk;
an answer may repeat a marker and name one that does not exist.

`CHECK_DEADLOCK FALSE` is set where the system stops: all runs of ingestion
have been used, threads have made their operations, a query, a document or an
offline job is done, the calls of the dashboard are over.  `RetrieveApi` never
stops and is checked for deadlock.

`ResultsAreTheBest` says something the documentation does not: the reranker
replaces the fused order, so fusion weights and ranks never change what a
caller gets.

### Where code and documentation disagree

Four runs each check one sentence of the repository and find a counterexample
(`PROJECT.json`, `findings`, quotes them):

- `ingestion_indexes_agree`: after two uploads the sparse index holds the
  second only.
- `retrieve_upload`: a cached reply hides an upload until it expires.
- `hybrid_spans`: a stage that raises leaves no span, though
  `src/retrieval/tracing.py:49` says "span closes even if the body raises".
- `dashboard_pipeline`: first requests that come together in a service without
  warmup each build a pipeline and work with their own, though
  `src/api/dependencies.py:213` says "shared ... built once and cached".

Others were met while modelling and have no run; where a checked property
states what the code does instead, it is named:

- `/readyz` looks at the index file, not at the index in memory, though
  `src/api/dependencies.py:150-152` says it reports the empty index a service
  fell back to (`src/api/routers/health.py:90`);
- overlap plus a sentence, or a merged tail, may exceed "Maximum tokens per
  chunk" (`src/ingest/chunking.py:34`, asserted by
  `tests/unit/test_chunking.py:39` for one document): `ExcessBounded` says by
  how much;
- the service's sparse leg does not see an upload before a restart, though
  the upload's ingestor is documented as "wired to the live sparse and dense
  stores" (`src/api/routers/documents.py:90`): `DurableIndex` has no action that
  replaces a snapshot that is served;
- filters do not bind the sparse leg, though documented as exact-match
  (`src/api/routers/retrieve.py:38`): `OnlySparseLeaks`;
- a Qdrant error becomes a poorer 200, which is cached
  (`src/ingest/dense_index.py:368`, against "fail closed" of
  `CONTRIBUTING.md:68`): action `DenseLegSwallowsError`;
- a 502 has no `X-Cache` header (`README.md:106` says every response has);
- up to twice `candidate_k` candidates are reranked
  (`src/config/pipeline.py:146`): `FusionRespectsTheLegs` counts the union;
- every hit is labelled `fused`, whichever leg found it (`README.md:69-71`);
- a merged tail repeats its overlap inside the chunk
  (`src/ingest/chunking.py:114` says in order): `MergeTail`;
- nDCG is documented "in [0, 1]" (`src/eval/metrics.py:28`), but a document
  ranked as several chunks gains several times, and the tuner passes document
  ids (`src/retrieval/rerank.py:199`): `MetricsAgree` bounds it only for
  rankings without repetition;
- "nDCG@10 peaked at 12 and was within noise of it from 10 to 16"
  (`docs/adr/ADR-001.md:136`) cannot come from `grid_search`: from ten on the
  metric does not change with `top_k`, and below it never falls as `top_k`
  grows: `TunedTopKIsSmall`;
- "ties go to the smaller top_k" (`src/retrieval/rerank.py:211`) holds only
  for increasing grids, as the first of equals wins: `FirstBest`;
- a verdict's scores are documented "in [0, 1]" (`src/eval/judge.py:66-67`)
  and taken as the model writes them: `Scores` includes one above `Unit`;
- a marker may cite any retrieved chunk, though the prompt shows the model the
  first five only (`src/generation/prompts/citation.py:19`):
  `CitationsAreGrounded` is about the retrieved ones;
- the environment is said to override model names (`README.md:146-147`), but
  the search takes them from the pipeline file and only ingestion reads the
  variables;
- the proxy keeps its default limit of one megabyte for a body, below the five
  of `MAX_UPLOAD_BYTES` (`src/api/routers/documents.py:24`);
- with two queries under way the panel ends with whichever answer came last:
  `SerialScreenIsLast` excepts them.

### Fairness

Weak fairness, and only of what runs by itself: the steps of a run that has
started (`IngestStep`; a thread the operating system schedules, whose calls
have timeouts), the restart of the container (`restart: unless-stopped`), the
boot that follows it (`Boot \/ BootCold \/ BootRaises`), the steps of a thread
that serves a request, and the steps of an operation on the pool.  In
`dashboard`, the service goes on as long as it has something to do for some
call, as its threads and its loop are scheduled; in `evaluation`, the job goes
on, as every call it makes returns or raises.  Nothing makes a run or a
request start (so a service without warmup may hold no index for ever), a
container stop, a client give up, or an entry expire.  No strong fairness is
assumed, and no fairness of one outcome over another: a request may fail at
every attempt.  `ServiceRecovers` therefore excepts a service with warmup that
finds an unreadable file: it ends and is started again until some run writes
the file anew, and nothing makes a run start.

## 4. Proofs

`tlapm` checks eight modules, for any finite or infinite sets of runs, chunk
ids, corpora, threads, requests and calls, and any value of the other constants
that satisfies the ASSUMEs of the modules (types, positive batch size and retry
budget, markers that are no corpora; a finite set of clients; documents whose
sentences have at least one token; calls in an order; rankings that name a
chunk once; legs that fit the pool, whose ids and scores are integers; a score
for every text the cross-encoder may see; golden sets whose candidates are
finite and have ids of their own, with fewer relevant documents than a unit
has parts; `UnitResolves`).  Every invariant of a
passing run is a theorem.

**`IngestionProofs`.**  None of the safety properties is inductive alone: that
a file names only chunks of the collection when it is dumped depends on the
run having upserted all its chunks, which depends on how far each batch got,
and on points never disappearing.  `IndInv` adds `Progress` (how far each run
is, and that only complete runs dump), `UpsertedIsDense`, `UploadsExclude`,
`ClashNeedsATool`, `IndexNeedsService` (an index is held only while the
service is up) and `RunsAreSerial`.  The proof has one lemma per conjunct and
one step per action.  From `Invariance` follow `TypeCorrect`, `SparseSafe`,
`ServedSafe`, `AckedSafe`, `TornSafe`, `CreateSafe` and `SerialSafe`;
`PointsSafe` is an action property; and `Implements` shows the refinement of
`DurableIndex`, each step of `Ingestion` being one of its actions or a
stutter.

**`QdrantPoolProofs`.**  `PoolInv` strengthens the bound on attempts by what
holds while sleeping; `OneOwner` and `NoLeak` are inductive only together,
with the types.  The lemmas say what `Head`, `Tail` and `Append` do to the
elements of a queue without duplicates.  `PoolBusy` derives the action
property about exhaustion from `NoLeak`.

**`ChunkingProofs`.**  `ChunkInv` adds that runs lie in the document and that
the list being packed continues the last chunk (`CurrentContinues`): it begins
with the longest overlap that fits and already has a sentence more, which is
why no chunk lies within its predecessor.  That an overlap exists is an
induction on the suffixes, done with a least element.

**`RetrieveApiProofs`.**  `RInv` adds to the two properties about a miss that
acknowledged chunks are indexed, that a stopped service has no request, and
that a request counts as acknowledged no more than is, and has no hits before
its first leg returned (`HitsComeFromLegs`).  That a pool which lacks a chunk
the leg found is full (`PoolsAreFull`) is a fact about cardinalities.  For the
cache it says how a body came about: it was made for a request with the key it
is found under, from the matches of some hits (`MadeFor`), and so was every
reply.  It is not enough that a body is *for* its request, as nothing about
its length or its `has_next` follows from that.  Two facts complete the
argument: `CacheKey` tells apart all that a body depends on (the lemma on
keys), and what `Paginate` returns is the slice of the matches at the offset
of the page, as long as the page unless the matches end (`PagesAreSlices`).
From `RetrieveInvariance` follow `RetrieveTypes`, `MissSafe`, `LeakSafe`,
`RepliesSafe` and `PagesSafe`; for the last, two slices of one list at
different multiples of the page size share no position, and matches name a
chunk once.

**`DashboardProofs`.**  Two invariants, the second on the first. `ScreenInv`
relates promises, panels and the call made last.  `ReportInv` adds that the
loop is held by the upload that is ingesting, that a shown result is of a call
that is over, and that a success of the last upload, in a run without races,
is stored from the moment its ingestion dumps, whatever the client still waits
for (`DumpedIsStored`).

**`ListProofs`.**  `SortedIsSorted`: for a strict total order on a finite set,
the positions that `Places` gives are 1 to the size of the set, each taken
once, since of two values the one that comes first has a smaller set before
it; so the list has every value once and in order.  `LeastExists` and
`GreatestExists` give minima and maxima of finite sets of integers.  A
recursive function over a list is opened by `LoopsHaveResults`, which shows
that a function with its equations exists, and `AlongAList`, which is the
induction over the positions, done with a least counterexample.

**`HybridRetrieverProofs`.**  `PipelineInv` says that the result of a stage is
what the stage computes from the earlier ones, whose results stay; everything
else is about the operators.  `FusionAgrees` is the heart of
`FusionRespectsTheLegs` for legs of any size: normalization keeps the order of
a leg (`NormalizationKeepsOrder`), ranks follow it, contributions fall
strictly with the rank since `Scale` is divisible by every denominator
(`SharesFall`), and a sum of two contributions, neither of which is reversed
and one of which is strict, is strict.  `FusionSafe` adds that the fused list
is sorted by that sum and has each hit of the union once.  `CopiesSafe`, about
legs of two hits or more, needs that such a leg, normalized, has its best at
one and its worst at zero (a lone hit keeps its raw score), and `ResultsSafe`
that cutting the sorted candidates twice keeps a prefix of them.

**`EvaluationProofs`.**  `TunerRestores`; `JobsAreComplete`, from invariants on
how far a batch and a walk are; and `SharesAreBounded`, that recall and
precision of any ranking lie between zero and one, from facts about
cardinalities.

`JobInputs` (what a walk runs on does not change) and `RowsInv` (each row is
the mean nDCG of its setting, the scores so far are those of the current one)
are inductive together; from them:

- `MetricsSafe`: a relevant document in the top is a hit at some rank, where
  nDCG, recall and precision are positive together and MRR is at least one
  over the cutoff.  It adds at least the discount of the cutoff to the gain,
  and `UnitResolves` keeps the quotient positive.  That nDCG is at most one
  when no document repeats is `FirstRanksGainMost`: any hits gain no more than
  as many hits at the first ranks, by induction over the ranks.
- `TuningSafe`: a larger `top_k` lengthens the ranking and changes nothing in
  it (`RerankKeepsTheFirst`), a higher threshold shortens it
  (`ThresholdsCutTheEnd`), so gains, quotients and means keep their order
  (`TotalsKeepOrder`, `DivisionKeepsOrder`, `RowsKeepOrder`), and the first
  best row is the smallest setting that ranks best.
- `CitationsSafe`: `CitedInv` says that the citations under judgement are
  parsed from the current answer over results without repetition.
  `ParserCitesAll` is the loop invariant of the parser, by induction over the
  markers: after each, the citations are the chunks named so far, each once,
  in the order of their first markers.

Only model-checked: liveness (`RunsEnd`, `ServiceRecovers`, `RequestsEnd`,
`OpsEnd`, `AcceptedAreAnswered`, `EvaluationEnds`), which needs fairness and
ENABLED, and the prover has neither.

## 5. Not modelled

- Text, embeddings, BM25 and cross-encoder arithmetic are data that no
  property tells apart; the modules allow any outcome instead.  Regular
  expressions and prompts are left out: a text is the sequence of its
  sentences, an answer that of its markers.
- *Embeddings* wrap a library, one vector per text; a model that fails to load
  is an outcome of `Search`.  *Corpus files* are read once by the tool.
- *Health probes* read and keep nothing.
- *Dense collection maintenance*: no code of the service or of the tool calls
  `drop_collection`, `drop_collection_if_empty` or `recreate=True`; tests do.
  That `drop_collection_if_empty` counts and then drops in a second borrow
  would race an ingestion if something did.
- `fuse_many`, the percentiles of the tracer, the hit counters and `clear()`
  of the cache, the rendering of reports, log lines and CORS headers: no state
  that the rest depends on.
- Of the dashboard, the benchmark table with its polling and the health dot.
- Time: the models have no clock, so how long an upload holds the loop, and
  how long a TTL is, are outside; timeouts and expiry may come at any moment.
- Pools are modelled one at a time; that each upload opens a new one is listed
  as a hazard without a property, because no state depends on their number.

## 6. Plan

The order was by what the rest of the system relies on.  Done: `DurableIndex`
and `Ingestion`; `RetrieveApi`; `QdrantPool`; `Fusion`, `SparseIndex`,
`Reranker` and `HybridRetriever`; `Chunking`; `PipelineConfig`, `Admission`,
`Service` and `Dashboard`; `Metrics`, `JudgeHarness`, `RerankerTuner` and
`Evaluation`; and the eight modules of proofs.

What is left, should the code come to need it:

1. Dense collection maintenance beside an ingestion, once something calls it.
2. The polling of the benchmark table, together with the health dot.
3. Proofs that join components: what `Ingestion` and `RetrieveApi` promise
   together by way of `DurableIndex`, and type correctness of the modules whose
   runs check no type invariant.
