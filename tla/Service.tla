-------------------------------- MODULE Service --------------------------------
(***************************************************************************)
(* One service process (src/api/main.py, dependencies.py, routers/): its   *)
(* start with or without warmup, the pipeline that lru_cache shares, and   *)
(* the event loop, which accepts requests, sends replies, and runs a whole *)
(* ingestion whenever an upload comes in.                                  *)
(*                                                                         *)
(* retrieve() and the dependencies are plain functions: they run in        *)
(* threads, beside the loop.  upload_documents() is async, and after its   *)
(* last file is read it does not give the loop back before it returns.     *)
(* What a search returns is module RetrieveApi's, the steps of an          *)
(* ingestion are module Ingestion's; here a query has a status and an      *)
(* upload writes documents.                                                *)
(***************************************************************************)
EXTENDS Admission, PipelineConfig

CONSTANTS
    Queries,      \* calls of POST /retrieve
    Uploads,      \* calls of POST /documents
    FilesOf,      \* [Uploads -> Seq(file)]
    ConfigFiles,  \* pipeline files a deployment may have
    Boot,         \* the pipeline built by the lifespan
    None,
    MaxStops      \* bound of the model: times the process ends

Calls == Queries \cup Uploads
Pipelines == Queries \cup {Boot}  \* a pipeline is named for who built it

DocIds ==
    UNION {{FilesOf[u][i].stem : i \in DOMAIN FilesOf[u]} : u \in Uploads}

ASSUME CallsDiffer == Queries \cap Uploads = {} /\ {Boot, None} \cap Calls = {}
ASSUME BootIsNotNone == Boot # None
ASSUME MaxStopsType == MaxStops \in Nat
ASSUME FilesType ==
    \A u \in Uploads :
        FilesOf[u] \in Seq([stem : STRING, suffix : STRING, content : STRING])

VARIABLES
    warmup,  \* RETRIEVAL_WARMUP_ON_STARTUP
    config,  \* the pipeline file
    proc,    \* "down", "starting", "up"
    cached,  \* what get_pipeline's lru_cache holds
    at,      \* [Calls -> ...], where a call is
    mine,    \* [Queries -> Pipelines or None], the pipeline injected
    status,  \* [Calls -> Nat], HTTP status of a call that is done, or 0
    loop,    \* the upload that holds the event loop, or None
    store,   \* [DocIds -> <<upload, position>> or None], where a document's
             \* text in the indexes comes from
    index,   \* whether the sparse index file loads: "readable" or "torn"
    stops

deployment == <<warmup, config>>
serviceVars ==
    <<deployment, proc, cached, at, mine, status, loop, store, index, stops>>

-----------------------------------------------------------------------------
ServiceInit ==
    /\ warmup \in BOOLEAN
    /\ config \in ConfigFiles
    /\ proc = "down"
    /\ cached = None
    /\ at = [c \in Calls |-> "idle"]
    /\ mine = [q \in Queries |-> None]
    /\ status = [c \in Calls |-> 0]
    /\ loop = None
    /\ store = [d \in DocIds |-> None]
    /\ index = "readable"
    /\ stops = 0

(* build_pipeline reads two files, and raises if either does not load; no  *)
(* index file at all makes an empty index.                                 *)
Buildable == Loads(config) /\ index = "readable"

Move(c, from, to) == at[c] = from /\ at' = [at EXCEPT ![c] = to]

Finish(c, from, code) ==
    /\ Move(c, from, "done")
    /\ status' = [status EXCEPT ![c] = code]

(* The container's restart policy. *)
StartProcess ==
    /\ proc = "down"
    /\ proc' = "starting"
    /\ UNCHANGED <<deployment, cached, at, mine, status, loop, store, index, stops>>

(* With warmup the pipeline is built before any request is accepted; a     *)
(* model that does not load then is only logged, and loaded by a search.   *)
Lifespan ==
    /\ proc = "starting"
    /\ IF warmup
       THEN Buildable /\ cached' = Boot
       ELSE UNCHANGED cached
    /\ proc' = "up"
    /\ UNCHANGED <<deployment, at, mine, status, loop, store, index, stops>>

(* build_pipeline raises in the lifespan, and the process exits. *)
LifespanRaises ==
    /\ proc = "starting"
    /\ warmup
    /\ ~Buildable
    /\ proc' = "down"
    /\ UNCHANGED <<deployment, cached, at, mine, status, loop, store, index, stops>>

(* A client connects; the proxy refuses it while no process listens. *)
Connect(c) ==
    /\ Move(c, "idle", IF proc = "up" THEN "sent" ELSE "reset")
    /\ UNCHANGED <<deployment, proc, cached, mine, status, loop, store, index, stops>>

(* The loop reads the request and resolves its first dependency in a       *)
(* thread: get_pipeline for a query, build_ingestor for an upload.         *)
Accept(c) ==
    /\ proc = "up"
    /\ loop = None
    /\ Move(c, "sent", IF c \in Queries THEN "provide" ELSE "ingestor")
    /\ UNCHANGED <<deployment, proc, cached, mine, status, loop, store, index, stops>>

(* The loop finds the client of a waiting request gone, and drops it. *)
Drop(c) ==
    /\ proc = "up"
    /\ loop = None
    /\ Move(c, "sent", "over")
    /\ UNCHANGED <<deployment, proc, cached, mine, status, loop, store, index, stops>>

-----------------------------------------------------------------------------
(* get_pipeline: lru_cache looks, calls the function without a lock on a   *)
(* miss, and stores the result unless another call stored one meanwhile.   *)
(* An exception is not cached.                                             *)
PipelineHit(q) ==
    /\ cached # None
    /\ Move(q, "provide", "search")
    /\ mine' = [mine EXCEPT ![q] = cached]
    /\ UNCHANGED <<deployment, proc, cached, status, loop, store, index, stops>>

PipelineMiss(q) ==
    /\ cached = None
    /\ Move(q, "provide", "build")
    /\ UNCHANGED <<deployment, proc, cached, mine, status, loop, store, index, stops>>

BuildPipeline(q) ==
    /\ Buildable
    /\ Move(q, "build", "search")
    /\ mine' = [mine EXCEPT ![q] = q]
    /\ cached' = IF cached = None THEN q ELSE cached
    /\ UNCHANGED <<deployment, proc, status, loop, store, index, stops>>

(* Mutant: the failure is cached like a result. *)
BuildRaisesAndCaches(q) ==
    /\ ~Buildable
    /\ Finish(q, "build", 500)
    /\ cached' = 500
    /\ UNCHANGED <<deployment, proc, mine, loop, store, index, stops>>

(* The pipeline file does not load, or the sparse index file is being      *)
(* written, or was left half-written by a process that ended.              *)
BuildRaises(q) ==
    /\ ~Buildable
    /\ Finish(q, "build", 500)
    /\ UNCHANGED <<deployment, proc, cached, mine, loop, store, index, stops>>

(* retrieve(): from the cache, or by a search that loads the models of its *)
(* pipeline if no thread has yet, or the 502 of a search that fails.       *)
Search(q) ==
    /\ \E code \in {200, 502} : Finish(q, "search", code)
    /\ mine' = [mine EXCEPT ![q] = None]
    /\ UNCHANGED <<deployment, proc, cached, loop, store, index, stops>>

-----------------------------------------------------------------------------
BuildIngestor(u) ==
    /\ Move(u, "ingestor", "read")
    /\ UNCHANGED <<deployment, proc, cached, mine, status, loop, store, index, stops>>

NothingToIndex(u) ==
    /\ proc = "up"
    /\ loop = None
    /\ Accepted(FilesOf[u]) = {}
    /\ Finish(u, "read", 400)
    /\ UNCHANGED <<deployment, proc, cached, mine, loop, store, index, stops>>

(* The last file is read, and ingest() is called on the event loop. *)
StartIngest(u) ==
    /\ proc = "up"
    /\ loop = None
    /\ Accepted(FilesOf[u]) # {}
    /\ Move(u, "read", "ingest")
    /\ loop' = u
    /\ UNCHANGED <<deployment, proc, cached, mine, status, store, index, stops>>

Write(u, positions) ==
    store' = [d \in DocIds |->
                LET new == {i \in positions :
                               FilesOf[u][i].stem = d /\ HasChunks(FilesOf[u][i])}
                IN  IF new = {} THEN store[d] ELSE <<u, CHOOSE i \in new : TRUE>>]

(* Everything is upserted, and save() opens the index file. *)
StartDump(u) ==
    /\ Move(u, "ingest", "dump")
    /\ Write(u, Kept(FilesOf[u]))
    /\ index' = "torn"
    /\ UNCHANGED <<deployment, proc, cached, mine, status, loop, stops>>

IngestReturns(u) ==
    /\ Finish(u, "dump", 200)
    /\ index' = "readable"
    /\ loop' = None
    /\ UNCHANGED <<deployment, proc, cached, mine, store, stops>>

(* Mutant: the handler tries a failed ingestion again. *)
IngestStartsOver(u) ==
    /\ Move(u, "ingest", "read")
    /\ \E n \in 0..Len(FilesOf[u]) : Write(u, WrittenUpTo(FilesOf[u], n))
    /\ loop' = None
    /\ UNCHANGED <<deployment, proc, cached, mine, status, index, stops>>

(* Qdrant or the model fails for good: what was written stays. *)
IngestRaises(u) ==
    /\ Finish(u, "ingest", 500)
    /\ \E n \in 0..Len(FilesOf[u]) : Write(u, WrittenUpTo(FilesOf[u], n))
    /\ loop' = None
    /\ UNCHANGED <<deployment, proc, cached, mine, index, stops>>

(* pickle.dump fails: the file stays as it is. *)
DumpRaises(u) ==
    /\ Finish(u, "dump", 500)
    /\ loop' = None
    /\ UNCHANGED <<deployment, proc, cached, mine, store, index, stops>>

(* The ingest tool, exec'd beside the process, rewrites the index file.    *)
(* What it ingests is none of the documents that are uploaded.             *)
ToolWrites ==
    /\ proc # "down"
    /\ index' \in {"readable", "torn"}
    /\ UNCHANGED <<deployment, proc, cached, at, mine, status, loop, store, stops>>

-----------------------------------------------------------------------------
(* The loop sends the response of a handler that returned. *)
Reply(c) ==
    /\ proc = "up"
    /\ loop = None
    /\ Move(c, "done", "over")
    /\ status' = [status EXCEPT ![c] = 0]
    /\ UNCHANGED <<deployment, proc, cached, mine, loop, store, index, stops>>

(* The client learns of the connection that was refused or reset. *)
Hangup(c) ==
    /\ Move(c, "reset", "over")
    /\ UNCHANGED <<deployment, proc, cached, mine, status, loop, store, index, stops>>

(* The process ends, in the middle of an ingestion or not; connections     *)
(* are reset, and the index file stays as it is.                           *)
Stop ==
    /\ proc = "up"
    /\ stops < MaxStops
    /\ stops' = stops + 1
    /\ proc' = "down"
    /\ cached' = None
    /\ at' = [c \in Calls |->
                IF at[c] \in {"idle", "reset", "over"}
                THEN at[c] ELSE "reset"]
    /\ mine' = [q \in Queries |-> None]
    /\ IF loop # None /\ at[loop] = "ingest"
       THEN \E n \in 0..Len(FilesOf[loop]) :
                Write(loop, WrittenUpTo(FilesOf[loop], n))
       ELSE UNCHANGED store
    /\ status' = [c \in Calls |-> 0]
    /\ loop' = None
    /\ UNCHANGED <<deployment, index>>

QueryStep(q) ==
    \/ PipelineHit(q)
    \/ PipelineMiss(q)
    \/ BuildPipeline(q)
    \/ BuildRaises(q)
    \/ Search(q)

UploadStep(u) ==
    \/ BuildIngestor(u)
    \/ NothingToIndex(u)
    \/ StartIngest(u)
    \/ StartDump(u)
    \/ IngestReturns(u)
    \/ IngestRaises(u)
    \/ DumpRaises(u)

(* What the process does for a call between its arrival and its reply. *)
Work(c) ==
    \/ Accept(c)
    \/ c \in Queries /\ QueryStep(c)
    \/ c \in Uploads /\ UploadStep(c)

InService(c) ==
    at[c] \in {"sent", "provide", "build", "search",
               "ingestor", "read", "ingest", "dump", "done"}

ServiceTypeOK ==
    /\ warmup \in BOOLEAN /\ config \in ConfigFiles
    /\ proc \in {"down", "starting", "up"}
    /\ cached \in Pipelines \cup {None}
    /\ at \in [Calls -> {"idle", "sent", "provide", "build", "search",
                         "ingestor", "read", "ingest", "dump", "done",
                         "reset", "over"}]
    /\ mine \in [Queries -> Pipelines \cup {None}]
    /\ status \in [Calls -> {0, 200, 400, 500, 502}]
    /\ loop \in Uploads \cup {None}
    /\ store \in [DocIds -> (Uploads \X Nat) \cup {None}]
    /\ index \in {"readable", "torn"}
    /\ stops \in 0..MaxStops

(* The pipeline is built once and shared: every request that has one works *)
(* with the one that is cached, however many first requests come at once.  *)
PipelineIsShared == \A q \in Queries : mine[q] \in {None, cached}

=============================================================================
