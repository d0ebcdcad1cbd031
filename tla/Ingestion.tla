------------------------------ MODULE Ingestion ------------------------------
(***************************************************************************)
(* Ingestion runs (src/ingest/loader.py) writing the two retrieval stores, *)
(* and the API service that loads one of them when it starts.              *)
(*                                                                         *)
(* A run is either the command line tool, exec'd in the API container, or  *)
(* one POST /documents request.  Both execute CorpusIngestor.ingest: make  *)
(* sure the Qdrant collection exists, upsert the chunks batch by batch,    *)
(* then rebuild the BM25 index over this run's chunks and pickle it over   *)
(* the file the service reads at its next start.  Nothing orders a tool    *)
(* run against another run; uploads exclude each other because the handler *)
(* never awaits while it ingests, which blocks the only event loop.        *)
(*                                                                         *)
(* A corpus is abstracted to the sequence of chunk ids it splits into, and *)
(* a chunk's text to the corpus it was last written from.                  *)
(***************************************************************************)
EXTENDS Integers, Sequences

CONSTANTS
    Clis,        \* runs of the ingest tool
    Uploads,     \* POST /documents requests
    ChunkId,     \* chunk ids; the point id is a hash of it (uuid5)
    Corpora,     \* what a run may be given
    ChunksOf,    \* the chunks a corpus splits into, in ingest order
    BatchSize,   \* chunks per upsert
    MaxRetries,  \* attempts of one retry_with_backoff
    MaxStops,    \* bound of the model: times the container is stopped
    Warmup,      \* what warmup_on_startup is set to at first
    Missing,     \* no sparse index file
    Torn,        \* a file pickle.load fails on
    EmptyIndex,  \* the in-memory index built over nothing
    NotLoaded,   \* no process, or no request has needed the index yet
    Absent,      \* no point with this id in the collection
    NoCorpus     \* the run has not been started

Runs == Clis \cup Uploads

(* Attempts at one batch: ingest() retries upsert(), which retries each    *)
(* request, so the two budgets multiply.                                   *)
MaxCalls == MaxRetries * MaxRetries

ASSUME RunsAreDisjoint == Clis \cap Uploads = {}
ASSUME ChunksOfType == ChunksOf \in [Corpora -> Seq(ChunkId)]
ASSUME BatchSizePositive == BatchSize \in Nat \ {0}
ASSUME MaxRetriesPositive == MaxRetries \in Nat \ {0}
ASSUME MaxStopsNat == MaxStops \in Nat
ASSUME WarmupType == Warmup \in BOOLEAN
ASSUME MarksAreNotCorpora ==
    /\ {Missing, Torn, EmptyIndex, NotLoaded, Absent, NoCorpus} \cap Corpora = {}
    /\ Missing # Torn
    /\ NotLoaded # EmptyIndex

VARIABLES
    phase,       \* [Runs -> Phases], where each run is in ingest()
    corpus,      \* [Runs -> Corpora \cup {NoCorpus}], what it was given
    upserted,    \* [Runs -> Nat], chunks of it the collection acknowledged
    calls,       \* [Runs -> Nat], failed attempts of the current batch
    collection,  \* whether the Qdrant collection exists
    points,      \* [ChunkId -> Corpora \cup {Absent}], the dense collection
    file,        \* Corpora \cup {Missing, Torn}, the pickled sparse index
    clash,       \* runs that had the file open while another run had, too
    service,     \* "down", "booting" or "up": the API process
    loaded,      \* Corpora \cup {EmptyIndex, NotLoaded}, its sparse index
    warmup,      \* its setting warmup_on_startup
    stops,       \* times the container was stopped
    disturbed    \* history: some run overlapped another, or died half-way

runVars == <<phase, corpus, upserted, calls>>
storeVars == <<collection, points>>
fileVars == <<file, clash>>
serviceVars == <<service, loaded, warmup, stops>>
vars == <<runVars, storeVars, fileVars, serviceVars, disturbed>>

Active == {"check", "create", "upsert", "dump"}
Ended == {"done", "failed", "broken"}
Phases == {"idle"} \cup Active \cup Ended

(* Chunk ids of a corpus, of the dense collection, of the service's index. *)
IdsOf(c) == {ChunksOf[c][i] : i \in DOMAIN ChunksOf[c]}
DenseIds == {id \in ChunkId : points[id] # Absent}
ServedIds == IF loaded \in Corpora THEN IdsOf(loaded) ELSE {}
AckedIds == UNION {IdsOf(corpus[r]) : r \in {q \in Runs : phase[q] = "done"}}

ActiveRuns == {r \in Runs : phase[r] \in Active}
Dumping == {r \in Runs : phase[r] = "dump"}

-----------------------------------------------------------------------------
Init ==
    /\ phase = [r \in Runs |-> "idle"]
    /\ corpus = [r \in Runs |-> NoCorpus]
    /\ upserted = [r \in Runs |-> 0]
    /\ calls = [r \in Runs |-> 0]
    /\ collection = FALSE
    /\ points = [id \in ChunkId |-> Absent]
    /\ file = Missing
    /\ clash = {}
    /\ service = "booting"
    /\ loaded = NotLoaded
    /\ warmup = Warmup
    /\ stops = 0
    /\ disturbed = FALSE

(* A run enters ingest() with the chunks of corpus c. *)
Begin(r, c) ==
    /\ phase[r] = "idle"
    /\ phase' = [phase EXCEPT ![r] = "check"]
    /\ corpus' = [corpus EXCEPT ![r] = c]
    /\ disturbed' = (disturbed \/ ActiveRuns # {})
    /\ UNCHANGED <<upserted, calls, storeVars, fileVars, serviceVars>>

(* `docker compose exec api python -m src.ingest.loader`. *)
StartCli(r) ==
    /\ service # "down"
    /\ \E c \in Corpora : Begin(r, c)

(* Mutant: the handler hands ingest() to a thread, so uploads overlap. *)
StartUploadInThread(r) ==
    /\ service = "up"
    /\ \E c \in Corpora : Begin(r, c)

(* POST /documents: the event loop is free only between two uploads. *)
StartUpload(r) ==
    /\ service = "up"
    /\ ActiveRuns \cap Uploads = {}
    /\ \E c \in Corpora : Begin(r, c)

(* Mutant: ingest() recreates the collection, as ADR-001 has it. *)
CheckCollectionRecreate(r) ==
    /\ phase[r] = "check"
    /\ collection' = FALSE
    /\ points' = [id \in ChunkId |-> Absent]
    /\ phase' = [phase EXCEPT ![r] = "create"]
    /\ UNCHANGED <<corpus, upserted, calls, fileVars, serviceVars, disturbed>>

(* ensure_collection asks first and creates afterwards. *)
CheckCollection(r) ==
    /\ phase[r] = "check"
    /\ phase' = [phase EXCEPT ![r] = IF collection THEN "upsert" ELSE "create"]
    /\ UNCHANGED <<corpus, upserted, calls, storeVars, fileVars, serviceVars,
                   disturbed>>

(* Creating a collection another run has just created is an HTTP error     *)
(* nothing retries: the run fails.                                         *)
CreateCollection(r) ==
    /\ phase[r] = "create"
    /\ collection' = TRUE
    /\ phase' = [phase EXCEPT ![r] = IF collection THEN "failed" ELSE "upsert"]
    /\ disturbed' = (disturbed \/ collection)
    /\ UNCHANGED <<corpus, upserted, calls, points, fileVars, serviceVars>>

Min(a, b) == IF a < b THEN a ELSE b

BatchEnd(r) == Min(upserted[r] + BatchSize, Len(ChunksOf[corpus[r]]))
(* Mutant: the batch slice starts one chunk late. *)
BatchIdsLate(r) == {ChunksOf[corpus[r]][i] : i \in (upserted[r] + 2)..BatchEnd(r)}
BatchIds(r) == {ChunksOf[corpus[r]][i] : i \in (upserted[r] + 1)..BatchEnd(r)}

(* Mutant: a point that exists is left alone. *)
WriteBatchIfAbsent(r) ==
    points' = [id \in ChunkId |->
                  IF id \in BatchIds(r) /\ points[id] = Absent THEN corpus[r]
                                                               ELSE points[id]]

(* Ids are stable, so a point of the same chunk is overwritten in place. *)
WriteBatch(r) ==
    points' = [id \in ChunkId |->
                  IF id \in BatchIds(r) THEN corpus[r] ELSE points[id]]

UpsertPending(r) ==
    /\ phase[r] = "upsert"
    /\ upserted[r] < Len(ChunksOf[corpus[r]])

(* One batch written and acknowledged (wait=True). *)
Upsert(r) ==
    /\ UpsertPending(r)
    /\ WriteBatch(r)
    /\ upserted' = [upserted EXCEPT ![r] = BatchEnd(r)]
    /\ calls' = [calls EXCEPT ![r] = 0]
    /\ UNCHANGED <<phase, corpus, collection, fileVars, serviceVars, disturbed>>

(* Mutant: when the attempts are used up, they are counted anew. *)
UpsertFailsStartsOver(r) ==
    /\ UpsertPending(r)
    /\ calls' = [calls EXCEPT ![r] = (calls[r] + 1) % MaxCalls]
    /\ UNCHANGED <<phase, corpus, upserted, storeVars, fileVars, serviceVars,
                   disturbed>>

(* A retried error.  Whether the server applied the batch is unknown.      *)
UpsertFails(r) ==
    /\ UpsertPending(r)
    /\ \/ WriteBatch(r)
       \/ UNCHANGED points
    /\ \/ /\ calls[r] + 1 < MaxCalls
          /\ calls' = [calls EXCEPT ![r] = calls[r] + 1]
          /\ UNCHANGED <<phase, disturbed>>
       \/ /\ calls[r] + 1 = MaxCalls
          /\ phase' = [phase EXCEPT ![r] = "failed"]
          /\ disturbed' = TRUE
          /\ UNCHANGED calls
    /\ UNCHANGED <<corpus, upserted, collection, fileVars, serviceVars>>

(* Mutant: the sparse index is persisted before the batches are upserted. *)
BuildAndOpenFirst(r) ==
    /\ phase[r] = "upsert"
    /\ phase' = [phase EXCEPT ![r] = "dump"]
    /\ file' = Torn
    /\ clash' = IF Dumping = {} THEN clash ELSE clash \cup Dumping \cup {r}
    /\ UNCHANGED <<corpus, upserted, calls, storeVars, serviceVars, disturbed>>

(* All batches are in: build the BM25 index over this run's chunks and     *)
(* open the file for writing, which truncates whatever index it held.      *)
BuildAndOpen(r) ==
    /\ phase[r] = "upsert"
    /\ upserted[r] = Len(ChunksOf[corpus[r]])
    /\ phase' = [phase EXCEPT ![r] = "dump"]
    /\ file' = Torn
    /\ clash' = IF Dumping = {} THEN clash ELSE clash \cup Dumping \cup {r}
    /\ UNCHANGED <<corpus, upserted, calls, storeVars, serviceVars, disturbed>>

(* pickle.dump and close.  Two writers that overlapped leave the bytes of  *)
(* the last one, of the other one, or a mixture.                           *)
Dump(r) ==
    /\ phase[r] = "dump"
    /\ phase' = [phase EXCEPT ![r] = "done"]
    /\ file' \in IF r \in clash THEN {corpus[r], Torn} ELSE {corpus[r]}
    /\ UNCHANGED <<corpus, upserted, calls, storeVars, clash, serviceVars,
                   disturbed>>

(* Where a run that dies leaves its record, and the file it had open. *)
AfterDeath(r) == IF phase[r] = "dump" THEN "broken" ELSE "failed"
FileAfterDeath(R) ==
    {file} \cup (IF R \cap Dumping = {} THEN {} ELSE {Torn})

(* An exception nothing retries (Qdrant unreachable, no pooled client, a   *)
(* full disk, no permission), or the tool is killed.  A batch that was     *)
(* under way may or may not have been applied.                             *)
Abort(r) ==
    /\ phase[r] \in Active
    /\ phase' = [phase EXCEPT ![r] = AfterDeath(r)]
    /\ \/ UpsertPending(r) /\ WriteBatch(r)
       \/ UNCHANGED points
    /\ file' \in FileAfterDeath({r})
    /\ disturbed' = TRUE
    /\ UNCHANGED <<corpus, upserted, calls, collection, clash, serviceVars>>

-----------------------------------------------------------------------------
(* Every run lives in the API container and dies with it. *)
KillRuns ==
    /\ phase' = [r \in Runs |->
                    IF phase[r] \in Active THEN AfterDeath(r) ELSE phase[r]]
    /\ disturbed' = (disturbed \/ ActiveRuns # {})
    /\ service' = "down"
    /\ loaded' = NotLoaded
    /\ UNCHANGED <<corpus, upserted, calls, storeVars, clash>>

(* The container crashes or is restarted: its file system stays. *)
StopApi ==
    /\ service # "down"
    /\ stops < MaxStops
    /\ stops' = stops + 1
    /\ KillRuns
    /\ file' \in FileAfterDeath(Runs)
    /\ UNCHANGED warmup

(* `docker compose up --build` replaces the container, and data/ with it:  *)
(* no volume is mounted there.  The settings may be others from then on.   *)
Redeploy ==
    /\ service # "down"
    /\ stops < MaxStops
    /\ stops' = stops + 1
    /\ KillRuns
    /\ file' = Missing
    /\ warmup' \in BOOLEAN

(* restart: unless-stopped *)
RestartContainer ==
    /\ service = "down"
    /\ service' = "booting"
    /\ UNCHANGED <<runVars, storeVars, fileVars, loaded, warmup, stops,
                   disturbed>>

(* Mutant: a missing index file stops the startup. *)
BootNeedsFile ==
    /\ service = "booting"
    /\ warmup
    /\ file \notin {Torn, Missing}
    /\ service' = "up"
    /\ loaded' = file
    /\ UNCHANGED <<runVars, storeVars, fileVars, warmup, stops, disturbed>>

(* Building the pipeline loads the sparse index, an empty one without a    *)
(* file.                                                                   *)
LoadIndex ==
    /\ file # Torn
    /\ loaded' = IF file = Missing THEN EmptyIndex ELSE file

(* With warmup the lifespan handler builds the pipeline. *)
Boot ==
    /\ service = "booting"
    /\ warmup
    /\ service' = "up"
    /\ LoadIndex
    /\ UNCHANGED <<runVars, storeVars, fileVars, warmup, stops, disturbed>>

(* Without, the service accepts traffic at once, with nothing loaded.      *)
BootCold ==
    /\ service = "booting"
    /\ ~warmup
    /\ service' = "up"
    /\ UNCHANGED <<runVars, storeVars, fileVars, loaded, warmup, stops,
                   disturbed>>

(* pickle.load raises, startup fails, uvicorn exits: the container ends.   *)
BootRaises ==
    /\ service = "booting"
    /\ warmup
    /\ file = Torn
    /\ KillRuns
    /\ UNCHANGED <<file, warmup, stops>>

(* A request is the first one that needs the pipeline, and builds it.  If  *)
(* the file is unreadable it fails with 500 and the next one tries again.  *)
FirstLoad ==
    /\ service = "up"
    /\ loaded = NotLoaded
    /\ LoadIndex
    /\ UNCHANGED <<runVars, storeVars, fileVars, service, warmup, stops,
                   disturbed>>

IngestStep(r) ==
    \/ CheckCollection(r)
    \/ CreateCollection(r)
    \/ Upsert(r)
    \/ UpsertFails(r)
    \/ BuildAndOpen(r)
    \/ Dump(r)

Next ==
    \/ \E r \in Clis : StartCli(r)
    \/ \E r \in Uploads : StartUpload(r)
    \/ \E r \in Runs : IngestStep(r) \/ Abort(r)
    \/ StopApi
    \/ Redeploy
    \/ RestartContainer
    \/ Boot
    \/ BootCold
    \/ BootRaises
    \/ FirstLoad

Spec == Init /\ [][Next]_vars

(* A started run is a thread the operating system schedules; Docker and    *)
(* uvicorn restart the service on their own.                               *)
Fairness ==
    /\ \A r \in Runs : WF_vars(IngestStep(r))
    /\ WF_vars(RestartContainer)
    /\ WF_vars(Boot \/ BootCold \/ BootRaises)

FairSpec == Spec /\ Fairness

-----------------------------------------------------------------------------
TypeOK ==
    /\ phase \in [Runs -> Phases]
    /\ corpus \in [Runs -> Corpora \cup {NoCorpus}]
    /\ upserted \in [Runs -> Nat]
    /\ calls \in [Runs -> 0..(MaxCalls - 1)]
    /\ collection \in BOOLEAN
    /\ points \in [ChunkId -> Corpora \cup {Absent}]
    /\ file \in Corpora \cup {Missing, Torn}
    /\ clash \subseteq Runs
    /\ service \in {"down", "booting", "up"}
    /\ loaded \in Corpora \cup {EmptyIndex, NotLoaded}
    /\ warmup \in BOOLEAN
    /\ stops \in 0..MaxStops
    /\ disturbed \in BOOLEAN

(* The sparse file never names a chunk the dense collection lacks: ingest  *)
(* persists BM25 after the last upsert, so whatever crash or concurrent    *)
(* run intervenes, a file that loads is behind the collection.             *)
SparseBehindDense == file \in Corpora => IdsOf(file) \subseteq DenseIds

(* The index the service holds in memory is behind the dense collection,   *)
(* however many runs, stops and reloads happened since it was pickled.     *)
ServedBehindDense == ServedIds \subseteq DenseIds

(* A run that reported success, to the uploader or in the tool's log, has  *)
(* every one of its chunks in the dense collection, for ever after.        *)
AckedIsIndexed == AckedIds \subseteq DenseIds

(* An unreadable index file has a cause: a run is writing it now, a run    *)
(* died writing it, or a tool run wrote it together with another run.      *)
(* Uploads alone, in any number, that all complete never leave one.        *)
TornExplained ==
    file = Torn => \/ \E r \in Runs : phase[r] \in {"dump", "broken"}
                   \/ clash \cap Clis # {}

(* A run that is about to create a collection that exists by now fails.    *)
(* That takes a tool run that created it in between, or that is the one to *)
(* fail: uploads, however many come at once, never make one another fail   *)
(* so, because no upload looks for the collection while another has not    *)
(* finished.                                                               *)
CreateRaceNeedsATool ==
    \A r \in Runs :
        phase[r] = "create" /\ collection =>
            \E c \in Clis : phase[c] \notin {"idle", "check"}

(* While no run has overlapped another or died half-way, the dense text of *)
(* every chunk of the sparse file is the text that file was built from,    *)
(* or that of the one run that is upserting at the moment.                 *)
SerialIngestsAgree ==
    ~disturbed /\ file \in Corpora =>
        \A id \in IdsOf(file) :
            points[id] \in {file} \cup {corpus[r] : r \in ActiveRuns}

(* No step of any run, crash or redeployment takes a point out of the      *)
(* collection: ingest() calls ensure_collection without recreate.          *)
NoLostPoints == [][DenseIds \subseteq DenseIds']_vars

(* Ingestion implements the promise the retrieval side relies on.  The     *)
(* service answers queries once it holds a sparse index.                   *)
Promise == INSTANCE DurableIndex
               WITH indexed <- DenseIds, acked <- AckedIds,
                    up <- (loaded # NotLoaded), served <- ServedIds
ImplementsDurableIndex == Promise!Spec

(* Retries are bounded and nothing waits for another run: every run that   *)
(* started reports success or failure.                                     *)
RunsEnd ==
    \A r \in Runs : phase[r] \in Active ~> phase[r] \in Ended

(* A stopped service comes back by itself, unless it is to warm up and     *)
(* finds the index file unreadable.                                        *)
ServiceRecovers ==
    service # "up" ~> service = "up" \/ (warmup /\ file = Torn)

-----------------------------------------------------------------------------
(* The strengthening of the invariants above that is inductive; module     *)
(* IngestionProofs proves it.                                              *)

(* How far each run is, and that only complete runs touch the file. *)
Progress ==
    \A r \in Runs :
        /\ phase[r] # "idle" =>
              /\ corpus[r] \in Corpora
              /\ upserted[r] <= Len(ChunksOf[corpus[r]])
        /\ phase[r] \in {"idle", "check", "create"} => upserted[r] = 0
        /\ phase[r] \in {"dump", "done", "broken"} =>
              upserted[r] = Len(ChunksOf[corpus[r]])

UpsertedIds(r) == {ChunksOf[corpus[r]][i] : i \in 1..upserted[r]}

UpsertedIsDense ==
    \A r \in Runs : phase[r] # "idle" => UpsertedIds(r) \subseteq DenseIds

UploadsExclude ==
    \A r, q \in ActiveRuns \cap Uploads : r = q

ClashNeedsATool == clash # {} => clash \cap Clis # {}

(* Without a disturbance a run has the collection to itself. *)
RunsAreSerial ==
    ~disturbed =>
        /\ \A r, q \in ActiveRuns : r = q
        /\ \A r \in ActiveRuns :
              \A id \in UpsertedIds(r) : points[id] = corpus[r]

(* Only a service that is up holds an index. *)
IndexNeedsService == service # "up" => loaded = NotLoaded

IndInv ==
    /\ TypeOK
    /\ Progress
    /\ UpsertedIsDense
    /\ SparseBehindDense
    /\ ServedBehindDense
    /\ IndexNeedsService
    /\ UploadsExclude
    /\ ClashNeedsATool
    /\ TornExplained
    /\ CreateRaceNeedsATool
    /\ RunsAreSerial
    /\ SerialIngestsAgree

-----------------------------------------------------------------------------
(* What documents and tests of the repository say, and the code does not.  *)

(* "Asserts sparse and dense indexes hold the same chunk ids"              *)
(* (tests/smoke/test_ingestion_smoke.py), between runs that all succeeded. *)
IndexesAgree ==
    /\ \A r \in Runs : phase[r] \in {"idle", "done"}
    /\ file \in Corpora
    => IdsOf(file) = DenseIds

=============================================================================
