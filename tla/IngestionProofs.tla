--------------------------- MODULE IngestionProofs ---------------------------
(***************************************************************************)
(* Proofs about Ingestion, for any tools, uploads, corpora, batch size and *)
(* retry budget: the type invariant, the safety invariants, the action     *)
(* properties, and the implementation of DurableIndex.                     *)
(***************************************************************************)
EXTENDS Ingestion, TLAPS

(* The steps of the service alone that leave every run and store alone. *)
Starts == Boot \/ BootCold \/ FirstLoad

-----------------------------------------------------------------------------
(* Operators *)

(* The end of the next batch is a position of the corpus beyond what is    *)
(* already in, and never further than one batch.                           *)
LEMMA BatchEndBounds ==
    ASSUME NEW r \in Runs, TypeOK, Progress, UpsertPending(r)
    PROVE  /\ corpus[r] \in Corpora
           /\ Len(ChunksOf[corpus[r]]) \in Nat
           /\ BatchEnd(r) \in Nat
           /\ upserted[r] < BatchEnd(r)
           /\ BatchEnd(r) <= Len(ChunksOf[corpus[r]])
  <1>1. corpus[r] \in Corpora
    BY DEF Progress, UpsertPending
  <1>2. Len(ChunksOf[corpus[r]]) \in Nat
    BY <1>1, ChunksOfType
  <1>3. upserted[r] \in Nat /\ upserted[r] < Len(ChunksOf[corpus[r]])
    BY DEF TypeOK, UpsertPending
  <1> QED
    BY <1>1, <1>2, <1>3, BatchSizePositive DEF BatchEnd, Min

(* Writing a batch adds points and keeps every point there was. *)
LEMMA WriteBatchKeeps ==
    ASSUME NEW r \in Runs, TypeOK, corpus[r] \in Corpora, WriteBatch(r)
    PROVE  /\ points' \in [ChunkId -> Corpora \cup {Absent}]
           /\ DenseIds \subseteq DenseIds'
  <1>1. corpus[r] # Absent
    BY MarksAreNotCorpora
  <1>2. points' \in [ChunkId -> Corpora \cup {Absent}]
    BY DEF TypeOK, WriteBatch
  <1>3. \A id \in ChunkId : points[id] # Absent => points'[id] # Absent
    BY <1>1 DEF WriteBatch
  <1> QED
    BY <1>2, <1>3 DEF DenseIds

(* What the chunks up to the end of a batch are: those that were in and    *)
(* those of the batch.                                                     *)
LEMMA BatchExtends ==
    ASSUME NEW r \in Runs, TypeOK, Progress, UpsertPending(r)
    PROVE  \A i \in 1..BatchEnd(r) :
              \/ i \in 1..upserted[r]
              \/ ChunksOf[corpus[r]][i] \in BatchIds(r)
  BY BatchEndBounds DEF BatchIds, TypeOK

(* A chunk of a corpus is a chunk id. *)
LEMMA ChunksAreIds ==
    ASSUME NEW c \in Corpora, NEW i \in 1..Len(ChunksOf[c])
    PROVE  ChunksOf[c][i] \in ChunkId
  BY ChunksOfType

(* The chunks of a complete run are the chunks of its corpus. *)
LEMMA CompleteRun ==
    ASSUME NEW r \in Runs, TypeOK, corpus[r] \in Corpora,
           upserted[r] = Len(ChunksOf[corpus[r]])
    PROVE  UpsertedIds(r) = IdsOf(corpus[r])
  <1>1. DOMAIN ChunksOf[corpus[r]] = 1..Len(ChunksOf[corpus[r]])
    BY ChunksOfType
  <1> QED
    BY <1>1 DEF UpsertedIds, IdsOf

-----------------------------------------------------------------------------
(* Type correctness *)

LEMMA MaxCallsPositive == MaxCalls \in Nat /\ MaxCalls > 0
  BY MaxRetriesPositive DEF MaxCalls

LEMMA TypeInit == Init => TypeOK
  <1> SUFFICES ASSUME Init PROVE TypeOK
    OBVIOUS
  <1>1. 0 \in 0..(MaxCalls - 1) /\ 0 \in 0..MaxStops
    BY MaxCallsPositive, MaxStopsNat
  <1> QED
    BY <1>1, WarmupType DEF Init, TypeOK, Phases

LEMMA BeginType ==
    ASSUME TypeOK, NEW r \in Runs, NEW c \in Corpora, Begin(r, c)
    PROVE  TypeOK'
  BY DEF TypeOK, Begin, Phases, Active, Ended, storeVars, fileVars, serviceVars

LEMMA KillRunsType ==
    ASSUME TypeOK, KillRuns, file' \in Corpora \cup {Missing, Torn},
           stops' \in 0..MaxStops, warmup' \in BOOLEAN
    PROVE  TypeOK'
  BY DEF TypeOK, KillRuns, AfterDeath, Phases, Active, Ended, storeVars

LEMMA FileAfterDeathType ==
    ASSUME TypeOK, NEW R
    PROVE  FileAfterDeath(R) \subseteq Corpora \cup {Missing, Torn}
  BY DEF TypeOK, FileAfterDeath

LEMMA TypeNext == TypeOK /\ Progress /\ [Next]_vars => TypeOK'
  <1> SUFFICES ASSUME TypeOK, Progress, [Next]_vars
               PROVE  TypeOK'
    OBVIOUS
  <1> USE DEF storeVars, fileVars, serviceVars, runVars
  <1>1. ASSUME NEW r \in Clis, StartCli(r)
        PROVE  TypeOK'
    BY <1>1, BeginType DEF StartCli, Runs
  <1>2. ASSUME NEW r \in Uploads, StartUpload(r)
        PROVE  TypeOK'
    BY <1>2, BeginType DEF StartUpload, Runs
  <1>3. ASSUME NEW r \in Runs, CheckCollection(r)
        PROVE  TypeOK'
    BY <1>3 DEF CheckCollection, TypeOK, Phases, Active, Ended
  <1>4. ASSUME NEW r \in Runs, CreateCollection(r)
        PROVE  TypeOK'
    BY <1>4 DEF CreateCollection, TypeOK, Phases, Active, Ended
  <1>5. ASSUME NEW r \in Runs, Upsert(r)
        PROVE  TypeOK'
    <2>1. corpus[r] \in Corpora /\ BatchEnd(r) \in Nat
      BY <1>5, BatchEndBounds DEF Upsert
    <2>2. points' \in [ChunkId -> Corpora \cup {Absent}]
      BY <1>5, <2>1, WriteBatchKeeps DEF Upsert
    <2>3. calls' \in [Runs -> 0..(MaxCalls - 1)]
      BY <1>5, MaxCallsPositive DEF Upsert, TypeOK
    <2> QED
      BY <1>5, <2>1, <2>2, <2>3 DEF Upsert, TypeOK
  <1>6. ASSUME NEW r \in Runs, UpsertFails(r)
        PROVE  TypeOK'
    <2>1. corpus[r] \in Corpora
      BY <1>6, BatchEndBounds DEF UpsertFails
    <2>2. points' \in [ChunkId -> Corpora \cup {Absent}]
      BY <1>6, <2>1, WriteBatchKeeps DEF UpsertFails, TypeOK
    <2>6. calls' \in [Runs -> 0..(MaxCalls - 1)]
      BY <1>6, MaxCallsPositive DEF UpsertFails, TypeOK
    <2>7. phase' \in [Runs -> Phases] /\ disturbed' \in BOOLEAN
      BY <1>6 DEF UpsertFails, TypeOK, Phases, Ended
    <2> QED
      BY <1>6, <2>2, <2>6, <2>7 DEF UpsertFails, TypeOK
  <1>7. ASSUME NEW r \in Runs, BuildAndOpen(r)
        PROVE  TypeOK'
    BY <1>7 DEF BuildAndOpen, TypeOK, Phases, Active, Dumping
  <1>8. ASSUME NEW r \in Runs, Dump(r)
        PROVE  TypeOK'
    <2>1. corpus[r] \in Corpora
      BY <1>8 DEF Dump, Progress
    <2> QED
      BY <1>8, <2>1 DEF Dump, TypeOK, Phases, Ended
  <1>9. ASSUME NEW r \in Runs, Abort(r)
        PROVE  TypeOK'
    <2>1. file' \in Corpora \cup {Missing, Torn}
      BY <1>9, FileAfterDeathType DEF Abort
    <2>2. points' \in [ChunkId -> Corpora \cup {Absent}]
      <3>1. CASE UpsertPending(r) /\ WriteBatch(r)
        BY <3>1, BatchEndBounds, WriteBatchKeeps
      <3>2. CASE UNCHANGED points
        BY <3>2 DEF TypeOK
      <3> QED
        BY <1>9, <3>1, <3>2 DEF Abort
    <2> QED
      BY <1>9, <2>1, <2>2 DEF Abort, AfterDeath, TypeOK, Phases, Ended
  <1>10. ASSUME StopApi
         PROVE  TypeOK'
    <2>1. stops' \in 0..MaxStops
      BY <1>10, MaxStopsNat DEF StopApi, TypeOK
    <2>2. KillRuns /\ warmup' \in BOOLEAN
      BY <1>10 DEF StopApi, TypeOK
    <2>3. file' \in Corpora \cup {Missing, Torn}
      BY <1>10, FileAfterDeathType DEF StopApi
    <2> QED
      BY <2>1, <2>2, <2>3, KillRunsType
  <1>11. ASSUME Redeploy
         PROVE  TypeOK'
    <2>1. stops' \in 0..MaxStops
      BY <1>11, MaxStopsNat DEF Redeploy, TypeOK
    <2> QED
      BY <1>11, <2>1, KillRunsType DEF Redeploy
  <1>12. ASSUME RestartContainer
         PROVE  TypeOK'
    BY <1>12 DEF RestartContainer, TypeOK
  <1>13. ASSUME Starts
         PROVE  TypeOK'
    BY <1>13 DEF Starts, Boot, BootCold, FirstLoad, LoadIndex, TypeOK
  <1>14. ASSUME BootRaises
         PROVE  TypeOK'
    BY <1>14, KillRunsType DEF BootRaises, TypeOK
  <1>15. ASSUME UNCHANGED vars
         PROVE  TypeOK'
    BY <1>15 DEF vars, TypeOK
  <1> QED
    BY <1>1, <1>2, <1>3, <1>4, <1>5, <1>6, <1>7, <1>8, <1>9, <1>10, <1>11,
       <1>12, <1>13, <1>14, <1>15 DEF Next, Starts, IngestStep

-----------------------------------------------------------------------------
(* How far each run is *)

LEMMA ProgressInit == Init => Progress
  BY DEF Init, Progress

LEMMA ProgressNext == TypeOK /\ Progress /\ [Next]_vars => Progress'
  <1> SUFFICES ASSUME TypeOK, Progress, [Next]_vars
               PROVE  Progress'
    OBVIOUS
  <1> USE DEF runVars
  <1>a. ASSUME KillRuns
        PROVE  Progress'
    <2>1. ASSUME NEW q \in Runs
          PROVE  /\ phase'[q] = phase[q] \/ phase'[q] = AfterDeath(q)
                 /\ phase'[q] = "idle" <=> phase[q] = "idle"
                 /\ phase'[q] \in {"idle", "check", "create"} => phase'[q] = phase[q]
                 /\ phase'[q] \in {"dump", "done", "broken"} =>
                       phase[q] \in {"dump", "done", "broken"}
      BY <1>a DEF KillRuns, AfterDeath, Active
    <2> QED
      BY <1>a, <2>1 DEF KillRuns, Progress
  <1>b. ASSUME NEW r \in Runs, NEW c \in Corpora, Begin(r, c)
        PROVE  Progress'
    <2>1. upserted[r] = 0 /\ Len(ChunksOf[c]) \in Nat
      BY <1>b, ChunksOfType DEF Begin, Progress
    <2> QED
      BY <1>b, <2>1 DEF Begin, Progress, TypeOK
  <1>1. ASSUME NEW r \in Clis, StartCli(r)
        PROVE  Progress'
    BY <1>1, <1>b DEF StartCli, Runs
  <1>2. ASSUME NEW r \in Uploads, StartUpload(r)
        PROVE  Progress'
    BY <1>2, <1>b DEF StartUpload, Runs
  <1>3. ASSUME NEW r \in Runs, CheckCollection(r)
        PROVE  Progress'
    BY <1>3 DEF CheckCollection, Progress, TypeOK
  <1>4. ASSUME NEW r \in Runs, CreateCollection(r)
        PROVE  Progress'
    BY <1>4 DEF CreateCollection, Progress, TypeOK
  <1>5. ASSUME NEW r \in Runs, Upsert(r)
        PROVE  Progress'
    BY <1>5, BatchEndBounds DEF Upsert, UpsertPending, Progress, TypeOK
  <1>6. ASSUME NEW r \in Runs, UpsertFails(r)
        PROVE  Progress'
    BY <1>6 DEF UpsertFails, UpsertPending, Progress, TypeOK
  <1>7. ASSUME NEW r \in Runs, BuildAndOpen(r)
        PROVE  Progress'
    BY <1>7 DEF BuildAndOpen, Progress, TypeOK
  <1>8. ASSUME NEW r \in Runs, Dump(r)
        PROVE  Progress'
    BY <1>8 DEF Dump, Progress, TypeOK
  <1>9. ASSUME NEW r \in Runs, Abort(r)
        PROVE  Progress'
    BY <1>9 DEF Abort, AfterDeath, Active, Progress, TypeOK
  <1>10. CASE StopApi
    BY <1>10, <1>a DEF StopApi
  <1>11. CASE Redeploy
    BY <1>11, <1>a DEF Redeploy
  <1>12. CASE RestartContainer
    BY <1>12 DEF RestartContainer, Progress
  <1>13. CASE Starts
    BY <1>13 DEF Starts, Boot, BootCold, FirstLoad, Progress
  <1>14. CASE BootRaises
    BY <1>14, <1>a DEF BootRaises
  <1>15. CASE UNCHANGED vars
    BY <1>15 DEF vars, Progress
  <1> QED
    BY <1>1, <1>2, <1>3, <1>4, <1>5, <1>6, <1>7, <1>8, <1>9, <1>10, <1>11,
       <1>12, <1>13, <1>14, <1>15 DEF Next, Starts, IngestStep

-----------------------------------------------------------------------------
(* The dense collection *)

(* The points a step may change: those of one batch of one running upsert. *)
LEMMA PointsStep ==
    ASSUME [Next]_vars
    PROVE  \/ UNCHANGED points
           \/ \E r \in Runs : UpsertPending(r) /\ WriteBatch(r)
  <1> USE DEF storeVars, fileVars, serviceVars, runVars
  <1>1. ASSUME NEW r \in Clis, StartCli(r)
        PROVE  UNCHANGED points
    BY <1>1 DEF StartCli, Begin
  <1>2. ASSUME NEW r \in Uploads, StartUpload(r)
        PROVE  UNCHANGED points
    BY <1>2 DEF StartUpload, Begin
  <1>3. ASSUME NEW r \in Runs, IngestStep(r) \/ Abort(r)
        PROVE  UNCHANGED points \/ (UpsertPending(r) /\ WriteBatch(r))
    BY <1>3 DEF IngestStep, CheckCollection, CreateCollection, Upsert,
                UpsertFails, BuildAndOpen, Dump, Abort
  <1>4. CASE StopApi \/ Redeploy \/ BootRaises
    BY <1>4 DEF StopApi, Redeploy, BootRaises, KillRuns
  <1>5. CASE RestartContainer \/ Starts \/ UNCHANGED vars
    BY <1>5 DEF RestartContainer, Starts, Boot, BootCold, FirstLoad, LoadIndex, vars
  <1> QED
    BY <1>1, <1>2, <1>3, <1>4, <1>5 DEF Next, Starts

LEMMA DenseGrows ==
    ASSUME TypeOK, Progress, [Next]_vars
    PROVE  DenseIds \subseteq DenseIds'
  <1>1. CASE UNCHANGED points
    BY <1>1 DEF DenseIds
  <1>2. ASSUME NEW r \in Runs, UpsertPending(r), WriteBatch(r)
        PROVE  DenseIds \subseteq DenseIds'
    BY <1>2, WriteBatchKeeps, BatchEndBounds
  <1> QED
    BY <1>1, <1>2, PointsStep

(* What a run has upserted stays in the collection. *)
LEMMA UpsertedIsDenseNext ==
    TypeOK /\ Progress /\ UpsertedIsDense /\ [Next]_vars => UpsertedIsDense'
  <1> SUFFICES ASSUME TypeOK, Progress, UpsertedIsDense, [Next]_vars
               PROVE  UpsertedIsDense'
    OBVIOUS
  <1> USE DEF runVars
  <1>1. DenseIds \subseteq DenseIds'
    BY DenseGrows
  (* Only Begin and Upsert change what UpsertedIds says of a started run. *)
  <1>2. ASSUME NEW q \in Runs, phase[q] # "idle", corpus'[q] = corpus[q],
               upserted'[q] = upserted[q]
        PROVE  UpsertedIds(q)' \subseteq DenseIds'
    BY <1>1, <1>2 DEF UpsertedIsDense, UpsertedIds
  <1>3. ASSUME NEW r \in Runs, NEW c \in Corpora, Begin(r, c)
        PROVE  UpsertedIsDense'
    <2>1. UpsertedIds(r)' = {}
      BY <1>3 DEF Begin, Progress, UpsertedIds
    <2> QED
      BY <1>2, <1>3, <2>1 DEF Begin, UpsertedIsDense, TypeOK
  <1>4. ASSUME NEW r \in Runs, Upsert(r)
        PROVE  UpsertedIsDense'
    <2>1. UpsertPending(r) /\ WriteBatch(r) /\ corpus' = corpus
          /\ upserted'[r] = BatchEnd(r)
      BY <1>4 DEF Upsert, TypeOK
    <2>2. corpus[r] \in Corpora /\ BatchEnd(r) <= Len(ChunksOf[corpus[r]])
          /\ Len(ChunksOf[corpus[r]]) \in Nat /\ BatchEnd(r) \in Nat
      BY <2>1, BatchEndBounds
    <2>3. ASSUME NEW i \in 1..BatchEnd(r)
          PROVE  ChunksOf[corpus[r]][i] \in DenseIds'
      <3> DEFINE id == ChunksOf[corpus[r]][i]
      <3>1. id \in ChunkId
        BY <2>2, <2>3, ChunksAreIds
      <3>2. CASE i \in 1..upserted[r]
        BY <1>1, <2>1, <3>2 DEF UpsertedIsDense, UpsertedIds, UpsertPending
      <3>3. CASE id \in BatchIds(r)
        BY <2>1, <2>2, <3>1, <3>3, MarksAreNotCorpora DEF WriteBatch, DenseIds
      <3> QED
        BY <2>1, <3>2, <3>3, BatchExtends
    <2>4. UpsertedIds(r)' \subseteq DenseIds'
      BY <2>1, <2>3 DEF UpsertedIds
    <2> QED
      BY <1>2, <1>4, <2>4 DEF Upsert, UpsertedIsDense, TypeOK
  <1>5. ASSUME UNCHANGED <<corpus, upserted>>,
               \A q \in Runs : phase'[q] # "idle" => phase[q] # "idle"
        PROVE  UpsertedIsDense'
    BY <1>2, <1>5 DEF UpsertedIsDense
  <1>6. ASSUME NEW r \in Runs, CheckCollection(r) \/ CreateCollection(r)
                 \/ UpsertFails(r) \/ BuildAndOpen(r) \/ Dump(r) \/ Abort(r)
        PROVE  UpsertedIsDense'
    BY <1>5, <1>6 DEF CheckCollection, CreateCollection, UpsertFails,
          UpsertPending, BuildAndOpen, Dump, Abort, Active, TypeOK
  <1>7. CASE StopApi \/ Redeploy \/ BootRaises
    BY <1>5, <1>7 DEF StopApi, Redeploy, BootRaises, KillRuns, Active, TypeOK
  <1>8. CASE RestartContainer \/ Starts \/ UNCHANGED vars
    BY <1>5, <1>8 DEF RestartContainer, Starts, Boot, BootCold, FirstLoad, LoadIndex, vars
  <1> QED
    BY <1>3, <1>4, <1>6, <1>7, <1>8
       DEF Next, Starts, IngestStep, StartCli, StartUpload, Runs

-----------------------------------------------------------------------------
(* The sparse file and the service's index *)

(* A step leaves the file, loses it, tears it, or writes the corpus of a   *)
(* run that has upserted all of it.                                        *)
LEMMA FileStep ==
    ASSUME TypeOK, Progress, [Next]_vars
    PROVE  \/ file' \in {file, Missing, Torn}
           \/ \E r \in Runs : Dump(r) /\ file' = corpus[r]
  <1> USE DEF storeVars, fileVars, serviceVars, runVars
  <1>1. ASSUME NEW r \in Clis, StartCli(r)
        PROVE  file' = file
    BY <1>1 DEF StartCli, Begin
  <1>2. ASSUME NEW r \in Uploads, StartUpload(r)
        PROVE  file' = file
    BY <1>2 DEF StartUpload, Begin
  <1>3. ASSUME NEW r \in Runs, IngestStep(r) \/ Abort(r)
        PROVE  file' \in {file, Missing, Torn} \/ (Dump(r) /\ file' = corpus[r])
    <2>1. CASE Dump(r)
      BY <2>1 DEF Dump
    <2>2. CASE Abort(r)
      BY <2>2 DEF Abort, FileAfterDeath
    <2> QED
      BY <1>3, <2>1, <2>2 DEF IngestStep, CheckCollection, CreateCollection,
         Upsert, UpsertFails, BuildAndOpen
  <1>4. CASE StopApi \/ Redeploy \/ BootRaises
    BY <1>4 DEF StopApi, Redeploy, BootRaises, FileAfterDeath
  <1>5. CASE RestartContainer \/ Starts \/ UNCHANGED vars
    BY <1>5 DEF RestartContainer, Starts, Boot, BootCold, FirstLoad, LoadIndex, vars
  <1> QED
    BY <1>1, <1>2, <1>3, <1>4, <1>5 DEF Next, Starts

LEMMA SparseBehindDenseNext ==
    TypeOK /\ Progress /\ UpsertedIsDense /\ SparseBehindDense /\ [Next]_vars
      => SparseBehindDense'
  <1> SUFFICES ASSUME TypeOK, Progress, UpsertedIsDense, SparseBehindDense,
                      [Next]_vars, file' \in Corpora
               PROVE  IdsOf(file') \subseteq DenseIds'
    BY DEF SparseBehindDense, IdsOf
  <1>1. DenseIds \subseteq DenseIds'
    BY DenseGrows
  <1>2. CASE file' \in {file, Missing, Torn}
    <2>1. file' = file
      BY <1>2, MarksAreNotCorpora
    <2> QED
      BY <1>1, <2>1 DEF SparseBehindDense
  <1>3. ASSUME NEW r \in Runs, Dump(r), file' = corpus[r]
        PROVE  IdsOf(file') \subseteq DenseIds'
    <2>1. phase[r] = "dump"
      BY <1>3 DEF Dump
    <2>2. IdsOf(corpus[r]) = UpsertedIds(r)
      BY <2>1, CompleteRun DEF Progress
    <2>3. UpsertedIds(r) \subseteq DenseIds
      BY <2>1 DEF UpsertedIsDense
    <2> QED
      BY <1>1, <1>3, <2>2, <2>3
  <1> QED
    BY <1>2, <1>3, FileStep

(* The service's index changes only when it reads the file, as it boots or *)
(* for a first request, and when the process ends.                         *)
LEMMA LoadedStep ==
    ASSUME [Next]_vars
    PROVE  \/ UNCHANGED loaded
           \/ loaded' = NotLoaded
           \/ LoadIndex
  <1> USE DEF storeVars, fileVars, serviceVars, runVars
  <1>1. ASSUME NEW r \in Runs, IngestStep(r) \/ Abort(r)
        PROVE  UNCHANGED loaded
    BY <1>1 DEF IngestStep, CheckCollection, CreateCollection, Upsert,
                UpsertFails, BuildAndOpen, Dump, Abort
  <1>2. CASE (\E r \in Clis : StartCli(r)) \/ (\E r \in Uploads : StartUpload(r))
    BY <1>2 DEF StartCli, StartUpload, Begin
  <1>3. CASE StopApi \/ Redeploy \/ BootRaises
    BY <1>3 DEF StopApi, Redeploy, BootRaises, KillRuns
  <1>4. CASE RestartContainer \/ Starts \/ UNCHANGED vars
    BY <1>4 DEF RestartContainer, Starts, Boot, BootCold, FirstLoad, vars
  <1> QED
    BY <1>1, <1>2, <1>3, <1>4 DEF Next, Starts

LEMMA ServedBehindDenseNext ==
    TypeOK /\ Progress /\ SparseBehindDense /\ ServedBehindDense /\ [Next]_vars
      => ServedBehindDense'
  <1> SUFFICES ASSUME TypeOK, Progress, SparseBehindDense, ServedBehindDense,
                      [Next]_vars
               PROVE  ServedBehindDense'
    OBVIOUS
  <1>1. DenseIds \subseteq DenseIds'
    BY DenseGrows
  <1>2. CASE UNCHANGED loaded
    BY <1>1, <1>2 DEF ServedBehindDense, ServedIds
  <1>3. CASE loaded' = NotLoaded
    BY <1>3, MarksAreNotCorpora DEF ServedBehindDense, ServedIds
  <1>4. CASE LoadIndex
    <2>1. loaded' \in Corpora => loaded' = file /\ file \in Corpora
      BY <1>4, MarksAreNotCorpora DEF LoadIndex, TypeOK
    <2>2. loaded' \in Corpora => IdsOf(loaded') \subseteq DenseIds
      BY <2>1 DEF SparseBehindDense
    <2> QED
      BY <1>1, <2>2 DEF ServedBehindDense, ServedIds, IdsOf
  <1> QED
    BY <1>2, <1>3, <1>4, LoadedStep

-----------------------------------------------------------------------------
(* Which runs are active together, and who may tear the file *)

(* Only a start makes a run active, and it makes that run active only. *)
LEMMA ActiveStep ==
    ASSUME TypeOK, [Next]_vars
    PROVE  \/ ActiveRuns' \subseteq ActiveRuns
           \/ \E r \in Clis : StartCli(r) /\ ActiveRuns' = ActiveRuns \cup {r}
           \/ \E r \in Uploads :
                 StartUpload(r) /\ ActiveRuns' = ActiveRuns \cup {r}
  <1> USE DEF storeVars, fileVars, serviceVars, runVars
  <1>1. ASSUME NEW r \in Runs, NEW c \in Corpora, Begin(r, c)
        PROVE  ActiveRuns' = ActiveRuns \cup {r}
    BY <1>1 DEF Begin, ActiveRuns, Active, TypeOK
  <1>2. ASSUME NEW r \in Runs, IngestStep(r) \/ Abort(r)
        PROVE  ActiveRuns' \subseteq ActiveRuns
    <2>1. /\ phase[r] \in Active
          /\ \A q \in Runs \ {r} : phase'[q] = phase[q]
      BY <1>2 DEF IngestStep, CheckCollection, CreateCollection, Upsert,
           UpsertFails, UpsertPending, BuildAndOpen, Dump, Abort, Active, TypeOK
    <2> QED
      BY <2>1 DEF ActiveRuns
  <1>3. CASE StopApi \/ Redeploy \/ BootRaises
    <2>1. \A q \in Runs : phase'[q] \in Active => phase[q] \in Active
      BY <1>3 DEF StopApi, Redeploy, BootRaises, KillRuns, AfterDeath, Active
    <2> QED
      BY <2>1 DEF ActiveRuns
  <1>4. CASE RestartContainer \/ Starts \/ UNCHANGED vars
    BY <1>4 DEF RestartContainer, Starts, Boot, BootCold, FirstLoad, LoadIndex, vars, ActiveRuns
  <1> QED
    BY <1>1, <1>2, <1>3, <1>4 DEF Next, Starts, StartCli, StartUpload, Runs

LEMMA UploadsExcludeNext ==
    TypeOK /\ UploadsExclude /\ [Next]_vars => UploadsExclude'
  <1> SUFFICES ASSUME TypeOK, UploadsExclude, [Next]_vars
               PROVE  UploadsExclude'
    OBVIOUS
  <1>1. CASE ActiveRuns' \subseteq ActiveRuns
    BY <1>1 DEF UploadsExclude
  <1>2. ASSUME NEW r \in Clis, ActiveRuns' = ActiveRuns \cup {r}
        PROVE  UploadsExclude'
    BY <1>2, RunsAreDisjoint DEF UploadsExclude
  <1>3. ASSUME NEW r \in Uploads, StartUpload(r),
               ActiveRuns' = ActiveRuns \cup {r}
        PROVE  UploadsExclude'
    BY <1>3 DEF StartUpload, UploadsExclude
  <1> QED
    BY <1>1, <1>2, <1>3, ActiveStep

(* Of two runs that write the file together, one is a tool run. *)
LEMMA ClashNeedsAToolNext ==
    TypeOK /\ UploadsExclude /\ ClashNeedsATool /\ [Next]_vars
      => ClashNeedsATool'
  <1> SUFFICES ASSUME TypeOK, UploadsExclude, ClashNeedsATool, [Next]_vars
               PROVE  ClashNeedsATool'
    OBVIOUS
  <1> USE DEF storeVars, fileVars, serviceVars, runVars
  <1>1. ASSUME UNCHANGED clash
        PROVE  ClashNeedsATool'
    BY <1>1 DEF ClashNeedsATool
  <1>2. ASSUME NEW r \in Runs, BuildAndOpen(r)
        PROVE  ClashNeedsATool'
    <2>1. CASE Dumping = {}
      BY <1>1, <1>2, <2>1 DEF BuildAndOpen
    <2>2. ASSUME NEW q \in Dumping
          PROVE  ClashNeedsATool'
      <3>1. q \in ActiveRuns /\ r \in ActiveRuns /\ q # r
        BY <1>2, <2>2 DEF Dumping, ActiveRuns, Active, BuildAndOpen
      <3>2. q \in Clis \/ r \in Clis
        BY <3>1, <2>2 DEF UploadsExclude, Dumping, Runs
      <3>3. q \in clash' /\ r \in clash'
        BY <1>2, <2>2 DEF BuildAndOpen
      <3> QED
        BY <3>2, <3>3 DEF ClashNeedsATool
    <2> QED
      BY <2>1, <2>2
  <1>3. ASSUME NEW r \in Runs, IngestStep(r) \/ Abort(r), ~BuildAndOpen(r)
        PROVE  UNCHANGED clash
    BY <1>3 DEF IngestStep, CheckCollection, CreateCollection, Upsert,
                UpsertFails, Dump, Abort
  <1>4. CASE (\E r \in Clis : StartCli(r)) \/ (\E r \in Uploads : StartUpload(r))
    BY <1>1, <1>4 DEF StartCli, StartUpload, Begin
  <1>5. CASE StopApi \/ Redeploy \/ BootRaises
    BY <1>1, <1>5 DEF StopApi, Redeploy, BootRaises, KillRuns
  <1>6. CASE RestartContainer \/ Starts \/ UNCHANGED vars
    BY <1>1, <1>6 DEF RestartContainer, Starts, Boot, BootCold, FirstLoad, LoadIndex, vars
  <1> QED
    BY <1>1, <1>2, <1>3, <1>4, <1>5, <1>6 DEF Next, Starts

LEMMA TornExplainedNext ==
    TypeOK /\ Progress /\ ClashNeedsATool /\ TornExplained /\ [Next]_vars
      => TornExplained'
  <1> SUFFICES ASSUME TypeOK, Progress, ClashNeedsATool, TornExplained,
                      [Next]_vars, file' = Torn
               PROVE  \/ \E r \in Runs : phase'[r] \in {"dump", "broken"}
                      \/ clash' \cap Clis # {}
    BY DEF TornExplained
  <1> USE DEF storeVars, fileVars, serviceVars, runVars
  (* A step that keeps the file, the clash, and every writer or its wreck. *)
  <1>1. ASSUME file' = file, UNCHANGED clash,
               \A q \in Runs : phase[q] \in {"dump", "broken"} =>
                                   phase'[q] \in {"dump", "broken"}
        PROVE  \/ \E r \in Runs : phase'[r] \in {"dump", "broken"}
               \/ clash' \cap Clis # {}
    BY <1>1 DEF TornExplained
  <1>2. ASSUME NEW r \in Runs, NEW c \in Corpora, Begin(r, c)
        PROVE  /\ file' = file /\ UNCHANGED clash
               /\ \A q \in Runs : phase[q] \in {"dump", "broken"} =>
                                     phase'[q] \in {"dump", "broken"}
    BY <1>2 DEF Begin, TypeOK
  <1>3. ASSUME NEW r \in Runs, CheckCollection(r) \/ CreateCollection(r)
                 \/ Upsert(r) \/ UpsertFails(r)
        PROVE  /\ file' = file /\ UNCHANGED clash
               /\ \A q \in Runs : phase[q] \in {"dump", "broken"} =>
                                     phase'[q] \in {"dump", "broken"}
    BY <1>3 DEF CheckCollection, CreateCollection, Upsert, UpsertFails,
                UpsertPending, TypeOK
  <1>4. ASSUME NEW r \in Runs, BuildAndOpen(r)
        PROVE  phase'[r] = "dump"
    BY <1>4 DEF BuildAndOpen, TypeOK
  <1>5. ASSUME NEW r \in Runs, Dump(r)
        PROVE  clash' \cap Clis # {}
    <2>1. corpus[r] # Torn
      BY <1>5, MarksAreNotCorpora DEF Dump, Progress
    <2>2. r \in clash /\ clash' = clash
      BY <1>5, <2>1 DEF Dump
    <2> QED
      BY <2>2 DEF ClashNeedsATool
  <1>6. ASSUME NEW r \in Runs, Abort(r)
        PROVE  \/ \E q \in Runs : phase'[q] \in {"dump", "broken"}
               \/ clash' \cap Clis # {}
    <2>1. CASE phase[r] = "dump"
      BY <1>6, <2>1 DEF Abort, AfterDeath, TypeOK
    <2>2. CASE phase[r] # "dump"
      <3>1. file' = file /\ UNCHANGED clash
        BY <1>6, <2>2 DEF Abort, FileAfterDeath, Dumping
      <3>2. \A q \in Runs : phase[q] \in {"dump", "broken"} =>
                              phase'[q] \in {"dump", "broken"}
        BY <1>6, <2>2 DEF Abort, Active, TypeOK
      <3> QED
        BY <1>1, <3>1, <3>2
    <2> QED
      BY <2>1, <2>2
  <1>7. ASSUME KillRuns, file' \in FileAfterDeath(Runs)
        PROVE  \/ \E q \in Runs : phase'[q] \in {"dump", "broken"}
               \/ clash' \cap Clis # {}
    <2>1. \A q \in Runs : phase[q] \in {"dump", "broken"} =>
                            phase'[q] \in {"dump", "broken"}
      BY <1>7 DEF KillRuns, AfterDeath, Active
    <2>2. CASE Dumping = {}
      <3>1. file' = file /\ UNCHANGED clash
        BY <1>7, <2>2 DEF FileAfterDeath, KillRuns
      <3> QED
        BY <1>1, <2>1, <3>1
    <2>3. CASE Dumping # {}
      BY <2>1, <2>3 DEF Dumping
    <2> QED
      BY <2>2, <2>3
  <1>8. CASE StopApi
    BY <1>7, <1>8 DEF StopApi
  <1>9. CASE BootRaises
    BY <1>7, <1>9 DEF BootRaises, FileAfterDeath
  <1>10. CASE Redeploy
    BY <1>10, MarksAreNotCorpora DEF Redeploy
  <1>11. CASE RestartContainer \/ Starts \/ UNCHANGED vars
    BY <1>1, <1>11 DEF RestartContainer, Starts, Boot, BootCold, FirstLoad, LoadIndex, vars
  <1> QED
    BY <1>1, <1>2, <1>3, <1>4, <1>5, <1>6, <1>8, <1>9, <1>10, <1>11
       DEF Next, Starts, IngestStep, StartCli, StartUpload, Runs

(* The collection appears only with the CreateCollection of an active run. *)
LEMMA CollectionStep ==
    ASSUME [Next]_vars
    PROVE  \/ UNCHANGED collection
           \/ \E r \in Runs : CreateCollection(r)
  <1> USE DEF storeVars, fileVars, serviceVars, runVars
  <1>1. ASSUME NEW r \in Runs, IngestStep(r) \/ Abort(r)
        PROVE  UNCHANGED collection \/ CreateCollection(r)
    BY <1>1 DEF IngestStep, CheckCollection, Upsert, UpsertFails, BuildAndOpen,
                Dump, Abort
  <1>2. CASE (\E r \in Clis : StartCli(r)) \/ (\E r \in Uploads : StartUpload(r))
    BY <1>2 DEF StartCli, StartUpload, Begin
  <1>3. CASE StopApi \/ Redeploy \/ BootRaises
    BY <1>3 DEF StopApi, Redeploy, BootRaises, KillRuns
  <1>4. CASE RestartContainer \/ Starts \/ UNCHANGED vars
    BY <1>4 DEF RestartContainer, Starts, Boot, BootCold, FirstLoad, vars
  <1> QED
    BY <1>1, <1>2, <1>3, <1>4 DEF Next, Starts

(* A tool run that has looked for the collection never looks again, and a  *)
(* run that is about to create it has just found it missing, or was about  *)
(* to before.                                                              *)
LEMMA PastCheckStep ==
    ASSUME TypeOK, [Next]_vars, NEW q \in Runs
    PROVE  /\ phase[q] \notin {"idle", "check"} => phase'[q] \notin {"idle", "check"}
           /\ phase'[q] = "create" =>
                 phase[q] = "create" \/ (~collection /\ ~collection')
  <1> USE DEF storeVars, fileVars, serviceVars, runVars
  <1>1. ASSUME NEW r \in Runs, NEW c \in Corpora, Begin(r, c)
        PROVE  /\ phase[q] \notin {"idle", "check"} =>
                     phase'[q] \notin {"idle", "check"}
               /\ phase'[q] = "create" => phase[q] = "create"
    BY <1>1 DEF Begin, TypeOK
  <1>2. ASSUME NEW r \in Runs, CheckCollection(r)
        PROVE  /\ phase[q] \notin {"idle", "check"} =>
                     phase'[q] \notin {"idle", "check"}
               /\ phase'[q] = "create" =>
                     phase[q] = "create" \/ (~collection /\ ~collection')
    BY <1>2 DEF CheckCollection, TypeOK
  <1>3. ASSUME NEW r \in Runs, CreateCollection(r) \/ Upsert(r) \/ UpsertFails(r)
                 \/ BuildAndOpen(r) \/ Dump(r) \/ Abort(r)
        PROVE  /\ phase[q] \notin {"idle", "check"} =>
                     phase'[q] \notin {"idle", "check"}
               /\ phase'[q] = "create" => phase[q] = "create"
    BY <1>3 DEF CreateCollection, Upsert, UpsertFails, UpsertPending,
                BuildAndOpen, Dump, Abort, AfterDeath, Active, TypeOK
  <1>4. CASE StopApi \/ Redeploy \/ BootRaises
    BY <1>4 DEF StopApi, Redeploy, BootRaises, KillRuns, AfterDeath, Active
  <1>5. CASE RestartContainer \/ Starts \/ UNCHANGED vars
    BY <1>5 DEF RestartContainer, Starts, Boot, BootCold, FirstLoad, vars
  <1> QED
    BY <1>1, <1>2, <1>3, <1>4, <1>5
       DEF Next, Starts, IngestStep, StartCli, StartUpload, Runs

(* Of an upload that is about to create the collection and a run that has  *)
(* just done so, the second is a tool run: both are active.                *)
LEMMA CreateRaceNext ==
    TypeOK /\ UploadsExclude /\ CreateRaceNeedsATool /\ [Next]_vars
      => CreateRaceNeedsATool'
  <1> SUFFICES ASSUME TypeOK, UploadsExclude, CreateRaceNeedsATool, [Next]_vars,
                      NEW r \in Runs, phase'[r] = "create", collection'
               PROVE  \E c \in Clis : phase'[c] \notin {"idle", "check"}
    BY DEF CreateRaceNeedsATool
  <1>1. phase[r] = "create"
    BY PastCheckStep
  <1>2. CASE collection
    <2>1. PICK c \in Clis : phase[c] \notin {"idle", "check"}
      BY <1>1, <1>2 DEF CreateRaceNeedsATool
    <2> QED
      BY <2>1, PastCheckStep DEF Runs
  <1>3. CASE ~collection
    <2>1. PICK q \in Runs : CreateCollection(q)
      BY <1>3, CollectionStep
    <2>2. q # r /\ phase[q] = "create" /\ phase'[q] = "upsert"
      BY <1>3, <2>1 DEF CreateCollection, TypeOK
    <2>3. q \in Clis \/ r \in Clis
      BY <1>1, <2>2 DEF UploadsExclude, ActiveRuns, Active, Runs
    <2> QED
      BY <2>2, <2>3
  <1> QED
    BY <1>2, <1>3

-----------------------------------------------------------------------------
(* Runs that do not overlap *)

(* The step of a run that neither starts, writes nor reports success, and  *)
(* of the service, seen from what the serial invariants talk about.        *)
LEMMA QuietStep ==
    ASSUME TypeOK, [Next]_vars, ~disturbed', UNCHANGED points
    PROVE  \/ /\ UNCHANGED <<corpus, upserted>>
              /\ ActiveRuns' = ActiveRuns
              /\ file' \in {file, Missing, Torn}
           \/ \E r \in Runs, c \in Corpora : Begin(r, c)
           \/ \E r \in Runs : Upsert(r) \/ Dump(r)
  <1> USE DEF storeVars, fileVars, serviceVars, runVars
  <1>1. ASSUME NEW r \in Runs, CheckCollection(r) \/ CreateCollection(r)
                 \/ UpsertFails(r) \/ BuildAndOpen(r) \/ Abort(r)
        PROVE  /\ UNCHANGED <<corpus, upserted>>
               /\ ActiveRuns' = ActiveRuns
               /\ file' \in {file, Missing, Torn}
    <2>1. /\ phase[r] \in Active /\ phase'[r] \in Active
          /\ \A q \in Runs \ {r} : phase'[q] = phase[q]
          /\ UNCHANGED <<corpus, upserted>>
          /\ file' \in {file, Torn}
      BY <1>1 DEF CheckCollection, CreateCollection, UpsertFails, UpsertPending,
                  BuildAndOpen, Abort, Active, TypeOK
    <2> QED
      BY <2>1 DEF ActiveRuns
  <1>2. ASSUME KillRuns
        PROVE  UNCHANGED <<corpus, upserted>> /\ ActiveRuns' = ActiveRuns
    <2>1. ActiveRuns = {}
      BY <1>2 DEF KillRuns
    <2>2. phase' = phase
      BY <1>2, <2>1 DEF KillRuns, ActiveRuns, TypeOK
    <2> QED
      BY <1>2, <2>2 DEF KillRuns, ActiveRuns
  <1>3. CASE StopApi \/ Redeploy \/ BootRaises
    BY <1>2, <1>3 DEF StopApi, Redeploy, BootRaises, FileAfterDeath
  <1>4. CASE RestartContainer \/ Starts \/ UNCHANGED vars
    BY <1>4 DEF RestartContainer, Starts, Boot, BootCold, FirstLoad, LoadIndex, vars, ActiveRuns
  <1> QED
    BY <1>1, <1>3, <1>4 DEF Next, Starts, IngestStep, StartCli, StartUpload, Runs

LEMMA DisturbedStays ==
    ASSUME TypeOK, [Next]_vars, disturbed
    PROVE  disturbed'
  BY DEF Next, StartCli, StartUpload, Begin, IngestStep, CheckCollection,
         CreateCollection, Upsert, UpsertFails, BuildAndOpen, Dump, Abort,
         StopApi, Redeploy, KillRuns, RestartContainer, Boot, BootCold, FirstLoad,
         BootRaises, vars

LEMMA SerialNext ==
    TypeOK /\ Progress /\ RunsAreSerial /\ SerialIngestsAgree /\ [Next]_vars
      => RunsAreSerial' /\ SerialIngestsAgree'
  <1> SUFFICES ASSUME TypeOK, Progress, RunsAreSerial, SerialIngestsAgree,
                      [Next]_vars, ~disturbed'
               PROVE  RunsAreSerial' /\ SerialIngestsAgree'
    BY DEF RunsAreSerial, SerialIngestsAgree
  <1> USE DEF storeVars, fileVars, serviceVars, runVars
  <1>a. ~disturbed
    BY DisturbedStays
  <1>b. /\ \A r, q \in ActiveRuns : r = q
        /\ \A r \in ActiveRuns :
              \A id \in UpsertedIds(r) : points[id] = corpus[r]
    BY <1>a DEF RunsAreSerial
  <1>1. ASSUME UNCHANGED <<points, corpus, upserted>>, ActiveRuns' = ActiveRuns,
               file' \in {file, Missing, Torn}
        PROVE  RunsAreSerial' /\ SerialIngestsAgree'
    <2>1. RunsAreSerial'
      BY <1>1, <1>b DEF RunsAreSerial, UpsertedIds
    <2>2. file' \in Corpora => file' = file
      BY <1>1, MarksAreNotCorpora
    <2> QED
      BY <1>1, <1>a, <2>1, <2>2 DEF SerialIngestsAgree, IdsOf
  <1>2. ASSUME NEW r \in Runs, NEW c \in Corpora, Begin(r, c)
        PROVE  RunsAreSerial' /\ SerialIngestsAgree'
    <2>1. ActiveRuns = {} /\ ActiveRuns' = {r}
      BY <1>2 DEF Begin, ActiveRuns, Active, TypeOK
    <2>2. UpsertedIds(r)' = {}
      BY <1>2 DEF Begin, Progress, UpsertedIds
    <2>3. RunsAreSerial'
      BY <2>1, <2>2 DEF RunsAreSerial
    <2> QED
      BY <1>2, <1>a, <2>1, <2>3 DEF Begin, SerialIngestsAgree, IdsOf
  <1>3. ASSUME NEW r \in Runs, UpsertPending(r), WriteBatch(r),
               corpus' = corpus, file' = file,
               ActiveRuns' = ActiveRuns,
               \/ upserted' = upserted
               \/ upserted' = [upserted EXCEPT ![r] = BatchEnd(r)]
        PROVE  RunsAreSerial' /\ SerialIngestsAgree'
    <2>1. ActiveRuns = {r}
      BY <1>3, <1>b DEF UpsertPending, ActiveRuns, Active
    <2>2. /\ corpus[r] \in Corpora
          /\ Len(ChunksOf[corpus[r]]) \in Nat /\ BatchEnd(r) \in Nat
          /\ upserted[r] < BatchEnd(r) /\ BatchEnd(r) <= Len(ChunksOf[corpus[r]])
          /\ upserted[r] \in Nat
      BY <1>3, BatchEndBounds DEF TypeOK
    <2>3. ASSUME NEW id \in ChunkId,
                 points[id] = corpus[r] \/ id \in BatchIds(r)
          PROVE  points'[id] = corpus[r]
      BY <1>3, <2>3 DEF WriteBatch
    <2>4. ASSUME NEW i \in 1..upserted'[r]
          PROVE  points'[ChunksOf[corpus[r]][i]] = corpus[r]
      <3>1. i \in 1..BatchEnd(r)
        BY <1>3, <2>2, <2>4 DEF TypeOK
      <3>2. ChunksOf[corpus[r]][i] \in ChunkId
        BY <2>2, <3>1, ChunksAreIds
      <3>3. \/ points[ChunksOf[corpus[r]][i]] = corpus[r]
            \/ ChunksOf[corpus[r]][i] \in BatchIds(r)
        BY <1>3, <1>b, <2>1, <3>1, BatchExtends DEF UpsertedIds
      <3> QED
        BY <2>3, <3>2, <3>3
    <2>5. RunsAreSerial'
      BY <1>3, <2>1, <2>4 DEF RunsAreSerial, UpsertedIds
    <2>6. ASSUME NEW id \in ChunkId
          PROVE  points'[id] \in {points[id], corpus[r]}
      BY <1>3 DEF WriteBatch
    <2>7. ASSUME file \in Corpora
          PROVE  \A id \in IdsOf(file) : points'[id] \in {file, corpus[r]}
      <3>1. IdsOf(file) \subseteq ChunkId
        BY <2>7, ChunksOfType DEF IdsOf
      <3>2. \A id \in IdsOf(file) : points[id] \in {file, corpus[r]}
        BY <1>a, <2>1, <2>7 DEF SerialIngestsAgree
      <3> QED
        BY <2>6, <3>1, <3>2
    <2>8. SerialIngestsAgree'
      BY <1>3, <2>1, <2>7 DEF SerialIngestsAgree, IdsOf
    <2> QED
      BY <2>5, <2>8
  <1>4. ASSUME NEW r \in Runs, Dump(r)
        PROVE  RunsAreSerial' /\ SerialIngestsAgree'
    <2>1. /\ phase[r] = "dump" /\ UNCHANGED <<corpus, upserted, points>>
          /\ ActiveRuns = {r} /\ ActiveRuns' = {}
      BY <1>4, <1>b DEF Dump, ActiveRuns, Active, TypeOK
    <2>2. RunsAreSerial'
      BY <2>1 DEF RunsAreSerial
    <2>3. UpsertedIds(r) = IdsOf(corpus[r]) /\ corpus[r] \in Corpora
      BY <2>1, CompleteRun DEF Progress
    <2>4. \A id \in IdsOf(corpus[r]) : points[id] = corpus[r]
      BY <1>b, <2>1, <2>3
    <2>5. file' \in Corpora => file' = corpus[r]
      BY <1>4, MarksAreNotCorpora DEF Dump
    <2> QED
      BY <2>1, <2>2, <2>4, <2>5 DEF SerialIngestsAgree, IdsOf
  <1>5. CASE UNCHANGED points
    <2>1. ASSUME NEW r \in Runs, Upsert(r)
          PROVE  RunsAreSerial' /\ SerialIngestsAgree'
      BY <1>3, <2>1 DEF Upsert, ActiveRuns
    <2> QED
      BY <1>1, <1>2, <1>4, <1>5, <2>1, QuietStep
  <1>6. ASSUME NEW r \in Runs, UpsertPending(r), WriteBatch(r),
               points' # points
        PROVE  RunsAreSerial' /\ SerialIngestsAgree'
    <2>1. PICK q \in Runs : (Upsert(q) \/ UpsertFails(q)) /\ WriteBatch(q)
      <3>1. ASSUME NEW q \in Runs, NEW c \in Corpora, Begin(q, c)
            PROVE  FALSE
        BY <1>6, <3>1 DEF Begin
      <3>2. ~(StopApi \/ Redeploy \/ BootRaises \/ RestartContainer \/ Starts
               \/ UNCHANGED vars)
        BY <1>6 DEF StopApi, Redeploy, BootRaises, RestartContainer, Starts,
                    Boot, BootCold, FirstLoad, KillRuns, vars
      <3>3. \A q \in Runs : ~Abort(q)
        BY DEF Abort
      <3> QED
        BY <1>6, <3>1, <3>2, <3>3 DEF Next, Starts, StartCli, StartUpload, Runs,
           IngestStep, CheckCollection, CreateCollection, Upsert, UpsertFails,
           BuildAndOpen, Dump
    <2>2. /\ UpsertPending(q) /\ corpus' = corpus /\ file' = file
          /\ phase' = phase
          /\ \/ upserted' = upserted
             \/ upserted' = [upserted EXCEPT ![q] = BatchEnd(q)]
      BY <2>1 DEF Upsert, UpsertFails
    <2> QED
      BY <1>3, <2>1, <2>2 DEF ActiveRuns
  <1> QED
    BY <1>5, <1>6, PointsStep

-----------------------------------------------------------------------------
(* The invariant *)

LEMMA IndexNeedsServiceNext ==
    IndexNeedsService /\ [Next]_vars => IndexNeedsService'
  BY DEF IndexNeedsService, Next, StartCli, StartUpload, Begin, IngestStep,
         CheckCollection, CreateCollection, Upsert, UpsertFails, BuildAndOpen,
         Dump, Abort, StopApi, Redeploy, KillRuns, RestartContainer, Boot,
         BootCold, FirstLoad, BootRaises, vars, storeVars, fileVars,
         serviceVars, runVars

LEMMA InvInit == Init => IndInv
  <1> SUFFICES ASSUME Init
               PROVE  IndInv
    OBVIOUS
  <1>1. TypeOK /\ Progress
    BY TypeInit, ProgressInit
  <1>2. ActiveRuns = {} /\ clash = {} /\ IndexNeedsService
    BY DEF Init, ActiveRuns, Active, IndexNeedsService
  <1>3. /\ UploadsExclude /\ ClashNeedsATool /\ RunsAreSerial
        /\ UpsertedIsDense /\ CreateRaceNeedsATool
    BY <1>2 DEF Init, UploadsExclude, ClashNeedsATool, RunsAreSerial,
                UpsertedIsDense, CreateRaceNeedsATool
  <1>4. file \notin Corpora /\ file # Torn /\ loaded \notin Corpora
    BY MarksAreNotCorpora DEF Init
  <1>5. /\ SparseBehindDense /\ ServedBehindDense /\ TornExplained
        /\ SerialIngestsAgree
    BY <1>4 DEF SparseBehindDense, ServedBehindDense, ServedIds, TornExplained,
                SerialIngestsAgree
  <1> QED
    BY <1>1, <1>2, <1>3, <1>5 DEF IndInv

LEMMA InvNext == IndInv /\ [Next]_vars => IndInv'
  BY TypeNext, ProgressNext, UpsertedIsDenseNext, SparseBehindDenseNext,
     ServedBehindDenseNext, IndexNeedsServiceNext, UploadsExcludeNext,
     ClashNeedsAToolNext, TornExplainedNext, CreateRaceNext, SerialNext
     DEF IndInv

(* The strengthened invariant holds in every reachable state. *)
THEOREM Invariance == Spec => []IndInv
  BY InvInit, InvNext, PTL DEF Spec

(* Every variable keeps its type, and no batch is attempted more often     *)
(* than the two nested retry budgets allow.                                *)
THEOREM TypeCorrect == Spec => []TypeOK
  <1>1. IndInv => TypeOK
    BY DEF IndInv
  <1> QED
    BY <1>1, Invariance, PTL

(* A sparse index file that loads only names chunks the dense collection   *)
(* holds: persisting BM25 last is enough, whatever dies or overlaps.       *)
THEOREM SparseSafe == Spec => []SparseBehindDense
  <1>1. IndInv => SparseBehindDense
    BY DEF IndInv
  <1> QED
    BY <1>1, Invariance, PTL

(* The index the running service searches is behind the dense collection.  *)
THEOREM ServedSafe == Spec => []ServedBehindDense
  <1>1. IndInv => ServedBehindDense
    BY DEF IndInv
  <1> QED
    BY <1>1, Invariance, PTL

(* The chunks of a run that reported success are in the dense collection.  *)
THEOREM AckedSafe == Spec => []AckedIsIndexed
  <1>1. ASSUME IndInv, NEW r \in Runs, phase[r] = "done"
        PROVE  IdsOf(corpus[r]) \subseteq DenseIds
    <2>1. UpsertedIds(r) = IdsOf(corpus[r])
      BY <1>1, CompleteRun DEF IndInv, Progress
    <2> QED
      BY <1>1, <2>1 DEF IndInv, UpsertedIsDense
  <1>2. IndInv => AckedIsIndexed
    BY <1>1 DEF AckedIsIndexed, AckedIds
  <1> QED
    BY <1>2, Invariance, PTL

(* An index file that does not load was left by a run that is writing it,  *)
(* died writing it, or shared it with a tool run: uploads that complete,   *)
(* however many, never break the next start of the service.                *)
THEOREM TornSafe == Spec => []TornExplained
  <1>1. IndInv => TornExplained
    BY DEF IndInv
  <1> QED
    BY <1>1, Invariance, PTL

(* As long as runs neither overlap nor die half-way, the dense text of     *)
(* every chunk of the sparse file is the text the file was built from.     *)
THEOREM SerialSafe == Spec => []SerialIngestsAgree
  <1>1. IndInv => SerialIngestsAgree
    BY DEF IndInv
  <1> QED
    BY <1>1, Invariance, PTL

(* No step takes a point out of the dense collection. *)
THEOREM PointsSafe == Spec => NoLostPoints
  <1>1. IndInv /\ [Next]_vars => [DenseIds \subseteq DenseIds']_vars
    BY DenseGrows DEF IndInv
  <1> QED
    BY <1>1, Invariance, PTL DEF Spec, NoLostPoints

(* Uploads alone never make one another fail at creating the collection. *)
THEOREM CreateSafe == Spec => []CreateRaceNeedsATool
  <1>1. IndInv => CreateRaceNeedsATool
    BY DEF IndInv
  <1> QED
    BY <1>1, Invariance, PTL

-----------------------------------------------------------------------------
(* The implementation of DurableIndex *)

(* Which chunks were reported as done changes only with a Dump. *)
LEMMA AckedStep ==
    ASSUME TypeOK
    PROVE  /\ \A r \in Runs, c \in Corpora : Begin(r, c) => AckedIds' = AckedIds
           /\ \A r \in Runs : (IngestStep(r) \/ Abort(r)) /\ ~Dump(r) =>
                 AckedIds' = AckedIds
           /\ \A r \in Runs : Dump(r) =>
                 AckedIds' = AckedIds \cup IdsOf(corpus[r])
           /\ KillRuns => AckedIds' = AckedIds
           /\ RestartContainer \/ Starts => AckedIds' = AckedIds
  <1> USE DEF storeVars, fileVars, serviceVars, runVars
  <1> DEFINE Done == {r \in Runs : phase[r] = "done"}
  <1>1. ASSUME Done' = Done, \A r \in Done : corpus'[r] = corpus[r]
        PROVE  AckedIds' = AckedIds
    BY <1>1 DEF AckedIds, IdsOf
  <1>2. ASSUME NEW r \in Runs, NEW c \in Corpora, Begin(r, c)
        PROVE  AckedIds' = AckedIds
    <2>1. Done' = Done /\ \A q \in Done : corpus'[q] = corpus[q]
      BY <1>2 DEF Begin, TypeOK
    <2> QED
      BY <1>1, <2>1
  <1>3. ASSUME NEW r \in Runs, IngestStep(r) \/ Abort(r), ~Dump(r)
        PROVE  AckedIds' = AckedIds
    <2>1. Done' = Done /\ corpus' = corpus
      BY <1>3 DEF IngestStep, CheckCollection, CreateCollection, Upsert,
         UpsertFails, UpsertPending, BuildAndOpen, Abort, AfterDeath, Active,
         TypeOK
    <2> QED
      BY <1>1, <2>1
  <1>4. ASSUME NEW r \in Runs, Dump(r)
        PROVE  AckedIds' = AckedIds \cup IdsOf(corpus[r])
    <2>1. Done' = Done \cup {r} /\ corpus' = corpus
      BY <1>4 DEF Dump, TypeOK
    <2>2. AckedIds' = UNION {IdsOf(corpus[q]) : q \in Done \cup {r}}
      BY <2>1 DEF AckedIds, IdsOf
    <2> QED
      BY <2>2 DEF AckedIds
  <1>5. ASSUME KillRuns
        PROVE  AckedIds' = AckedIds
    <2>1. Done' = Done /\ corpus' = corpus
      BY <1>5 DEF KillRuns, AfterDeath, Active
    <2> QED
      BY <1>1, <2>1
  <1>6. ASSUME RestartContainer \/ Starts
        PROVE  AckedIds' = AckedIds
    BY <1>6 DEF RestartContainer, Starts, Boot, BootCold, FirstLoad, AckedIds,
                IdsOf
  <1> QED
    BY <1>2, <1>3, <1>4, <1>5, <1>6

(* Ingestion implements DurableIndex: points only accumulate, success is   *)
(* reported for indexed chunks only, and the service keeps the sparse      *)
(* snapshot it loaded until it stops.                                      *)
THEOREM Implements == Spec => ImplementsDurableIndex
  <1> USE DEF storeVars, fileVars, serviceVars, runVars
  <1>1. Init => Promise!Init
    BY MarksAreNotCorpora DEF Init, Promise!Init, DenseIds, AckedIds, ServedIds
  <1>2. ASSUME IndInv, [Next]_vars
        PROVE  [Promise!Next]_(Promise!vars)
    <2>a. /\ TypeOK /\ Progress /\ UpsertedIsDense /\ SparseBehindDense
          /\ ServedBehindDense /\ IndexNeedsService
      BY <1>2 DEF IndInv
    <2>b. DenseIds \subseteq DenseIds' /\ DenseIds' \subseteq ChunkId
      BY <1>2, <2>a, DenseGrows DEF DenseIds
    (* A run that neither ends well nor writes is invisible; an upsert      *)
    (* that reaches the collection indexes what is new in it.               *)
    <2>1. ASSUME AckedIds' = AckedIds, UNCHANGED <<service, loaded>>
          PROVE  Promise!Next
      <3>1. DenseIds' = DenseIds \cup DenseIds' /\ ServedIds' = ServedIds
        BY <2>b, <2>1 DEF ServedIds, IdsOf
      <3>2. Promise!Index(DenseIds')
        BY <2>1, <3>1 DEF Promise!Index
      <3> QED
        BY <2>b, <3>2 DEF Promise!Next
    <2>2. ASSUME NEW r \in Runs, IngestStep(r) \/ Abort(r), ~Dump(r)
          PROVE  Promise!Next
      <3>1. UNCHANGED <<service, loaded>>
        BY <2>2 DEF IngestStep, CheckCollection, CreateCollection, Upsert,
                    UpsertFails, BuildAndOpen, Abort
      <3> QED
        BY <2>a, <2>1, <2>2, <3>1, AckedStep
    <2>3. ASSUME NEW r \in Runs, Dump(r)
          PROVE  Promise!Next
      <3>1. phase[r] = "dump" /\ UNCHANGED <<points, service, loaded>>
        BY <2>3 DEF Dump
      <3>2. corpus[r] \in Corpora /\ upserted[r] = Len(ChunksOf[corpus[r]])
        BY <2>a, <3>1 DEF Progress
      <3>3. IdsOf(corpus[r]) \subseteq DenseIds
        BY <2>a, <3>1, <3>2, CompleteRun DEF UpsertedIsDense
      <3>4. DenseIds' = DenseIds /\ ServedIds' = ServedIds
        BY <3>1 DEF DenseIds, ServedIds, IdsOf
      <3>5. AckedIds' = AckedIds \cup IdsOf(corpus[r])
        BY <2>a, <2>3, AckedStep
      <3>6. Promise!Ack(IdsOf(corpus[r]))
        BY <3>1, <3>3, <3>4, <3>5 DEF Promise!Ack
      <3> QED
        BY <2>b, <3>3, <3>6 DEF Promise!Next
    <2>4. ASSUME NEW r \in Runs, NEW c \in Corpora, Begin(r, c)
          PROVE  Promise!Next
      <3>1. UNCHANGED <<service, loaded>>
        BY <2>4 DEF Begin
      <3> QED
        BY <2>a, <2>1, <2>4, <3>1, AckedStep
    <2>5. CASE Boot \/ FirstLoad
      <3>1. AckedIds' = AckedIds /\ DenseIds' = DenseIds
        BY <2>a, <2>5, AckedStep DEF Starts, Boot, FirstLoad, DenseIds
      <3>2. ServedIds' \subseteq DenseIds
        BY <1>2, <2>a, <3>1, ServedBehindDenseNext DEF ServedBehindDense
      <3>3. loaded = NotLoaded
        BY <2>5, <2>a DEF Boot, FirstLoad, IndexNeedsService
      <3>4. loaded' # NotLoaded
        BY <2>a, <2>5, MarksAreNotCorpora
           DEF Boot, FirstLoad, LoadIndex, TypeOK
      <3>5. Promise!Load(ServedIds')
        BY <3>1, <3>2, <3>3, <3>4 DEF Promise!Load
      <3> QED
        BY <2>b, <3>2, <3>5 DEF Promise!Next
    <2>6. CASE StopApi \/ Redeploy \/ BootRaises
      <3>1. loaded' = NotLoaded /\ points' = points
        BY <2>6 DEF StopApi, Redeploy, BootRaises, KillRuns
      <3>2. ServedIds' = {} /\ DenseIds' = DenseIds
        BY <3>1, MarksAreNotCorpora DEF DenseIds, ServedIds
      <3>3. AckedIds' = AckedIds
        BY <2>6, <2>a, AckedStep DEF StopApi, Redeploy, BootRaises
      <3>4. CASE loaded # NotLoaded
        BY <3>1, <3>2, <3>3, <3>4 DEF Promise!Stop, Promise!Next
      <3>5. CASE loaded = NotLoaded
        <4>1. ServedIds = {}
          BY <3>5, MarksAreNotCorpora DEF ServedIds
        <4> QED
          BY <3>1, <3>2, <3>3, <3>5, <4>1 DEF Promise!vars
      <3> QED
        BY <3>4, <3>5
    <2>7. CASE RestartContainer \/ BootCold
      <3>1. AckedIds' = AckedIds
        BY <2>a, <2>7, AckedStep DEF Starts
      <3> QED
        BY <2>7, <3>1 DEF RestartContainer, BootCold, Promise!vars, DenseIds,
                          ServedIds, IdsOf
    <2>8. CASE UNCHANGED vars
      BY <2>8 DEF vars, Promise!vars, DenseIds, AckedIds, ServedIds, IdsOf
    <2> QED
      BY <1>2, <2>2, <2>3, <2>4, <2>5, <2>6, <2>7, <2>8
         DEF Next, StartCli, StartUpload, Runs
  <1> QED
    BY <1>1, <1>2, Invariance, PTL DEF Spec, ImplementsDurableIndex, Promise!Spec

=============================================================================
