---------------------------- MODULE DashboardProofs ----------------------------
(***************************************************************************)
(* Proofs about Dashboard and the Service behind it, for any queries,      *)
(* uploads, files, pipeline files and number of stops: the panels tell     *)
(* what became of the last call, and an upload that is reported is in the  *)
(* indexes.                                                                *)
(***************************************************************************)
EXTENDS Dashboard, TLAPS

USE DEF serviceVars, deployment, screen, inspector, panel, vars

-----------------------------------------------------------------------------
(* Types *)

(* An ingestion leaves of each document what it wrote or what was there.   *)
LEMMA WriteTypes ==
    ASSUME NEW u \in Uploads, NEW positions \in SUBSET Nat,
           store \in [DocIds -> (Uploads \X Nat) \cup {None}],
           Write(u, positions)
    PROVE  store' \in [DocIds -> (Uploads \X Nat) \cup {None}]
  <1> DEFINE new(d) == {i \in positions :
                          FilesOf[u][i].stem = d /\ HasChunks(FilesOf[u][i])}
  <1>1. \A d \in DocIds : new(d) # {} => (CHOOSE i \in new(d) : TRUE) \in Nat
    OBVIOUS
  <1>2. store' = [d \in DocIds |-> IF new(d) = {} THEN store[d]
                                   ELSE <<u, CHOOSE i \in new(d) : TRUE>>]
    BY DEF Write
  <1> HIDE DEF new
  <1> QED
    BY <1>1, <1>2

LEMMA PositionsAreNat ==
    ASSUME NEW u \in Uploads, NEW n
    PROVE  Kept(FilesOf[u]) \in SUBSET Nat /\ WrittenUpTo(FilesOf[u], n) \in SUBSET Nat
  <1>1. DOMAIN FilesOf[u] \subseteq Nat
    BY FilesType
  <1> QED
    BY <1>1 DEF Kept, WrittenUpTo, Accepted

LEMMA TypeInit == Init => TypeOK
  <1> SUFFICES ASSUME Init PROVE TypeOK
    OBVIOUS
  <1>1. ServiceTypeOK
    BY MaxStopsType DEF Init, ServiceInit, ServiceTypeOK, Pipelines
  <1>2. /\ waiting \subseteq Calls
        /\ {results, inspectErr} \subseteq Queries \cup {None}
        /\ {uploadRes, uploadErr} \subseteq Uploads \cup {None}
    BY DEF Init
  <1>3. {inspecting, uploading, overlapped, raced} \subseteq BOOLEAN
    BY DEF Init
  <1> QED
    BY <1>1, <1>2, <1>3 DEF TypeOK

LEMMA WorkTypes ==
    ASSUME ServiceTypeOK, NEW c \in Calls, Work(c)
    PROVE  ServiceTypeOK'
  <1> USE DEF ServiceTypeOK, Move, Finish, Pipelines, Calls
  <1>1. CASE Accept(c)
    BY <1>1 DEF Accept
  <1>2. ASSUME c \in Queries, QueryStep(c) PROVE ServiceTypeOK'
    <2>1. CASE PipelineHit(c) \/ PipelineMiss(c)
      BY <1>2, <2>1 DEF PipelineHit, PipelineMiss
    <2>2. CASE BuildPipeline(c)
      BY <1>2, <2>2 DEF BuildPipeline
    <2>3. CASE BuildRaises(c) \/ Search(c)
      BY <1>2, <2>3 DEF BuildRaises, Search
    <2> QED
      BY <1>2, <2>1, <2>2, <2>3 DEF QueryStep
  <1>3. ASSUME c \in Uploads, UploadStep(c) PROVE ServiceTypeOK'
    <2>1. CASE BuildIngestor(c) \/ NothingToIndex(c) \/ StartIngest(c)
      BY <1>3, <2>1 DEF BuildIngestor, NothingToIndex, StartIngest
    <2>2. CASE StartDump(c)
      <3>1. store' \in [DocIds -> (Uploads \X Nat) \cup {None}]
        BY <1>3, <2>2, PositionsAreNat, WriteTypes DEF StartDump
      <3> QED
        BY <1>3, <2>2, <3>1 DEF StartDump
    <2>3. CASE IngestRaises(c)
      <3>1. store' \in [DocIds -> (Uploads \X Nat) \cup {None}]
        BY <1>3, <2>3, PositionsAreNat, WriteTypes DEF IngestRaises
      <3> QED
        BY <1>3, <2>3, <3>1 DEF IngestRaises
    <2>4. CASE IngestReturns(c) \/ DumpRaises(c)
      BY <1>3, <2>4 DEF IngestReturns, DumpRaises
    <2> QED
      BY <1>3, <2>1, <2>2, <2>3, <2>4 DEF UploadStep
  <1> QED
    BY <1>1, <1>2, <1>3 DEF Work

LEMMA StopTypes == ServiceTypeOK /\ Stop => ServiceTypeOK'
  <1> SUFFICES ASSUME ServiceTypeOK, Stop PROVE ServiceTypeOK'
    OBVIOUS
  <1>1. store' \in [DocIds -> (Uploads \X Nat) \cup {None}]
    <2>1. CASE UNCHANGED store
      BY <2>1 DEF ServiceTypeOK
    <2>2. CASE loop # None /\ at[loop] = "ingest"
      BY <2>2, PositionsAreNat, WriteTypes DEF Stop, ServiceTypeOK
    <2> QED
      BY <2>1, <2>2 DEF Stop
  <1>2. stops' \in 0..MaxStops
    BY MaxStopsType DEF Stop, ServiceTypeOK
  <1> QED
    BY <1>1, <1>2 DEF Stop, ServiceTypeOK, Pipelines

LEMMA ServiceTypes ==
    ASSUME ServiceTypeOK, ServiceRuns
    PROVE  ServiceTypeOK'
  <1>1. CASE StartProcess \/ LifespanRaises \/ ToolWrites
    BY <1>1 DEF StartProcess, LifespanRaises, ToolWrites, ServiceTypeOK
  <1>2. CASE Lifespan
    BY <1>2 DEF Lifespan, ServiceTypeOK, Pipelines
  <1>3. ASSUME NEW c \in Calls, Drop(c) PROVE ServiceTypeOK'
    BY <1>3 DEF Drop, Move, ServiceTypeOK
  <1> QED
    BY <1>1, <1>2, <1>3, StopTypes, WorkTypes DEF ServiceRuns

(* What the promise of a call that ends does to the screen. *)
LEMMA ShowTypes ==
    ASSUME TypeOK, NEW c \in Calls, Show(c) \/ ShowError(c)
    PROVE  /\ {inspecting', uploading', overlapped', raced'} \subseteq BOOLEAN
           /\ {results', inspectErr'} \subseteq Queries \cup {None}
           /\ {uploadRes', uploadErr'} \subseteq Uploads \cup {None}
  BY DEF TypeOK, Show, ShowError, Calls

LEMMA TypeStep == TypeOK /\ [Next]_vars => TypeOK'
  <1> SUFFICES ASSUME TypeOK, [Next]_vars PROVE TypeOK'
    OBVIOUS
  <1>1. ASSUME NEW q \in Queries, Inspect(q) PROVE TypeOK'
    BY <1>1 DEF Inspect, Connect, Move, TypeOK, ServiceTypeOK, Calls
  <1>2. ASSUME NEW u \in Uploads, Submit(u) PROVE TypeOK'
    BY <1>2 DEF Submit, Connect, Move, TypeOK, ServiceTypeOK, Calls
  <1>3. ASSUME NEW c \in Calls, ReceiveReply(c) PROVE TypeOK'
    <2>1. ServiceTypeOK' /\ waiting' \subseteq Calls
      BY <1>3 DEF ReceiveReply, Reply, Move, TypeOK, ServiceTypeOK
    <2>2. UNCHANGED <<inspector, panel>> \/ Show(c) \/ ShowError(c)
      BY <1>3 DEF ReceiveReply
    <2> QED
      BY <2>1, <2>2, ShowTypes DEF TypeOK
  <1>4. ASSUME NEW c \in Calls, ReceiveReset(c) PROVE TypeOK'
    <2>1. ServiceTypeOK' /\ waiting' \subseteq Calls /\ ShowError(c)
      BY <1>4 DEF ReceiveReset, Hangup, Move, TypeOK, ServiceTypeOK
    <2> QED
      BY <2>1, ShowTypes DEF TypeOK
  <1>5. ASSUME NEW c \in Calls, TimeOut(c) PROVE TypeOK'
    <2>1. ServiceTypeOK' /\ waiting' \subseteq Calls /\ ShowError(c)
      BY <1>5 DEF TimeOut, TypeOK, ServiceTypeOK
    <2> QED
      BY <2>1, ShowTypes DEF TypeOK
  <1>6. CASE ServiceRuns
    <2>1. ServiceTypeOK'
      BY <1>6, ServiceTypes DEF TypeOK
    <2> QED
      BY <1>6, <2>1 DEF ServiceRuns, TypeOK
  <1>7. CASE UNCHANGED vars
    BY <1>7 DEF TypeOK, ServiceTypeOK
  <1> QED
    BY <1>1, <1>2, <1>3, <1>4, <1>5, <1>6, <1>7 DEF Next

-----------------------------------------------------------------------------
(* The service *)

ServiceStep ==
    \/ \E c \in Calls : Connect(c) \/ Work(c) \/ Reply(c) \/ Hangup(c) \/ Drop(c)
    \/ StartProcess
    \/ Lifespan
    \/ LifespanRaises
    \/ Stop
    \/ ToolWrites
    \/ UNCHANGED serviceVars

(* The dashboard acts on the service only by connecting, by reading a      *)
(* reply, and by seeing its connection reset.                              *)
LEMMA StepsOfTheService == [Next]_vars => ServiceStep
  BY DEF Next, Inspect, Submit, ReceiveReply, ReceiveReset, TimeOut,
         ServiceRuns, ServiceStep, Calls

-----------------------------------------------------------------------------
(* The call made last *)

(* Calls of a panel are made in their order. *)
SentInOrder ==
    \A calls \in {Queries, Uploads} : \A c, d \in calls :
        Order[d] < Order[c] /\ at[c] # "idle" => at[d] # "idle"

(* The call that comes after all others sent is the last one. *)
LEMMA LastIsLatest ==
    ASSUME NEW calls \in {Queries, Uploads}, NEW c \in Sent(calls),
           \A d \in Sent(calls) : Order[d] <= Order[c]
    PROVE  Last(calls) = c
  <1>1. \A d \in Sent(calls) : Order[d] \in Nat /\ (Order[d] = Order[c] => d = c)
    BY OrderType DEF Sent, Calls
  <1>2. ASSUME NEW d \in Sent(calls), \A e \in Sent(calls) : Order[e] <= Order[d]
        PROVE  d = c
    <2>1. Order[c] <= Order[d] /\ Order[d] <= Order[c]
      BY <1>2
    <2> QED
      BY <1>1, <2>1
  <1> QED
    BY <1>2 DEF Last

(* A call that is made becomes the last one of its panel. *)
LEMMA MadeIsLast ==
    ASSUME TypeOK, SentInOrder, NEW calls \in {Queries, Uploads},
           NEW c \in calls, InTurn(c, calls), Connect(c)
    PROVE  /\ Last(calls)' = c
           /\ SentInOrder'
           /\ \A other \in {Queries, Uploads} \ {calls} : Last(other)' = Last(other)
  <1>1. /\ at[c] = "idle" /\ at'[c] # "idle"
        /\ \A d \in Calls : d # c => at'[d] = at[d]
        /\ c \in Calls
    BY DEF Connect, Move, TypeOK, ServiceTypeOK, Calls
  <1>2. \A d \in calls : d \in Calls /\ Order[d] \in Nat
    BY OrderType DEF Calls
  <1>3. \A d \in calls : at[d] # "idle" => Order[d] <= Order[c]
    BY <1>1, <1>2 DEF SentInOrder
  <1>4. Last(calls)' = c
    <2>1. Sent(calls)' = Sent(calls) \cup {c}
      BY <1>1, <1>2 DEF Sent
    <2>2. \A d \in Sent(calls)' : Order[d] <= Order[c]
      BY <1>2, <1>3, <2>1 DEF Sent
    <2>3. ASSUME NEW d \in Sent(calls)',
                 \A e \in Sent(calls)' : Order[e] <= Order[d]
          PROVE  d = c
      <3>1. Order[c] <= Order[d] /\ Order[d] <= Order[c] /\ d \in calls
        BY <2>1, <2>2, <2>3 DEF Sent
      <3>2. Order[c] = Order[d]
        BY <1>2, <3>1
      <3> QED
        BY <3>1, <3>2, OrderType
    <2> QED
      BY <2>1, <2>2, <2>3 DEF Last
  <1>5. SentInOrder'
    <2> SUFFICES ASSUME NEW some \in {Queries, Uploads}, NEW d \in some,
                        NEW e \in some, Order[e] < Order[d], at'[d] # "idle"
                 PROVE  at'[e] # "idle"
      BY DEF SentInOrder
    <2>1. d \in Calls /\ e \in Calls
      BY DEF Calls
    <2>2. CASE d = c
      <3>1. some = calls
        BY <2>2, CallsDiffer
      <3>2. at[e] # "idle"
        BY <2>2, <3>1 DEF InTurn
      <3> QED
        BY <1>1, <2>1, <3>2
    <2>3. CASE d # c
      <3>1. at[e] # "idle"
        BY <1>1, <2>1, <2>3 DEF SentInOrder
      <3> QED
        BY <1>1, <2>1, <3>1
    <2> QED
      BY <2>2, <2>3
  <1>6. ASSUME NEW other \in {Queries, Uploads} \ {calls}
        PROVE  Last(other)' = Last(other)
    <2>1. c \notin other
      BY CallsDiffer
    <2>2. Sent(other)' = Sent(other)
      BY <1>1, <2>1 DEF Sent, Calls
    <2> QED
      BY <2>2 DEF Last
  <1> QED
    BY <1>4, <1>5, <1>6

(* No other step makes a call or takes one back. *)
SameSent == \A c \in Calls : at'[c] = "idle" <=> at[c] = "idle"

LEMMA LastStays ==
    ASSUME SameSent, SentInOrder
    PROVE  /\ SentInOrder'
           /\ \A calls \in {Queries, Uploads} : Last(calls)' = Last(calls)
  <1>1. \A calls \in {Queries, Uploads} : Sent(calls)' = Sent(calls)
    BY DEF SameSent, Sent, Calls
  <1>2. SentInOrder'
    BY DEF SameSent, SentInOrder, Calls
  <1> QED
    BY <1>1, <1>2 DEF Last

LEMMA OthersMakeNoCall ==
    ASSUME TypeOK,
           ServiceRuns \/ UNCHANGED vars
             \/ \E c \in Calls : ReceiveReply(c) \/ ReceiveReset(c) \/ TimeOut(c)
    PROVE  SameSent
  <1> USE DEF TypeOK, ServiceTypeOK, SameSent
  <1>1. ASSUME NEW c \in Calls, ReceiveReply(c) \/ ReceiveReset(c) \/ Drop(c)
        PROVE  SameSent
    BY <1>1 DEF ReceiveReply, Reply, ReceiveReset, Hangup, Drop, Move
  <1>2. ASSUME NEW c \in Calls, Work(c) PROVE SameSent
    BY <1>2
    DEF Work, Accept, QueryStep, PipelineHit, PipelineMiss, BuildPipeline,
        BuildRaises, Search, UploadStep, BuildIngestor, NothingToIndex,
        StartIngest, StartDump, IngestReturns, IngestRaises, DumpRaises,
        Finish, Move
  <1>3. CASE Stop
    BY <1>3 DEF Stop
  <1>4. UNCHANGED at => SameSent
    OBVIOUS
  <1> QED
    BY <1>1, <1>2, <1>3, <1>4
    DEF ServiceRuns, StartProcess, Lifespan, LifespanRaises, ToolWrites, TimeOut

-----------------------------------------------------------------------------
(* The query inspector *)

WaitingWasSent == \A c \in waiting : at[c] # "idle"
LastWasSent ==
    \A calls \in {Queries, Uploads} : Last(calls) \in Sent(calls) \cup {None}

(* While queries are made one at a time, the one that is pending is the    *)
(* last one, and its panel is spinning without an error; once it settled,  *)
(* its results or its error are shown.                                     *)
InspectorInv ==
    /\ inspecting => waiting \cap Queries # {}
    /\ ~overlapped =>
          /\ \A q \in waiting \cap Queries :
                q = Last(Queries) /\ inspecting /\ inspectErr = None
          /\ Last(Queries) # None /\ Last(Queries) \notin waiting =>
                \/ inspectErr = Last(Queries)
                \/ inspectErr = None /\ results = Last(Queries)

(* The same of uploads, whose errors clear the result; and the service is  *)
(* at no other upload than the last one.                                   *)
PanelInv ==
    /\ uploading => waiting \cap Uploads # {}
    /\ ~raced =>
          /\ \A u \in waiting \cap Uploads :
                u = Last(Uploads) /\ uploading /\ uploadErr = None
          /\ \A u \in Uploads : InService(u) => u = Last(Uploads)
          /\ Last(Uploads) # None /\ Last(Uploads) \notin waiting =>
                \/ uploadErr = Last(Uploads) /\ uploadRes = None
                \/ uploadErr = None /\ uploadRes = Last(Uploads)

ScreenInv ==
    /\ TypeOK
    /\ SentInOrder
    /\ WaitingWasSent
    /\ LastWasSent
    /\ InspectorInv
    /\ PanelInv

(* The promise of c settles: with results, or with an error. *)
Settles(c) ==
    c \in waiting /\ waiting' = waiting \ {c} /\ (Show(c) \/ ShowError(c))

LEMMA CallsEndOnTheScreen ==
    ASSUME NEW c \in Calls, ReceiveReply(c) \/ ReceiveReset(c) \/ TimeOut(c)
    PROVE  Settles(c) \/ UNCHANGED screen
  BY DEF ReceiveReply, ReceiveReset, TimeOut, Settles

LEMMA InspectorSettles ==
    ASSUME ScreenInv, SameSent, NEW c \in Calls, Settles(c)
    PROVE  InspectorInv'
  <1>1. Last(Queries)' = Last(Queries)
    BY LastStays DEF ScreenInv
  <1>2. CASE c \in Queries
    <2>1. inspecting' = FALSE /\ UNCHANGED overlapped
      BY <1>2 DEF Settles, Show, ShowError
    <2>2. ASSUME ~overlapped
          PROVE  /\ waiting' \cap Queries = {}
                 /\ c = Last(Queries) /\ inspectErr = None
      BY <1>2, <2>2 DEF Settles, ScreenInv, InspectorInv
    <2>3. \/ results' = c /\ UNCHANGED inspectErr
          \/ inspectErr' = c
      BY <1>2 DEF Settles, Show, ShowError
    <2> QED
      BY <1>1, <2>1, <2>2, <2>3 DEF InspectorInv
  <1>3. CASE c \notin Queries
    <2>1. /\ waiting' \cap Queries = waiting \cap Queries
          /\ UNCHANGED inspector
      BY <1>3 DEF Settles, Show, ShowError
    <2>2. Last(Queries) # None /\ Last(Queries) \notin waiting'
             => Last(Queries) \notin waiting
      <3>1. Last(Queries) \in Queries \cup {None}
        BY DEF ScreenInv, LastWasSent, Sent
      <3> QED
        BY <1>3, <3>1 DEF Settles
    <2> QED
      BY <1>1, <2>1, <2>2 DEF ScreenInv, InspectorInv
  <1> QED
    BY <1>2, <1>3

LEMMA InspectorStep == ScreenInv /\ [Next]_vars => InspectorInv'
  <1> SUFFICES ASSUME ScreenInv, [Next]_vars PROVE InspectorInv'
    OBVIOUS
  <1>1. ASSUME NEW q \in Queries, Inspect(q) PROVE InspectorInv'
    <2>1. Last(Queries)' = q
      BY <1>1, MadeIsLast DEF Inspect, ScreenInv
    <2>2. /\ waiting' = waiting \cup {q} /\ inspecting' = TRUE /\ inspectErr' = None
          /\ ~overlapped' => waiting \cap Queries = {}
      BY <1>1 DEF Inspect
    <2> QED
      BY <2>1, <2>2 DEF InspectorInv
  <1>2. ASSUME NEW u \in Uploads, Submit(u) PROVE InspectorInv'
    <2>1. u \notin Queries
      BY CallsDiffer
    <2>2. Last(Queries)' = Last(Queries)
      BY <1>2, <2>1, MadeIsLast DEF Submit, ScreenInv
    <2>3. /\ waiting' = waiting \cup {u} /\ UNCHANGED inspector
          /\ Last(Queries) \in Queries \cup {None}
      BY <1>2 DEF Submit, ScreenInv, LastWasSent, Sent
    <2>4. waiting' \cap Queries = waiting \cap Queries
      BY <2>1, <2>3
    <2> QED
      BY <2>1, <2>2, <2>3, <2>4 DEF ScreenInv, InspectorInv
  <1>3. CASE ServiceRuns \/ UNCHANGED vars
               \/ \E c \in Calls : ReceiveReply(c) \/ ReceiveReset(c) \/ TimeOut(c)
    <2>1. SameSent
      BY <1>3, OthersMakeNoCall DEF ScreenInv
    <2>2. ASSUME NEW c \in Calls, Settles(c) PROVE InspectorInv'
      BY <2>1, <2>2, InspectorSettles
    <2>3. ASSUME UNCHANGED screen PROVE InspectorInv'
      <3>1. Last(Queries)' = Last(Queries)
        BY <2>1, LastStays DEF ScreenInv
      <3> QED
        BY <2>3, <3>1 DEF ScreenInv, InspectorInv
    <2> QED
      BY <1>3, <2>2, <2>3, CallsEndOnTheScreen DEF ServiceRuns
  <1> QED
    BY <1>1, <1>2, <1>3 DEF Next

-----------------------------------------------------------------------------
(* The upload panel *)

(* Nothing but a connection brings a call into service. *)
NoneEnters == \A c \in Calls : InService(c)' => InService(c)

LEMMA OthersEnterNone ==
    ASSUME TypeOK,
           ServiceRuns \/ UNCHANGED vars
             \/ \E c \in Calls : ReceiveReply(c) \/ ReceiveReset(c) \/ TimeOut(c)
    PROVE  NoneEnters
  <1> USE DEF TypeOK, ServiceTypeOK, NoneEnters, InService
  <1>1. ASSUME NEW c \in Calls, ReceiveReply(c) \/ ReceiveReset(c) \/ Drop(c)
        PROVE  NoneEnters
    BY <1>1 DEF ReceiveReply, Reply, ReceiveReset, Hangup, Drop, Move
  <1>2. ASSUME NEW c \in Calls, Work(c) PROVE NoneEnters
    BY <1>2
    DEF Work, Accept, QueryStep, PipelineHit, PipelineMiss, BuildPipeline,
        BuildRaises, Search, UploadStep, BuildIngestor, NothingToIndex,
        StartIngest, StartDump, IngestReturns, IngestRaises, DumpRaises,
        Finish, Move
  <1>3. CASE Stop
    BY <1>3 DEF Stop
  <1>4. UNCHANGED at => NoneEnters
    OBVIOUS
  <1> QED
    BY <1>1, <1>2, <1>3, <1>4
    DEF ServiceRuns, StartProcess, Lifespan, LifespanRaises, ToolWrites, TimeOut

LEMMA PanelSettles ==
    ASSUME ScreenInv, SameSent, NoneEnters, NEW c \in Calls, Settles(c)
    PROVE  PanelInv'
  <1>1. Last(Uploads)' = Last(Uploads)
    BY LastStays DEF ScreenInv
  <1>2. ~raced => \A u \in Uploads : InService(u)' => u = Last(Uploads)
    BY DEF NoneEnters, ScreenInv, PanelInv, Calls
  <1>3. CASE c \in Uploads
    <2>1. c \notin Queries
      BY <1>3, CallsDiffer
    <2>2. uploading' = FALSE /\ UNCHANGED raced
      BY <2>1 DEF Settles, Show, ShowError
    <2>3. ASSUME ~raced
          PROVE  /\ waiting' \cap Uploads = {}
                 /\ c = Last(Uploads) /\ uploadErr = None
      BY <1>3, <2>3 DEF Settles, ScreenInv, PanelInv
    <2>4. \/ uploadRes' = c /\ UNCHANGED uploadErr
          \/ uploadErr' = c /\ uploadRes' = None
      BY <2>1 DEF Settles, Show, ShowError
    <2> QED
      BY <1>1, <1>2, <2>2, <2>3, <2>4 DEF PanelInv
  <1>4. CASE c \notin Uploads
    <2>1. c \in Queries
      BY <1>4 DEF Calls
    <2>2. waiting' \cap Uploads = waiting \cap Uploads /\ UNCHANGED panel
      BY <1>4, <2>1 DEF Settles, Show, ShowError
    <2>3. Last(Uploads) # None /\ Last(Uploads) \notin waiting'
             => Last(Uploads) \notin waiting
      <3>1. Last(Uploads) \in Uploads \cup {None}
        BY DEF ScreenInv, LastWasSent, Sent
      <3> QED
        BY <1>4, <3>1 DEF Settles
    <2> QED
      BY <1>1, <1>2, <2>2, <2>3 DEF ScreenInv, PanelInv
  <1> QED
    BY <1>3, <1>4

LEMMA PanelStep == ScreenInv /\ [Next]_vars => PanelInv'
  <1> SUFFICES ASSUME ScreenInv, [Next]_vars PROVE PanelInv'
    OBVIOUS
  <1>1. ASSUME NEW q \in Queries, Inspect(q) PROVE PanelInv'
    <2>1. q \notin Uploads
      BY CallsDiffer
    <2>2. Last(Uploads)' = Last(Uploads)
      BY <1>1, <2>1, MadeIsLast DEF Inspect, ScreenInv
    <2>3. /\ waiting' = waiting \cup {q} /\ UNCHANGED panel
          /\ Last(Uploads) \in Uploads \cup {None}
      BY <1>1 DEF Inspect, ScreenInv, LastWasSent, Sent
    <2>4. waiting' \cap Uploads = waiting \cap Uploads
      BY <2>1, <2>3
    <2>5. \A u \in Uploads : InService(u)' => InService(u)
      BY <1>1, <2>1
      DEF Inspect, Connect, Move, InService, ScreenInv, TypeOK, ServiceTypeOK, Calls
    <2> QED
      BY <2>1, <2>2, <2>3, <2>4, <2>5 DEF ScreenInv, PanelInv
  <1>2. ASSUME NEW u \in Uploads, Submit(u) PROVE PanelInv'
    <2>1. Last(Uploads)' = u
      BY <1>2, MadeIsLast DEF Submit, ScreenInv
    <2>2. /\ waiting' = waiting \cup {u} /\ uploading' = TRUE /\ uploadErr' = None
          /\ ~raced' => \A w \in Uploads : ~InService(w) /\ w \notin waiting
      BY <1>2 DEF Submit
    <2>3. \A w \in Uploads : w # u /\ InService(w)' => InService(w)
      BY <1>2
      DEF Submit, Connect, Move, InService, ScreenInv, TypeOK, ServiceTypeOK, Calls
    <2> QED
      BY <2>1, <2>2, <2>3 DEF PanelInv
  <1>3. CASE ServiceRuns \/ UNCHANGED vars
               \/ \E c \in Calls : ReceiveReply(c) \/ ReceiveReset(c) \/ TimeOut(c)
    <2>1. SameSent /\ NoneEnters
      BY <1>3, OthersMakeNoCall, OthersEnterNone DEF ScreenInv
    <2>2. ASSUME NEW c \in Calls, Settles(c) PROVE PanelInv'
      BY <2>1, <2>2, PanelSettles
    <2>3. ASSUME UNCHANGED screen PROVE PanelInv'
      <3>1. Last(Uploads)' = Last(Uploads)
        BY <2>1, LastStays DEF ScreenInv
      <3> QED
        BY <2>1, <2>3, <3>1 DEF NoneEnters, ScreenInv, PanelInv, Calls
    <2> QED
      BY <1>3, <2>2, <2>3, CallsEndOnTheScreen DEF ServiceRuns
  <1> QED
    BY <1>1, <1>2, <1>3 DEF Next

LEMMA SentStep == ScreenInv /\ [Next]_vars => (SentInOrder /\ WaitingWasSent /\ LastWasSent)'
  <1> SUFFICES ASSUME ScreenInv, [Next]_vars
               PROVE  (SentInOrder /\ WaitingWasSent /\ LastWasSent)'
    OBVIOUS
  <1>1. ASSUME NEW calls \in {Queries, Uploads}, NEW c \in calls,
               InTurn(c, calls), Connect(c), waiting' = waiting \cup {c}
        PROVE  (SentInOrder /\ WaitingWasSent /\ LastWasSent)'
    <2>1. /\ Last(calls)' = c
          /\ SentInOrder'
          /\ \A other \in {Queries, Uploads} \ {calls} : Last(other)' = Last(other)
      BY <1>1, MadeIsLast DEF ScreenInv
    <2>2. /\ at'[c] # "idle"
          /\ \A d \in Calls : d # c => at'[d] = at[d]
          /\ c \in Calls
      BY <1>1 DEF Connect, Move, ScreenInv, TypeOK, ServiceTypeOK, Calls
    <2>3. WaitingWasSent'
      BY <1>1, <2>2 DEF ScreenInv, TypeOK, WaitingWasSent
    <2>4. LastWasSent'
      <3> SUFFICES ASSUME NEW some \in {Queries, Uploads}
                   PROVE  Last(some)' \in Sent(some)' \cup {None}
        BY DEF LastWasSent
      <3>1. CASE some = calls
        BY <2>1, <2>2, <3>1 DEF Sent
      <3>2. CASE some # calls
        <4>1. Last(some)' = Last(some) /\ Last(some) \in Sent(some) \cup {None}
          BY <2>1, <3>2 DEF ScreenInv, LastWasSent
        <4>2. Sent(some) \subseteq Sent(some)'
          BY <2>2 DEF Sent, Calls
        <4> QED
          BY <4>1, <4>2
      <3> QED
        BY <3>1, <3>2
    <2> QED
      BY <2>1, <2>3, <2>4
  <1>2. CASE ServiceRuns \/ UNCHANGED vars
               \/ \E c \in Calls : ReceiveReply(c) \/ ReceiveReset(c) \/ TimeOut(c)
    <2>1. SameSent
      BY <1>2, OthersMakeNoCall DEF ScreenInv
    <2>2. SentInOrder' /\ \A calls \in {Queries, Uploads} : Last(calls)' = Last(calls)
      BY <2>1, LastStays DEF ScreenInv
    <2>3. waiting' \subseteq waiting
      BY <1>2, CallsEndOnTheScreen DEF ServiceRuns, Settles
    <2>4. WaitingWasSent'
      BY <2>1, <2>3 DEF SameSent, ScreenInv, TypeOK, WaitingWasSent
    <2>5. LastWasSent'
      BY <2>1, <2>2 DEF SameSent, ScreenInv, LastWasSent, Sent, Calls
    <2> QED
      BY <2>2, <2>4, <2>5
  <1> QED
    BY <1>1, <1>2 DEF Next, Inspect, Submit

LEMMA ScreenInvariant ==
    /\ Init => ScreenInv
    /\ ScreenInv /\ [Next]_vars => ScreenInv'
  <1>1. ASSUME Init PROVE ScreenInv
    <2>1. \A c \in Calls : at[c] = "idle"
      BY <1>1 DEF Init, ServiceInit
    <2>2. \A calls \in {Queries, Uploads} : Sent(calls) = {} /\ Last(calls) = None
      BY <2>1 DEF Sent, Last, Calls
    <2>3. SentInOrder /\ WaitingWasSent /\ LastWasSent
      BY <1>1, <2>1, <2>2 DEF Init, SentInOrder, WaitingWasSent, LastWasSent, Calls
    <2>4. InspectorInv /\ PanelInv
      BY <1>1, <2>1, <2>2 DEF Init, InspectorInv, PanelInv, InService, Calls
    <2> QED
      BY <1>1, <2>3, <2>4, TypeInit DEF ScreenInv
  <1> QED
    BY <1>1, TypeStep, SentStep, InspectorStep, PanelStep DEF ScreenInv

-----------------------------------------------------------------------------
(* Reported uploads *)

(* The loop is held by the one upload that is being ingested, and a result *)
(* on the screen is of a call that is over.  While uploads are made one    *)
(* after another, a success that is shown, or on its way, is stored.       *)
LoopIngests ==
    \A u \in Uploads : at[u] \in {"ingest", "dump"} <=> loop = u
ShownIsOver == uploadRes # None => at[uploadRes] = "over"
OnItsWay(u) == at[u] = "dump" \/ (at[u] = "done" /\ status[u] = 200)
SuccessIsStored ==
    ~raced => \A u \in Uploads :
        /\ u = Last(Uploads)
        /\ uploadRes = u \/ OnItsWay(u)
        => Stored(u)

ReportInv ==
    /\ ScreenInv
    /\ LoopIngests
    /\ ShownIsOver
    /\ SuccessIsStored

(* An ingestion that dumps has upserted the last file of each document.    *)
LEMMA DumpedIsStored ==
    ASSUME NEW u \in Uploads, Write(u, Kept(FilesOf[u]))
    PROVE  Stored(u)'
  <1> DEFINE files == FilesOf[u]
  <1> SUFFICES ASSUME NEW i \in Accepted(files), HasChunks(files[i]),
                      \A j \in Accepted(files) :
                          files[j].stem = files[i].stem => j <= i
               PROVE  store'[files[i].stem] = <<u, i>>
    BY DEF Stored
  <1>1. Accepted(files) \subseteq DOMAIN files /\ DOMAIN files \subseteq Nat
    BY FilesType DEF Accepted
  <1>2. files[i].stem \in DocIds
    BY <1>1 DEF DocIds
  <1> DEFINE new == {k \in Kept(files) :
                       files[k].stem = files[i].stem /\ HasChunks(files[k])}
  <1>3. new = {i}
    <2>1. i \in new
      BY DEF Kept
    <2>2. ASSUME NEW k \in new PROVE k = i
      <3>1. k \in Accepted(files) /\ files[k].stem = files[i].stem
        BY DEF Kept
      <3>2. i <= k /\ k <= i
        BY <3>1 DEF Kept
      <3> QED
        BY <1>1, <3>1, <3>2
    <2> QED
      BY <2>1, <2>2
  <1>4. store'[files[i].stem] =
           IF new = {} THEN store[files[i].stem] ELSE <<u, CHOOSE k \in new : TRUE>>
    BY <1>2 DEF Write
  <1> HIDE DEF new, files
  <1> QED
    BY <1>3, <1>4

LEMMA LoopStep == ReportInv /\ [Next]_vars => LoopIngests'
  <1> SUFFICES ASSUME ReportInv, [Next]_vars PROVE LoopIngests'
    OBVIOUS
  <1> USE DEF ReportInv, ScreenInv, TypeOK, ServiceTypeOK, LoopIngests, Calls
  <1>1. ASSUME NEW c \in Calls,
               Connect(c) \/ Accept(c) \/ Reply(c) \/ Hangup(c) \/ Drop(c)
        PROVE  LoopIngests'
    BY <1>1 DEF Connect, Accept, Reply, Hangup, Drop, Move
  <1>2. ASSUME NEW q \in Queries, QueryStep(q) PROVE LoopIngests'
    <2>1. UNCHANGED loop /\ \A u \in Uploads : at'[u] = at[u]
      BY <1>2, CallsDiffer
      DEF QueryStep, PipelineHit, PipelineMiss, BuildPipeline, BuildRaises,
          Search, Finish, Move
    <2> QED
      BY <2>1
  <1>3. ASSUME NEW u \in Uploads, UploadStep(u) PROVE LoopIngests'
    <2>1. CASE BuildIngestor(u) \/ NothingToIndex(u)
      BY <2>1 DEF BuildIngestor, NothingToIndex, Finish, Move
    <2>2. CASE StartIngest(u)
      BY <2>2, CallsDiffer DEF StartIngest, Move
    <2>3. CASE IngestReturns(u) \/ IngestRaises(u) \/ DumpRaises(u)
      BY <2>3, CallsDiffer DEF IngestReturns, IngestRaises, DumpRaises, Finish, Move
    <2>4. CASE StartDump(u)
      BY <2>4, CallsDiffer DEF StartDump, Move
    <2> QED
      BY <1>3, <2>1, <2>2, <2>3, <2>4 DEF UploadStep
  <1>4. CASE StartProcess \/ Lifespan \/ LifespanRaises \/ ToolWrites
               \/ UNCHANGED serviceVars
    BY <1>4 DEF StartProcess, Lifespan, LifespanRaises, ToolWrites
  <1>5. CASE Stop
    BY <1>5, CallsDiffer DEF Stop
  <1> QED
    BY <1>1, <1>2, <1>3, <1>4, <1>5, StepsOfTheService DEF ServiceStep, Work

(* A result is shown when its call is over, and no step leads from there.  *)
LEMMA ShownStep == ReportInv /\ [Next]_vars => ShownIsOver'
  <1> SUFFICES ASSUME ReportInv, [Next]_vars PROVE ShownIsOver'
    OBVIOUS
  <1>1. \A c \in Calls : at[c] = "over" => at'[c] = "over"
    <2> USE DEF ReportInv, ScreenInv, TypeOK, ServiceTypeOK
    <2>1. ASSUME NEW c \in Calls,
                 Connect(c) \/ Work(c) \/ Reply(c) \/ Hangup(c) \/ Drop(c)
          PROVE  \A d \in Calls : at[d] = "over" => at'[d] = "over"
      BY <2>1
      DEF Connect, Reply, Hangup, Drop, Work, Accept, QueryStep, PipelineHit,
          PipelineMiss, BuildPipeline, BuildRaises, Search, UploadStep,
          BuildIngestor, NothingToIndex, StartIngest, StartDump, IngestReturns,
          IngestRaises, DumpRaises, Finish, Move
    <2>2. CASE Stop
      BY <2>2 DEF Stop
    <2> QED
      BY <2>1, <2>2, StepsOfTheService
      DEF ServiceStep, StartProcess, Lifespan, LifespanRaises, ToolWrites
  <1>2. uploadRes \in Calls \cup {None}
    BY DEF ReportInv, ScreenInv, TypeOK, Calls
  <1>3. CASE uploadRes' \in {uploadRes, None}
    BY <1>1, <1>2, <1>3 DEF ReportInv, ShownIsOver
  <1>4. CASE uploadRes' \notin {uploadRes, None}
    <2>1. PICK c \in Calls : ReceiveReply(c) \/ ReceiveReset(c) \/ TimeOut(c)
      BY <1>4 DEF Next, Inspect, Submit, ServiceRuns
    <2>2. ReceiveReply(c) /\ uploadRes' = c
      BY <1>4, <2>1 DEF ReceiveReply, ReceiveReset, TimeOut, Show, ShowError
    <2>3. at'[c] = "over"
      BY <2>2 DEF ReceiveReply, Reply, Move, ReportInv, ScreenInv, TypeOK, ServiceTypeOK
    <2> QED
      BY <2>2, <2>3 DEF ShownIsOver
  <1> QED
    BY <1>3, <1>4

(* While uploads are made one after another, only the last one can be in   *)
(* the middle of an ingestion, so nothing overwrites what is reported.     *)
LEMMA SuccessStep == ReportInv /\ [Next]_vars => SuccessIsStored'
  <1> SUFFICES ASSUME ReportInv, [Next]_vars, ~raced',
                      NEW u \in Uploads, u = Last(Uploads)',
                      uploadRes' = u \/ OnItsWay(u)'
               PROVE  Stored(u)'
    BY DEF SuccessIsStored
  <1> USE DEF ReportInv, ScreenInv, TypeOK, ServiceTypeOK, Calls
  <1>1. u # None
    BY CallsDiffer
  <1>2. Stored(u) /\ UNCHANGED store => Stored(u)'
    BY DEF Stored
  <1>3. CASE \E q \in Queries : Inspect(q)
    <2>1. PICK q \in Queries : Inspect(q)
      BY <1>3
    <2>2. q # u /\ Queries # Uploads
      BY CallsDiffer
    <2>3. Last(Uploads)' = Last(Uploads)
      BY <2>1, <2>2, MadeIsLast DEF Inspect
    <2>4. UNCHANGED <<raced, uploadRes, store, status>> /\ at'[u] = at[u]
      BY <2>1, <2>2 DEF Inspect, Connect, Move
    <2> QED
      BY <1>2, <2>3, <2>4 DEF SuccessIsStored, OnItsWay
  <1>4. CASE \E w \in Uploads : Submit(w)
    <2>1. PICK w \in Uploads : Submit(w)
      BY <1>4
    <2>2. w = u
      BY <2>1, MadeIsLast DEF Submit
    <2>3. /\ at[u] = "idle" /\ at'[u] \notin {"dump", "done"}
          /\ uploadRes' = uploadRes
      BY <2>1, <2>2 DEF Submit, Connect, Move
    <2> QED
      BY <1>1, <2>3 DEF ShownIsOver, OnItsWay
  <1>5. CASE ServiceRuns \/ UNCHANGED vars
               \/ \E c \in Calls : ReceiveReply(c) \/ ReceiveReset(c) \/ TimeOut(c)
    <2>1. Last(Uploads) = u
      BY <1>5, OthersMakeNoCall, LastStays
    <2>2. ~raced
      BY <1>5 DEF ReceiveReply, ReceiveReset, TimeOut, ServiceRuns, Show, ShowError
    <2>3. /\ OnItsWay(u) => Stored(u)
          /\ uploadRes = u => Stored(u)
      BY <2>1, <2>2, Zenon DEF SuccessIsStored
    <2>4. \A w \in Uploads : loop = w => w = u /\ uploadRes # u
      BY <1>1, <2>1, <2>2 DEF PanelInv, InService, LoopIngests, ShownIsOver
    <2>5. ASSUME NEW c \in Calls, ReceiveReply(c) PROVE Stored(u)'
      <3>1. uploadRes' = u => uploadRes = u \/ (c = u /\ status[u] = 200)
        BY <1>1, <2>5 DEF ReceiveReply, Show, ShowError
      <3>2. UNCHANGED store /\ at[c] = "done"
        BY <2>5 DEF ReceiveReply, Reply, Move
      <3>3. OnItsWay(u)' => OnItsWay(u)
        BY <2>5 DEF ReceiveReply, Reply, Move, OnItsWay
      <3> QED
        BY <1>2, <2>3, <3>1, <3>2, <3>3 DEF OnItsWay
    <2>6. ASSUME NEW c \in Calls, ReceiveReset(c) \/ TimeOut(c) PROVE Stored(u)'
      <3>1. uploadRes' = u => uploadRes = u
        BY <1>1, <2>6 DEF ReceiveReset, TimeOut, ShowError
      <3>2. UNCHANGED store /\ (OnItsWay(u)' => OnItsWay(u))
        BY <2>6 DEF ReceiveReset, Hangup, TimeOut, Move, OnItsWay
      <3> QED
        BY <1>2, <2>3, <3>1, <3>2
    <2>7. ASSUME NEW w \in Uploads, UploadStep(w), UNCHANGED screen PROVE Stored(u)'
      <3>1. CASE BuildIngestor(w) \/ StartIngest(w) \/ NothingToIndex(w)
        <4>1. UNCHANGED <<store, uploadRes>> /\ (OnItsWay(u)' => OnItsWay(u))
          BY <2>7, <3>1
          DEF BuildIngestor, StartIngest, NothingToIndex, Finish, Move, OnItsWay
        <4> QED
          BY <1>2, <2>3, <4>1
      <3>2. CASE StartDump(w)
        <4>1. w = u
          BY <2>4, <3>2 DEF StartDump, Move, LoopIngests
        <4> QED
          BY <3>2, <4>1, DumpedIsStored DEF StartDump
      <3>3. CASE IngestReturns(w) \/ DumpRaises(w)
        <4>1. w = u /\ at[u] = "dump" /\ UNCHANGED store
          BY <2>4, <3>3 DEF IngestReturns, DumpRaises, Finish, Move, LoopIngests
        <4> QED
          BY <1>2, <2>3, <4>1 DEF OnItsWay
      <3>4. CASE IngestRaises(w)
        <4>1. w = u /\ uploadRes # u
          BY <2>4, <3>4 DEF IngestRaises, Finish, Move, LoopIngests
        <4>2. status'[u] = 500 /\ at'[u] = "done"
          BY <3>4, <4>1 DEF IngestRaises, Finish, Move
        <4> QED
          BY <2>7, <4>1, <4>2 DEF OnItsWay
      <3> QED
        BY <2>7, <3>1, <3>2, <3>3, <3>4 DEF UploadStep
    <2>8. ASSUME NEW q \in Queries, QueryStep(q), UNCHANGED screen PROVE Stored(u)'
      <3>1. q # u
        BY CallsDiffer
      <3>2. UNCHANGED <<store, uploadRes>> /\ (OnItsWay(u)' => OnItsWay(u))
        BY <2>8, <3>1
        DEF QueryStep, PipelineHit, PipelineMiss, BuildPipeline, BuildRaises,
            Search, Finish, Move, OnItsWay
      <3> QED
        BY <1>2, <2>3, <3>2
    <2>9. ASSUME NEW c \in Calls, Accept(c) \/ Drop(c), UNCHANGED screen
          PROVE  Stored(u)'
      <3>1. UNCHANGED <<store, uploadRes>> /\ (OnItsWay(u)' => OnItsWay(u))
        BY <2>9 DEF Accept, Drop, Move, OnItsWay
      <3> QED
        BY <1>2, <2>3, <3>1
    <2>10. ASSUME Stop, UNCHANGED screen PROVE Stored(u)'
      <3>1. at'[u] \notin {"dump", "done"}
        BY <2>10 DEF Stop
      <3>2. uploadRes = u
        BY <2>10, <3>1 DEF OnItsWay
      <3>3. loop = None
        BY <2>4, <3>2
      <3> QED
        BY <1>2, <2>3, <2>10, <3>2, <3>3 DEF Stop
    <2>11. CASE UNCHANGED vars
      BY <1>2, <2>3, <2>11 DEF OnItsWay
    <2>12. ASSUME StartProcess \/ Lifespan \/ LifespanRaises \/ ToolWrites,
                  UNCHANGED screen
           PROVE  Stored(u)'
      BY <1>2, <2>3, <2>12
      DEF StartProcess, Lifespan, LifespanRaises, ToolWrites, OnItsWay
    <2> QED
      BY <1>5, <2>5, <2>6, <2>7, <2>8, <2>9, <2>10, <2>11, <2>12
      DEF ServiceRuns, Work
  <1> QED
    BY <1>3, <1>4, <1>5 DEF Next

-----------------------------------------------------------------------------
(* Theorems *)

(* The invariant of screen and stored uploads holds in every reachable     *)
(* state, for any calls, files, deployments and number of stops.           *)
THEOREM DashboardInvariance == Spec => []ReportInv
  <1>1. Init => ReportInv
    <2>1. Init => LoopIngests /\ ShownIsOver /\ SuccessIsStored
      BY CallsDiffer
      DEF Init, ServiceInit, LoopIngests, ShownIsOver, SuccessIsStored, OnItsWay,
          Calls
    <2> QED
      BY <2>1, ScreenInvariant DEF ReportInv
  <1>2. ReportInv /\ [Next]_vars => ReportInv'
    BY ScreenInvariant, LoopStep, ShownStep, SuccessStep
    DEF ReportInv, ScreenInv
  <1> QED
    BY <1>1, <1>2, PTL DEF Spec

(* Every variable of service and dashboard keeps its type. *)
THEOREM DashboardTypes == Spec => []TypeOK
  BY DashboardInvariance, PTL DEF ReportInv, ScreenInv

(* A spinner turns only while a call of its panel is pending. *)
THEOREM SpinnerSafe == Spec => []SpinnerMeansPending
  <1>1. ReportInv => SpinnerMeansPending
    BY DEF ReportInv, ScreenInv, InspectorInv, PanelInv, SpinnerMeansPending
  <1> QED
    BY <1>1, DashboardInvariance, PTL

(* Calls made one at a time leave the outcome of the last one on screen. *)
THEOREM ScreenSafe == Spec => []SerialScreenIsLast
  <1>1. ReportInv => SerialScreenIsLast
    BY DEF ReportInv, ScreenInv, InspectorInv, PanelInv, SerialScreenIsLast
  <1> QED
    BY <1>1, DashboardInvariance, PTL

(* While uploads are made one after another, the last one, if it is shown  *)
(* as indexed, is in the indexes.  Nothing is said of uploads that were    *)
(* followed or overlapped by another.                                      *)
THEOREM ReportSafe == Spec => []ReportedIsIndexed
  <1>1. ReportInv => ReportedIsIndexed
    <2> SUFFICES ASSUME ReportInv, ~raced, uploadRes # None,
                        uploadRes = Last(Uploads)
                 PROVE  Stored(uploadRes)
      BY DEF ReportedIsIndexed
    <2>1. uploadRes \in Uploads
      BY DEF ReportInv, ScreenInv, TypeOK
    <2>2. SuccessIsStored
      BY DEF ReportInv
    <2> QED
      BY <2>1, <2>2, Zenon DEF SuccessIsStored
  <1> QED
    BY <1>1, DashboardInvariance, PTL

=============================================================================
