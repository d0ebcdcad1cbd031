------------------------------- MODULE Dashboard -------------------------------
(***************************************************************************)
(* The query inspector and the upload panel of the dashboard               *)
(* (dashboard/src/App.tsx), in front of one Service.  A call of fetch()    *)
(* settles with a reply, with a reset connection, or with the abort of     *)
(* client.ts after its timeout; the service goes on with a call its client *)
(* gave up.  Neither panel keeps a second call from starting: the Enter    *)
(* key and the drop zone work while the first one is pending.              *)
(***************************************************************************)
EXTENDS Service

CONSTANTS
    Order,    \* [Calls -> Nat], in which queries and uploads are made
    MaxCalls  \* bound of the model: calls made in one behaviour

ASSUME OrderType ==
    /\ Order \in [Calls -> Nat]
    /\ \A calls \in {Queries, Uploads} : \A c, d \in calls :
          Order[c] = Order[d] => c = d

VARIABLES
    waiting,      \* the calls whose promise is pending
    inspecting,   \* isInspecting
    results,      \* the query inspectionResults are from, or None
    inspectErr,   \* the query inspectError is from, or None
    uploading,    \* isUploading
    uploadRes,    \* the upload uploadResult is from, or None
    uploadErr,    \* the upload uploadError is from, or None
    overlapped,   \* history: a query was sent while one was pending
    raced         \* history: an upload was sent before the service or the
                  \* dashboard had done with another

inspector == <<inspecting, results, inspectErr, overlapped>>
panel == <<uploading, uploadRes, uploadErr, raced>>
screen == <<waiting, inspector, panel>>
vars == <<serviceVars, screen>>

-----------------------------------------------------------------------------
Init ==
    /\ ServiceInit
    /\ waiting = {}
    /\ inspecting = FALSE
    /\ results = None
    /\ inspectErr = None
    /\ uploading = FALSE
    /\ uploadRes = None
    /\ uploadErr = None
    /\ overlapped = FALSE
    /\ raced = FALSE

Sent(calls) == {c \in calls : at[c] # "idle"}

(* The call of a panel made last, None before the first. *)
Last(calls) ==
    IF Sent(calls) = {} THEN None
    ELSE CHOOSE c \in Sent(calls) : \A d \in Sent(calls) : Order[d] <= Order[c]

InTurn(c, calls) ==
    /\ Cardinality(Sent(Calls)) < MaxCalls
    /\ \A d \in calls : Order[d] < Order[c] => at[d] # "idle"

(* handleInspect up to its promise. *)
Inspect(q) ==
    /\ InTurn(q, Queries)
    /\ Connect(q)
    /\ waiting' = waiting \cup {q}
    /\ inspecting' = TRUE
    /\ inspectErr' = None
    /\ overlapped' = (overlapped \/ waiting \cap Queries # {})
    /\ UNCHANGED <<results, panel>>

(* handleUpload up to its await. *)
Submit(u) ==
    /\ InTurn(u, Uploads)
    /\ Connect(u)
    /\ waiting' = waiting \cup {u}
    /\ uploading' = TRUE
    /\ uploadErr' = None
    /\ raced' = (raced \/ \E w \in Uploads : InService(w) \/ w \in waiting)
    /\ UNCHANGED <<uploadRes, inspector>>

(* What then() and the end of try put on the screen. *)
Show(c) ==
    IF c \in Queries
    THEN /\ results' = c
         /\ inspecting' = FALSE
         /\ UNCHANGED <<inspectErr, overlapped, panel>>
    ELSE /\ uploadRes' = c
         /\ uploading' = FALSE
         /\ UNCHANGED <<uploadErr, raced, inspector>>

(* Mutant: catch() leaves the spinner on. *)
ShowErrorAndSpin(c) ==
    IF c \in Queries
    THEN /\ inspectErr' = c
         /\ UNCHANGED <<inspecting, results, overlapped, panel>>
    ELSE /\ uploadErr' = c
         /\ uploadRes' = None
         /\ uploading' = FALSE
         /\ UNCHANGED <<raced, inspector>>

(* Mutant: a failed upload leaves the last result on the screen. *)
ShowErrorBesideResult(c) ==
    IF c \in Queries
    THEN /\ inspectErr' = c
         /\ inspecting' = FALSE
         /\ UNCHANGED <<results, overlapped, panel>>
    ELSE /\ uploadErr' = c
         /\ uploading' = FALSE
         /\ UNCHANGED <<uploadRes, raced, inspector>>

(* What catch() puts there: a failed query leaves the last results, a      *)
(* failed upload clears the last one.                                      *)
ShowError(c) ==
    IF c \in Queries
    THEN /\ inspectErr' = c
         /\ inspecting' = FALSE
         /\ UNCHANGED <<results, overlapped, panel>>
    ELSE /\ uploadErr' = c
         /\ uploadRes' = None
         /\ uploading' = FALSE
         /\ UNCHANGED <<raced, inspector>>

(* A reply arrives; apiFetch throws on a status that is not 2xx.  Nobody   *)
(* reads the reply to a call that was given up.                            *)
ReceiveReply(c) ==
    /\ Reply(c)
    /\ waiting' = waiting \ {c}
    /\ IF c \notin waiting
       THEN UNCHANGED <<inspector, panel>>
       ELSE IF status[c] = 200 THEN Show(c) ELSE ShowError(c)

(* The connection was refused or reset. *)
ReceiveReset(c) ==
    /\ c \in waiting
    /\ Hangup(c)
    /\ waiting' = waiting \ {c}
    /\ ShowError(c)

(* The timer of apiFetch aborts the call. *)
TimeOut(c) ==
    /\ c \in waiting
    /\ at[c] # "reset"
    /\ waiting' = waiting \ {c}
    /\ ShowError(c)
    /\ UNCHANGED serviceVars

ServiceRuns ==
    /\ \/ StartProcess
       \/ Lifespan
       \/ LifespanRaises
       \/ Stop
       \/ ToolWrites
       \/ \E c \in Calls : Work(c)
       \/ \E c \in Calls \ waiting : Drop(c)
    /\ UNCHANGED screen

Next ==
    \/ \E q \in Queries : Inspect(q)
    \/ \E u \in Uploads : Submit(u)
    \/ \E c \in Calls : ReceiveReply(c) \/ ReceiveReset(c) \/ TimeOut(c)
    \/ ServiceRuns

Spec == Init /\ [][Next]_vars

(* The service goes on while it has something to do: threads are           *)
(* scheduled, calls into Qdrant, Redis and the model hub end, and the loop *)
(* runs what is ready.                                                     *)
Fairness ==
    WF_vars(\E c \in Calls : (Work(c) /\ UNCHANGED screen) \/ ReceiveReply(c))

FairSpec == Spec /\ Fairness

-----------------------------------------------------------------------------
TypeOK ==
    /\ ServiceTypeOK
    /\ waiting \subseteq Calls
    /\ {inspecting, uploading, overlapped, raced} \subseteq BOOLEAN
    /\ {results, inspectErr} \subseteq Queries \cup {None}
    /\ {uploadRes, uploadErr} \subseteq Uploads \cup {None}

(* Each document of an upload that has text is in the indexes as the last  *)
(* file of that name said.                                                 *)
Stored(u) ==
    LET files == FilesOf[u] IN
    \A i \in Accepted(files) :
        /\ HasChunks(files[i])
        /\ \A j \in Accepted(files) : files[j].stem = files[i].stem => j <= i
        => store[files[i].stem] = <<u, i>>

(* An upload the panel reports as indexed is stored, and no older upload   *)
(* has taken its place - as long as nobody sent an upload while the        *)
(* service was still at another, one given up by the client included.      *)
ReportedIsIndexed ==
    ~raced /\ uploadRes # None /\ uploadRes = Last(Uploads) => Stored(uploadRes)

(* A spinner turns only while a call is pending, whichever way calls end,  *)
(* and for calls made one at a time it turns all that while.               *)
SpinnerMeansPending ==
    /\ inspecting => waiting \cap Queries # {}
    /\ uploading => waiting \cap Uploads # {}
    /\ ~overlapped /\ waiting \cap Queries # {} => inspecting
    /\ ~raced /\ waiting \cap Uploads # {} => uploading

(* For calls made one at a time, a settled screen tells what became of the *)
(* last one: its results or its error, and never the result of an upload   *)
(* beside the error of another.                                            *)
SerialScreenIsLast ==
    LET q == Last(Queries)
        u == Last(Uploads)
    IN  /\ ~overlapped /\ q # None /\ q \notin waiting =>
               \/ inspectErr = q
               \/ inspectErr = None /\ results = q
        /\ ~raced /\ u # None /\ u \notin waiting =>
               \/ uploadErr = u /\ uploadRes = None
               \/ uploadErr = None /\ uploadRes = u

(* Whatever holds the event loop, and whoever gave up waiting: a call that *)
(* reached the service is answered, dropped unread, or ends with the       *)
(* process.                                                                *)
AcceptedAreAnswered ==
    \A c \in Calls : InService(c) ~> at[c] \in {"reset", "over"}

=============================================================================
