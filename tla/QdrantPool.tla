------------------------------ MODULE QdrantPool ------------------------------
(***************************************************************************)
(* The pool of Qdrant clients and the retry loop around each request       *)
(* (QdrantClientPool and retry_with_backoff, src/ingest/dense_index.py).   *)
(*                                                                         *)
(* The API serves up to forty requests in threads of their own over eight  *)
(* clients.  A DenseIndex operation borrows one client, makes one or more  *)
(* requests with it, and returns it in a finally clause; an operation that *)
(* retries keeps the client while it sleeps.  close() takes the idle       *)
(* clients out one by one, and may run while others are lent.              *)
(***************************************************************************)
EXTENDS Integers, Sequences, FiniteSets

CONSTANTS
    Clients,     \* the clients the pool created
    Threads,     \* the threads that use the dense index
    Ops,         \* [calls, retried]: the operations of DenseIndex
    MaxRetries,  \* attempts of retry_with_backoff
    MaxOps,      \* bound of the model: operations per thread
    None         \* no client

ASSUME ClientsFinite == IsFiniteSet(Clients)
ASSUME NoneIsNoClient == None \notin Clients
ASSUME OpsType == Ops # {} /\ Ops \subseteq [calls : Nat \ {0}, retried : BOOLEAN]
ASSUME MaxRetriesPositive == MaxRetries \in Nat \ {0}
ASSUME MaxOpsNat == MaxOps \in Nat

VARIABLES
    idle,     \* Seq(Clients), the queue
    held,     \* [Threads -> Clients \cup {None}], the client a thread has
    pc,       \* [Threads -> Pcs]
    op,       \* [Threads -> Ops], the operation a thread runs
    calls,    \* [Threads -> Nat], requests of it that are answered
    attempt,  \* [Threads -> Nat], attempt of the current request
    ops,      \* [Threads -> Nat], operations begun
    closer,   \* "open", "checked", "closed" or "raised": the call of close()
    closed    \* SUBSET Clients, clients close() has closed

threadVars == <<held, pc, op, calls, attempt, ops>>
closeVars == <<closer, closed>>
vars == <<idle, threadVars, closeVars>>

Running == {"calling", "sleeping"}
Pcs == {"out", "waiting", "ok", "exhausted", "raised"} \cup Running

Elements(s) == {s[i] : i \in 1..Len(s)}
Distinct(s) == \A i, j \in 1..Len(s) : s[i] = s[j] => i = j

(* The clients in the queue, and those lent to threads. *)
IdleSet == Elements(idle)
Lent == {held[t] : t \in Threads} \ {None}

-----------------------------------------------------------------------------
(* The pool is created full, each client in the queue once. *)
Init ==
    /\ idle \in {s \in [1..Cardinality(Clients) -> Clients] :
                    Distinct(s) /\ Elements(s) = Clients}
    /\ held = [t \in Threads |-> None]
    /\ pc = [t \in Threads |-> "out"]
    /\ op = [t \in Threads |-> CHOOSE o \in Ops : TRUE]
    /\ calls = [t \in Threads |-> 0]
    /\ attempt = [t \in Threads |-> 0]
    /\ ops = [t \in Threads |-> 0]
    /\ closer = "open"
    /\ closed = {}

(* An operation begins by waiting for a client. *)
Begin(t) ==
    /\ pc[t] \notin Running \cup {"waiting"}
    /\ ops[t] < MaxOps
    /\ pc' = [pc EXCEPT ![t] = "waiting"]
    /\ ops' = [ops EXCEPT ![t] = @ + 1]
    /\ \E o \in Ops : op' = [op EXCEPT ![t] = o]
    /\ UNCHANGED <<idle, held, calls, attempt, closeVars>>

(* Mutant: the client is read, and removed from the queue by nobody. *)
AcquirePeek(t) ==
    /\ pc[t] = "waiting"
    /\ idle # <<>>
    /\ held' = [held EXCEPT ![t] = Head(idle)]
    /\ pc' = [pc EXCEPT ![t] = "calling"]
    /\ calls' = [calls EXCEPT ![t] = 0]
    /\ attempt' = [attempt EXCEPT ![t] = 1]
    /\ UNCHANGED <<idle, op, ops, closeVars>>

Acquire(t) ==
    /\ pc[t] = "waiting"
    /\ idle # <<>>
    /\ idle' = Tail(idle)
    /\ held' = [held EXCEPT ![t] = Head(idle)]
    /\ pc' = [pc EXCEPT ![t] = "calling"]
    /\ calls' = [calls EXCEPT ![t] = 0]
    /\ attempt' = [attempt EXCEPT ![t] = 1]
    /\ UNCHANGED <<op, ops, closeVars>>

(* Mutant: an operation waits for a client without a timeout. *)
ExhaustedNever(t) ==
    /\ pc[t] = "waiting"
    /\ FALSE
    /\ UNCHANGED vars

(* The acquire timeout passed; the queue is looked at once more. *)
Exhausted(t) ==
    /\ pc[t] = "waiting"
    /\ idle = <<>>
    /\ pc' = [pc EXCEPT ![t] = "exhausted"]
    /\ UNCHANGED <<idle, held, op, calls, attempt, ops, closeVars>>

(* The with statement ends: the client goes back, the operation is over. *)
Release(t, outcome) ==
    /\ idle' = Append(idle, held[t])
    /\ held' = [held EXCEPT ![t] = None]
    /\ pc' = [pc EXCEPT ![t] = outcome]

(* A request is answered; the last one ends the operation. *)
CallSucceeds(t) ==
    /\ pc[t] = "calling"
    /\ calls' = [calls EXCEPT ![t] = @ + 1]
    /\ \/ /\ calls[t] + 1 < op[t].calls
          /\ attempt' = [attempt EXCEPT ![t] = 1]
          /\ UNCHANGED <<idle, held, pc>>
       \/ /\ calls[t] + 1 = op[t].calls
          /\ Release(t, "ok")
          /\ UNCHANGED attempt
    /\ UNCHANGED <<op, ops, closeVars>>

(* A retried error with attempts left: back off, holding the client. *)
CallRetries(t) ==
    /\ pc[t] = "calling"
    /\ op[t].retried
    /\ attempt[t] < MaxRetries
    /\ pc' = [pc EXCEPT ![t] = "sleeping"]
    /\ UNCHANGED <<idle, held, op, calls, attempt, ops, closeVars>>

(* Mutant: no finally, an exception keeps the client. *)
CallRaisesAndKeeps(t) ==
    /\ pc[t] = "calling"
    /\ pc' = [pc EXCEPT ![t] = "raised"]
    /\ UNCHANGED <<idle, held, op, calls, attempt, ops, closeVars>>

(* An error nothing retries, or the last attempt. *)
CallRaises(t) ==
    /\ pc[t] = "calling"
    /\ Release(t, "raised")
    /\ UNCHANGED <<op, calls, attempt, ops, closeVars>>

Wake(t) ==
    /\ pc[t] = "sleeping"
    /\ pc' = [pc EXCEPT ![t] = "calling"]
    /\ attempt' = [attempt EXCEPT ![t] = @ + 1]
    /\ UNCHANGED <<idle, held, op, calls, ops, closeVars>>

(* close(): look whether a client is idle ... *)
CloseChecks ==
    /\ closer = "open"
    /\ closer' = IF idle = <<>> THEN "closed" ELSE "checked"
    /\ UNCHANGED <<idle, threadVars, closed>>

(* ... and take it without waiting; a thread may have been faster. *)
CloseTakes ==
    /\ closer = "checked"
    /\ \/ /\ idle # <<>>
          /\ closed' = closed \cup {Head(idle)}
          /\ idle' = Tail(idle)
          /\ closer' = "open"
       \/ /\ idle = <<>>
          /\ closer' = "raised"
          /\ UNCHANGED <<idle, closed>>
    /\ UNCHANGED threadVars

Step(t) ==
    \/ Acquire(t)
    \/ Exhausted(t)
    \/ CallSucceeds(t)
    \/ CallRetries(t)
    \/ CallRaises(t)
    \/ Wake(t)

Next ==
    \/ \E t \in Threads : Begin(t) \/ Step(t)
    \/ CloseChecks
    \/ CloseTakes

Spec == Init /\ [][Next]_vars

(* Threads are scheduled, requests have a timeout, and queue.get returns   *)
(* when its own timeout has passed.                                        *)
FairSpec == Spec /\ \A t \in Threads : WF_vars(Step(t))

-----------------------------------------------------------------------------
TypeOK ==
    /\ idle \in Seq(Clients)
    /\ held \in [Threads -> Clients \cup {None}]
    /\ pc \in [Threads -> Pcs]
    /\ op \in [Threads -> Ops]
    /\ calls \in [Threads -> Nat]
    /\ attempt \in [Threads -> Nat]
    /\ ops \in [Threads -> 0..MaxOps]
    /\ closer \in {"open", "checked", "closed", "raised"}
    /\ closed \subseteq Clients

(* A client is never in two places: twice in the queue, lent to two        *)
(* threads, lent while idle, or lent or idle after close() closed it.      *)
OneOwner ==
    /\ Distinct(idle)
    /\ \A t, u \in Threads : held[t] = held[u] /\ held[t] # None => t = u
    /\ IdleSet \cap Lent = {}
    /\ closed \cap (IdleSet \cup Lent) = {}

(* No client is lost: whatever an operation raises, each client is in the  *)
(* queue, with a thread that is using it, or closed.                       *)
NoLeak ==
    /\ Clients = IdleSet \cup Lent \cup closed
    /\ \A t \in Threads : held[t] # None <=> pc[t] \in Running

(* A thread gives up waiting only while every client that is not closed is *)
(* in use by another thread.                                               *)
ExhaustedMeansBusy ==
    [][\A t \in Threads :
          pc[t] = "waiting" /\ pc'[t] = "exhausted" =>
              Clients \ closed =
                  {held[u] : u \in {v \in Threads \ {t} : pc[v] \in Running}}]_vars

(* No request is attempted more often than the retry loop allows, and an   *)
(* operation that does not retry attempts each request once.               *)
AttemptsBounded ==
    \A t \in Threads : pc[t] \in Running =>
        attempt[t] \in 1..(IF op[t].retried THEN MaxRetries ELSE 1)

(* An operation that began ends, with its result or with an exception,     *)
(* however many threads compete for however few clients.                   *)
OpsEnd ==
    \A t \in Threads :
        pc[t] \in Running \cup {"waiting"} ~> pc[t] \in {"ok", "exhausted", "raised"}

-----------------------------------------------------------------------------
(* The strengthening QdrantPoolProofs proves inductive. *)

(* The current attempt is one the retry loop may still make. *)
AttemptsInv ==
    /\ AttemptsBounded
    /\ \A t \in Threads :
          pc[t] = "sleeping" => op[t].retried /\ attempt[t] < MaxRetries

PoolInv == TypeOK /\ OneOwner /\ NoLeak /\ AttemptsInv

=============================================================================
