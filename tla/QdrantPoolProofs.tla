--------------------------- MODULE QdrantPoolProofs ---------------------------
(***************************************************************************)
(* Proofs about QdrantPool for any number of clients, threads, operations  *)
(* and retries: no client is ever in two places and none is lost, whatever *)
(* the operations raise and whenever close() runs.                         *)
(***************************************************************************)
EXTENDS QdrantPool, FiniteSetTheorems, TLAPS

-----------------------------------------------------------------------------
(* The queue *)

(* Taking the head leaves the other elements, each still there once. *)
LEMMA TailElements ==
    ASSUME NEW s \in Seq(Clients), s # <<>>, Distinct(s)
    PROVE  /\ Tail(s) \in Seq(Clients)
           /\ Head(s) \in Clients
           /\ Elements(s) = Elements(Tail(s)) \cup {Head(s)}
           /\ Head(s) \notin Elements(Tail(s))
           /\ Distinct(Tail(s))
  <1>1. /\ Tail(s) \in Seq(Clients) /\ Len(Tail(s)) = Len(s) - 1
        /\ Len(s) \in Nat /\ Len(s) >= 1 /\ Head(s) = s[1]
        /\ \A i \in 1..Len(Tail(s)) : Tail(s)[i] = s[i + 1]
    OBVIOUS
  <1>2. Elements(s) \subseteq Elements(Tail(s)) \cup {Head(s)}
    <2> SUFFICES ASSUME NEW i \in 1..Len(s)
                 PROVE  s[i] \in Elements(Tail(s)) \cup {Head(s)}
      BY DEF Elements
    <2>1. CASE i = 1
      BY <1>1, <2>1
    <2>2. CASE i # 1
      <3>1. i - 1 \in 1..Len(Tail(s)) /\ (i - 1) + 1 = i
        BY <1>1, <2>2
      <3>2. Tail(s)[i - 1] = s[i]
        BY <1>1, <3>1
      <3> QED
        BY <3>1, <3>2 DEF Elements
    <2> QED
      BY <2>1, <2>2
  <1>3. Elements(Tail(s)) \cup {Head(s)} \subseteq Elements(s)
    <2>1. 1 \in 1..Len(s)
      BY <1>1
    <2>2. ASSUME NEW i \in 1..Len(Tail(s))
          PROVE  Tail(s)[i] \in Elements(s)
      <3>1. i + 1 \in 1..Len(s)
        BY <1>1
      <3> QED
        BY <1>1, <3>1 DEF Elements
    <2> QED
      BY <1>1, <2>1, <2>2 DEF Elements
  <1>4. Head(s) \notin Elements(Tail(s))
    BY <1>1 DEF Elements, Distinct
  <1>5. Distinct(Tail(s))
    BY <1>1 DEF Distinct
  <1> QED
    BY <1>1, <1>2, <1>3, <1>4, <1>5

(* Putting back a client that is not in the queue adds it once. *)
LEMMA AppendElements ==
    ASSUME NEW s \in Seq(Clients), NEW c \in Clients, Distinct(s),
           c \notin Elements(s)
    PROVE  /\ Append(s, c) \in Seq(Clients)
           /\ Elements(Append(s, c)) = Elements(s) \cup {c}
           /\ Distinct(Append(s, c))
  <1>1. /\ Append(s, c) \in Seq(Clients) /\ Len(Append(s, c)) = Len(s) + 1
        /\ Len(s) \in Nat
        /\ \A i \in 1..Len(s) : Append(s, c)[i] = s[i]
        /\ Append(s, c)[Len(s) + 1] = c
    OBVIOUS
  <1>2. Elements(Append(s, c)) = Elements(s) \cup {c}
    <2>1. 1..Len(Append(s, c)) = 1..Len(s) \cup {Len(s) + 1}
      BY <1>1
    <2> QED
      BY <1>1, <2>1 DEF Elements
  <1>3. Distinct(Append(s, c))
    BY <1>1 DEF Distinct, Elements
  <1> QED
    BY <1>1, <1>2, <1>3

-----------------------------------------------------------------------------
(* What each action does to the clients *)

LEMMA AcquireInv ==
    ASSUME PoolInv, NEW t \in Threads, Acquire(t)
    PROVE  PoolInv'
  <1> USE DEF closeVars
  <1>1. /\ idle' = Tail(idle) /\ pc[t] = "waiting" /\ held[t] = None
        /\ UNCHANGED <<op, ops, closer, closed>>
    BY DEF Acquire, PoolInv, NoLeak, Running, TypeOK
  <1>2. /\ idle' \in Seq(Clients) /\ Head(idle) \in Clients /\ Distinct(idle')
        /\ IdleSet = IdleSet' \cup {Head(idle)} /\ Head(idle) \notin IdleSet'
    BY <1>1, TailElements DEF Acquire, PoolInv, TypeOK, OneOwner, IdleSet
  <1>3. Lent' = Lent \cup {Head(idle)}
    BY <1>1, <1>2, NoneIsNoClient DEF Acquire, Lent, PoolInv, TypeOK
  <1>4. TypeOK'
    BY <1>1, <1>2 DEF Acquire, PoolInv, TypeOK, Pcs, Running
  <1>5. OneOwner'
    <2>1. \A u, v \in Threads : held'[u] = held'[v] /\ held'[u] # None => u = v
      BY <1>2 DEF Acquire, PoolInv, TypeOK, OneOwner, Lent
    <2> QED
      BY <1>1, <1>2, <1>3, <2>1 DEF PoolInv, OneOwner
  <1>6. NoLeak'
    <2>1. \A u \in Threads : held'[u] # None <=> pc'[u] \in Running
      BY <1>2, NoneIsNoClient DEF Acquire, PoolInv, NoLeak, TypeOK, Running
    <2> QED
      BY <1>1, <1>2, <1>3, <2>1 DEF PoolInv, NoLeak
  <1>7. AttemptsInv'
    <2>1. 1 <= MaxRetries /\ MaxRetries \in Nat
      BY MaxRetriesPositive
    <2> QED
      BY <1>1, <2>1 DEF Acquire, PoolInv, AttemptsInv, AttemptsBounded, TypeOK,
                        Running
  <1> QED
    BY <1>4, <1>5, <1>6, <1>7 DEF PoolInv

(* Whatever the outcome, releasing keeps each client in one place. *)
LEMMA ReleaseKeeps ==
    ASSUME PoolInv, NEW t \in Threads, pc[t] = "calling",
           NEW outcome \in {"ok", "raised"}, Release(t, outcome),
           UNCHANGED closed
    PROVE  /\ idle' \in Seq(Clients)
           /\ held' \in [Threads -> Clients \cup {None}]
           /\ pc' \in [Threads -> Pcs]
           /\ OneOwner'
           /\ NoLeak'
  <1>1. held[t] \in Clients
    BY DEF PoolInv, NoLeak, TypeOK, Running
  <1>2. held[t] \in Lent /\ held[t] \notin IdleSet
    BY <1>1, NoneIsNoClient DEF Lent, PoolInv, OneOwner
  <1>3. /\ idle' \in Seq(Clients) /\ Distinct(idle')
        /\ IdleSet' = IdleSet \cup {held[t]}
    BY <1>1, <1>2, AppendElements
       DEF Release, PoolInv, TypeOK, OneOwner, IdleSet
  <1>4. /\ held' = [held EXCEPT ![t] = None] /\ pc' = [pc EXCEPT ![t] = outcome]
        /\ held \in [Threads -> Clients \cup {None}] /\ pc \in [Threads -> Pcs]
    BY DEF Release, PoolInv, TypeOK
  <1>5. Lent' = Lent \ {held[t]}
    <2>1. \A u \in Threads \ {t} : held[u] # held[t]
      BY <1>1, NoneIsNoClient DEF PoolInv, OneOwner
    <2> QED
      BY <1>1, <1>4, <2>1 DEF Lent
  <1>6. OneOwner'
    <2>1. \A u, v \in Threads : held'[u] = held'[v] /\ held'[u] # None => u = v
      BY <1>4 DEF PoolInv, OneOwner
    <2> QED
      BY <1>2, <1>3, <1>5, <2>1 DEF PoolInv, OneOwner
  <1>7. NoLeak'
    <2>1. \A u \in Threads : held'[u] # None <=> pc'[u] \in Running
      BY <1>4 DEF PoolInv, NoLeak, Running
    <2> QED
      BY <1>2, <1>3, <1>5, <2>1 DEF PoolInv, NoLeak
  <1> QED
    BY <1>3, <1>4, <1>6, <1>7 DEF Pcs

(* An action that moves no client and keeps its thread inside or outside   *)
(* of Running keeps the ownership of every client.                         *)
LEMMA OwnersUnchanged ==
    ASSUME PoolInv, UNCHANGED <<idle, held, closed>>,
           \A u \in Threads : pc'[u] \in Running <=> pc[u] \in Running
    PROVE  OneOwner' /\ NoLeak'
  BY DEF PoolInv, OneOwner, NoLeak, IdleSet, Lent

LEMMA CallInv ==
    ASSUME PoolInv, NEW t \in Threads,
           CallSucceeds(t) \/ CallRaises(t)
    PROVE  PoolInv'
  <1> USE DEF closeVars
  <1>1. pc[t] = "calling" /\ UNCHANGED <<op, ops, closer, closed>>
    BY DEF CallSucceeds, CallRaises
  <1>2. calls' \in [Threads -> Nat] /\ attempt' \in [Threads -> Nat]
    <2>1. \/ calls' = calls /\ attempt' = attempt
          \/ /\ calls' = [calls EXCEPT ![t] = calls[t] + 1]
             /\ \/ attempt' = [attempt EXCEPT ![t] = 1]
                \/ attempt' = attempt
      BY DEF CallSucceeds, CallRaises
    <2>2. calls \in [Threads -> Nat] /\ attempt \in [Threads -> Nat]
      BY DEF PoolInv, TypeOK
    <2> QED
      BY <2>1, <2>2
  <1>3. ASSUME NEW o \in {"ok", "raised"}, Release(t, o), UNCHANGED attempt
        PROVE  PoolInv'
    <2>1. TypeOK' /\ OneOwner' /\ NoLeak'
      BY <1>1, <1>2, <1>3, ReleaseKeeps DEF PoolInv, TypeOK
    <2>2. AttemptsInv'
      BY <1>1, <1>3 DEF Release, PoolInv, AttemptsInv, AttemptsBounded, Running,
                        TypeOK
    <2> QED
      BY <2>1, <2>2 DEF PoolInv
  <1>4. ASSUME attempt' = [attempt EXCEPT ![t] = 1], UNCHANGED <<idle, held, pc>>
        PROVE  PoolInv'
    <2>1. TypeOK'
      BY <1>1, <1>2, <1>4 DEF PoolInv, TypeOK
    <2>2. OneOwner' /\ NoLeak'
      BY <1>1, <1>4, OwnersUnchanged
    <2>3. AttemptsInv'
      BY <1>1, <1>4, MaxRetriesPositive
         DEF PoolInv, AttemptsInv, AttemptsBounded, Running, TypeOK
    <2> QED
      BY <2>1, <2>2, <2>3 DEF PoolInv
  <1> QED
    BY <1>3, <1>4 DEF CallSucceeds, CallRaises

LEMMA QuietInv ==
    ASSUME PoolInv, NEW t \in Threads,
           Begin(t) \/ Exhausted(t) \/ CallRetries(t) \/ Wake(t)
    PROVE  PoolInv'
  <1> USE DEF closeVars
  <1>1. UNCHANGED <<idle, held, closer, closed, calls>>
    BY DEF Begin, Exhausted, CallRetries, Wake
  <1>2. TypeOK'
    <2>1. CASE Begin(t)
      <3>1. ops[t] + 1 \in 0..MaxOps
        BY <2>1, MaxOpsNat DEF Begin, PoolInv, TypeOK
      <3> QED
        BY <1>1, <2>1, <3>1 DEF Begin, PoolInv, TypeOK, Pcs
    <2>2. CASE Exhausted(t) \/ CallRetries(t)
      BY <1>1, <2>2 DEF Exhausted, CallRetries, PoolInv, TypeOK, Pcs, Running
    <2>3. CASE Wake(t)
      BY <1>1, <2>3 DEF Wake, PoolInv, TypeOK, Pcs, Running
    <2> QED
      BY <2>1, <2>2, <2>3
  <1>3. \A u \in Threads : pc'[u] \in Running <=> pc[u] \in Running
    BY DEF Begin, Exhausted, CallRetries, Wake, PoolInv, TypeOK, Running
  <1>4. OneOwner' /\ NoLeak'
    BY <1>1, <1>3, OwnersUnchanged
  <1>5. AttemptsInv'
    <2>1. CASE Begin(t) \/ Exhausted(t)
      BY <2>1 DEF Begin, Exhausted, PoolInv, TypeOK, AttemptsInv,
                  AttemptsBounded, Running
    <2>2. CASE CallRetries(t)
      BY <2>2 DEF CallRetries, PoolInv, TypeOK, AttemptsInv, AttemptsBounded,
                  Running
    <2>3. CASE Wake(t)
      BY <2>3, MaxRetriesPositive DEF Wake, PoolInv, TypeOK, AttemptsInv,
                  AttemptsBounded, Running
    <2> QED
      BY <2>1, <2>2, <2>3
  <1> QED
    BY <1>2, <1>4, <1>5 DEF PoolInv

LEMMA CloseInv ==
    ASSUME PoolInv, CloseChecks \/ CloseTakes
    PROVE  PoolInv'
  <1>1. UNCHANGED threadVars
    BY DEF CloseChecks, CloseTakes
  <1>2. AttemptsInv'
    BY <1>1 DEF threadVars, PoolInv, AttemptsInv, AttemptsBounded
  <1>3. CASE UNCHANGED <<idle, closed>>
    <2>1. TypeOK'
      BY <1>1, <1>3 DEF threadVars, CloseChecks, CloseTakes, PoolInv, TypeOK
    <2>2. OneOwner' /\ NoLeak'
      BY <1>1, <1>3, OwnersUnchanged DEF threadVars
    <2> QED
      BY <1>2, <2>1, <2>2 DEF PoolInv
  <1>4. CASE /\ idle # <<>> /\ closed' = closed \cup {Head(idle)}
             /\ idle' = Tail(idle) /\ closer' = "open"
    <2>1. /\ idle' \in Seq(Clients) /\ Head(idle) \in Clients /\ Distinct(idle')
          /\ IdleSet = IdleSet' \cup {Head(idle)} /\ Head(idle) \notin IdleSet'
      BY <1>4, TailElements DEF PoolInv, TypeOK, OneOwner, IdleSet
    <2>2. Lent' = Lent /\ held' = held
      BY <1>1 DEF threadVars, Lent
    <2>3. TypeOK'
      BY <1>1, <1>4, <2>1 DEF threadVars, PoolInv, TypeOK
    <2>4. OneOwner'
      BY <1>4, <2>1, <2>2 DEF PoolInv, OneOwner
    <2>5. NoLeak'
      BY <1>1, <1>4, <2>1, <2>2 DEF threadVars, PoolInv, NoLeak
    <2> QED
      BY <1>2, <2>3, <2>4, <2>5 DEF PoolInv
  <1> QED
    BY <1>3, <1>4 DEF CloseChecks, CloseTakes

-----------------------------------------------------------------------------
LEMMA PoolInit == Init => PoolInv
  <1> SUFFICES ASSUME Init
               PROVE  PoolInv
    OBVIOUS
  <1>1. Cardinality(Clients) \in Nat
    BY ClientsFinite, FS_CardinalityType
  <1>2. idle \in Seq(Clients) /\ Distinct(idle) /\ IdleSet = Clients
    BY <1>1 DEF Init, IdleSet
  <1>3. ASSUME NEW t \in Threads
        PROVE  op[t] \in Ops
    BY OpsType DEF Init
  <1>4. TypeOK
    BY <1>2, <1>3, MaxOpsNat DEF Init, TypeOK, Pcs
  <1>5. Lent = {}
    BY DEF Init, Lent
  <1> QED
    BY <1>2, <1>4, <1>5 DEF Init, PoolInv, OneOwner, NoLeak, AttemptsInv,
                            AttemptsBounded, Running

LEMMA PoolNext == PoolInv /\ [Next]_vars => PoolInv'
  <1> SUFFICES ASSUME PoolInv, [Next]_vars
               PROVE  PoolInv'
    OBVIOUS
  <1>1. CASE UNCHANGED vars
    BY <1>1 DEF vars, threadVars, closeVars, PoolInv, TypeOK, OneOwner, NoLeak,
                IdleSet, Lent, AttemptsInv, AttemptsBounded
  <1> QED
    BY <1>1, AcquireInv, CallInv, QuietInv, CloseInv DEF Next, Step

(* In every reachable state a client has one owner, none is lost, and no   *)
(* call is past its attempts (QdrantClientPool and retry_with_backoff).    *)
THEOREM PoolInvariance == Spec => []PoolInv
  BY PoolInit, PoolNext, PTL DEF Spec

(* Every variable keeps its type. *)
THEOREM PoolTypes == Spec => []TypeOK
  <1>1. PoolInv => TypeOK
    BY DEF PoolInv
  <1> QED
    BY <1>1, PoolInvariance, PTL

(* No client is ever lent twice, lent while idle, or used after close(). *)
THEOREM PoolOwners == Spec => []OneOwner
  <1>1. PoolInv => OneOwner
    BY DEF PoolInv
  <1> QED
    BY <1>1, PoolInvariance, PTL

(* No client is lost, however the operations that borrow it end. *)
THEOREM PoolLeaks == Spec => []NoLeak
  <1>1. PoolInv => NoLeak
    BY DEF PoolInv
  <1> QED
    BY <1>1, PoolInvariance, PTL

(* The retry loop makes at most MaxRetries attempts at a request. *)
THEOREM PoolAttempts == Spec => []AttemptsBounded
  <1>1. PoolInv => AttemptsBounded
    BY DEF PoolInv, AttemptsInv
  <1> QED
    BY <1>1, PoolInvariance, PTL

(* A thread is turned away only while every open client is in use by       *)
(* another thread.                                                         *)
THEOREM PoolBusy == Spec => ExhaustedMeansBusy
  <1>1. ASSUME PoolInv, [Next]_vars, NEW t \in Threads,
               pc[t] = "waiting", pc'[t] = "exhausted"
        PROVE  Clients \ closed
                 = {held[u] : u \in {v \in Threads \ {t} : pc[v] \in Running}}
    <2>1. idle = <<>>
      BY <1>1 DEF Next, Step, Begin, Acquire, Exhausted, CallSucceeds,
         CallRetries, CallRaises, Wake, Release, CloseChecks, CloseTakes, vars,
         threadVars, PoolInv, TypeOK
    <2>2. IdleSet = {}
      BY <2>1 DEF IdleSet, Elements
    <2>3. Clients = Lent \cup closed /\ closed \cap Lent = {}
      BY <1>1, <2>2 DEF PoolInv, NoLeak, OneOwner
    <2>4. Lent = {held[u] : u \in {v \in Threads \ {t} : pc[v] \in Running}}
      BY <1>1 DEF PoolInv, NoLeak, Lent, Running
    <2> QED
      BY <2>3, <2>4
  <1>2. PoolInv /\ [Next]_vars =>
          [\A t \in Threads :
              pc[t] = "waiting" /\ pc'[t] = "exhausted" =>
                Clients \ closed =
                  {held[u] : u \in {v \in Threads \ {t} : pc[v] \in Running}}]_vars
    BY <1>1
  <1> QED
    BY <1>2, PoolInvariance, PTL DEF Spec, ExhaustedMeansBusy

=============================================================================
