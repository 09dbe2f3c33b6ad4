---------------------------- MODULE SSHPoolProofs ----------------------------
(* Theorems about SSHPool for every number of requests, targets and clients *)
(* and every configuration of the pool.                                     *)
EXTENDS SSHPool, FiniteSetTheorems, TLAPS

----------------------------------------------------------------------------
(* The helpers.                                                             *)

\* A counter never leaves Nat, max(0, ...) or not
LEMMA MinusType == \A n, m \in Nat : Minus(n, m) \in Nat
  BY DEF Minus

\* waiters.remove leaves a queue of requests
LEMMA WithoutType ==
  ASSUME NEW q \in Seq(Requests), NEW r
  PROVE  Without(q, r) \in Seq(Requests)
<1>1. CASE \E i \in DOMAIN q : q[i] = r
  <2> DEFINE p == CHOOSE i \in DOMAIN q : q[i] = r
             f == [i \in 1 .. Len(q) - 1 |-> IF i < p THEN q[i] ELSE q[i + 1]]
  <2>1. Len(q) \in Nat \ {0} /\ DOMAIN q = 1 .. Len(q)
    BY <1>1
  <2>2. \A i \in 1 .. Len(q) - 1 : f[i] \in Requests
    BY <2>1
  <2>3. f \in [1 .. Len(q) - 1 -> Requests] /\ Len(q) - 1 \in Nat
    BY <2>1, <2>2
  <2>4. f \in Seq(Requests)
    BY <2>3
  <2> QED BY <1>1, <2>4 DEF Without
<1>2. CASE ~ \E i \in DOMAIN q : q[i] = r
  BY <1>2 DEF Without
<1> QED BY <1>1, <1>2

\* notify_all keeps stages stages
LEMMA NotifiedType ==
  ASSUME NEW stages \in [Requests -> Stages]
  PROVE  Notified(stages) \in [Requests -> Stages]
BY DEF Notified, Stages

\* What a prune counts is a natural number, and the counter it leaves too
LEMMA TotalKeptType ==
  ASSUME TypeOK, NEW k
  PROVE  Cardinality(Stale(k)) \in Nat /\ TotalKept(k) \in Nat
<1>1. Stale(k) \subseteq Clients
  BY DEF Stale, Conns
<1>2. IsFiniteSet(Stale(k))
  BY <1>1, FinitePopulation, FS_Subset
<1>3. Cardinality(Stale(k)) \in Nat
  BY <1>2, FS_CardinalityType
<1> QED BY <1>3, MinusType DEF TotalKept, TypeOK

LEMMA DropWaiterType ==
  ASSUME TypeOK, NEW r \in Requests, NEW next \in Stages,
         key[r] \in Keys, DropWaiter(r, next)
  PROVE  /\ waiters' \in [Keys -> Seq(Requests)]
         /\ totalWaiters' \in Nat
         /\ ticket' \in [Requests -> BOOLEAN]
         /\ pc' \in [Requests -> Stages]
<1>1. waiters' \in [Keys -> Seq(Requests)]
  BY WithoutType DEF TypeOK, DropWaiter
<1>2. totalWaiters' \in Nat
  BY MinusType DEF TypeOK, DropWaiter
<1>3. ticket' \in [Requests -> BOOLEAN]
  BY DEF TypeOK, DropWaiter
<1>4. pc' \in [Requests -> Stages]
  <2>1. [pc EXCEPT ![r] = next] \in [Requests -> Stages]
    BY DEF TypeOK
  <2> QED BY <2>1, NotifiedType DEF DropWaiter
<1> QED BY <1>1, <1>2, <1>3, <1>4
----------------------------------------------------------------------------
(* Types.                                                                   *)

\* A request in acquire has a key
InAcquire == \A r \in Requests : pc[r] # "out" => key[r] \in Keys

\* A request past the reservation has a client, and no other request has one
HasClient ==
  \A r \in Requests :
    client[r] # NoClient <=> pc[r] \in {"connecting", "leased", "closing"}

TypeInv == TypeOK /\ InAcquire /\ HasClient

LEMMA InitTypeInv == Init => TypeInv
<1> SUFFICES ASSUME Init PROVE TypeInv
  OBVIOUS
<1> USE FinitePopulation DEF Init
<1>1. TypeOK
  <2>1. waiters \in [Keys -> Seq(Requests)]
    OBVIOUS
  <2> QED BY <2>1 DEF TypeOK, Stages
<1>2. InAcquire /\ HasClient
  BY DEF InAcquire, HasClient
<1> QED BY <1>1, <1>2 DEF TypeInv

LEMMA LoopTypeInv ==
  ASSUME TypeInv, NEW r \in Requests, Loop(r)
  PROVE  TypeInv'
<1> USE DEF TypeInv
<1>0. pc[r] = "ready" /\ key[r] \in Keys
  BY DEF Loop, InAcquire, AcquireClosed, AcquireIdle, AcquireCooldown, AcquireReserve,
         AcquireQueueFull, AcquireWait, AcquireTimeout, Turn
<1>1. CASE AcquireClosed(r)
  <2>1. /\ waiters' \in [Keys -> Seq(Requests)] /\ totalWaiters' \in Nat
        /\ ticket' \in [Requests -> BOOLEAN] /\ pc' \in [Requests -> Stages]
    BY <1>0, <1>1, DropWaiterType DEF AcquireClosed, Stages
  <2>2. TypeOK'
    BY <1>1, <2>1 DEF TypeOK, AcquireClosed, Forget
  <2>3. InAcquire' /\ HasClient'
    BY <1>0, <1>1 DEF TypeOK, InAcquire, HasClient, AcquireClosed, DropWaiter, Notified, Forget
  <2> QED BY <2>2, <2>3
<1>2. CASE AcquireIdle(r)
  <2>1. /\ waiters' \in [Keys -> Seq(Requests)] /\ totalWaiters' \in Nat
        /\ ticket' \in [Requests -> BOOLEAN] /\ pc' \in [Requests -> Stages]
    BY <1>0, <1>2, DropWaiterType DEF AcquireIdle, Stages
  <2>2. TypeOK'
    BY <1>2, <2>1, TotalKeptType DEF TypeOK, AcquireIdle, Turn, RemoveAndClose, TakeIdle, Kept, Conns
  <2>3. InAcquire' /\ HasClient'
    BY <1>0, <1>2, FinitePopulation DEF TypeOK, InAcquire, HasClient, AcquireIdle, TakeIdle, Kept, Conns,
       DropWaiter, Notified
  <2> QED BY <2>2, <2>3
<1>3. CASE AcquireCooldown(r)
  <2>1. /\ waiters' \in [Keys -> Seq(Requests)] /\ totalWaiters' \in Nat
        /\ ticket' \in [Requests -> BOOLEAN] /\ pc' \in [Requests -> Stages]
    BY <1>0, <1>3, DropWaiterType DEF AcquireCooldown, Stages
  <2>2. TypeOK'
    BY <1>3, <2>1, TotalKeptType DEF TypeOK, AcquireCooldown, Turn, RemoveAndClose, Forget
  <2>3. InAcquire' /\ HasClient'
    BY <1>0, <1>3 DEF TypeOK, InAcquire, HasClient, AcquireCooldown, DropWaiter, Notified, Forget
  <2> QED BY <2>2, <2>3
<1>4. CASE AcquireReserve(r)
  <2>1. /\ waiters' \in [Keys -> Seq(Requests)] /\ totalWaiters' \in Nat
        /\ ticket' \in [Requests -> BOOLEAN] /\ pc' \in [Requests -> Stages]
    BY <1>0, <1>4, DropWaiterType DEF AcquireReserve, Stages
  <2>2. PICK gone \in Evictions(key[r]), c \in Clients :
          /\ home' = [d \in Clients |-> IF d \in Stale(key[r]) \cup gone THEN NoKey ELSE home[d]]
          /\ alive' = alive \ (Stale(key[r]) \cup gone)
          /\ idle' = idle \ (Stale(key[r]) \cup gone)
          /\ open' = (open \ (Stale(key[r]) \cup gone)) \cup {c}
          /\ total' = Minus(TotalKept(key[r]), Cardinality(gone)) + 1
          /\ client' = [client EXCEPT ![r] = c]
    BY <1>4 DEF AcquireReserve
  <2>3. gone \subseteq Clients
    BY DEF Evictions, Evictable, TypeOK
  <2>4. Cardinality(gone) \in Nat
    BY <2>3, FinitePopulation, FS_Subset, FS_CardinalityType
  <2>5. total' \in Nat
    <3>1. TotalKept(key[r]) \in Nat
      BY TotalKeptType
    <3>2. Minus(TotalKept(key[r]), Cardinality(gone)) \in Nat
      BY <2>4, <3>1, MinusType
    <3> QED BY <2>2, <3>2
  <2>6. TypeOK'
    BY <1>0, <1>4, <2>1, <2>2, <2>5 DEF TypeOK, AcquireReserve, Turn
  <2>7. InAcquire'
    BY <1>0, <1>4 DEF TypeOK, InAcquire, AcquireReserve, DropWaiter, Notified
  <2>8. HasClient'
    <3>1. client' = [client EXCEPT ![r] = c] /\ c # NoClient
      BY <2>2, FinitePopulation
    <3>2. DropWaiter(r, "connecting")
      BY <1>4 DEF AcquireReserve
    <3> QED BY <1>0, <3>1, <3>2 DEF TypeOK, HasClient, DropWaiter, Notified
  <2> QED BY <2>6, <2>7, <2>8
<1>5. CASE AcquireQueueFull(r)
  <2>1. TypeOK'
    BY <1>5, TotalKeptType DEF TypeOK, AcquireQueueFull, Turn, RemoveAndClose, Forget, Stages
  <2>2. InAcquire' /\ HasClient'
    BY <1>0, <1>5 DEF TypeOK, InAcquire, HasClient, AcquireQueueFull, Forget
  <2> QED BY <2>1, <2>2
<1>6. CASE AcquireWait(r)
  <2>1. waiters' \in [Keys -> Seq(Requests)]
    BY <1>0, <1>6 DEF TypeOK, AcquireWait
  <2>2. TypeOK'
    BY <1>6, <2>1, TotalKeptType DEF TypeOK, AcquireWait, Turn, RemoveAndClose, Stages
  <2>3. InAcquire' /\ HasClient'
    BY <1>0, <1>6 DEF TypeOK, InAcquire, HasClient, AcquireWait
  <2> QED BY <2>2, <2>3
<1>7. CASE AcquireTimeout(r)
  <2>1. waiters' \in [Keys -> Seq(Requests)]
    BY <1>0, <1>7, WithoutType DEF TypeOK, AcquireTimeout
  <2>2. totalWaiters' \in Nat
    BY <1>7, MinusType DEF TypeOK, AcquireTimeout
  <2>3. pc' \in [Requests -> Stages]
    <3>1. [pc EXCEPT ![r] = "out"] \in [Requests -> Stages]
      BY DEF TypeOK, Stages
    <3> QED BY <1>7, <3>1, NotifiedType DEF AcquireTimeout
  <2>4. TypeOK'
    BY <1>7, <2>1, <2>2, <2>3, TotalKeptType DEF TypeOK, AcquireTimeout, Turn, RemoveAndClose, Forget
  <2>5. InAcquire' /\ HasClient'
    BY <1>0, <1>7 DEF TypeOK, InAcquire, HasClient, AcquireTimeout, Notified, Forget
  <2> QED BY <2>4, <2>5
<1> QED BY <1>1, <1>2, <1>3, <1>4, <1>5, <1>6, <1>7 DEF Loop

LEMMA StepTypeInv == TypeInv /\ [Next]_vars => TypeInv'
<1> SUFFICES ASSUME TypeInv, [Next]_vars PROVE TypeInv'
  OBVIOUS
<1> USE DEF TypeInv
<1>1. ASSUME NEW r \in Requests, NEW k \in Keys, Acquire(r, k) PROVE TypeInv'
  BY <1>1 DEF Acquire, TypeOK, InAcquire, HasClient, Stages, poolVars
<1>2. ASSUME NEW r \in Requests, Loop(r) PROVE TypeInv'
  BY <1>2, LoopTypeInv
<1>3. ASSUME NEW r \in Requests, CreateSucceeds(r) PROVE TypeInv'
  <2>1. key[r] \in Keys /\ client[r] \in Clients
    BY <1>3 DEF CreateSucceeds, TypeOK, InAcquire, HasClient
  <2>2. pc' \in [Requests -> Stages]
    <3>1. [pc EXCEPT ![r] = "leased"] \in [Requests -> Stages]
      BY DEF TypeOK, Stages
    <3> QED BY <1>3, <3>1, NotifiedType DEF CreateSucceeds
  <2>3. TypeOK'
    BY <1>3, <2>1, <2>2 DEF CreateSucceeds, TypeOK
  <2>4. InAcquire' /\ HasClient'
    BY <1>3 DEF CreateSucceeds, TypeOK, InAcquire, HasClient, Notified
  <2> QED BY <2>3, <2>4
<1>4. ASSUME NEW r \in Requests, CreateFails(r) PROVE TypeInv'
  <2>1. key[r] \in Keys
    BY <1>4 DEF CreateFails, InAcquire
  <2>2. pc' \in [Requests -> Stages]
    <3>1. [pc EXCEPT ![r] = "closing"] \in [Requests -> Stages]
      BY DEF TypeOK, Stages
    <3> QED BY <1>4, <3>1, NotifiedType DEF CreateFails
  <2>3. total' \in Nat
    BY <1>4, MinusType DEF CreateFails, TypeOK
  <2>4. TypeOK'
    BY <1>4, <2>1, <2>2, <2>3 DEF CreateFails, TypeOK
  <2>5. InAcquire' /\ HasClient'
    BY <1>4 DEF CreateFails, TypeOK, InAcquire, HasClient, Notified
  <2> QED BY <2>4, <2>5
<1>5. ASSUME NEW r \in Requests, NEW invalidate \in BOOLEAN, Release(r, invalidate)
      PROVE  TypeInv'
  <2>1. client[r] \in Clients
    BY <1>5 DEF Release, TypeOK, HasClient
  <2>2. pc' \in [Requests -> Stages]
    <3>1. /\ [pc EXCEPT ![r] = "closing"] \in [Requests -> Stages]
          /\ [pc EXCEPT ![r] = "out"] \in [Requests -> Stages]
      BY DEF TypeOK, Stages
    <3> QED BY <1>5, <3>1, NotifiedType DEF Release
  <2>3. total' \in Nat
    <3>1. total' = total \/ total' = Minus(total, 1)
      BY <1>5 DEF Release
    <3>2. total \in Nat /\ Minus(total, 1) \in Nat
      BY MinusType DEF TypeOK
    <3> QED BY <3>1, <3>2
  <2>4. TypeOK'
    BY <1>5, <2>1, <2>2, <2>3 DEF Release, TypeOK
  <2>5. InAcquire' /\ HasClient'
    BY <1>5 DEF Release, TypeOK, InAcquire, HasClient, Notified
  <2> QED BY <2>4, <2>5
<1>6. ASSUME NEW r \in Requests, CloseClient(r) PROVE TypeInv'
  BY <1>6 DEF CloseClient, TypeOK, InAcquire, HasClient, Stages, poolVars
<1>7. ASSUME NEW r \in Requests, DeadlinePasses(r) PROVE TypeInv'
  BY <1>7 DEF DeadlinePasses, TypeOK, InAcquire, HasClient, Stages, poolVars
<1>8. ASSUME Reap PROVE TypeInv'
  <2> DEFINE gone == {c \in idle : c \notin alive}
  <2>1. Cardinality(gone) \in Nat
    BY FinitePopulation, FS_Subset, FS_CardinalityType DEF TypeOK
  <2>2. total' \in Nat
    BY <1>8, <2>1, MinusType DEF Reap, TypeOK
  <2>3. pc' \in [Requests -> Stages]
    BY <1>8, NotifiedType DEF Reap, TypeOK
  <2>4. TypeOK'
    BY <1>8, <2>2, <2>3 DEF Reap, RemoveAndClose, TypeOK
  <2>5. InAcquire' /\ HasClient'
    BY <1>8 DEF Reap, TypeOK, InAcquire, HasClient, Notified
  <2> QED BY <2>4, <2>5
<1>9. ASSUME ReaperExit PROVE TypeInv'
  BY <1>9 DEF ReaperExit, TypeOK, InAcquire, HasClient, poolVars, requestVars
<1>10. ASSUME Shutdown PROVE TypeInv'
  <2>1. pc' \in [Requests -> Stages]
    BY <1>10, NotifiedType DEF Shutdown, TypeOK
  <2>2. waiters' \in [Keys -> Seq(Requests)]
    BY <1>10 DEF Shutdown
  <2>3. TypeOK'
    BY <1>10, <2>1, <2>2 DEF Shutdown, Listed, TypeOK
  <2>4. InAcquire' /\ HasClient'
    BY <1>10 DEF Shutdown, TypeOK, InAcquire, HasClient, Notified
  <2> QED BY <2>3, <2>4
<1>11. ASSUME NEW c \in Clients, ShutdownCloses(c) PROVE TypeInv'
  BY <1>11 DEF ShutdownCloses, TypeOK, InAcquire, HasClient, poolVars, requestVars
<1>12. ASSUME NEW c \in Clients, GoesStale(c) PROVE TypeInv'
  BY <1>12 DEF GoesStale, TypeOK, InAcquire, HasClient, requestVars
<1>13. ASSUME NEW k \in Keys, CooldownEnds(k) PROVE TypeInv'
  BY <1>13 DEF CooldownEnds, TypeOK, InAcquire, HasClient, requestVars
<1>14. CASE UNCHANGED vars
  BY <1>14 DEF TypeOK, InAcquire, HasClient, vars, poolVars, requestVars
<1> QED
  BY <1>1, <1>2, <1>3, <1>4, <1>5, <1>6, <1>7, <1>8, <1>9, <1>10, <1>11, <1>12, <1>13, <1>14
  DEF Next, Create, EndLease

\* Every variable keeps its type: the counters stay natural numbers although
\* they are decremented after close() has reset them (ssh_pool.py:246,280).
THEOREM TypeCorrect == Spec => []TypeOK
<1>1. Spec => []TypeInv
  BY InitTypeInv, StepTypeInv, PTL DEF Spec
<1> QED BY <1>1, PTL DEF TypeInv

----------------------------------------------------------------------------
(* Who holds which client.                                                  *)

\* ExclusiveLease is not inductive: what a request is handed must be known not
\* to be held.  A parked client is listed, a client that is being connected or
\* closed is not, and before close() whatever is held is in `open`, which is
\* where _create does not look for a new one.
Ownership ==
  /\ ExclusiveLease
  /\ idle \subseteq Listed
  /\ \A r \in Requests : pc[r] \in {"connecting", "closing"} => client[r] \notin Listed
  /\ ~closed => doomed = {} /\ Listed \subseteq open
  /\ ~closed => \A r \in Requests : client[r] # NoClient => client[r] \in open

\* What the loop's turns that hand out nothing do: connections of the pool that
\* nobody uses disappear, requests without a client move
Pruned(gone) ==
  /\ gone \subseteq idle
  /\ home' = [c \in Clients |-> IF c \in gone THEN NoKey ELSE home[c]]
  /\ idle' = idle \ gone /\ open' = open \ gone
  /\ client' = client /\ closed' = closed /\ doomed' = doomed

\* Requests that have a client stay where they are
HoldersStay ==
  \A r \in Requests :
    \/ pc'[r] = pc[r]
    \/ {pc[r], pc'[r]} \cap {"connecting", "leased", "closing"} = {}

LEMMA PrunedOwnership ==
  ASSUME TypeInv, Ownership, NEW gone, Pruned(gone), HoldersStay
  PROVE  Ownership'
<1> USE DEF TypeInv
<1>1. ExclusiveLease'
  BY DEF Ownership, ExclusiveLease, Pruned, TypeOK
<1>2. Listed' = Listed \ gone
  BY DEF Pruned, Listed, TypeOK
<1>3. (idle \subseteq Listed)'
  BY <1>2 DEF Ownership, Pruned
<1>4. (\A r \in Requests : pc[r] \in {"connecting", "closing"} => client[r] \notin Listed)'
  BY <1>2 DEF Ownership, Pruned, HoldersStay
<1>5. (~closed => \A r \in Requests : client[r] # NoClient => client[r] \in open)'
  BY DEF Ownership, ExclusiveLease, Pruned, TypeOK
<1>6. (~closed => doomed = {} /\ Listed \subseteq open)'
  BY <1>2 DEF Ownership, Pruned
<1> QED BY <1>1, <1>3, <1>4, <1>5, <1>6 DEF Ownership

\* A turn of the loop that fails or goes to sleep only prunes
LEMMA FruitlessTurn ==
  ASSUME TypeInv, NEW r \in Requests,
         \/ AcquireCooldown(r) \/ AcquireQueueFull(r) \/ AcquireWait(r) \/ AcquireTimeout(r)
  PROVE  Pruned(Stale(key[r])) /\ HoldersStay
<1> USE DEF TypeInv
<1>1. Stale(key[r]) \subseteq idle /\ pc[r] = "ready"
  BY DEF Stale, AcquireCooldown, AcquireQueueFull, AcquireWait, AcquireTimeout, Turn
<1>2. CASE AcquireCooldown(r)
  BY <1>1, <1>2 DEF AcquireCooldown, RemoveAndClose, Pruned, HoldersStay, DropWaiter, Notified, TypeOK
<1>3. CASE AcquireQueueFull(r)
  BY <1>1, <1>3 DEF AcquireQueueFull, RemoveAndClose, Pruned, HoldersStay, TypeOK
<1>4. CASE AcquireWait(r)
  BY <1>1, <1>4 DEF AcquireWait, RemoveAndClose, Pruned, HoldersStay, TypeOK
<1>5. CASE AcquireTimeout(r)
  BY <1>1, <1>5 DEF AcquireTimeout, RemoveAndClose, Pruned, HoldersStay, Notified, TypeOK
<1> QED BY <1>2, <1>3, <1>4, <1>5

LEMMA LoopOwnership ==
  ASSUME TypeInv, Ownership, NEW r \in Requests, Loop(r)
  PROVE  Ownership'
<1> USE DEF TypeInv
<1>1. CASE AcquireClosed(r)
  <2>1. HoldersStay /\ Pruned({})
    BY <1>1 DEF AcquireClosed, DropWaiter, Notified, HoldersStay, Pruned, TypeOK
  <2> QED BY <2>1, PrunedOwnership
<1>2. CASE AcquireIdle(r)
  <2> DEFINE k == key[r]
  <2>1. PICK c \in TakeIdle(k) :
          client' = [client EXCEPT ![r] = c] /\ idle' = idle \ (Stale(k) \cup {c})
    BY <1>2 DEF AcquireIdle
  <2>2. c \in idle /\ c \in Clients /\ c \notin Stale(k) /\ Stale(k) \subseteq idle
    BY DEF TakeIdle, Kept, Conns, Stale
  <2>3. \A q \in Requests : client[q] # c
    BY <2>2 DEF Ownership, ExclusiveLease
  <2>4. home' = [d \in Clients |-> IF d \in Stale(k) THEN NoKey ELSE home[d]]
        /\ open' = open \ Stale(k) /\ closed' = closed /\ pc[r] = "ready" /\ ~closed
        /\ doomed' = doomed
    BY <1>2 DEF AcquireIdle, RemoveAndClose, Turn
  <2>5. Listed' = Listed \ Stale(k)
    BY <2>4 DEF Listed, TypeOK
  <2>6. ExclusiveLease'
    BY <2>1, <2>2, <2>3 DEF Ownership, ExclusiveLease, TypeOK
  <2>7. (idle \subseteq Listed)'
    BY <2>1, <2>5 DEF Ownership
  <2>8. pc'[r] = "leased" /\ \A q \in Requests \ {r} :
          pc'[q] = pc[q] \/ (pc[q] = "waiting" /\ pc'[q] = "ready")
    BY <1>2 DEF AcquireIdle, DropWaiter, Notified, TypeOK
  <2>9. (\A q \in Requests : pc[q] \in {"connecting", "closing"} => client[q] \notin Listed)'
    BY <2>1, <2>5, <2>8 DEF Ownership, TypeOK
  <2>10. doomed' = {} /\ Listed' \subseteq open'
    BY <2>4, <2>5 DEF Ownership
  <2>11. \A q \in Requests : client'[q] # NoClient => client'[q] \in open'
    BY <2>1, <2>2, <2>4 DEF Ownership, ExclusiveLease, TypeOK
  <2> QED BY <2>6, <2>7, <2>9, <2>10, <2>11 DEF Ownership
<1>3. CASE AcquireCooldown(r) \/ AcquireQueueFull(r) \/ AcquireWait(r) \/ AcquireTimeout(r)
  BY <1>3, FruitlessTurn, PrunedOwnership
<1>4. CASE AcquireReserve(r)
  <2> DEFINE k == key[r]
  <2>1. PICK gone \in Evictions(k), c \in Clients \ (open \cup Listed) :
          /\ home' = [d \in Clients |-> IF d \in Stale(k) \cup gone THEN NoKey ELSE home[d]]
          /\ idle' = idle \ (Stale(k) \cup gone)
          /\ open' = (open \ (Stale(k) \cup gone)) \cup {c}
          /\ client' = [client EXCEPT ![r] = c]
    BY <1>4 DEF AcquireReserve
  <2>2. gone \subseteq idle /\ Stale(k) \subseteq idle
    BY DEF Evictions, Evictable, Stale
  <2>3. pc[r] = "ready" /\ ~closed /\ closed' = closed /\ doomed' = doomed
    BY <1>4 DEF AcquireReserve, Turn
  <2>4. \A q \in Requests : client[q] # c
    BY <2>1, <2>3, FinitePopulation DEF Ownership
  <2>5. Listed' = Listed \ (Stale(k) \cup gone) /\ c \notin idle /\ c \notin Listed
    BY <2>1 DEF Listed, TypeOK, Ownership
  <2>6. ExclusiveLease'
    BY <2>1, <2>4, <2>5 DEF Ownership, ExclusiveLease, TypeOK
  <2>7. (idle \subseteq Listed)'
    BY <2>1, <2>5 DEF Ownership
  <2>8. pc'[r] = "connecting" /\ \A q \in Requests \ {r} :
          pc'[q] = pc[q] \/ (pc[q] = "waiting" /\ pc'[q] = "ready")
    BY <1>4 DEF AcquireReserve, DropWaiter, Notified, TypeOK
  <2>9. (\A q \in Requests : pc[q] \in {"connecting", "closing"} => client[q] \notin Listed)'
    BY <2>1, <2>5, <2>8 DEF Ownership, TypeOK
  <2>10. doomed' = {} /\ Listed' \subseteq open'
    BY <2>1, <2>3, <2>5 DEF Ownership
  <2>11. \A q \in Requests : client'[q] # NoClient => client'[q] \in open'
    BY <2>1, <2>2, <2>3 DEF Ownership, ExclusiveLease, TypeOK
  <2> QED BY <2>6, <2>7, <2>9, <2>10, <2>11 DEF Ownership
<1> QED BY <1>1, <1>2, <1>3, <1>4 DEF Loop

LEMMA StepOwnership == TypeInv /\ Ownership /\ [Next]_vars => Ownership'
<1> SUFFICES ASSUME TypeInv, Ownership, [Next]_vars PROVE Ownership'
  OBVIOUS
<1> USE DEF TypeInv
<1>1. ASSUME NEW r \in Requests, NEW k \in Keys, Acquire(r, k) PROVE Ownership'
  BY <1>1 DEF Acquire, Ownership, ExclusiveLease, Listed, TypeOK, poolVars
<1>2. ASSUME NEW r \in Requests, Loop(r) PROVE Ownership'
  BY <1>2, LoopOwnership
<1>3. ASSUME NEW r \in Requests, CreateSucceeds(r) PROVE Ownership'
  <2>1. client[r] \in Clients /\ key[r] \in Keys
    BY <1>3 DEF CreateSucceeds, TypeOK, HasClient, InAcquire
  <2>2. Listed' = Listed \cup {client[r]}
    BY <1>3, <2>1, FinitePopulation DEF CreateSucceeds, Listed, TypeOK
  <2>3. ExclusiveLease' /\ (idle \subseteq Listed)'
    BY <1>3, <2>2 DEF CreateSucceeds, Ownership, ExclusiveLease
  <2>4. \A q \in Requests : q # r => client[q] # client[r]
    BY <1>3, <2>1 DEF CreateSucceeds, HasClient, Ownership, ExclusiveLease
  <2>5. (\A q \in Requests : pc[q] \in {"connecting", "closing"} => client[q] \notin Listed)'
    BY <1>3, <2>2, <2>4 DEF CreateSucceeds, Notified, Ownership, TypeOK
  <2>6. (~closed => Listed \subseteq open)'
    BY <1>3, <2>1, <2>2, FinitePopulation DEF CreateSucceeds, Ownership
  <2> QED BY <1>3, <2>3, <2>5, <2>6 DEF CreateSucceeds, Ownership
<1>4. ASSUME NEW r \in Requests, CreateFails(r) PROVE Ownership'
  BY <1>4 DEF CreateFails, Notified, Ownership, ExclusiveLease, Listed, TypeOK
<1>5. ASSUME NEW r \in Requests, NEW invalidate \in BOOLEAN, Release(r, invalidate)
      PROVE  Ownership'
  <2>1. client[r] \in Clients /\ pc[r] = "leased" /\ closed' = closed /\ open' = open
        /\ doomed' = doomed
    BY <1>5 DEF Release, TypeOK, HasClient
  <2>2. \A q \in Requests : q # r => client[q] # client[r]
    BY <2>1, FinitePopulation DEF Ownership, ExclusiveLease
  <2>3. CASE client[r] \notin Listed
    BY <1>5, <2>1, <2>3 DEF Release, Ownership, ExclusiveLease, Listed, TypeOK
  <2>4. CASE client[r] \in Listed /\ MustDrop(client[r], invalidate)
    <3>1. Listed' = Listed \ {client[r]} /\ idle' = idle /\ client' = client
      BY <1>5, <2>4 DEF Release, Listed, TypeOK
    <3>2. pc' = Notified([pc EXCEPT ![r] = "closing"])
      BY <1>5, <2>4 DEF Release
    <3>3. (\A q \in Requests : pc[q] \in {"connecting", "closing"} => client[q] \notin Listed)'
      BY <3>1, <3>2 DEF Notified, Ownership, TypeOK
    <3> QED BY <2>1, <3>1, <3>3 DEF Ownership, ExclusiveLease
  <2>5. CASE client[r] \in Listed /\ ~MustDrop(client[r], invalidate)
    <3>1. Listed' = Listed /\ idle' = idle \cup {client[r]}
          /\ client' = [client EXCEPT ![r] = NoClient]
      BY <1>5, <2>5 DEF Release, Listed
    <3>2. pc' = Notified([pc EXCEPT ![r] = "out"])
      BY <1>5, <2>5 DEF Release
    <3>3. ExclusiveLease'
      <4>1. \A q \in Requests : client'[q] = IF q = r THEN NoClient ELSE client[q]
        BY <3>1 DEF TypeOK
      <4>2. \A q \in Requests : client'[q] \notin idle'
        BY <2>1, <2>2, <3>1, <4>1, FinitePopulation DEF Ownership, ExclusiveLease, TypeOK
      <4> QED BY <4>1, <4>2 DEF Ownership, ExclusiveLease
    <3>4. (\A q \in Requests : pc[q] \in {"connecting", "closing"} => client[q] \notin Listed)'
      BY <3>1, <3>2 DEF Notified, Ownership, TypeOK
    <3>5. (~closed => \A q \in Requests : client[q] # NoClient => client[q] \in open)'
      BY <2>1, <3>1 DEF Ownership, TypeOK
    <3> QED BY <2>1, <2>5, <3>1, <3>3, <3>4, <3>5 DEF Ownership
  <2> QED BY <2>3, <2>4, <2>5
<1>6. ASSUME NEW r \in Requests, CloseClient(r) PROVE Ownership'
  <2>1. client[r] \in Clients /\ client[r] \notin Listed
    BY <1>6 DEF CloseClient, TypeOK, HasClient, Ownership
  <2>2. \A q \in Requests : q # r => client[q] # client[r]
    BY <2>1, FinitePopulation DEF Ownership, ExclusiveLease
  <2> QED BY <1>6, <2>1, <2>2, FinitePopulation
          DEF CloseClient, Ownership, ExclusiveLease, Listed, TypeOK, poolVars
<1>7. ASSUME NEW r \in Requests, DeadlinePasses(r) PROVE Ownership'
  BY <1>7 DEF DeadlinePasses, Ownership, ExclusiveLease, Listed, TypeOK, poolVars
<1>8. ASSUME Reap PROVE Ownership'
  <2>1. Pruned({c \in idle : c \notin alive}) /\ HoldersStay
    BY <1>8 DEF Reap, RemoveAndClose, Pruned, HoldersStay, Notified, TypeOK
  <2> QED BY <2>1, PrunedOwnership
<1>9. ASSUME ReaperExit PROVE Ownership'
  BY <1>9 DEF ReaperExit, Ownership, ExclusiveLease, Listed, poolVars, requestVars
<1>10. ASSUME Shutdown PROVE Ownership'
  BY <1>10 DEF Shutdown, Ownership, ExclusiveLease, Listed
<1>11. ASSUME NEW c \in Clients, ShutdownCloses(c) PROVE Ownership'
  <2>1. closed
    BY <1>11 DEF ShutdownCloses, Ownership
  <2> QED BY <1>11, <2>1
          DEF ShutdownCloses, Ownership, ExclusiveLease, Listed, poolVars, requestVars
<1>12. ASSUME NEW c \in Clients, GoesStale(c) PROVE Ownership'
  BY <1>12 DEF GoesStale, Ownership, ExclusiveLease, Listed, requestVars
<1>13. ASSUME NEW k \in Keys, CooldownEnds(k) PROVE Ownership'
  BY <1>13 DEF CooldownEnds, Ownership, ExclusiveLease, Listed, requestVars
<1>14. CASE UNCHANGED vars
  BY <1>14 DEF Ownership, ExclusiveLease, Listed, vars, poolVars, requestVars
<1> QED
  BY <1>1, <1>2, <1>3, <1>4, <1>5, <1>6, <1>7, <1>8, <1>9, <1>10, <1>11, <1>12, <1>13, <1>14
  DEF Next, Create, EndLease

LEMMA InitOwnership == Init => Ownership
<1> SUFFICES ASSUME Init PROVE Ownership
  OBVIOUS
<1>1. Listed = {}
  BY DEF Init, Listed
<1> QED BY <1>1, FinitePopulation DEF Init, Ownership, ExclusiveLease

----------------------------------------------------------------------------
(* One creation per target.                                                 *)

LEMMA InitCreators == Init => OneCreatorPerTarget
  BY DEF Init, OneCreatorPerTarget

\* The creators do not change: requests that connect stay, no other starts
LEMMA SameCreators ==
  ASSUME TypeInv, OneCreatorPerTarget, closed' = closed, creating' = creating,
         \A r \in Requests : pc[r] = "connecting" <=> pc'[r] = "connecting",
         \A r \in Requests : pc[r] = "connecting" => key'[r] = key[r]
  PROVE  OneCreatorPerTarget'
BY DEF OneCreatorPerTarget

LEMMA LoopCreators ==
  ASSUME TypeInv, OneCreatorPerTarget, NEW r \in Requests, Loop(r)
  PROVE  OneCreatorPerTarget'
<1> USE DEF TypeInv
<1>1. CASE AcquireClosed(r)
  BY <1>1, SameCreators DEF AcquireClosed, DropWaiter, Notified, Forget, TypeOK
<1>2. CASE AcquireIdle(r)
  BY <1>2, SameCreators DEF AcquireIdle, Turn, DropWaiter, Notified, TypeOK
<1>3. CASE AcquireCooldown(r)
  BY <1>3, SameCreators DEF AcquireCooldown, Turn, DropWaiter, Notified, Forget, TypeOK
<1>4. CASE AcquireReserve(r)
  <2>1. /\ key' = key /\ closed' = closed /\ creating' = creating \cup {key[r]} /\ ~closed
        /\ key[r] \notin creating
    BY <1>4 DEF AcquireReserve, Turn, CanReserve
  <2>2. pc'[r] = "connecting" /\ pc[r] = "ready" /\ \A q \in Requests \ {r} :
          pc'[q] = pc[q] \/ (pc[q] = "waiting" /\ pc'[q] = "ready")
    BY <1>4 DEF AcquireReserve, Turn, DropWaiter, Notified, TypeOK
  <2>3. {q \in Requests : pc[q] = "connecting"}'
          = {q \in Requests : pc[q] = "connecting"} \cup {r}
    BY <2>2
  <2> QED BY <2>1, <2>2, <2>3 DEF OneCreatorPerTarget
<1>5. CASE AcquireQueueFull(r)
  BY <1>5, SameCreators DEF AcquireQueueFull, Turn, Forget, TypeOK
<1>6. CASE AcquireWait(r)
  BY <1>6, SameCreators DEF AcquireWait, Turn, TypeOK
<1>7. CASE AcquireTimeout(r)
  BY <1>7, SameCreators DEF AcquireTimeout, Turn, Notified, Forget, TypeOK
<1> QED BY <1>1, <1>2, <1>3, <1>4, <1>5, <1>6, <1>7 DEF Loop

LEMMA StepCreators ==
  TypeInv /\ OneCreatorPerTarget /\ [Next]_vars => OneCreatorPerTarget'
<1> SUFFICES ASSUME TypeInv, OneCreatorPerTarget, [Next]_vars PROVE OneCreatorPerTarget'
  OBVIOUS
<1> USE DEF TypeInv
<1>1. ASSUME NEW r \in Requests, NEW k \in Keys, Acquire(r, k) PROVE OneCreatorPerTarget'
  BY <1>1, SameCreators DEF Acquire, TypeOK, poolVars
<1>2. ASSUME NEW r \in Requests, Loop(r) PROVE OneCreatorPerTarget'
  BY <1>2, LoopCreators
<1>3. ASSUME NEW r \in Requests, Create(r) PROVE OneCreatorPerTarget'
  <2>1. /\ pc[r] = "connecting" /\ key' = key /\ closed' = closed
        /\ creating' = creating \ {key[r]}
    BY <1>3 DEF Create, CreateSucceeds, CreateFails
  <2>2. \A q \in Requests : pc'[q] = "connecting" <=> pc[q] = "connecting" /\ q # r
    BY <1>3 DEF Create, CreateSucceeds, CreateFails, Notified, TypeOK
  <2> QED BY <2>1, <2>2 DEF OneCreatorPerTarget
<1>4. ASSUME NEW r \in Requests, NEW invalidate \in BOOLEAN, Release(r, invalidate)
      PROVE  OneCreatorPerTarget'
  BY <1>4, SameCreators DEF Release, Notified, TypeOK
<1>5. ASSUME NEW r \in Requests, CloseClient(r) PROVE OneCreatorPerTarget'
  BY <1>5, SameCreators DEF CloseClient, TypeOK, poolVars
<1>6. ASSUME NEW r \in Requests, DeadlinePasses(r) PROVE OneCreatorPerTarget'
  BY <1>6, SameCreators DEF DeadlinePasses, TypeOK, poolVars
<1>7. ASSUME Reap PROVE OneCreatorPerTarget'
  BY <1>7, SameCreators DEF Reap, Notified, TypeOK
<1>8. ASSUME Shutdown PROVE OneCreatorPerTarget'
  <2>1. closed' /\ key' = key
    BY <1>8 DEF Shutdown
  <2>2. \A q \in Requests : pc'[q] = "connecting" <=> pc[q] = "connecting"
    BY <1>8 DEF Shutdown, Notified, TypeOK
  <2> QED BY <2>1, <2>2 DEF OneCreatorPerTarget
<1>9. ASSUME \/ UNCHANGED vars \/ ReaperExit
             \/ \E c \in Clients : ShutdownCloses(c) \/ GoesStale(c)
             \/ \E k \in Keys : CooldownEnds(k)
      PROVE  OneCreatorPerTarget'
  BY <1>9, SameCreators
     DEF ReaperExit, ShutdownCloses, GoesStale, CooldownEnds, vars, poolVars, requestVars
<1> QED
  BY <1>1, <1>2, <1>3, <1>4, <1>5, <1>6, <1>7, <1>8, <1>9 DEF Next, EndLease

\* Creation is serialised per target, whatever close() does in between.
THEOREM CreationSerialised == Spec => []OneCreatorPerTarget
<1>1. Spec => []TypeInv
  BY InitTypeInv, StepTypeInv, PTL DEF Spec
<1> QED BY <1>1, InitCreators, StepCreators, PTL DEF Spec

\* No client is ever with two requests, or with a request and on offer.
THEOREM LeasesExclusive == Spec => []ExclusiveLease
<1>1. Spec => []TypeInv
  BY InitTypeInv, StepTypeInv, PTL DEF Spec
<1>2. Spec => []Ownership
  BY <1>1, InitOwnership, StepOwnership, PTL DEF Spec
<1>3. Ownership => ExclusiveLease
  BY DEF Ownership
<1> QED BY <1>2, <1>3, PTL

----------------------------------------------------------------------------
(* The slots.                                                               *)

LEMMA FiniteParts ==
  ASSUME NEW S, S \subseteq Clients \/ S \subseteq Keys
  PROVE  IsFiniteSet(S) /\ Cardinality(S) \in Nat
BY FinitePopulation, FS_Subset, FS_CardinalityType

\* Parked connections leave the pool and are counted off, one slot each
PrunedSlots(gone) ==
  /\ gone \subseteq idle
  /\ home' = [c \in Clients |-> IF c \in gone THEN NoKey ELSE home[c]]
  /\ creating' = creating /\ closed' = closed
  /\ total' = Minus(total, Cardinality(gone))

\* Slots == the accounting and what it is for
Slots == SlotsAccounted /\ WithinLimits

\* A smaller set counts less, by what is missing
LEMMA CountDifference ==
  ASSUME NEW S, NEW gone, IsFiniteSet(S), gone \subseteq S
  PROVE  /\ Cardinality(S \ gone) = Cardinality(S) - Cardinality(gone)
         /\ Cardinality(gone) \in 0 .. Cardinality(S)
<1>1. S \cap gone = gone
  OBVIOUS
<1>2. Cardinality(S \ gone) = Cardinality(S) - Cardinality(gone)
  BY <1>1, FS_Difference
<1>3. Cardinality(gone) <= Cardinality(S) /\ Cardinality(gone) \in Nat /\ Cardinality(S) \in Nat
  BY FS_Subset, FS_CardinalityType
<1> QED BY <1>2, <1>3

LEMMA PrunedKeepsSlots ==
  ASSUME TypeInv, Ownership, Slots, ~closed, NEW gone, PrunedSlots(gone)
  PROVE  /\ total' = total - Cardinality(gone)
         /\ Cardinality(gone) \in Nat
         /\ Listed' = Listed \ gone
         /\ \A k \in Keys : Conns(k)' = Conns(k) \ gone
         /\ Slots'
<1> USE DEF TypeInv
<1>1. Listed' = Listed \ gone /\ gone \subseteq Listed
  BY DEF PrunedSlots, Listed, TypeOK, Ownership
<1>2. IsFiniteSet(Listed) /\ Cardinality(Listed) \in Nat /\ Cardinality(creating) \in Nat
  BY FiniteParts DEF Listed, TypeOK
<1>3. /\ Cardinality(Listed \ gone) = Cardinality(Listed) - Cardinality(gone)
      /\ Cardinality(gone) \in 0 .. Cardinality(Listed)
  BY <1>1, <1>2, CountDifference
<1>4. total = Cardinality(Listed) + Cardinality(creating)
  BY DEF Slots, SlotsAccounted
<1>5. total' = total - Cardinality(gone)
  BY <1>2, <1>3, <1>4 DEF PrunedSlots, Minus
<1>6. SlotsAccounted'
  BY <1>1, <1>2, <1>3, <1>4, <1>5 DEF SlotsAccounted, PrunedSlots
<1>7. \A k \in Keys : Conns(k)' = Conns(k) \ gone
  BY FinitePopulation DEF PrunedSlots, Conns, TypeOK
<1>8. WithinLimits'
  <2>1. total' <= GlobalMax
    BY <1>2, <1>3, <1>4, <1>5, PoolConfig DEF Slots, WithinLimits
  <2>2. ASSUME NEW k \in Keys
        PROVE  Cardinality(Conns(k)') + (IF k \in creating' THEN 1 ELSE 0) <= TargetMax
    <3>1. IsFiniteSet(Conns(k)) /\ Cardinality(Conns(k)) \in Nat
      BY FiniteParts DEF Conns
    <3>2. Conns(k)' \subseteq Conns(k)
      BY <1>7
    <3>3. Cardinality(Conns(k)') <= Cardinality(Conns(k)) /\ Cardinality(Conns(k)') \in Nat
      BY <3>1, <3>2, FS_Subset, FS_CardinalityType
    <3>4. creating' = creating
      BY DEF PrunedSlots
    <3>5. Cardinality(Conns(k)) + (IF k \in creating THEN 1 ELSE 0) <= TargetMax
      BY DEF Slots, WithinLimits
    <3> QED BY <3>1, <3>3, <3>4, <3>5, PoolConfig
  <2> QED BY <2>1, <2>2 DEF WithinLimits
<1> QED BY <1>1, <1>3, <1>5, <1>6, <1>7, <1>8 DEF Slots

\* Nothing the slots depend on changes
LEMMA SameSlots ==
  ASSUME Slots, UNCHANGED <<home, creating, total, closed>>
  PROVE  Slots'
BY DEF Slots, SlotsAccounted, WithinLimits, Listed, Conns

\* A reservation takes the place of what was pruned and evicted
LEMMA ReserveSlots ==
  ASSUME TypeInv, Ownership, Slots, NEW r \in Requests, AcquireReserve(r)
  PROVE  Slots'
<1> USE DEF TypeInv
<1> DEFINE k == key[r]
<1>1. PICK gone \in Evictions(k) :
        /\ home' = [d \in Clients |-> IF d \in Stale(k) \cup gone THEN NoKey ELSE home[d]]
        /\ total' = Minus(TotalKept(k), Cardinality(gone)) + 1
  BY DEF AcquireReserve
<1>2. /\ ~closed /\ closed' = closed /\ creating' = creating \cup {k} /\ CanReserve(k)
      /\ k \in Keys
  BY DEF AcquireReserve, Turn, InAcquire
<1>3. /\ gone \subseteq idle /\ Stale(k) \subseteq idle /\ idle \subseteq Listed
      /\ Stale(k) \cap gone = {} /\ Stale(k) \subseteq Conns(k)
  BY DEF Evictions, Evictable, Stale, Conns, Ownership
<1>4. /\ IsFiniteSet(Listed) /\ IsFiniteSet(creating) /\ IsFiniteSet(gone) /\ IsFiniteSet(Stale(k))
      /\ Cardinality(Listed) \in Nat /\ Cardinality(creating) \in Nat
      /\ Cardinality(gone) \in Nat /\ Cardinality(Stale(k)) \in Nat
  <2>1. gone \subseteq Clients /\ Stale(k) \subseteq Clients /\ Listed \subseteq Clients
    BY <1>3 DEF TypeOK, Listed
  <2> QED BY <2>1, FiniteParts DEF TypeOK
<1>5. Listed' = (Listed \ Stale(k)) \ gone
  BY <1>1 DEF Listed, TypeOK
<1>6. /\ Cardinality(Listed \ Stale(k)) = Cardinality(Listed) - Cardinality(Stale(k))
      /\ Cardinality(Stale(k)) \in 0 .. Cardinality(Listed)
  BY <1>3, <1>4, CountDifference
<1>7. /\ Cardinality(Listed') = Cardinality(Listed) - Cardinality(Stale(k)) - Cardinality(gone)
      /\ Cardinality(gone) \in 0 .. (Cardinality(Listed) - Cardinality(Stale(k)))
  <2>1. gone \subseteq Listed \ Stale(k) /\ IsFiniteSet(Listed \ Stale(k))
    BY <1>3, <1>4, FS_Difference
  <2> QED BY <1>5, <1>6, <2>1, CountDifference
<1>8. Cardinality(creating') = Cardinality(creating) + 1
  BY <1>2, <1>4, FS_AddElement DEF CanReserve
<1>9. total = Cardinality(Listed) + Cardinality(creating)
  BY <1>2 DEF Slots, SlotsAccounted
<1>10. TotalKept(k) = total - Cardinality(Stale(k)) /\ TotalKept(k) \in Nat
  BY <1>4, <1>6, <1>9 DEF TotalKept, Minus
<1>11. total' = TotalKept(k) - Cardinality(gone) + 1
  BY <1>1, <1>4, <1>6, <1>7, <1>9, <1>10 DEF Minus
<1>12. SlotsAccounted'
  BY <1>4, <1>6, <1>7, <1>8, <1>9, <1>10, <1>11 DEF SlotsAccounted
<1>13. total' <= GlobalMax
  <2>1. PICK other \in Evictions(k) : Minus(TotalKept(k), Cardinality(other)) < GlobalMax
    BY <1>2 DEF CanReserve
  <2>2. Cardinality(other) = Cardinality(gone)
    BY FS_Singleton DEF Evictions
  <2>3. Minus(TotalKept(k), Cardinality(gone)) < GlobalMax
    BY <2>1, <2>2
  <2>4. Minus(TotalKept(k), Cardinality(gone)) \in Nat
    BY <1>4, <1>10, MinusType
  <2> QED BY <1>1, <2>3, <2>4, PoolConfig
<1>14. ASSUME NEW j \in Keys
       PROVE  Cardinality(Conns(j)') + (IF j \in creating' THEN 1 ELSE 0) <= TargetMax
  <2>1. Conns(j)' = Conns(j) \ (Stale(k) \cup gone)
    BY <1>1, FinitePopulation DEF Conns, TypeOK
  <2>2. IsFiniteSet(Conns(j)) /\ Cardinality(Conns(j)) \in Nat
    BY FiniteParts DEF Conns
  <2>3. CASE j # k
    <3>1. Conns(j)' \subseteq Conns(j)
      BY <2>1
    <3>2. Cardinality(Conns(j)') <= Cardinality(Conns(j)) /\ Cardinality(Conns(j)') \in Nat
      BY <2>2, <3>1, FS_Subset, FS_CardinalityType
    <3>3. Cardinality(Conns(j)) + (IF j \in creating THEN 1 ELSE 0) <= TargetMax
      BY <1>2 DEF Slots, WithinLimits
    <3>4. j \in creating' <=> j \in creating
      BY <1>2, <2>3
    <3> QED BY <2>2, <3>2, <3>3, <3>4, PoolConfig
  <2>4. CASE j = k
    <3>1. IsFiniteSet(Kept(k)) /\ Cardinality(Kept(k)) \in Nat
      BY FiniteParts DEF Kept, Conns
    <3>2. Conns(j)' \subseteq Kept(k)
      BY <2>1, <2>4 DEF Kept
    <3>3. Cardinality(Conns(j)') <= Cardinality(Kept(k)) /\ Cardinality(Conns(j)') \in Nat
      BY <3>1, <3>2, FS_Subset, FS_CardinalityType
    <3>4. Cardinality(Kept(k)) + 0 < TargetMax
      BY <1>2 DEF CanReserve, TargetCount
    <3> QED BY <1>2, <2>4, <3>1, <3>3, <3>4, PoolConfig
  <2> QED BY <2>3, <2>4
<1> QED BY <1>12, <1>13, <1>14 DEF Slots, WithinLimits

LEMMA StepSlots ==
  TypeInv /\ Ownership /\ OneCreatorPerTarget /\ Slots /\ [Next]_vars => Slots'
<1> SUFFICES ASSUME TypeInv, Ownership, OneCreatorPerTarget, Slots, [Next]_vars
             PROVE  Slots'
  OBVIOUS
<1> USE DEF TypeInv
<1>1. ASSUME closed' PROVE Slots'
  BY <1>1 DEF Slots, SlotsAccounted, WithinLimits
<1>2. ASSUME NEW r \in Requests, Loop(r), ~closed PROVE Slots'
  <2>1. ~AcquireClosed(r)
    BY <1>2 DEF AcquireClosed
  <2>2. CASE AcquireIdle(r)
    <3> DEFINE gone == Stale(key[r])
    <3>1. gone \subseteq idle
      BY DEF Stale
    <3>2. home' = [d \in Clients |-> IF d \in gone THEN NoKey ELSE home[d]]
          /\ total' = Minus(total, Cardinality(gone)) /\ creating' = creating /\ closed' = closed
      BY <2>2 DEF AcquireIdle, RemoveAndClose, TotalKept
    <3> QED BY <1>2, <3>1, <3>2, PrunedKeepsSlots DEF PrunedSlots
  <2>3. CASE AcquireCooldown(r) \/ AcquireQueueFull(r) \/ AcquireWait(r) \/ AcquireTimeout(r)
    <3>1. Pruned(Stale(key[r]))
      BY <2>3, FruitlessTurn
    <3>2. creating' = creating /\ total' = Minus(total, Cardinality(Stale(key[r])))
      BY <2>3 DEF AcquireCooldown, AcquireQueueFull, AcquireWait, AcquireTimeout, TotalKept
    <3> QED BY <1>2, <3>1, <3>2, PrunedKeepsSlots DEF PrunedSlots, Pruned
  <2>4. CASE AcquireReserve(r)
    BY <2>4, ReserveSlots
  <2> QED BY <1>2, <2>1, <2>2, <2>3, <2>4 DEF Loop
<1>3. ASSUME NEW r \in Requests, CreateSucceeds(r), ~closed PROVE Slots'
  <2>1. /\ client[r] \in Clients /\ client[r] \notin Listed /\ key[r] \in Keys
        /\ key[r] \in creating
    BY <1>3 DEF CreateSucceeds, TypeOK, HasClient, InAcquire, Ownership, OneCreatorPerTarget
  <2>2. /\ Listed' = Listed \cup {client[r]} /\ creating' = creating \ {key[r]}
        /\ total' = total /\ closed' = closed
        /\ \A k \in Keys : Conns(k)' = IF k = key[r] THEN Conns(k) \cup {client[r]} ELSE Conns(k)
    BY <1>3, <2>1, FinitePopulation DEF CreateSucceeds, Listed, Conns, TypeOK
  <2>3. IsFiniteSet(Listed) /\ IsFiniteSet(creating)
        /\ Cardinality(Listed) \in Nat /\ Cardinality(creating) \in Nat
    BY FiniteParts DEF Listed, TypeOK
  <2>4. /\ Cardinality(Listed') = Cardinality(Listed) + 1
        /\ Cardinality(creating') = Cardinality(creating) - 1
    BY <2>1, <2>2, <2>3, FS_AddElement, FS_RemoveElement
  <2>5. SlotsAccounted'
    BY <1>3, <2>2, <2>3, <2>4 DEF Slots, SlotsAccounted
  <2>6. ASSUME NEW k \in Keys
        PROVE  Cardinality(Conns(k)') + (IF k \in creating' THEN 1 ELSE 0) <= TargetMax
    <3>1. IsFiniteSet(Conns(k)) /\ Cardinality(Conns(k)) \in Nat /\ client[r] \notin Conns(k)
      BY <2>1, FiniteParts, FinitePopulation DEF Conns, Listed
    <3>2. Cardinality(Conns(k)) + (IF k \in creating THEN 1 ELSE 0) <= TargetMax
      BY <1>3 DEF Slots, WithinLimits
    <3>3. CASE k = key[r]
      <4>1. Cardinality(Conns(k)') = Cardinality(Conns(k)) + 1
        BY <2>2, <3>1, <3>3, FS_AddElement
      <4> QED BY <2>1, <2>2, <3>1, <3>2, <3>3, <4>1
    <3>4. CASE k # key[r]
      BY <2>2, <3>2, <3>4
    <3> QED BY <3>3, <3>4
  <2>7. total' <= GlobalMax
    BY <1>3, <2>2 DEF Slots, WithinLimits
  <2> QED BY <2>5, <2>6, <2>7 DEF Slots, WithinLimits
<1>4. ASSUME NEW r \in Requests, CreateFails(r), ~closed PROVE Slots'
  <2>1. key[r] \in Keys /\ key[r] \in creating
    BY <1>4 DEF CreateFails, InAcquire, OneCreatorPerTarget
  <2>2. /\ home' = home /\ creating' = creating \ {key[r]}
        /\ total' = Minus(total, 1) /\ closed' = closed
    BY <1>4 DEF CreateFails
  <2>3. IsFiniteSet(creating) /\ Cardinality(Listed) \in Nat /\ Cardinality(creating) \in Nat
    BY FiniteParts DEF Listed, TypeOK
  <2>4. Cardinality(creating') = Cardinality(creating) - 1 /\ Cardinality(creating') \in Nat
    <3>1. IsFiniteSet(creating \ {key[r]})
      BY <2>3, FS_RemoveElement
    <3> QED BY <2>1, <2>2, <2>3, <3>1, FS_RemoveElement, FS_CardinalityType
  <2>5. Listed' = Listed /\ \A k \in Keys : Conns(k)' = Conns(k)
    BY <2>2 DEF Listed, Conns
  <2>6. total = Cardinality(Listed) + Cardinality(creating)
    BY <1>4 DEF Slots, SlotsAccounted
  <2>7. total' = total - 1
    BY <2>2, <2>3, <2>4, <2>6 DEF Minus
  <2>8. SlotsAccounted'
    BY <2>3, <2>4, <2>5, <2>6, <2>7 DEF SlotsAccounted
  <2>9. ASSUME NEW k \in Keys
        PROVE  Cardinality(Conns(k)') + (IF k \in creating' THEN 1 ELSE 0) <= TargetMax
    <3>1. Cardinality(Conns(k)) \in Nat
      BY FiniteParts DEF Conns
    <3>2. Cardinality(Conns(k)) + (IF k \in creating THEN 1 ELSE 0) <= TargetMax
      BY <1>4 DEF Slots, WithinLimits
    <3> QED BY <2>2, <2>5, <3>1, <3>2, PoolConfig
  <2>10. total' <= GlobalMax
    BY <1>4, <2>3, <2>6, <2>7, PoolConfig DEF Slots, WithinLimits
  <2> QED BY <2>8, <2>9, <2>10 DEF Slots, WithinLimits
<1>5. ASSUME NEW r \in Requests, NEW invalidate \in BOOLEAN, Release(r, invalidate), ~closed
      PROVE  Slots'
  <2>1. CASE client[r] \in Listed /\ MustDrop(client[r], invalidate)
    <3>1. /\ client[r] \in Clients /\ creating' = creating /\ total' = Minus(total, 1)
          /\ home' = [home EXCEPT ![client[r]] = NoKey] /\ closed' = closed
      BY <1>5, <2>1 DEF Release, Listed
    <3>2. Listed' = Listed \ {client[r]}
          /\ \A k \in Keys : Conns(k)' \subseteq Conns(k)
      BY <3>1, FinitePopulation DEF Listed, Conns, TypeOK
    <3>3. IsFiniteSet(Listed) /\ Cardinality(Listed) \in Nat /\ Cardinality(creating) \in Nat
      BY FiniteParts DEF Listed, TypeOK
    <3>4. Cardinality(Listed') = Cardinality(Listed) - 1 /\ Cardinality(Listed') \in Nat
      <4>1. IsFiniteSet(Listed \ {client[r]})
        BY <3>3, FS_RemoveElement
      <4> QED BY <2>1, <3>2, <3>3, <4>1, FS_RemoveElement, FS_CardinalityType
    <3>5. total = Cardinality(Listed) + Cardinality(creating)
      BY <1>5 DEF Slots, SlotsAccounted
    <3>6. total' = total - 1
      BY <3>1, <3>3, <3>4, <3>5 DEF Minus
    <3>7. SlotsAccounted'
      BY <3>1, <3>3, <3>4, <3>5, <3>6 DEF SlotsAccounted
    <3>8. ASSUME NEW k \in Keys
          PROVE  Cardinality(Conns(k)') + (IF k \in creating' THEN 1 ELSE 0) <= TargetMax
      <4>1. IsFiniteSet(Conns(k)) /\ Cardinality(Conns(k)) \in Nat
        BY FiniteParts DEF Conns
      <4>2. Cardinality(Conns(k)') <= Cardinality(Conns(k)) /\ Cardinality(Conns(k)') \in Nat
        BY <3>2, <4>1, FS_Subset, FS_CardinalityType
      <4>3. Cardinality(Conns(k)) + (IF k \in creating THEN 1 ELSE 0) <= TargetMax
        BY <1>5 DEF Slots, WithinLimits
      <4> QED BY <3>1, <4>1, <4>2, <4>3, PoolConfig
    <3>9. total' <= GlobalMax
      BY <1>5, <3>3, <3>5, <3>6, PoolConfig DEF Slots, WithinLimits
    <3> QED BY <3>7, <3>8, <3>9 DEF Slots, WithinLimits
  <2>2. CASE ~(client[r] \in Listed /\ MustDrop(client[r], invalidate))
    BY <1>5, <2>2, SameSlots DEF Release
  <2> QED BY <2>1, <2>2
<1>6. ASSUME Reap PROVE Slots'
  <2>1. PrunedSlots({c \in idle : c \notin alive}) /\ ~closed
    BY <1>6 DEF Reap, RemoveAndClose, Pruned, PrunedSlots
  <2> QED BY <2>1, PrunedKeepsSlots
<1>7. ASSUME NEW r \in Requests,
             \/ CloseClient(r) \/ DeadlinePasses(r) \/ \E k \in Keys : Acquire(r, k)
      PROVE  Slots'
  BY <1>7, SameSlots DEF CloseClient, DeadlinePasses, Acquire, poolVars
<1>8. ASSUME \/ UNCHANGED vars \/ ReaperExit
             \/ \E c \in Clients : ShutdownCloses(c) \/ GoesStale(c)
             \/ \E k \in Keys : CooldownEnds(k)
      PROVE  Slots'
  BY <1>8, SameSlots DEF ReaperExit, ShutdownCloses, GoesStale, CooldownEnds, vars, poolVars
<1>9. closed => closed'
  BY DEF Next, Acquire, Loop, AcquireClosed, AcquireIdle, AcquireCooldown, AcquireReserve,
         AcquireQueueFull, AcquireWait, AcquireTimeout, Turn, Create, CreateSucceeds, CreateFails,
         EndLease, Release, CloseClient, DeadlinePasses, Reap, ReaperExit, Shutdown,
         ShutdownCloses, GoesStale, CooldownEnds, vars, poolVars
<1>10. Shutdown => closed'
  BY DEF Shutdown
<1> QED
  BY <1>1, <1>2, <1>3, <1>4, <1>5, <1>6, <1>7, <1>8, <1>9, <1>10 DEF Next, Create, EndLease

LEMMA InitSlots == Init => Slots
<1> SUFFICES ASSUME Init PROVE Slots
  OBVIOUS
<1>1. Listed = {} /\ creating = {} /\ total = 0 /\ \A k \in Keys : Conns(k) = {}
  BY FinitePopulation DEF Init, Listed, Conns
<1>2. Cardinality({}) = 0
  BY FS_EmptySet
<1> QED BY <1>1, <1>2, PoolConfig DEF Slots, SlotsAccounted, WithinLimits

LEMMA SlotsInvariant == Spec => []Slots
<1>1. Spec => []TypeInv
  BY InitTypeInv, StepTypeInv, PTL DEF Spec
<1>2. Spec => []Ownership
  BY <1>1, InitOwnership, StepOwnership, PTL DEF Spec
<1>3. Spec => []OneCreatorPerTarget
  BY CreationSerialised
<1> QED BY <1>1, <1>2, <1>3, InitSlots, StepSlots, PTL DEF Spec

\* No slot is lost or invented while the pool is open.
THEOREM SlotsNeverLost == Spec => []SlotsAccounted
<1>1. Slots => SlotsAccounted
  BY DEF Slots
<1> QED BY <1>1, SlotsInvariant, PTL

\* The pool respects both of its limits while it is open.
THEOREM LimitsHold == Spec => []WithinLimits
<1>1. Slots => WithinLimits
  BY DEF Slots
<1> QED BY <1>1, SlotsInvariant, PTL

----------------------------------------------------------------------------
(* No client is forgotten.                                                  *)

\* Pruning forgets nobody: what leaves the pool is closed in the same section
LEMMA PrunedLeaksNothing ==
  ASSUME TypeInv, NoLeak, NEW gone, Pruned(gone)
  PROVE  NoLeak'
<1>1. Listed' = Listed \ gone
  BY DEF Pruned, Listed, TypeInv, TypeOK
<1> QED BY <1>1 DEF Pruned, NoLeak

LEMMA LoopNoLeak ==
  ASSUME TypeInv, Ownership, NoLeak, NEW r \in Requests, Loop(r)
  PROVE  NoLeak'
<1> USE DEF TypeInv
<1>1. CASE AcquireClosed(r)
  BY <1>1 DEF AcquireClosed, NoLeak, Listed
<1>2. CASE AcquireIdle(r) \/ AcquireReserve(r)
  <2>1. client[r] = NoClient
    BY <1>2 DEF AcquireIdle, AcquireReserve, Turn, HasClient, TypeOK
  <2>2. PICK gone \in SUBSET Clients, c \in Clients :
          /\ home' = [d \in Clients |-> IF d \in gone THEN NoKey ELSE home[d]]
          /\ open' \subseteq (open \ gone) \cup {c}
          /\ client' = [client EXCEPT ![r] = c]
    <3>1. CASE AcquireIdle(r)
      BY <3>1 DEF AcquireIdle, RemoveAndClose, Stale, TakeIdle, Kept, Conns
    <3>2. CASE AcquireReserve(r)
      <4>1. PICK gone \in Evictions(key[r]), c \in Clients \ (open \cup Listed) :
              /\ home' = [d \in Clients |-> IF d \in Stale(key[r]) \cup gone THEN NoKey ELSE home[d]]
              /\ open' = (open \ (Stale(key[r]) \cup gone)) \cup {c}
              /\ client' = [client EXCEPT ![r] = c]
        BY <3>2 DEF AcquireReserve
      <4>2. Stale(key[r]) \cup gone \subseteq Clients
        BY DEF Stale, Conns, Evictions, Evictable, TypeOK
      <4> QED BY <4>1, <4>2
    <3> QED BY <1>2, <3>1, <3>2
  <2>3. Listed' = Listed \ gone /\ doomed' = doomed
    BY <1>2, <2>2 DEF Listed, AcquireIdle, AcquireReserve
  <2>4. \A q \in Requests : client[q] \in Clients => client'[q] = client[q]
    BY <2>1, <2>2, FinitePopulation DEF TypeOK
  <2>5. client'[r] = c
    BY <2>2 DEF TypeOK
  <2>6. ASSUME NEW d \in open' PROVE d \in (Listed \cup doomed \cup {client[q] : q \in Requests})'
    <3>1. CASE d = c
      BY <2>5, <3>1
    <3>2. CASE d # c
      <4>1. d \in open /\ d \notin gone /\ d \in Clients
        BY <2>2, <2>6, <3>2 DEF TypeOK
      <4>2. CASE d \in Listed \cup doomed
        BY <2>3, <4>1, <4>2
      <4>3. CASE \E q \in Requests : client[q] = d
        BY <2>4, <4>1, <4>3
      <4> QED BY <4>1, <4>2, <4>3 DEF NoLeak
    <3> QED BY <3>1, <3>2
  <2> QED BY <2>6 DEF NoLeak
<1>3. CASE AcquireCooldown(r) \/ AcquireQueueFull(r) \/ AcquireWait(r) \/ AcquireTimeout(r)
  BY <1>3, FruitlessTurn, PrunedLeaksNothing
<1> QED BY <1>1, <1>2, <1>3 DEF Loop

LEMMA StepNoLeak == TypeInv /\ Ownership /\ NoLeak /\ [Next]_vars => NoLeak'
<1> SUFFICES ASSUME TypeInv, Ownership, NoLeak, [Next]_vars PROVE NoLeak'
  OBVIOUS
<1> USE DEF TypeInv
<1>1. ASSUME NEW r \in Requests, NEW k \in Keys, Acquire(r, k) PROVE NoLeak'
  BY <1>1 DEF Acquire, NoLeak, Listed, poolVars
<1>2. ASSUME NEW r \in Requests, Loop(r) PROVE NoLeak'
  BY <1>2, LoopNoLeak
<1>3. ASSUME NEW r \in Requests, CreateSucceeds(r) PROVE NoLeak'
  <2>1. Listed \subseteq Listed'
    BY <1>3, FinitePopulation DEF CreateSucceeds, Listed, TypeOK, InAcquire
  <2> QED BY <1>3, <2>1 DEF CreateSucceeds, NoLeak
<1>4. ASSUME NEW r \in Requests, CreateFails(r) PROVE NoLeak'
  BY <1>4 DEF CreateFails, NoLeak, Listed
<1>5. ASSUME NEW r \in Requests, NEW invalidate \in BOOLEAN, Release(r, invalidate)
      PROVE  NoLeak'
  <2>1. open' = open /\ doomed' = doomed
    BY <1>5 DEF Release
  <2>2. CASE client[r] \notin Listed
    BY <1>5, <2>1, <2>2 DEF Release, NoLeak, Listed
  <2>3. CASE client[r] \in Listed /\ MustDrop(client[r], invalidate)
    <3>1. Listed' = Listed \ {client[r]} /\ client' = client
      BY <1>5, <2>3 DEF Release, Listed, TypeOK
    <3> QED BY <2>1, <3>1 DEF NoLeak
  <2>4. CASE client[r] \in Listed /\ ~MustDrop(client[r], invalidate)
    <3>1. Listed' = Listed /\ \A q \in Requests : q # r => client'[q] = client[q]
      BY <1>5, <2>4 DEF Release, Listed, TypeOK
    <3> QED BY <2>1, <2>4, <3>1 DEF NoLeak
  <2> QED BY <2>2, <2>3, <2>4
<1>6. ASSUME NEW r \in Requests, CloseClient(r) PROVE NoLeak'
  <2>1. \A q \in Requests : q # r => client'[q] = client[q]
    BY <1>6 DEF CloseClient, TypeOK
  <2> QED BY <1>6, <2>1 DEF CloseClient, NoLeak, Listed, poolVars
<1>7. ASSUME NEW r \in Requests, DeadlinePasses(r) PROVE NoLeak'
  BY <1>7 DEF DeadlinePasses, NoLeak, Listed, poolVars
<1>8. ASSUME Reap PROVE NoLeak'
  <2>1. Pruned({c \in idle : c \notin alive})
    BY <1>8 DEF Reap, RemoveAndClose, Pruned
  <2> QED BY <2>1, PrunedLeaksNothing
<1>9. ASSUME Shutdown PROVE NoLeak'
  BY <1>9 DEF Shutdown, NoLeak, Ownership
<1>10. ASSUME NEW c \in Clients, ShutdownCloses(c) PROVE NoLeak'
  BY <1>10 DEF ShutdownCloses, NoLeak, Listed, poolVars, requestVars
<1>11. ASSUME \/ UNCHANGED vars \/ ReaperExit
              \/ \E c \in Clients : GoesStale(c)
              \/ \E k \in Keys : CooldownEnds(k)
       PROVE  NoLeak'
  BY <1>11 DEF ReaperExit, GoesStale, CooldownEnds, NoLeak, Listed, vars, poolVars, requestVars
<1> QED
  BY <1>1, <1>2, <1>3, <1>4, <1>5, <1>6, <1>7, <1>8, <1>9, <1>10, <1>11
  DEF Next, Create, EndLease

\* Every client that may hold a socket is known to the pool, to close() or to
\* the request that will release or close it, whatever fails in between.
THEOREM NothingLeaks == Spec => []NoLeak
<1>1. Spec => []TypeInv
  BY InitTypeInv, StepTypeInv, PTL DEF Spec
<1>2. Spec => []Ownership
  BY <1>1, InitOwnership, StepOwnership, PTL DEF Spec
<1>3. Init => NoLeak
  BY DEF Init, NoLeak
<1> QED BY <1>1, <1>2, <1>3, StepNoLeak, PTL DEF Spec

----------------------------------------------------------------------------
(* After close().                                                           *)

\* Once closed the pool stays closed
LEMMA ClosedForGood == closed /\ [Next]_vars => closed'
BY DEF Next, Acquire, Loop, AcquireClosed, AcquireIdle, AcquireCooldown, AcquireReserve,
       AcquireQueueFull, AcquireWait, AcquireTimeout, Turn, Create, CreateSucceeds, CreateFails,
       EndLease, Release, CloseClient, DeadlinePasses, Reap, ReaperExit, Shutdown,
       ShutdownCloses, GoesStale, CooldownEnds, vars, poolVars

\* The leases of a closed pool and what it lists do not change
LEMMA SameLeases ==
  ASSUME TypeInv, ClosedPoolParksNothing, closed' = closed, home' = home,
         \A r \in Requests : pc[r] = "leased" => pc'[r] = "leased" /\ client'[r] = client[r]
  PROVE  ClosedPoolParksNothing'
BY DEF ClosedPoolParksNothing, Listed

LEMMA StepParksNothing ==
  TypeInv /\ Ownership /\ ClosedPoolParksNothing /\ [Next]_vars => ClosedPoolParksNothing'
<1> SUFFICES ASSUME TypeInv, Ownership, ClosedPoolParksNothing, [Next]_vars
             PROVE  ClosedPoolParksNothing'
  OBVIOUS
<1> USE DEF TypeInv
<1>1. ASSUME ~closed' PROVE ClosedPoolParksNothing'
  BY <1>1 DEF ClosedPoolParksNothing
<1>2. ASSUME NEW r \in Requests, Loop(r), closed PROVE ClosedPoolParksNothing'
  <2>1. AcquireClosed(r)
    BY <1>2 DEF Loop, AcquireIdle, AcquireCooldown, AcquireReserve, AcquireQueueFull,
                AcquireWait, AcquireTimeout, Turn
  <2> QED BY <2>1, SameLeases DEF AcquireClosed, DropWaiter, Notified, TypeOK
<1>3. ASSUME NEW r \in Requests, CreateSucceeds(r), closed PROVE ClosedPoolParksNothing'
  <2>1. Listed' \subseteq Listed \cup {client[r]}
    BY <1>3 DEF CreateSucceeds, Listed, TypeOK
  <2>2. /\ pc'[r] = "leased" /\ client' = client
        /\ \A q \in Requests : pc[q] = "leased" => pc'[q] = "leased"
    BY <1>3 DEF CreateSucceeds, Notified, TypeOK
  <2> QED BY <1>3, <2>1, <2>2 DEF ClosedPoolParksNothing
<1>4. ASSUME NEW r \in Requests, CreateFails(r) PROVE ClosedPoolParksNothing'
  BY <1>4, SameLeases DEF CreateFails, Notified, TypeOK
<1>5. ASSUME NEW r \in Requests, NEW invalidate \in BOOLEAN, Release(r, invalidate), closed
      PROVE  ClosedPoolParksNothing'
  <2>1. /\ client' = client
        /\ \A q \in Requests : q # r /\ pc[q] = "leased" => pc'[q] = "leased"
        /\ Listed' = Listed \ {client[r]}
    BY <1>5 DEF Release, MustDrop, Notified, Listed, TypeOK
  <2> QED BY <1>5, <2>1 DEF ClosedPoolParksNothing
<1>6. ASSUME NEW r \in Requests,
             \/ CloseClient(r) \/ DeadlinePasses(r) \/ \E k \in Keys : Acquire(r, k)
      PROVE  ClosedPoolParksNothing'
  BY <1>6, SameLeases DEF CloseClient, DeadlinePasses, Acquire, TypeOK, poolVars
<1>7. ASSUME Shutdown PROVE ClosedPoolParksNothing'
  BY <1>7 DEF Shutdown, ClosedPoolParksNothing, Listed
<1>8. ASSUME \/ UNCHANGED vars \/ ReaperExit
             \/ \E c \in Clients : ShutdownCloses(c) \/ GoesStale(c)
             \/ \E k \in Keys : CooldownEnds(k)
      PROVE  ClosedPoolParksNothing'
  BY <1>8, SameLeases
     DEF ReaperExit, ShutdownCloses, GoesStale, CooldownEnds, vars, poolVars, requestVars
<1>9. ~closed /\ closed' => Shutdown
  BY DEF Next, Acquire, Loop, AcquireClosed, AcquireIdle, AcquireCooldown, AcquireReserve,
         AcquireQueueFull, AcquireWait, AcquireTimeout, Turn, Create, CreateSucceeds, CreateFails,
         EndLease, Release, CloseClient, DeadlinePasses, Reap, ReaperExit,
         ShutdownCloses, GoesStale, CooldownEnds, vars, poolVars
<1>10. closed => ~Reap
  BY DEF Reap
<1> QED
  BY <1>1, <1>2, <1>3, <1>4, <1>5, <1>6, <1>7, <1>8, <1>9, <1>10 DEF Next, Create, EndLease

\* A connection that a creation in flight lists after close() is never parked:
\* its request closes it when the lease ends.
THEOREM NothingParkedAfterClose == Spec => []ClosedPoolParksNothing
<1>1. Spec => []TypeInv
  BY InitTypeInv, StepTypeInv, PTL DEF Spec
<1>2. Spec => []Ownership
  BY <1>1, InitOwnership, StepOwnership, PTL DEF Spec
<1>3. Init => ClosedPoolParksNothing
  BY DEF Init, ClosedPoolParksNothing
<1> QED BY <1>1, <1>2, <1>3, StepParksNothing, PTL DEF Spec
=============================================================================
