------------------------- MODULE SSHPoolServiceProofs -------------------------
(* Theorems about what the pool does for its requests, for every number of  *)
(* requests, targets and clients and every configuration: the queues, the   *)
(* wakeups, the order of service, and the promise LeasePool states.         *)
EXTENDS SSHPoolProofs

----------------------------------------------------------------------------
(* Queues as sets.                                                          *)

Members(q) == {q[i] : i \in DOMAIN q}
Distinct(q) == \A i, j \in DOMAIN q : q[i] = q[j] => i = j

\* waiters.append queues one more
LEMMA AppendMembers ==
  ASSUME NEW q \in Seq(Requests), Distinct(q), NEW r \in Requests, r \notin Members(q)
  PROVE  /\ Append(q, r) \in Seq(Requests)
         /\ Members(Append(q, r)) = Members(q) \cup {r} /\ Distinct(Append(q, r))
<1> DEFINE a == Append(q, r)
<1>1. /\ a \in Seq(Requests) /\ Len(q) \in Nat /\ DOMAIN q = 1 .. Len(q)
      /\ DOMAIN a = 1 .. Len(q) + 1 /\ Len(a) = Len(q) + 1
      /\ a[Len(q) + 1] = r /\ \A i \in 1 .. Len(q) : a[i] = q[i]
  OBVIOUS
<1> HIDE DEF a
<1>2. Members(a) = Members(q) \cup {r}
  <2>1. ASSUME NEW x \in Members(a) PROVE x \in Members(q) \cup {r}
    <3>1. PICK i \in 1 .. Len(q) + 1 : x = a[i]
      BY <1>1, <2>1 DEF Members
    <3>2. i \in 1 .. Len(q) \/ i = Len(q) + 1
      BY <1>1
    <3> QED BY <1>1, <3>1, <3>2 DEF Members
  <2>2. ASSUME NEW x \in Members(q) PROVE x \in Members(a)
    <3>1. PICK i \in 1 .. Len(q) : x = q[i]
      BY <1>1 DEF Members
    <3>2. i \in 1 .. Len(q) + 1 /\ x = a[i]
      BY <1>1, <3>1
    <3> QED BY <1>1, <3>2 DEF Members
  <2>3. r \in Members(a)
    <3>1. Len(q) + 1 \in 1 .. Len(q) + 1
      BY <1>1
    <3> QED BY <1>1, <3>1 DEF Members
  <2> QED BY <2>1, <2>2, <2>3
<1>3. Distinct(a)
  <2> SUFFICES ASSUME NEW i \in 1 .. Len(q) + 1, NEW j \in 1 .. Len(q) + 1, a[i] = a[j]
               PROVE  i = j
    BY <1>1 DEF Distinct
  <2>1. \A l \in 1 .. Len(q) : q[l] # r
    BY <1>1 DEF Members
  <2>2. (i \in 1 .. Len(q) \/ i = Len(q) + 1) /\ (j \in 1 .. Len(q) \/ j = Len(q) + 1)
    BY <1>1
  <2>3. CASE i \in 1 .. Len(q) /\ j \in 1 .. Len(q)
    BY <1>1, <2>3 DEF Distinct
  <2> QED BY <1>1, <2>1, <2>2, <2>3
<1> QED BY <1>1, <1>2, <1>3 DEF a

\* waiters.remove of a ticket that is not queued changes nothing
LEMMA WithoutStranger ==
  ASSUME NEW q, NEW r, r \notin Members(q)
  PROVE  Without(q, r) = q
BY DEF Without, Members

\* waiters.remove takes that one ticket out and leaves the others
LEMMA WithoutMembers ==
  ASSUME NEW q \in Seq(Requests), Distinct(q), NEW r
  PROVE  Members(Without(q, r)) = Members(q) \ {r} /\ Distinct(Without(q, r))
<1>1. CASE r \notin Members(q)
  BY <1>1, WithoutStranger DEF Members
<1>2. CASE r \in Members(q)
  <2> DEFINE p == CHOOSE i \in DOMAIN q : q[i] = r
             n == Len(q)
             w == Without(q, r)
  <2>1. p \in DOMAIN q /\ q[p] = r
    BY <1>2 DEF Members
  <2>2. w = [i \in 1 .. n - 1 |-> IF i < p THEN q[i] ELSE q[i + 1]]
    BY <1>2 DEF Without, Members
  <2> HIDE DEF p, w
  <2>3. n \in Nat /\ DOMAIN q = 1 .. n /\ p \in 1 .. n
    BY <2>1
  <2>4. DOMAIN w = 1 .. n - 1 /\ \A i \in 1 .. n - 1 : w[i] = IF i < p THEN q[i] ELSE q[i + 1]
    BY <2>2
  <2>5. \A i, j \in 1 .. n : q[i] = q[j] => i = j
    BY <2>3 DEF Distinct
  <2> HIDE DEF n
  <2>6. ASSUME NEW x \in Members(w) PROVE x \in Members(q) \ {r}
    <3>1. PICK i \in 1 .. n - 1 : x = w[i]
      BY <2>4 DEF Members
    <3>2. CASE i < p
      <4>1. i \in 1 .. n /\ x = q[i] /\ i # p
        BY <2>3, <2>4, <3>1, <3>2
      <4> QED BY <2>1, <2>3, <2>5, <4>1 DEF Members
    <3>3. CASE ~(i < p)
      <4>1. i + 1 \in 1 .. n /\ x = q[i + 1] /\ i + 1 # p
        BY <2>3, <2>4, <3>1, <3>3
      <4> QED BY <2>1, <2>3, <2>5, <4>1 DEF Members
    <3> QED BY <3>2, <3>3
  <2>7. ASSUME NEW x \in Members(q) \ {r} PROVE x \in Members(w)
    <3>1. PICK i \in 1 .. n : x = q[i]
      BY <2>3 DEF Members
    <3>2. i # p
      BY <2>1, <3>1
    <3>3. CASE i < p
      <4>1. i \in 1 .. n - 1 /\ x = w[i]
        BY <2>3, <2>4, <3>1, <3>3
      <4> QED BY <2>4, <4>1 DEF Members
    <3>4. CASE i > p
      <4>1. i - 1 \in 1 .. n - 1 /\ ~(i - 1 < p) /\ (i - 1) + 1 = i
        BY <2>3, <3>4
      <4>2. x = w[i - 1]
        BY <2>4, <3>1, <4>1
      <4> QED BY <2>4, <4>1, <4>2 DEF Members
    <3> QED BY <2>3, <3>2, <3>3, <3>4
  <2>8. Distinct(w)
    <3> SUFFICES ASSUME NEW i \in 1 .. n - 1, NEW j \in 1 .. n - 1, w[i] = w[j]
                 PROVE  i = j
      BY <2>4 DEF Distinct
    <3> DEFINE from(l) == IF l < p THEN l ELSE l + 1
    <3>1. from(i) \in 1 .. n /\ from(j) \in 1 .. n
      BY <2>3
    <3>2. q[from(i)] = q[from(j)]
      BY <2>4
    <3>3. from(i) = from(j)
      BY <2>5, <3>1, <3>2
    <3> QED BY <2>3, <3>3
  <2> QED BY <2>6, <2>7, <2>8 DEF w
<1> QED BY <1>1, <1>2
----------------------------------------------------------------------------
(* The queues.                                                              *)

Holders == {r \in Requests : ticket[r]}

\* A request holds a ticket only inside the loop, and asleep it holds one
TicketsInLoop ==
  \A r \in Requests : /\ ticket[r] => pc[r] \in {"ready", "waiting"}
                      /\ pc[r] = "waiting" => ticket[r] /\ ~closed

Queues == TicketsInLoop /\ QueueMatchesTickets

\* QueueMatchesTickets in terms of the helpers above
LEMMA QueuesAsSets ==
  QueueMatchesTickets <=>
    (~closed =>
       /\ totalWaiters = Cardinality(Holders) /\ totalWaiters <= MaxWaiters
       /\ \A k \in Keys :
            /\ Members(waiters[k]) = {r \in Requests : ticket[r] /\ key[r] = k}
            /\ Distinct(waiters[k]))
BY DEF QueueMatchesTickets, Members, Distinct, Holders

LEMMA FiniteHolders ==
  IsFiniteSet(Holders) /\ Cardinality(Holders) \in Nat
<1>1. Holders \subseteq Requests
  BY DEF Holders
<1> QED BY <1>1, FinitePopulation, FS_Subset, FS_CardinalityType

\* What a turn that serves or refuses r does to its ticket: whatever it had is
\* gone, from the queue and from the count
Dropped(r) ==
  /\ waiters' = [waiters EXCEPT ![key[r]] = Without(@, r)]
  /\ totalWaiters' = IF ticket[r] THEN Minus(totalWaiters, 1) ELSE totalWaiters
  /\ ticket' = [ticket EXCEPT ![r] = FALSE]

LEMMA DropWaiterDrops ==
  ASSUME TypeInv, Queues, ~closed, NEW r \in Requests, key[r] \in Keys, NEW next,
         DropWaiter(r, next)
  PROVE  Dropped(r)
<1> USE DEF TypeInv, TypeOK
<1>1. CASE ticket[r]
  BY <1>1 DEF DropWaiter, Dropped
<1>2. CASE ~ticket[r]
  <2>1. r \notin Members(waiters[key[r]])
    BY <1>2, QueuesAsSets DEF Queues
  <2>2. Without(waiters[key[r]], r) = waiters[key[r]]
    BY <2>1, WithoutStranger
  <2>3. waiters' = [waiters EXCEPT ![key[r]] = Without(@, r)]
    BY <1>2, <2>2 DEF DropWaiter
  <2> QED BY <1>2, <2>3 DEF DropWaiter, Dropped
<1> QED BY <1>1, <1>2

\* Dropping keeps queues and tickets in step
LEMMA DroppedMatches ==
  ASSUME TypeInv, Queues, ~closed, NEW r \in Requests, key[r] \in Keys, Dropped(r),
         \A q \in Requests : q # r => key'[q] = key[q]
  PROVE  QueueMatchesTickets'
<1> USE DEF TypeInv, TypeOK
<1>0. /\ totalWaiters = Cardinality(Holders) /\ totalWaiters <= MaxWaiters
      /\ \A k \in Keys :
           /\ Members(waiters[k]) = {q \in Requests : ticket[q] /\ key[q] = k}
           /\ Distinct(waiters[k])
  BY QueuesAsSets DEF Queues
<1>1. \A q \in Requests : ticket'[q] <=> ticket[q] /\ q # r
  BY DEF Dropped
<1>2. totalWaiters' = Cardinality(Holders') /\ totalWaiters' <= MaxWaiters
  <2>1. CASE ticket[r]
    <3>1. Holders' = Holders \ {r} /\ r \in Holders
      BY <1>1, <2>1 DEF Holders
    <3>2. IsFiniteSet(Holders') /\ Cardinality(Holders') = Cardinality(Holders) - 1
      BY <3>1, FiniteHolders, FS_RemoveElement
    <3>3. Cardinality(Holders') \in Nat
      BY <3>2, FS_CardinalityType
    <3> QED BY <1>0, <2>1, <3>2, <3>3, FiniteHolders, PoolConfig DEF Dropped, Minus
  <2>2. CASE ~ticket[r]
    <3>1. Holders' = Holders
      BY <1>1, <2>2 DEF Holders
    <3> QED BY <1>0, <2>2, <3>1 DEF Dropped
  <2> QED BY <2>1, <2>2
<1>3. ASSUME NEW k \in Keys
      PROVE  /\ Members(waiters'[k]) = {q \in Requests : ticket'[q] /\ key'[q] = k}
             /\ Distinct(waiters'[k])
  <2>1. {q \in Requests : ticket'[q] /\ key'[q] = k}
          = {q \in Requests : ticket[q] /\ key[q] = k} \ {r}
    BY <1>1
  <2>2. CASE k = key[r]
    <3>1. waiters'[k] = Without(waiters[k], r) /\ waiters[k] \in Seq(Requests)
      BY <2>2 DEF Dropped
    <3> QED BY <1>0, <2>1, <3>1, WithoutMembers
  <2>3. CASE k # key[r]
    <3>1. waiters'[k] = waiters[k] /\ r \notin Members(waiters[k])
      BY <1>0, <2>3 DEF Dropped
    <3> QED BY <1>0, <2>1, <3>1
  <2> QED BY <2>2, <2>3
<1> QED BY <1>2, <1>3 DEF QueueMatchesTickets, Members, Distinct, Holders

\* Queues, tickets and the keys of ticket holders do not change
LEMMA SameQueues ==
  ASSUME TypeInv, QueueMatchesTickets,
         UNCHANGED <<waiters, totalWaiters, ticket>>, closed' = closed,
         \A r \in Requests : ticket[r] => key'[r] = key[r]
  PROVE  QueueMatchesTickets'
<1>1. Holders' = Holders
  BY DEF Holders
<1>2. \A k \in Keys : {r \in Requests : ticket'[r] /\ key'[r] = k} = {r \in Requests : ticket[r] /\ key[r] = k}
  <2> TAKE k \in Keys
  <2>1. \A r \in Requests : ticket'[r] /\ key'[r] = k <=> ticket[r] /\ key[r] = k
    OBVIOUS
  <2> QED BY <2>1
<1> QED BY <1>1, <1>2 DEF QueueMatchesTickets, Holders

LEMMA LoopQueues ==
  ASSUME TypeInv, Queues, NEW r \in Requests, Loop(r)
  PROVE  Queues'
<1> USE DEF TypeInv
<1>0. pc[r] = "ready" /\ key[r] \in Keys /\ closed' = closed
  BY DEF Loop, InAcquire, AcquireClosed, AcquireIdle, AcquireCooldown, AcquireReserve,
         AcquireQueueFull, AcquireWait, AcquireTimeout, Turn
<1>1. CASE AcquireClosed(r)
  <2>1. QueueMatchesTickets'
    BY <1>0, <1>1 DEF AcquireClosed, QueueMatchesTickets
  <2>2. TicketsInLoop'
    BY <1>1 DEF AcquireClosed, DropWaiter, Notified, Queues, TicketsInLoop, TypeOK
  <2> QED BY <2>1, <2>2 DEF Queues
<1>2. ASSUME NEW next \in {"out", "leased", "connecting"}, DropWaiter(r, next), ~closed,
             \A q \in Requests : q # r => key'[q] = key[q]
      PROVE  Queues'
  <2>1. QueueMatchesTickets'
    BY <1>0, <1>2, DropWaiterDrops, DroppedMatches
  <2>2. TicketsInLoop'
    BY <1>0, <1>2 DEF DropWaiter, Notified, Queues, TicketsInLoop, TypeOK
  <2> QED BY <2>1, <2>2 DEF Queues
<1>3. CASE AcquireIdle(r) \/ AcquireCooldown(r) \/ AcquireReserve(r)
  <2>1. ~closed /\ \A q \in Requests : q # r => key'[q] = key[q]
    BY <1>3 DEF AcquireIdle, AcquireCooldown, AcquireReserve, Turn, Forget, TypeOK
  <2>2. DropWaiter(r, "leased") \/ DropWaiter(r, "out") \/ DropWaiter(r, "connecting")
    BY <1>3 DEF AcquireIdle, AcquireCooldown, AcquireReserve
  <2> QED BY <1>2, <2>1, <2>2
<1>4. CASE AcquireQueueFull(r)
  <2>1. QueueMatchesTickets'
    BY <1>4, SameQueues DEF AcquireQueueFull, Forget, Queues, TypeOK
  <2>2. TicketsInLoop'
    BY <1>0, <1>4 DEF AcquireQueueFull, Queues, TicketsInLoop, TypeOK
  <2> QED BY <2>1, <2>2 DEF Queues
<1>5. CASE AcquireWait(r)
  <2>1. ~closed /\ key' = key /\ ticket' = [ticket EXCEPT ![r] = TRUE]
    BY <1>5 DEF AcquireWait, Turn
  <2>2. TicketsInLoop'
    BY <1>0, <1>5, <2>1 DEF AcquireWait, Queues, TicketsInLoop, TypeOK
  <2>3. CASE ticket[r]
    <3>1. UNCHANGED <<waiters, totalWaiters, ticket>>
      BY <1>5, <2>1, <2>3 DEF AcquireWait, TypeOK
    <3> QED BY <1>0, <2>1, <2>2, <3>1, SameQueues DEF Queues
  <2>4. CASE ~ticket[r]
    <3>1. /\ totalWaiters' = totalWaiters + 1 /\ totalWaiters < MaxWaiters
          /\ waiters' = [waiters EXCEPT ![key[r]] = Append(@, r)]
      BY <1>5, <2>4 DEF AcquireWait
    <3>2. /\ totalWaiters = Cardinality(Holders)
          /\ \A k \in Keys :
               /\ Members(waiters[k]) = {q \in Requests : ticket[q] /\ key[q] = k}
               /\ Distinct(waiters[k])
      BY <2>1, QueuesAsSets DEF Queues
    <3>3. Holders' = Holders \cup {r} /\ r \notin Holders
      BY <2>1, <2>4 DEF Holders, TypeOK
    <3>4. Cardinality(Holders') = Cardinality(Holders) + 1
      BY <3>3, FiniteHolders, FS_AddElement
    <3>5. ASSUME NEW k \in Keys
          PROVE  /\ Members(waiters'[k]) = {q \in Requests : ticket'[q] /\ key'[q] = k}
                 /\ Distinct(waiters'[k])
      <4>1. CASE k = key[r]
        <5>1. waiters'[k] = Append(waiters[k], r) /\ waiters[k] \in Seq(Requests)
              /\ r \notin Members(waiters[k])
          BY <2>4, <3>1, <3>2, <4>1 DEF TypeOK
        <5>2. {q \in Requests : ticket'[q] /\ key'[q] = k}
                = {q \in Requests : ticket[q] /\ key[q] = k} \cup {r}
          BY <2>1, <4>1 DEF TypeOK
        <5> QED BY <3>2, <5>1, <5>2, AppendMembers
      <4>2. CASE k # key[r]
        <5>1. waiters'[k] = waiters[k]
          BY <3>1, <4>2 DEF TypeOK
        <5>2. {q \in Requests : ticket'[q] /\ key'[q] = k}
                = {q \in Requests : ticket[q] /\ key[q] = k}
          BY <2>1, <2>4, <4>2 DEF TypeOK
        <5> QED BY <3>2, <5>1, <5>2
      <4> QED BY <4>1, <4>2
    <3>6. totalWaiters' <= MaxWaiters
      BY <3>1, PoolConfig DEF TypeOK
    <3>7. QueueMatchesTickets'
      BY <3>1, <3>2, <3>4, <3>5, <3>6 DEF QueueMatchesTickets, Members, Distinct, Holders
    <3> QED BY <2>2, <3>7 DEF Queues
  <2> QED BY <2>3, <2>4
<1>6. CASE AcquireTimeout(r)
  <2>1. ~closed /\ Dropped(r) /\ \A q \in Requests : q # r => key'[q] = key[q]
    BY <1>6 DEF AcquireTimeout, Turn, Dropped, Forget, TypeOK
  <2>2. QueueMatchesTickets'
    BY <1>0, <2>1, DroppedMatches
  <2>3. TicketsInLoop'
    BY <1>0, <1>6 DEF AcquireTimeout, Notified, Queues, TicketsInLoop, TypeOK
  <2> QED BY <2>2, <2>3 DEF Queues
<1> QED BY <1>1, <1>3, <1>4, <1>5, <1>6 DEF Loop

LEMMA StepQueues == TypeInv /\ Queues /\ [Next]_vars => Queues'
<1> SUFFICES ASSUME TypeInv, Queues, [Next]_vars PROVE Queues'
  OBVIOUS
<1> USE DEF TypeInv
<1>1. ASSUME NEW r \in Requests, NEW k \in Keys, Acquire(r, k) PROVE Queues'
  <2>1. QueueMatchesTickets'
    BY <1>1, SameQueues DEF Acquire, poolVars, Queues, TicketsInLoop, TypeOK
  <2>2. TicketsInLoop'
    BY <1>1 DEF Acquire, poolVars, Queues, TicketsInLoop, TypeOK
  <2> QED BY <2>1, <2>2 DEF Queues
<1>2. ASSUME NEW r \in Requests, Loop(r) PROVE Queues'
  BY <1>2, LoopQueues
<1>3. ASSUME NEW r \in Requests, Create(r) PROVE Queues'
  <2>1. QueueMatchesTickets'
    BY <1>3, SameQueues DEF Create, CreateSucceeds, CreateFails, Queues
  <2>2. TicketsInLoop'
    BY <1>3 DEF Create, CreateSucceeds, CreateFails, Notified, Queues, TicketsInLoop, TypeOK
  <2> QED BY <2>1, <2>2 DEF Queues
<1>4. ASSUME NEW r \in Requests, NEW invalidate \in BOOLEAN, Release(r, invalidate)
      PROVE  Queues'
  <2>1. ~ticket[r]
    BY <1>4 DEF Release, Queues, TicketsInLoop
  <2>2. \A q \in Requests : ticket[q] => key'[q] = key[q]
    BY <1>4, <2>1 DEF Release, TypeOK
  <2>3. QueueMatchesTickets'
    BY <1>4, <2>2, SameQueues DEF Release, Queues
  <2>4. TicketsInLoop'
    BY <1>4 DEF Release, Notified, Queues, TicketsInLoop, TypeOK
  <2> QED BY <2>3, <2>4 DEF Queues
<1>5. ASSUME NEW r \in Requests, CloseClient(r) \/ DeadlinePasses(r) PROVE Queues'
  <2>1. \A q \in Requests : ticket[q] => key'[q] = key[q]
    BY <1>5 DEF CloseClient, DeadlinePasses, Queues, TicketsInLoop, TypeOK
  <2>2. QueueMatchesTickets'
    BY <1>5, <2>1, SameQueues DEF CloseClient, DeadlinePasses, poolVars, Queues
  <2>3. TicketsInLoop'
    BY <1>5 DEF CloseClient, DeadlinePasses, poolVars, Queues, TicketsInLoop, TypeOK
  <2> QED BY <2>2, <2>3 DEF Queues
<1>6. ASSUME Reap PROVE Queues'
  <2>1. QueueMatchesTickets'
    BY <1>6, SameQueues DEF Reap, Queues
  <2> QED BY <1>6, <2>1 DEF Reap, Notified, Queues, TicketsInLoop, TypeOK
<1>7. ASSUME Shutdown PROVE Queues'
  BY <1>7 DEF Shutdown, Notified, Queues, QueueMatchesTickets, TicketsInLoop, TypeOK
<1>8. ASSUME \/ UNCHANGED vars \/ ReaperExit
             \/ \E c \in Clients : ShutdownCloses(c) \/ GoesStale(c)
             \/ \E k \in Keys : CooldownEnds(k)
      PROVE  Queues'
  <2>1. /\ UNCHANGED <<waiters, totalWaiters, ticket>> /\ closed' = closed /\ key' = key /\ pc' = pc
    BY <1>8 DEF ReaperExit, ShutdownCloses, GoesStale, CooldownEnds, vars, poolVars, requestVars
  <2> QED BY <2>1, SameQueues DEF Queues, TicketsInLoop
<1> QED
  BY <1>1, <1>2, <1>3, <1>4, <1>5, <1>6, <1>7, <1>8 DEF Next, EndLease

LEMMA InitQueues == Init => Queues
<1> SUFFICES ASSUME Init PROVE Queues
  OBVIOUS
<1>1. {r \in Requests : ticket[r]} = {} /\ Cardinality({}) = 0
  BY FS_EmptySet DEF Init
<1>2. totalWaiters = Cardinality({r \in Requests : ticket[r]})
  BY <1>1 DEF Init
<1>3. QueueMatchesTickets
  BY <1>2, PoolConfig DEF Init, QueueMatchesTickets
<1> QED BY <1>3 DEF Init, Queues, TicketsInLoop

\* No stray ticket ever blocks a target, and none is lost: the queues, the
\* tickets requests believe in and the count of waiters agree.
THEOREM QueuesAgree == Spec => []QueueMatchesTickets
<1>1. Spec => []TypeInv
  BY InitTypeInv, StepTypeInv, PTL DEF Spec
<1>2. Spec => []Queues
  BY <1>1, InitQueues, StepQueues, PTL DEF Spec
<1> QED BY <1>2, PTL DEF Queues

----------------------------------------------------------------------------
(* Wakeups.                                                                 *)

\* CanProceed without its detail: for a request whose turn it is there is
\* nothing to be had for k when no parked connection is usable, the target is
\* not cooling down, and a creation is under way, the target is at its limit,
\* or the pool is at its limit and parks nothing that could make room
Exhausted(k) ==
  /\ TakeIdle(k) = {} /\ k \notin cooldown
  /\ k \in creating \/ TargetCount(k) >= TargetMax \/ (total = GlobalMax /\ idle = {})

LEMMA TargetCountType ==
  ASSUME TypeInv, NEW k
  PROVE  TargetCount(k) \in Nat
<1>1. Kept(k) \subseteq Clients
  BY DEF Kept, Conns
<1> QED BY <1>1, FiniteParts DEF TargetCount

LEMMA NothingToHave ==
  ASSUME TypeInv, Ownership, Slots, ~closed, NEW r \in Requests, key[r] \in Keys
  PROVE  ~CanProceed(r) <=> (IsTurn(r) => Exhausted(key[r]))
<1> USE DEF TypeInv
<1> DEFINE k == key[r]
<1>1. /\ Stale(k) \subseteq idle /\ Stale(k) \subseteq Listed
      /\ Cardinality(Stale(k)) \in 0 .. Cardinality(Listed)
      /\ Cardinality(Listed) \in Nat /\ Cardinality(creating) \in Nat
  <2>1. Stale(k) \subseteq idle /\ Stale(k) \subseteq Listed
    BY DEF Stale, Ownership
  <2>2. IsFiniteSet(Listed) /\ Cardinality(Listed) \in Nat /\ Cardinality(creating) \in Nat
    BY FiniteParts DEF Listed, TypeOK
  <2> QED BY <2>1, <2>2, CountDifference
<1>2. total = Cardinality(Listed) + Cardinality(creating) /\ total <= GlobalMax
  BY DEF Slots, SlotsAccounted, WithinLimits
<1>3. TotalKept(k) = total - Cardinality(Stale(k)) /\ TotalKept(k) \in Nat
  BY <1>1, <1>2 DEF TotalKept, Minus
<1>4. CASE TakeIdle(k) # {} \/ k \in cooldown
  BY <1>4 DEF CanProceed, Exhausted
<1>5. CASE TakeIdle(k) = {} /\ k \notin cooldown
  <2>1. idle \cap Conns(k) \subseteq Stale(k)
    BY <1>5 DEF TakeIdle, Kept
  <2>2. (\E gone \in Evictions(k) : Minus(TotalKept(k), Cardinality(gone)) < GlobalMax)
          <=> ~(total = GlobalMax /\ idle = {})
    <3>1. CASE TotalKept(k) < GlobalMax
      <4>1. Evictions(k) = {{}} /\ Cardinality({}) = 0
        BY <1>3, <3>1, PoolConfig, FS_EmptySet DEF Evictions
      <4>2. Minus(TotalKept(k), Cardinality({})) < GlobalMax
        BY <1>3, <3>1, <4>1 DEF Minus
      <4>3. \E gone \in Evictions(k) : Minus(TotalKept(k), Cardinality(gone)) < GlobalMax
        BY <4>1, <4>2
      <4>4. idle # {} \/ total < GlobalMax
        <5>1. CASE idle = {}
          <6>1. Stale(k) = {}
            BY <1>1, <5>1
          <6> QED BY <1>3, <3>1, <4>1, <6>1, PoolConfig DEF TypeOK
        <5> QED BY <5>1
      <4> QED BY <4>3, <4>4, PoolConfig DEF TypeOK
    <3>2. CASE TotalKept(k) >= GlobalMax /\ Evictable(k) # {}
      <4>1. PICK c \in Evictable(k) : {c} \in Evictions(k)
        BY <3>2 DEF Evictions
      <4>2. Cardinality({c}) = 1
        BY FS_Singleton
      <4>3. Minus(TotalKept(k), Cardinality({c})) < GlobalMax
        BY <1>1, <1>2, <1>3, <3>2, <4>2, PoolConfig DEF Minus
      <4> QED BY <4>1, <4>3 DEF Evictable
    <3>3. CASE TotalKept(k) >= GlobalMax /\ Evictable(k) = {}
      <4>1. total = GlobalMax /\ Cardinality(Stale(k)) = 0
        BY <1>1, <1>2, <1>3, <3>3, PoolConfig
      <4>2. Stale(k) = {}
        <5>1. IsFiniteSet(Stale(k))
          BY FiniteParts DEF Stale, Conns
        <5> QED BY <4>1, <5>1, FS_EmptySet
      <4>3. idle = {}
        BY <2>1, <3>3, <4>2 DEF Evictable, Conns, TypeOK
      <4>4. Evictions(k) = {{}} /\ Cardinality({}) = 0
        BY <3>3, FS_EmptySet DEF Evictions
      <4>5. ~(Minus(TotalKept(k), Cardinality({})) < GlobalMax)
        BY <1>3, <3>3, <4>4, PoolConfig DEF Minus
      <4> QED BY <4>1, <4>3, <4>4, <4>5
    <3> QED BY <1>3, <3>1, <3>2, <3>3, PoolConfig
  <2>3. CanReserve(k) <=>
          ~(k \in creating \/ TargetCount(k) >= TargetMax \/ (total = GlobalMax /\ idle = {}))
    BY <2>2, TargetCountType, PoolConfig DEF CanReserve
  <2> QED BY <1>5, <2>3 DEF CanProceed, Exhausted
<1> QED BY <1>4, <1>5

\* What a step that does not notify may do to the pool: parked connections go
\* or lose their use, cooldowns end, creations start; no slot comes free that
\* a full pool without parked connections was short of
Lull ==
  /\ \E gone \in SUBSET idle : home' = [c \in Clients |-> IF c \in gone THEN NoKey ELSE home[c]]
  /\ idle' \subseteq idle /\ alive' \subseteq alive
  /\ creating \subseteq creating' /\ cooldown' \subseteq cooldown
  /\ total = GlobalMax /\ idle = {} => total' = GlobalMax

LEMMA ExhaustedInLull ==
  ASSUME TypeInv, TypeInv', Lull, NEW k \in Keys, Exhausted(k)
  PROVE  Exhausted(k)'
<1> USE DEF TypeInv
<1>1. PICK gone \in SUBSET idle : home' = [c \in Clients |-> IF c \in gone THEN NoKey ELSE home[c]]
  BY DEF Lull
<1>2. Kept(k) = Conns(k) \ idle
  BY DEF Exhausted, TakeIdle, Kept, Stale
<1>3. Conns(k)' = Conns(k) \ gone
  BY <1>1, FinitePopulation DEF Conns, TypeOK
<1>4. Kept(k) \subseteq Kept(k)'
  BY <1>2, <1>3 DEF Kept, Stale, Lull
<1>5. (TakeIdle(k) = {})'
  BY <1>3 DEF Exhausted, TakeIdle, Kept, Stale, Lull
<1>6. (k \notin cooldown)'
  BY DEF Exhausted, Lull
<1>7. CASE k \in creating
  BY <1>5, <1>6, <1>7 DEF Exhausted, Lull
<1>8. CASE k \notin creating /\ TargetCount(k) >= TargetMax
  <2>1. IsFiniteSet(Kept(k)') /\ Kept(k)' \subseteq Clients /\ Cardinality(Kept(k)') \in Nat
    <3>1. Kept(k)' \subseteq Clients
      BY <1>3 DEF Kept, Conns
    <3> QED BY <3>1, FiniteParts
  <2>2. Cardinality(Kept(k)) <= Cardinality(Kept(k)') /\ Cardinality(Kept(k)) \in Nat
    BY <1>4, <2>1, FS_Subset, FS_CardinalityType
  <2>3. (TargetCount(k) >= TargetMax \/ k \in creating)'
    BY <1>8, <2>1, <2>2, PoolConfig DEF TargetCount
  <2> QED BY <1>5, <1>6, <2>3 DEF Exhausted
<1>9. CASE total = GlobalMax /\ idle = {}
  BY <1>5, <1>6, <1>9 DEF Exhausted, Lull
<1> QED BY <1>7, <1>8, <1>9 DEF Exhausted

\* Asleep, a request waits for its turn or for something to be had
SleepersBlocked ==
  \A r \in Requests : pc[r] = "waiting" => (IsTurn(r) => Exhausted(key[r]))

PoolInv == TypeInv /\ Ownership /\ Slots /\ Queues

LEMMA SleepersWait == PoolInv => (NoLostWakeup <=> SleepersBlocked)
<1> SUFFICES ASSUME PoolInv, NEW r \in Requests, pc[r] = "waiting"
             PROVE  ~CanProceed(r) /\ ~closed <=> (IsTurn(r) => Exhausted(key[r]))
  BY DEF NoLostWakeup, SleepersBlocked
<1>1. ~closed /\ key[r] \in Keys
  BY DEF PoolInv, Queues, TicketsInLoop, TypeInv, InAcquire
<1> QED BY <1>1, NothingToHave DEF PoolInv

\* A request that was asleep stays blocked through a lull that changes neither
\* its ticket nor the head of its queue
LEMMA SleepsOn ==
  ASSUME PoolInv, PoolInv', SleepersBlocked, Lull, NEW r \in Requests,
         pc[r] = "waiting", ticket'[r] = ticket[r], key'[r] = key[r],
         waiters'[key[r]] = waiters[key[r]]
           \/ \E q \in Requests : waiters'[key[r]] = Append(waiters[key[r]], q)
  PROVE  (IsTurn(r) => Exhausted(key[r]))'
<1> USE DEF PoolInv, TypeInv
<1>1. key[r] \in Keys /\ ticket[r] /\ ~closed
  BY DEF InAcquire, Queues, TicketsInLoop
<1>2. waiters[key[r]] # <<>> /\ waiters[key[r]] \in Seq(Requests)
  <2>1. r \in Members(waiters[key[r]])
    BY <1>1, QueuesAsSets DEF Queues
  <2> QED BY <1>1, <2>1 DEF Members, TypeOK
<1>3. IsTurn(r)' => IsTurn(r)
  BY <1>1, <1>2 DEF IsTurn
<1>4. Exhausted(key[r]) => Exhausted(key[r])'
  <2>1. PICK k \in Keys : k = key[r] /\ k = key'[r]
    BY <1>1
  <2>2. Exhausted(k) => Exhausted(k)'
    BY ExhaustedInLull
  <2> QED BY <2>1, <2>2
<1> QED BY <1>3, <1>4 DEF SleepersBlocked

\* After notify_all nobody sleeps
LEMMA NobodySleeps ==
  ASSUME NEW stages, pc' = Notified(stages)
  PROVE  SleepersBlocked'
BY DEF Notified, SleepersBlocked

\* Nobody goes to sleep in the step
LEMMA SleepersSleepOn ==
  ASSUME PoolInv, PoolInv', SleepersBlocked, Lull,
         \A r \in Requests : pc'[r] = "waiting" =>
           pc[r] = "waiting" /\ ticket'[r] = ticket[r] /\ key'[r] = key[r],
         waiters' = waiters
  PROVE  SleepersBlocked'
<1> SUFFICES ASSUME NEW r \in Requests, pc'[r] = "waiting"
             PROVE  (IsTurn(r) => Exhausted(key[r]))'
  BY DEF SleepersBlocked
<1> QED BY SleepsOn

\* The prune of a target is part of a lull
LEMMA PruneIsLull ==
  ASSUME PoolInv, NEW k,
         home' = [c \in Clients |-> IF c \in Stale(k) THEN NoKey ELSE home[c]],
         alive' \subseteq alive, idle' \subseteq idle, creating' = creating,
         cooldown' = cooldown, total' = TotalKept(k)
  PROVE  Lull
<1>1. Stale(k) \in SUBSET idle
  BY DEF Stale
<1>2. ASSUME idle = {} PROVE total' = total
  <2>1. Stale(k) = {} /\ Cardinality({}) = 0
    BY <1>1, <1>2, FS_EmptySet
  <2> QED BY <2>1 DEF TotalKept, Minus, PoolInv, TypeInv, TypeOK
<1> QED BY <1>1, <1>2 DEF Lull

LEMMA LoopSleepers ==
  ASSUME PoolInv, PoolInv', SleepersBlocked, NEW r \in Requests, Loop(r)
  PROVE  SleepersBlocked'
<1> USE DEF PoolInv, TypeInv
<1> DEFINE k == key[r]
<1>0. pc[r] = "ready" /\ k \in Keys
  BY DEF Loop, InAcquire, AcquireClosed, AcquireIdle, AcquireCooldown, AcquireReserve,
         AcquireQueueFull, AcquireWait, AcquireTimeout, Turn
<1>1. CASE AcquireClosed(r)
  BY <1>1 DEF AcquireClosed, Queues, TicketsInLoop, SleepersBlocked
<1>2. ASSUME NEW next, DropWaiter(r, next), ticket[r] PROVE SleepersBlocked'
  <2>1. pc' = Notified([pc EXCEPT ![r] = next])
    BY <1>2 DEF DropWaiter
  <2> QED BY <2>1, NobodySleeps
<1>3. ASSUME NEW next \in {"out", "leased", "connecting"}, DropWaiter(r, next), ~ticket[r],
             Lull, \A q \in Requests : q # r => key'[q] = key[q]
      PROVE  SleepersBlocked'
  <2>1. /\ waiters' = waiters
        /\ \A q \in Requests : pc'[q] = "waiting" =>
             pc[q] = "waiting" /\ ticket'[q] = ticket[q] /\ key'[q] = key[q]
    BY <1>0, <1>3 DEF DropWaiter, TypeOK
  <2> QED BY <1>3, <2>1, SleepersSleepOn
<1>4. CASE AcquireIdle(r)
  <2>1. Lull /\ DropWaiter(r, "leased") /\ key' = key
    BY <1>4, PruneIsLull DEF AcquireIdle, RemoveAndClose
  <2> QED BY <1>2, <1>3, <2>1
<1>5. CASE AcquireCooldown(r)
  <2>1. Lull /\ DropWaiter(r, "out") /\ \A q \in Requests : q # r => key'[q] = key[q]
    BY <1>5, PruneIsLull DEF AcquireCooldown, RemoveAndClose, Forget, TypeOK
  <2> QED BY <1>2, <1>3, <2>1
<1>6. CASE AcquireReserve(r)
  <2>1. DropWaiter(r, "connecting") /\ key' = key /\ ~closed /\ CanProceed(r)
        /\ TakeIdle(k) = {} /\ k \notin cooldown
    BY <1>6 DEF AcquireReserve, Turn, CanProceed
  <2>2. ~(total = GlobalMax /\ idle = {})
    BY <1>0, <2>1, NothingToHave DEF Exhausted, CanProceed
  <2>3. PICK gone \in Evictions(k), c \in Clients :
          /\ home' = [d \in Clients |-> IF d \in Stale(k) \cup gone THEN NoKey ELSE home[d]]
          /\ alive' = alive \ (Stale(k) \cup gone)
          /\ idle' = idle \ (Stale(k) \cup gone)
    BY <1>6 DEF AcquireReserve
  <2>4. Stale(k) \cup gone \in SUBSET idle
    BY DEF Stale, Evictions, Evictable
  <2>5. Lull
    BY <1>6, <2>2, <2>3, <2>4 DEF AcquireReserve, Lull
  <2> QED BY <1>2, <1>3, <2>1, <2>5
<1>7. CASE AcquireQueueFull(r)
  <2>1. Lull
    BY <1>7, PruneIsLull DEF AcquireQueueFull, RemoveAndClose
  <2>2. /\ waiters' = waiters
        /\ \A q \in Requests : pc'[q] = "waiting" =>
             pc[q] = "waiting" /\ ticket'[q] = ticket[q] /\ key'[q] = key[q]
    BY <1>0, <1>7 DEF AcquireQueueFull, Forget, TypeOK
  <2> QED BY <2>1, <2>2, SleepersSleepOn
<1>8. CASE AcquireWait(r)
  <2>1. Lull /\ ~closed /\ ~CanProceed(r) /\ key' = key
    BY <1>8, PruneIsLull DEF AcquireWait, Turn, RemoveAndClose
  <2>2. ASSUME NEW q \in Requests, q # r, pc'[q] = "waiting"
        PROVE  (IsTurn(q) => Exhausted(key[q]))'
    <3>1. pc[q] = "waiting" /\ ticket'[q] = ticket[q] /\ key[q] \in Keys
      BY <1>8, <2>2 DEF AcquireWait, InAcquire, TypeOK
    <3>2. waiters'[key[q]] = waiters[key[q]] \/ waiters'[key[q]] = Append(waiters[key[q]], r)
      BY <1>8, <3>1 DEF AcquireWait, TypeOK
    <3> QED BY <2>1, <3>1, <3>2, SleepsOn
  <2>3. (IsTurn(r) => Exhausted(key[r]))'
    <3>1. IsTurn(r) => Exhausted(key[r])
      BY <1>0, <2>1, NothingToHave
    <3>2. IsTurn(r)' => IsTurn(r)
      <4>1. CASE ticket[r]
        BY <1>8, <2>1, <4>1 DEF AcquireWait, IsTurn, TypeOK
      <4>2. CASE ~ticket[r] /\ waiters[k] # <<>>
        <5>1. r \notin Members(waiters[k]) /\ waiters[k] \in Seq(Requests)
          BY <1>0, <2>1, <4>2, QueuesAsSets DEF Queues, TypeOK
        <5>2. Head(waiters[k]) # r
          BY <4>2, <5>1 DEF Members
        <5>3. waiters'[k] = Append(waiters[k], r) /\ ticket'[r]
          BY <1>0, <1>8, <4>2 DEF AcquireWait, TypeOK
        <5> QED BY <2>1, <4>2, <5>1, <5>2, <5>3 DEF IsTurn
      <4>3. CASE ~ticket[r] /\ waiters[k] = <<>>
        BY <4>3 DEF IsTurn
      <4> QED BY <4>1, <4>2, <4>3
    <3>3. PICK j \in Keys : j = key[r] /\ j = key'[r]
      BY <1>0, <2>1
    <3>4. Exhausted(j) => Exhausted(j)'
      BY <2>1, ExhaustedInLull
    <3> QED BY <3>1, <3>2, <3>3, <3>4
  <2> QED BY <2>2, <2>3 DEF SleepersBlocked
<1>9. CASE AcquireTimeout(r)
  <2>1. pc' = Notified([pc EXCEPT ![r] = "out"])
    BY <1>9 DEF AcquireTimeout
  <2> QED BY <2>1, NobodySleeps
<1> QED BY <1>1, <1>4, <1>5, <1>6, <1>7, <1>8, <1>9 DEF Loop

LEMMA StepSleepers ==
  PoolInv /\ PoolInv' /\ SleepersBlocked /\ [Next]_vars => SleepersBlocked'
<1> SUFFICES ASSUME PoolInv, PoolInv', SleepersBlocked, [Next]_vars PROVE SleepersBlocked'
  OBVIOUS
<1> USE DEF PoolInv, TypeInv
<1>0. ASSUME home' = home PROVE \E gone \in SUBSET idle :
               home' = [c \in Clients |-> IF c \in gone THEN NoKey ELSE home[c]]
  <2>1. home' = [c \in Clients |-> IF c \in {} THEN NoKey ELSE home[c]]
    BY <1>0 DEF TypeOK
  <2> WITNESS {} \in SUBSET idle
  <2> QED BY <2>1
<1>1. ASSUME NEW r \in Requests, Loop(r) PROVE SleepersBlocked'
  BY <1>1, LoopSleepers
<1>2. ASSUME NEW r \in Requests, Create(r) PROVE SleepersBlocked'
  <2>1. \/ pc' = Notified([pc EXCEPT ![r] = "leased"])
        \/ pc' = Notified([pc EXCEPT ![r] = "closing"])
    BY <1>2 DEF Create, CreateSucceeds, CreateFails
  <2> QED BY <2>1, NobodySleeps
<1>3. ASSUME NEW r \in Requests, NEW invalidate \in BOOLEAN, Release(r, invalidate)
      PROVE  SleepersBlocked'
  <2>1. CASE client[r] \in Listed
    <3>1. \/ pc' = Notified([pc EXCEPT ![r] = "closing"])
          \/ pc' = Notified([pc EXCEPT ![r] = "out"])
      BY <1>3, <2>1 DEF Release
    <3> QED BY <3>1, NobodySleeps
  <2>2. CASE client[r] \notin Listed
    <3>1. Lull
      BY <1>0, <1>3, <2>2 DEF Release, Lull
    <3>2. /\ waiters' = waiters
          /\ \A q \in Requests : pc'[q] = "waiting" =>
               pc[q] = "waiting" /\ ticket'[q] = ticket[q] /\ key'[q] = key[q]
      BY <1>3, <2>2 DEF Release, TypeOK
    <3> QED BY <3>1, <3>2, SleepersSleepOn
  <2> QED BY <2>1, <2>2
<1>4. ASSUME NEW r \in Requests,
             \/ CloseClient(r) \/ DeadlinePasses(r) \/ \E k \in Keys : Acquire(r, k)
      PROVE  SleepersBlocked'
  <2>1. Lull
    BY <1>0, <1>4 DEF CloseClient, DeadlinePasses, Acquire, poolVars, Lull
  <2>2. /\ waiters' = waiters
        /\ \A q \in Requests : pc'[q] = "waiting" =>
             pc[q] = "waiting" /\ ticket'[q] = ticket[q] /\ key'[q] = key[q]
    BY <1>4 DEF CloseClient, DeadlinePasses, Acquire, poolVars, TypeOK
  <2> QED BY <2>1, <2>2, SleepersSleepOn
<1>5. ASSUME Reap \/ Shutdown PROVE SleepersBlocked'
  BY <1>5, NobodySleeps DEF Reap, Shutdown
<1>6. ASSUME \/ UNCHANGED vars \/ ReaperExit
             \/ \E c \in Clients : ShutdownCloses(c) \/ GoesStale(c)
             \/ \E k \in Keys : CooldownEnds(k)
      PROVE  SleepersBlocked'
  <2>1. /\ home' = home /\ idle' = idle /\ alive' \subseteq alive /\ creating' = creating
        /\ cooldown' \subseteq cooldown /\ total' = total
        /\ UNCHANGED <<waiters, pc, ticket, key>>
    BY <1>6 DEF ReaperExit, ShutdownCloses, GoesStale, CooldownEnds, vars, poolVars, requestVars
  <2>2. Lull
    BY <1>0, <2>1 DEF Lull
  <2> QED BY <2>1, <2>2, SleepersSleepOn
<1> QED
  BY <1>1, <1>2, <1>3, <1>4, <1>5, <1>6 DEF Next, EndLease

LEMMA PoolInvariant == Spec => []PoolInv
<1>1. Spec => []TypeInv
  BY InitTypeInv, StepTypeInv, PTL DEF Spec
<1>2. Spec => []Ownership
  BY <1>1, InitOwnership, StepOwnership, PTL DEF Spec
<1>3. Spec => []Queues
  BY <1>1, InitQueues, StepQueues, PTL DEF Spec
<1> QED BY <1>1, <1>2, <1>3, SlotsInvariant, PTL DEF PoolInv

\* A request asleep could not go on if it looked now: no step that skips
\* notify_all (a prune, an eviction, a cooldown or an idle time that ends) makes
\* anything available to it.
THEOREM NoWakeupLost == Spec => []NoLostWakeup
<1>1. Init => SleepersBlocked
  BY DEF Init, SleepersBlocked
<1>2. Spec => []SleepersBlocked
  BY <1>1, PoolInvariant, StepSleepers, PTL DEF Spec
<1> QED BY <1>2, PoolInvariant, SleepersWait, PTL

\* The turn of a request in acquire serves it only from the head of its target's
\* queue, or past an empty one: nobody overtakes a request queued before him.
THEOREM ServiceInOrder == Spec => ServedInOrder
<1> DEFINE InOrder ==
      \A r \in Requests : Serves(r) =>
        \A i \in DOMAIN waiters[key[r]] :
          waiters[key[r]][i] = r
            \/ \E j \in 1 .. i - 1 : waiters[key[r]][j] = r
<1>1. TypeInv /\ [Next]_vars => [InOrder]_vars
  <2> SUFFICES ASSUME TypeInv, [Next]_vars, NEW r \in Requests, Serves(r),
                      NEW i \in DOMAIN waiters[key[r]]
               PROVE  waiters[key[r]][i] = r \/ \E j \in 1 .. i - 1 : waiters[key[r]][j] = r
    OBVIOUS
  <2> USE DEF TypeInv
  <2>1. pc[r] = "ready" /\ pc'[r] \in {"connecting", "leased"} /\ key[r] \in Keys
    BY DEF Serves, InAcquire
  <2>2. IsTurn(r)
    <3>1. ASSUME NEW q \in Requests, Loop(q) PROVE IsTurn(r)
      <4>1. CASE q = r
        BY <2>1, <3>1, <4>1
           DEF Loop, AcquireClosed, AcquireIdle, AcquireCooldown, AcquireReserve, AcquireQueueFull,
               AcquireWait, AcquireTimeout, DropWaiter, Notified, TypeOK
      <4>2. CASE q # r
        BY <2>1, <3>1, <4>2
           DEF Loop, AcquireClosed, AcquireIdle, AcquireCooldown, AcquireReserve, AcquireQueueFull,
               AcquireWait, AcquireTimeout, DropWaiter, Notified, TypeOK
      <4> QED BY <4>1, <4>2
    <3>2. ASSUME NEW q \in Requests,
                 Create(q) \/ EndLease(q) \/ CloseClient(q) \/ DeadlinePasses(q)
                   \/ \E k \in Keys : Acquire(q, k)
          PROVE  FALSE
      BY <2>1, <3>2
         DEF Create, CreateSucceeds, CreateFails, EndLease, Release, CloseClient, DeadlinePasses,
             Acquire, Notified, TypeOK
    <3>3. ASSUME \/ UNCHANGED vars \/ Reap \/ ReaperExit \/ Shutdown
                 \/ \E c \in Clients : ShutdownCloses(c) \/ GoesStale(c)
                 \/ \E k \in Keys : CooldownEnds(k)
          PROVE  FALSE
      BY <2>1, <3>3
         DEF Reap, ReaperExit, Shutdown, ShutdownCloses, GoesStale, CooldownEnds, Notified,
             vars, poolVars, requestVars, TypeOK
    <3> QED BY <3>1, <3>2, <3>3 DEF Next
  <2>3. waiters[key[r]] \in Seq(Requests) /\ i \in 1 .. Len(waiters[key[r]])
    BY <2>1 DEF TypeOK
  <2>4. Head(waiters[key[r]]) = r
    BY <2>2, <2>3 DEF IsTurn
  <2>5. waiters[key[r]][1] = r
    BY <2>3, <2>4
  <2> QED BY <2>3, <2>5
<1>2. Spec => []TypeInv
  BY InitTypeInv, StepTypeInv, PTL DEF Spec
<1> QED BY <1>1, <1>2, PTL DEF Spec, ServedInOrder

----------------------------------------------------------------------------
(* The promise of LeasePool.                                                *)

\* A request out of acquire asks for nothing; the connection a request leases
\* is listed for the target it asked for, unless close() has taken it out
Bound ==
  /\ \A r \in Requests : pc[r] = "out" => key[r] = NoKey
  /\ \A r \in Requests : pc[r] = "leased" /\ client[r] \in Listed => home[client[r]] = key[r]

\* The connections in use stay where they are, and so do their users
LEMMA SameBindings ==
  ASSUME TypeInv, Ownership, Bound,
         NEW gone, gone \subseteq idle,
         home' = [c \in Clients |-> IF c \in gone THEN NoKey ELSE home[c]],
         \A r \in Requests : pc'[r] = "out" => (pc[r] = "out" /\ key'[r] = key[r]) \/ key'[r] = NoKey,
         \A r \in Requests : pc'[r] = "leased" =>
           pc[r] = "leased" /\ key'[r] = key[r] /\ client'[r] = client[r]
  PROVE  Bound'
<1> USE DEF TypeInv
<1>1. \A r \in Requests : client[r] \notin gone
  BY DEF Ownership, ExclusiveLease
<1>2. Listed' \subseteq Listed
  BY DEF Listed, TypeOK
<1> QED BY <1>1, <1>2 DEF Bound, Listed, TypeOK

LEMMA SameListed ==
  ASSUME TypeInv, Ownership, Bound, home' = home,
         \A r \in Requests : pc'[r] = "out" => (pc[r] = "out" /\ key'[r] = key[r]) \/ key'[r] = NoKey,
         \A r \in Requests : pc'[r] = "leased" =>
           pc[r] = "leased" /\ key'[r] = key[r] /\ client'[r] = client[r]
  PROVE  Bound'
BY DEF Bound, Listed

LEMMA StepBound == TypeInv /\ Ownership /\ Bound /\ [Next]_vars => Bound'
<1> SUFFICES ASSUME TypeInv, Ownership, Bound, [Next]_vars PROVE Bound'
  OBVIOUS
<1> USE DEF TypeInv
<1>1. ASSUME NEW r \in Requests, NEW k \in Keys, Acquire(r, k) PROVE Bound'
  BY <1>1, SameListed DEF Acquire, TypeOK, poolVars
<1>2. ASSUME NEW r \in Requests, AcquireClosed(r) PROVE Bound'
  <2>1. /\ \A q \in Requests : pc'[q] = "out" => (pc[q] = "out" /\ key'[q] = key[q]) \/ key'[q] = NoKey
        /\ \A q \in Requests : pc'[q] = "leased" => pc[q] = "leased" /\ key'[q] = key[q]
    BY <1>2 DEF AcquireClosed, DropWaiter, Notified, Forget, TypeOK
  <2>2. home' = home /\ client' = client
    BY <1>2 DEF AcquireClosed
  <2> QED BY <2>1, <2>2, SameListed
<1>3. ASSUME NEW r \in Requests, AcquireIdle(r) PROVE Bound'
  <2>1. PICK c \in TakeIdle(key[r]) : client' = [client EXCEPT ![r] = c]
    BY <1>3 DEF AcquireIdle
  <2>2. c \in Clients /\ home[c] = key[r] /\ c \notin Stale(key[r])
    BY DEF TakeIdle, Kept, Conns
  <2>3. /\ home' = [d \in Clients |-> IF d \in Stale(key[r]) THEN NoKey ELSE home[d]]
        /\ key' = key /\ pc'[r] = "leased"
        /\ \A q \in Requests : q # r /\ pc'[q] \in {"out", "leased"} => pc'[q] = pc[q]
    BY <1>3 DEF AcquireIdle, RemoveAndClose, DropWaiter, Notified, TypeOK
  <2>4. \A q \in Requests : client[q] \notin Stale(key[r])
    BY DEF Ownership, ExclusiveLease, Stale
  <2>5. Listed' \subseteq Listed
    BY <2>3 DEF Listed, TypeOK
  <2>6. \A q \in Requests : q # r => client'[q] = client[q]
    BY <2>1 DEF TypeOK
  <2>7. client'[r] = c /\ home'[c] = key[r]
    BY <2>1, <2>2, <2>3 DEF TypeOK
  <2>8. ASSUME NEW q \in Requests, q # r, pc'[q] = "leased", client'[q] \in Listed'
        PROVE  home'[client'[q]] = key'[q]
    BY <2>3, <2>4, <2>5, <2>6, <2>8 DEF Bound, Listed
  <2> QED BY <2>3, <2>7, <2>8 DEF Bound
<1>4. ASSUME NEW r \in Requests, AcquireReserve(r) PROVE Bound'
  <2>1. PICK gone \in Evictions(key[r]) :
          home' = [d \in Clients |-> IF d \in Stale(key[r]) \cup gone THEN NoKey ELSE home[d]]
    BY <1>4 DEF AcquireReserve
  <2>2. Stale(key[r]) \cup gone \subseteq idle
    BY DEF Stale, Evictions, Evictable
  <2>3. /\ key' = key /\ pc'[r] = "connecting"
        /\ \A q \in Requests : q # r /\ pc'[q] \in {"out", "leased"} => pc'[q] = pc[q]
        /\ \A q \in Requests : q # r => client'[q] = client[q]
    BY <1>4 DEF AcquireReserve, DropWaiter, Notified, TypeOK
  <2> QED BY <2>1, <2>2, <2>3, SameBindings
<1>5. ASSUME NEW r \in Requests,
             \/ AcquireCooldown(r) \/ AcquireQueueFull(r) \/ AcquireWait(r) \/ AcquireTimeout(r)
      PROVE  Bound'
  <2>1. Pruned(Stale(key[r]))
    BY <1>5, FruitlessTurn
  <2>2. /\ \A q \in Requests : pc'[q] = "out" => (pc[q] = "out" /\ key'[q] = key[q]) \/ key'[q] = NoKey
        /\ \A q \in Requests : pc'[q] = "leased" => pc[q] = "leased" /\ key'[q] = key[q]
    BY <1>5 DEF AcquireCooldown, AcquireQueueFull, AcquireWait, AcquireTimeout,
                DropWaiter, Notified, Forget, TypeOK
  <2> QED BY <2>1, <2>2, SameBindings DEF Pruned
<1>6. ASSUME NEW r \in Requests, CreateSucceeds(r) PROVE Bound'
  <2>1. client[r] \in Clients /\ key[r] \in Keys
    BY <1>6 DEF CreateSucceeds, TypeOK, HasClient, InAcquire
  <2>2. \A q \in Requests : q # r => client[q] # client[r]
    BY <2>1, FinitePopulation DEF Ownership, ExclusiveLease
  <2>3. /\ key' = key /\ client' = client /\ home' = [home EXCEPT ![client[r]] = key[r]]
        /\ pc'[r] = "leased"
        /\ \A q \in Requests : q # r /\ pc'[q] \in {"out", "leased"} => pc'[q] = pc[q]
    BY <1>6 DEF CreateSucceeds, Notified, TypeOK
  <2> QED BY <2>1, <2>2, <2>3 DEF Bound, Listed, TypeOK
<1>7. ASSUME NEW r \in Requests, CreateFails(r) PROVE Bound'
  BY <1>7, SameListed DEF CreateFails, Notified, TypeOK
<1>8. ASSUME NEW r \in Requests, NEW invalidate \in BOOLEAN, Release(r, invalidate)
      PROVE  Bound'
  <2>1. client[r] \in Clients
    BY <1>8 DEF Release, TypeOK, HasClient
  <2>2. \A q \in Requests : q # r => client[q] # client[r]
    BY <2>1, FinitePopulation DEF Ownership, ExclusiveLease
  <2>3. /\ home' = home \/ home' = [home EXCEPT ![client[r]] = NoKey]
        /\ \A q \in Requests : q # r => key'[q] = key[q] /\ client'[q] = client[q]
        /\ \A q \in Requests : q # r /\ pc'[q] \in {"out", "leased"} => pc'[q] = pc[q]
        /\ pc'[r] = "closing" \/ (pc'[r] = "out" /\ key'[r] = NoKey)
    BY <1>8 DEF Release, Notified, TypeOK
  <2>4. \A c \in Clients : c # client[r] => home'[c] = home[c]
    BY <2>1, <2>3 DEF TypeOK
  <2>5. ASSUME NEW q \in Requests, pc'[q] = "leased", client'[q] \in Listed'
        PROVE  home'[client'[q]] = key'[q]
    <3>1. q # r
      BY <2>3, <2>5
    <3>2. client[q] \in Clients /\ client[q] # client[r] /\ client'[q] = client[q]
      BY <2>2, <2>3, <2>5, <3>1 DEF Listed
    <3> QED BY <2>3, <2>4, <2>5, <3>1, <3>2 DEF Bound, Listed
  <2>6. \A q \in Requests : pc'[q] = "out" => key'[q] = NoKey
    BY <2>3 DEF Bound
  <2> QED BY <2>5, <2>6 DEF Bound
<1>9. ASSUME NEW r \in Requests, CloseClient(r) \/ DeadlinePasses(r) PROVE Bound'
  <2>1. /\ home' = home
        /\ \A q \in Requests : pc'[q] = "out" => (pc[q] = "out" /\ key'[q] = key[q]) \/ key'[q] = NoKey
        /\ \A q \in Requests : pc'[q] = "leased" =>
             pc[q] = "leased" /\ key'[q] = key[q] /\ client'[q] = client[q]
    BY <1>9 DEF CloseClient, DeadlinePasses, TypeOK, poolVars
  <2> QED BY <2>1, SameListed
<1>10. ASSUME Reap PROVE Bound'
  <2>1. Pruned({c \in idle : c \notin alive})
    BY <1>10 DEF Reap, RemoveAndClose, Pruned
  <2>2. key' = key /\ \A q \in Requests : pc'[q] \in {"out", "leased"} => pc'[q] = pc[q]
    BY <1>10 DEF Reap, Notified, TypeOK
  <2> QED BY <2>1, <2>2, SameBindings DEF Pruned
<1>11. ASSUME Shutdown PROVE Bound'
  BY <1>11 DEF Shutdown, Notified, Bound, Listed, TypeOK
<1>12. ASSUME \/ UNCHANGED vars \/ ReaperExit
              \/ \E c \in Clients : ShutdownCloses(c) \/ GoesStale(c)
              \/ \E k \in Keys : CooldownEnds(k)
       PROVE  Bound'
  BY <1>12 DEF ReaperExit, ShutdownCloses, GoesStale, CooldownEnds, Bound, Listed,
               vars, poolVars, requestVars
<1> QED
  BY <1>1, <1>2, <1>3, <1>4, <1>5, <1>6, <1>7, <1>8, <1>9, <1>10, <1>11, <1>12
  DEF Next, Loop, Create, EndLease

\* What the mapping says, without its CHOOSE
BoundIs ==
  /\ \A r \in Requests : pc[r] = "leased" => BoundTo[client[r]] = key[r]
  /\ \A c \in Clients :
       (\A r \in Requests : pc[r] = "leased" => client[r] # c) => BoundTo[c] = home[c]

LEMMA MappingExact == TypeInv /\ ExclusiveLease => BoundIs
<1> SUFFICES ASSUME TypeInv, ExclusiveLease PROVE BoundIs
  OBVIOUS
<1>1. ASSUME NEW r \in Requests, pc[r] = "leased" PROVE BoundTo[client[r]] = key[r]
  <2>1. client[r] \in Clients /\ client[r] # NoClient
    BY <1>1, FinitePopulation DEF TypeInv, TypeOK, HasClient
  <2> DEFINE q == CHOOSE q \in Requests : pc[q] = "leased" /\ client[q] = client[r]
  <2>2. q \in Requests /\ client[q] = client[r]
    BY <1>1
  <2>3. q = r
    BY <2>1, <2>2 DEF ExclusiveLease
  <2>4. BoundTo[client[r]] = key[q]
    BY <1>1, <2>1 DEF BoundTo
  <2> QED BY <2>3, <2>4
<1>2. ASSUME NEW c \in Clients, \A r \in Requests : pc[r] = "leased" => client[r] # c
      PROVE  BoundTo[c] = home[c]
  BY <1>2 DEF BoundTo
<1> QED BY <1>1, <1>2 DEF BoundIs

\* Both sides of a step bind every client to something
LEMMA BindsClients ==
  /\ BoundTo = [c \in Clients |-> BoundTo[c]]
  /\ BoundTo' = [c \in Clients |-> BoundTo'[c]]
BY DEF BoundTo

LEMMA LeasedExact ==
  ASSUME TypeInv, NEW c \in Clients
  PROVE  Abstract!Leased(c) <=> \E r \in Requests : pc[r] = "leased" /\ client[r] = c
BY FinitePopulation DEF Abstract!Leased, LeaseOf, TypeInv, TypeOK, HasClient


\* What both the states of a step satisfy
Leasing == TypeInv /\ Ownership /\ Bound

\* A step that hands out and takes back nothing, while parked connections go
LEMMA MapsToDiscard ==
  ASSUME Leasing, Leasing', NEW gone, gone \subseteq {c \in Clients : home[c] # NoKey},
         \A r \in Requests : client[r] \in gone => pc[r] # "leased",
         home' = [c \in Clients |-> IF c \in gone THEN NoKey ELSE home[c]],
         \A r \in Requests : pc'[r] = "leased" <=> pc[r] = "leased",
         \A r \in Requests : pc[r] = "leased" => client'[r] = client[r] /\ key'[r] = key[r]
  PROVE  /\ LeaseOf' = LeaseOf
         /\ gone \in SUBSET {c \in Clients : BoundTo[c] # NoKey /\ ~Abstract!Leased(c)}
         /\ BoundTo' = Abstract!Discarded(gone)
<1> USE DEF Leasing
<1>1. BoundIs /\ BoundIs'
  BY MappingExact, PTL DEF Ownership
<1>2. LeaseOf' = LeaseOf
  BY DEF LeaseOf
<1>3. ASSUME NEW c \in gone PROVE c \in Clients /\ BoundTo[c] # NoKey /\ ~Abstract!Leased(c)
  <2>1. \A r \in Requests : pc[r] = "leased" => client[r] # c
    BY <1>3
  <2> QED BY <1>1, <1>3, <2>1, LeasedExact DEF BoundIs
<1>4. ASSUME NEW c \in Clients PROVE BoundTo'[c] = IF c \in gone THEN NoKey ELSE BoundTo[c]
  <2>1. CASE \E r \in Requests : pc[r] = "leased" /\ client[r] = c
    BY <1>1, <1>3, <2>1 DEF BoundIs
  <2>2. CASE \A r \in Requests : pc[r] = "leased" => client[r] # c
    BY <1>1, <1>3, <2>2 DEF BoundIs
  <2> QED BY <2>1, <2>2
<1>5. BoundTo' = Abstract!Discarded(gone)
  BY <1>4 DEF Abstract!Discarded, BoundTo
<1> QED BY <1>2, <1>3, <1>5

\* ... is a step of LeasePool when nobody asks or stops asking in it,
LEMMA DiscardsOrStutters ==
  ASSUME key' = key, LeaseOf' = LeaseOf,
         NEW gone \in SUBSET {c \in Clients : BoundTo[c] # NoKey /\ ~Abstract!Leased(c)},
         BoundTo' = Abstract!Discarded(gone)
  PROVE  Abstract!Discard \/ UNCHANGED <<key, LeaseOf, BoundTo>>
<1>1. CASE gone = {}
  BY <1>1 DEF Abstract!Discarded, BoundTo
<1>2. CASE gone # {}
  BY <1>2 DEF Abstract!Discard
<1> QED BY <1>1, <1>2

\* ... and when one request stops asking
LEMMA DiscardsAndLeaves ==
  ASSUME LeaseOf' = LeaseOf,
         NEW gone \in SUBSET {c \in Clients : BoundTo[c] # NoKey /\ ~Abstract!Leased(c)},
         BoundTo' = Abstract!Discarded(gone),
         NEW r \in Requests, key[r] # NoKey, LeaseOf[r] = NoClient,
         key' = [key EXCEPT ![r] = NoKey]
  PROVE  Abstract!DiscardAndLeave(r)
BY DEF Abstract!DiscardAndLeave

\* Nothing is handed out and nothing goes
LEMMA SameLeasePool ==
  ASSUME Leasing, home' = home, key' = key, client' = client,
         \A r \in Requests : pc'[r] = "leased" <=> pc[r] = "leased"
  PROVE  UNCHANGED <<key, LeaseOf, BoundTo>>
<1>1. LeaseOf' = LeaseOf
  BY DEF LeaseOf
<1>2. BoundTo' = BoundTo
  BY DEF BoundTo
<1> QED BY <1>1, <1>2

AbstractStep == Abstract!Next \/ UNCHANGED <<key, LeaseOf, BoundTo>>

LEMMA LoopKeepsPromise ==
  ASSUME Leasing, Leasing', NEW r \in Requests, Loop(r)
  PROVE  AbstractStep
<1> USE DEF Leasing
<1>0. /\ pc[r] = "ready" /\ key[r] \in Keys /\ key[r] # NoKey /\ LeaseOf[r] = NoClient
      /\ BoundIs /\ BoundIs'
  <2>1. pc[r] = "ready"
    BY DEF Loop, AcquireClosed, AcquireIdle, AcquireCooldown, AcquireReserve,
           AcquireQueueFull, AcquireWait, AcquireTimeout, Turn
  <2>2. BoundIs /\ BoundIs'
    BY MappingExact, PTL DEF Ownership
  <2> QED BY <2>1, <2>2, FinitePopulation DEF TypeInv, InAcquire, LeaseOf
<1>1. CASE AcquireClosed(r) \/ AcquireCooldown(r) \/ AcquireQueueFull(r) \/ AcquireTimeout(r)
  <2>1. PICK gone \in SUBSET idle : home' = [c \in Clients |-> IF c \in gone THEN NoKey ELSE home[c]]
    <3>1. CASE AcquireClosed(r)
      <4>1. home' = [c \in Clients |-> IF c \in {} THEN NoKey ELSE home[c]]
        BY <3>1 DEF AcquireClosed, TypeInv, TypeOK
      <4> WITNESS {} \in SUBSET idle
      <4> QED BY <4>1
    <3>2. CASE AcquireCooldown(r) \/ AcquireQueueFull(r) \/ AcquireTimeout(r)
      <4>1. Pruned(Stale(key[r])) /\ Stale(key[r]) \in SUBSET idle
        BY <3>2, FruitlessTurn DEF Stale
      <4> QED BY <4>1 DEF Pruned
    <3> QED BY <1>1, <3>1, <3>2
  <2>2. /\ \A q \in Requests : pc'[q] = "leased" <=> pc[q] = "leased"
        /\ key' = [key EXCEPT ![r] = NoKey] /\ client' = client
    BY <1>0, <1>1 DEF AcquireClosed, AcquireCooldown, AcquireQueueFull, AcquireTimeout,
                      DropWaiter, Notified, Forget, TypeInv, TypeOK
  <2>3. \A q \in Requests : pc[q] = "leased" => client'[q] = client[q] /\ key'[q] = key[q]
    BY <1>0, <2>2 DEF TypeInv, TypeOK
  <2>4. /\ gone \subseteq {c \in Clients : home[c] # NoKey}
        /\ \A q \in Requests : client[q] \in gone => pc[q] # "leased"
    BY DEF Ownership, ExclusiveLease, Listed
  <2>5. /\ LeaseOf' = LeaseOf
        /\ gone \in SUBSET {c \in Clients : BoundTo[c] # NoKey /\ ~Abstract!Leased(c)}
        /\ BoundTo' = Abstract!Discarded(gone)
    BY <2>1, <2>2, <2>3, <2>4, MapsToDiscard
  <2>6. Abstract!DiscardAndLeave(r)
    BY <1>0, <2>2, <2>5, DiscardsAndLeaves
  <2> QED BY <2>6 DEF AbstractStep, Abstract!Next
<1>2. CASE AcquireWait(r) \/ AcquireReserve(r)
  <2>1. PICK gone \in SUBSET idle : home' = [c \in Clients |-> IF c \in gone THEN NoKey ELSE home[c]]
    <3>1. CASE AcquireWait(r)
      <4>1. Pruned(Stale(key[r]))
        BY <3>1, FruitlessTurn
      <4> QED BY <4>1 DEF Pruned
    <3>2. CASE AcquireReserve(r)
      <4>1. PICK gone \in Evictions(key[r]) :
              home' = [d \in Clients |-> IF d \in Stale(key[r]) \cup gone THEN NoKey ELSE home[d]]
        BY <3>2 DEF AcquireReserve
      <4>2. Stale(key[r]) \cup gone \in SUBSET idle
        BY DEF Stale, Evictions, Evictable
      <4> QED BY <4>1, <4>2
    <3> QED BY <1>2, <3>1, <3>2
  <2>2. /\ \A q \in Requests : pc'[q] = "leased" <=> pc[q] = "leased"
        /\ key' = key /\ \A q \in Requests : q # r => client'[q] = client[q]
    BY <1>0, <1>2 DEF AcquireWait, AcquireReserve, DropWaiter, Notified, TypeInv, TypeOK
  <2>3. \A q \in Requests : pc[q] = "leased" => client'[q] = client[q] /\ key'[q] = key[q]
    BY <1>0, <2>2
  <2>4. /\ gone \subseteq {c \in Clients : home[c] # NoKey}
        /\ \A q \in Requests : client[q] \in gone => pc[q] # "leased"
    BY DEF Ownership, ExclusiveLease, Listed
  <2>5. /\ LeaseOf' = LeaseOf
        /\ gone \in SUBSET {c \in Clients : BoundTo[c] # NoKey /\ ~Abstract!Leased(c)}
        /\ BoundTo' = Abstract!Discarded(gone)
    BY <2>1, <2>2, <2>3, <2>4, MapsToDiscard
  <2> QED BY <2>2, <2>5, DiscardsOrStutters DEF AbstractStep, Abstract!Next
<1>3. CASE AcquireIdle(r)
  <2>1. PICK c \in TakeIdle(key[r]) : client' = [client EXCEPT ![r] = c]
    BY <1>3 DEF AcquireIdle
  <2> DEFINE gone == Stale(key[r])
  <2>2. c \in Clients /\ home[c] = key[r] /\ c \in idle /\ c \notin gone /\ gone \subseteq idle
    BY DEF TakeIdle, Kept, Conns, Stale
  <2>3. /\ home' = [d \in Clients |-> IF d \in gone THEN NoKey ELSE home[d]]
        /\ key' = key /\ pc'[r] = "leased"
        /\ \A q \in Requests : q # r => pc'[q] = "leased" <=> pc[q] = "leased"
    BY <1>3 DEF AcquireIdle, RemoveAndClose, DropWaiter, Notified, TypeInv, TypeOK
  <2>4. /\ client'[r] = c
        /\ \A q \in Requests : q # r => client'[q] = client[q]
    BY <2>1 DEF TypeInv, TypeOK
  <2>5. \A q \in Requests : client[q] # c /\ client[q] \notin gone
    BY <2>2 DEF Ownership, ExclusiveLease
  <2>6. LeaseOf' = [LeaseOf EXCEPT ![r] = c]
    BY <2>3, <2>4 DEF LeaseOf
  <2>7. BoundTo[c] = key[r] /\ ~Abstract!Leased(c)
    BY <1>0, <2>2, <2>5, LeasedExact DEF BoundIs
  <2>8. gone \subseteq {d \in Clients \ {c} : BoundTo[d] # NoKey /\ ~Abstract!Leased(d)}
    <3> SUFFICES ASSUME NEW d \in gone
                 PROVE  d \in Clients \ {c} /\ BoundTo[d] # NoKey /\ ~Abstract!Leased(d)
      OBVIOUS
    <3>1. d \in Clients \ {c} /\ home[d] # NoKey
      BY <2>2 DEF Ownership, Listed
    <3>2. \A q \in Requests : pc[q] = "leased" => client[q] # d
      BY <2>5
    <3> QED BY <1>0, <3>1, <3>2, LeasedExact DEF BoundIs
  <2>9. ASSUME NEW d \in Clients PROVE BoundTo'[d] = IF d \in gone THEN NoKey ELSE BoundTo[d]
    <3>1. CASE \E q \in Requests : pc[q] = "leased" /\ client[q] = d
      <4>1. PICK q \in Requests : pc[q] = "leased" /\ client[q] = d
        BY <3>1
      <4>2. q # r /\ pc'[q] = "leased" /\ client'[q] = d /\ d \notin gone
        BY <1>0, <2>3, <2>4, <2>5, <4>1
      <4> QED BY <1>0, <2>3, <4>1, <4>2 DEF BoundIs
    <3>2. CASE d = c
      BY <1>0, <2>2, <2>3, <2>4, <2>7, <3>2 DEF BoundIs
    <3>3. CASE d # c /\ \A q \in Requests : pc[q] = "leased" => client[q] # d
      <4>1. \A q \in Requests : pc'[q] = "leased" => client'[q] # d
        BY <2>3, <2>4, <3>3
      <4> QED BY <1>0, <2>3, <3>3, <4>1 DEF BoundIs
    <3> QED BY <3>1, <3>2, <3>3
  <2>10. BoundTo' = Abstract!Discarded(gone)
    BY <2>9 DEF Abstract!Discarded, BoundTo
  <2>11. Abstract!Reuse(r, c)
    BY <1>0, <2>3, <2>6, <2>7, <2>8, <2>10 DEF Abstract!Reuse
  <2> QED BY <2>2, <2>11 DEF AbstractStep, Abstract!Next
<1> QED BY <1>1, <1>2, <1>3 DEF Loop

LEMMA StepKeepsPromise == Leasing /\ Leasing' /\ [Next]_vars => AbstractStep
<1> SUFFICES ASSUME Leasing, Leasing', [Next]_vars PROVE AbstractStep
  OBVIOUS
<1> USE DEF Leasing
<1>0. BoundIs /\ BoundIs'
  BY MappingExact, PTL DEF Ownership
<1>1. ASSUME NEW r \in Requests, NEW k \in Keys, Acquire(r, k) PROVE AbstractStep
  <2>1. key[r] = NoKey /\ key' = [key EXCEPT ![r] = k]
    BY <1>1 DEF Acquire, Bound
  <2>2. LeaseOf' = LeaseOf
    BY <1>1 DEF Acquire, LeaseOf, TypeInv, TypeOK
  <2>3. ASSUME NEW c \in Clients PROVE BoundTo'[c] = BoundTo[c]
    <3>1. /\ home' = home /\ client' = client
          /\ \A q \in Requests : pc'[q] = "leased" <=> pc[q] = "leased"
          /\ \A q \in Requests : pc[q] = "leased" => key'[q] = key[q]
      BY <1>1 DEF Acquire, poolVars, TypeInv, TypeOK
    <3>2. CASE \E q \in Requests : pc[q] = "leased" /\ client[q] = c
      BY <1>0, <3>1, <3>2 DEF BoundIs
    <3>3. CASE \A q \in Requests : pc[q] = "leased" => client[q] # c
      BY <1>0, <3>1, <3>3 DEF BoundIs
    <3> QED BY <3>2, <3>3
  <2>4. BoundTo' = BoundTo
    BY <2>3 DEF BoundTo
  <2>5. Abstract!Ask(r, k)
    BY <2>1, <2>2, <2>4 DEF Abstract!Ask
  <2> QED BY <2>5 DEF AbstractStep, Abstract!Next
<1>2. ASSUME NEW r \in Requests, Loop(r) PROVE AbstractStep
  BY <1>2, LoopKeepsPromise
<1>3. ASSUME NEW r \in Requests, CreateSucceeds(r) PROVE AbstractStep
  <2> DEFINE c == client[r]
  <2>1. /\ c \in Clients /\ key[r] \in Keys /\ key[r] # NoKey /\ LeaseOf[r] = NoClient
        /\ home[c] = NoKey
    BY <1>3, FinitePopulation
       DEF CreateSucceeds, TypeInv, TypeOK, HasClient, InAcquire, LeaseOf, Ownership, Listed
  <2>2. \A q \in Requests : q # r => client[q] # c
    BY <2>1, FinitePopulation DEF Ownership, ExclusiveLease
  <2>3. /\ key' = key /\ client' = client /\ home' = [home EXCEPT ![c] = key[r]]
        /\ pc[r] = "connecting" /\ pc'[r] = "leased"
        /\ \A q \in Requests : q # r => (pc'[q] = "leased" <=> pc[q] = "leased")
    BY <1>3 DEF CreateSucceeds, Notified, TypeInv, TypeOK
  <2>4. BoundTo[c] = NoKey /\ ~Abstract!Leased(c)
    BY <1>0, <2>1, <2>2, <2>3, LeasedExact DEF BoundIs
  <2>5. LeaseOf' = [LeaseOf EXCEPT ![r] = c]
    BY <2>3 DEF LeaseOf
  <2>6. ASSUME NEW d \in Clients PROVE BoundTo'[d] = [BoundTo EXCEPT ![c] = key[r]][d]
    <3>1. d \in DOMAIN BoundTo
      BY DEF BoundTo
    <3>2. CASE d = c
      BY <1>0, <2>3, <3>1, <3>2 DEF BoundIs
    <3>3. CASE d # c /\ \E q \in Requests : pc[q] = "leased" /\ client[q] = d
      <4>1. PICK q \in Requests : pc[q] = "leased" /\ client[q] = d
        BY <3>3
      <4>2. q # r /\ pc'[q] = "leased"
        BY <2>3, <4>1
      <4> QED BY <1>0, <2>3, <3>1, <3>3, <4>1, <4>2 DEF BoundIs
    <3>4. CASE d # c /\ \A q \in Requests : pc[q] = "leased" => client[q] # d
      <4>1. \A q \in Requests : pc'[q] = "leased" => client'[q] # d
        BY <2>3, <3>4
      <4>2. home'[d] = home[d]
        BY <2>3, <3>4 DEF TypeInv, TypeOK
      <4> QED BY <1>0, <3>1, <3>4, <4>1, <4>2 DEF BoundIs
    <3> QED BY <3>2, <3>3, <3>4
  <2>7. BoundTo' = [BoundTo EXCEPT ![c] = key[r]]
    BY <2>6 DEF BoundTo
  <2>8. Abstract!Connect(r, c)
    BY <2>1, <2>3, <2>4, <2>5, <2>7 DEF Abstract!Connect
  <2> QED BY <2>1, <2>8 DEF AbstractStep, Abstract!Next
<1>4. ASSUME NEW r \in Requests, CreateFails(r) PROVE AbstractStep
  <2>1. /\ home' = home /\ key' = key /\ client' = client
        /\ \A q \in Requests : pc'[q] = "leased" <=> pc[q] = "leased"
    BY <1>4 DEF CreateFails, Notified, TypeInv, TypeOK
  <2> QED BY <2>1, SameLeasePool DEF AbstractStep
<1>5. ASSUME NEW r \in Requests, NEW invalidate \in BOOLEAN, Release(r, invalidate)
      PROVE  AbstractStep
  <2> DEFINE c == client[r]
  <2>1. /\ c \in Clients /\ c # NoClient /\ pc[r] = "leased" /\ LeaseOf[r] = c
        /\ BoundTo[c] = key[r]
    BY <1>0, <1>5, FinitePopulation
       DEF Release, TypeInv, TypeOK, HasClient, LeaseOf, BoundIs
  <2>2. \A q \in Requests : q # r => client[q] # c
    BY <2>1, FinitePopulation DEF Ownership, ExclusiveLease
  <2>3. /\ home' = home \/ home' = [home EXCEPT ![c] = NoKey]
        /\ \A q \in Requests : q # r =>
             /\ pc'[q] = "leased" <=> pc[q] = "leased"
             /\ key'[q] = key[q] /\ client'[q] = client[q]
        /\ pc'[r] \in {"closing", "out"}
    BY <1>5 DEF Release, Notified, TypeInv, TypeOK
  <2>4. LeaseOf' = [LeaseOf EXCEPT ![r] = NoClient]
    BY <2>3 DEF LeaseOf
  <2>5. \A q \in Requests : pc'[q] = "leased" => client'[q] # c
    BY <2>2, <2>3
  <2>6. BoundTo'[c] = home'[c]
    BY <1>0, <2>1, <2>5 DEF BoundIs
  <2>7. ASSUME NEW d \in Clients, d # c PROVE BoundTo'[d] = BoundTo[d]
    <3>1. home'[d] = home[d]
      BY <2>3, <2>7 DEF TypeInv, TypeOK
    <3>2. CASE \E q \in Requests : pc[q] = "leased" /\ client[q] = d
      <4>1. PICK q \in Requests : pc[q] = "leased" /\ client[q] = d
        BY <3>2
      <4>2. q # r /\ pc'[q] = "leased" /\ client'[q] = d /\ key'[q] = key[q]
        BY <2>3, <2>7, <4>1
      <4> QED BY <1>0, <4>1, <4>2 DEF BoundIs
    <3>3. CASE \A q \in Requests : pc[q] = "leased" => client[q] # d
      <4>1. \A q \in Requests : pc'[q] = "leased" => client'[q] # d
        BY <2>3, <3>3
      <4> QED BY <1>0, <3>1, <3>3, <4>1 DEF BoundIs
    <3> QED BY <3>2, <3>3
  <2>8. CASE pc'[r] = "closing"
    <3>1. key' = key /\ home'[c] = NoKey
      BY <1>5, <2>1, <2>8 DEF Release, Notified, Listed, TypeInv, TypeOK
    <3>2. BoundTo' = [BoundTo EXCEPT ![c] = NoKey]
      BY <2>6, <2>7, <3>1, BindsClients
    <3>3. Abstract!Drop(r)
      BY <2>1, <2>4, <3>1, <3>2 DEF Abstract!Drop
    <3> QED BY <3>3 DEF AbstractStep, Abstract!Next
  <2>9. CASE pc'[r] = "out"
    <3>1. key' = [key EXCEPT ![r] = NoKey] /\ home' = home /\ c \in Listed
      BY <1>5, <2>1, <2>9 DEF Release, Notified, TypeInv, TypeOK
    <3>2. home'[c] = key[r]
      BY <2>1, <3>1 DEF Bound
    <3>3. BoundTo' = BoundTo
      BY <2>1, <2>6, <2>7, <3>2, BindsClients
    <3>4. Abstract!Park(r)
      BY <2>1, <2>4, <3>1, <3>3 DEF Abstract!Park
    <3> QED BY <3>4 DEF AbstractStep, Abstract!Next
  <2> QED BY <2>3, <2>8, <2>9
<1>6. ASSUME NEW r \in Requests, CloseClient(r) PROVE AbstractStep
  <2>1. /\ key[r] # NoKey /\ LeaseOf[r] = NoClient /\ key' = [key EXCEPT ![r] = NoKey]
        /\ home' = home
        /\ \A q \in Requests : pc'[q] = "leased" <=> pc[q] = "leased"
        /\ \A q \in Requests : q # r => client'[q] = client[q] /\ key'[q] = key[q]
    BY <1>6, FinitePopulation DEF CloseClient, poolVars, InAcquire, LeaseOf, TypeInv, TypeOK
  <2>2. pc[r] # "leased"
    BY <1>6 DEF CloseClient
  <2>3. /\ home' = [c \in Clients |-> IF c \in {} THEN NoKey ELSE home[c]]
        /\ \A q \in Requests : pc[q] = "leased" => client'[q] = client[q] /\ key'[q] = key[q]
    BY <2>1, <2>2 DEF TypeInv, TypeOK
  <2>4. /\ LeaseOf' = LeaseOf
        /\ {} \in SUBSET {c \in Clients : BoundTo[c] # NoKey /\ ~Abstract!Leased(c)}
        /\ BoundTo' = Abstract!Discarded({})
    BY <2>1, <2>3, MapsToDiscard
  <2>5. Abstract!DiscardAndLeave(r)
    BY <2>1, <2>4, DiscardsAndLeaves
  <2> QED BY <2>5 DEF AbstractStep, Abstract!Next
<1>7. ASSUME NEW r \in Requests, DeadlinePasses(r) PROVE AbstractStep
  <2>1. /\ home' = home /\ key' = key /\ client' = client
        /\ \A q \in Requests : pc'[q] = "leased" <=> pc[q] = "leased"
    BY <1>7 DEF DeadlinePasses, poolVars, TypeInv, TypeOK
  <2> QED BY <2>1, SameLeasePool DEF AbstractStep
<1>8. ASSUME Reap \/ Shutdown PROVE AbstractStep
  <2>1. PICK gone \in SUBSET Listed :
          /\ home' = [c \in Clients |-> IF c \in gone THEN NoKey ELSE home[c]]
          /\ \A q \in Requests : client[q] \in gone => pc[q] # "leased" \/ Shutdown
    <3>1. CASE Reap
      <4>1. home' = [c \in Clients |-> IF c \in {d \in idle : d \notin alive} THEN NoKey ELSE home[c]]
        BY <3>1 DEF Reap, RemoveAndClose
      <4> QED BY <4>1 DEF Ownership, ExclusiveLease
    <3>2. CASE Shutdown
      <4>1. home' = [c \in Clients |-> IF c \in Listed THEN NoKey ELSE home[c]]
        BY <3>2 DEF Shutdown, Listed, TypeInv, TypeOK
      <4> QED BY <3>2, <4>1
    <3> QED BY <1>8, <3>1, <3>2
  <2> DEFINE lost == {c \in gone : \A q \in Requests : pc[q] = "leased" => client[q] # c}
  <2>2. /\ key' = key /\ client' = client
        /\ \A q \in Requests : pc'[q] = "leased" <=> pc[q] = "leased"
    BY <1>8 DEF Reap, Shutdown, Notified, TypeInv, TypeOK
  <2>3. LeaseOf' = LeaseOf
    BY <2>2 DEF LeaseOf
  <2>4. ASSUME NEW c \in lost PROVE c \in Clients /\ BoundTo[c] # NoKey /\ ~Abstract!Leased(c)
    BY <1>0, <2>4, LeasedExact DEF BoundIs, Listed
  <2>5. ASSUME NEW c \in Clients PROVE BoundTo'[c] = IF c \in lost THEN NoKey ELSE BoundTo[c]
    <3>1. CASE \E q \in Requests : pc[q] = "leased" /\ client[q] = c
      BY <1>0, <2>2, <3>1 DEF BoundIs
    <3>2. CASE \A q \in Requests : pc[q] = "leased" => client[q] # c
      BY <1>0, <2>1, <2>2, <3>2 DEF BoundIs
    <3> QED BY <3>1, <3>2
  <2>6. BoundTo' = Abstract!Discarded(lost)
    BY <2>5 DEF Abstract!Discarded, BoundTo
  <2> QED BY <2>2, <2>3, <2>4, <2>6, DiscardsOrStutters DEF AbstractStep, Abstract!Next
<1>9. ASSUME \/ UNCHANGED vars \/ ReaperExit
             \/ \E c \in Clients : ShutdownCloses(c) \/ GoesStale(c)
             \/ \E k \in Keys : CooldownEnds(k)
      PROVE  AbstractStep
  <2>1. home' = home /\ key' = key /\ client' = client /\ pc' = pc
    BY <1>9 DEF ReaperExit, ShutdownCloses, GoesStale, CooldownEnds, vars, poolVars, requestVars
  <2> QED BY <2>1, SameLeasePool DEF AbstractStep
<1> QED
  BY <1>1, <1>2, <1>3, <1>4, <1>5, <1>6, <1>7, <1>8, <1>9 DEF Next, Create, EndLease

LEMMA InitKeepsPromise == Init => Abstract!Init
<1> SUFFICES ASSUME Init PROVE Abstract!Init
  OBVIOUS
<1>1. LeaseOf = [r \in Requests |-> NoClient] /\ BoundTo = [c \in Clients |-> NoKey]
  BY DEF Init, LeaseOf, BoundTo
<1> QED BY <1>1 DEF Init, Abstract!Init

LEMMA LeasingInvariant == Spec => []Leasing
<1>1. Spec => []TypeInv
  BY InitTypeInv, StepTypeInv, PTL DEF Spec
<1>2. Spec => []Ownership
  BY <1>1, InitOwnership, StepOwnership, PTL DEF Spec
<1>3. Init => Bound
  BY DEF Init, Bound
<1>4. Spec => []Bound
  BY <1>1, <1>2, <1>3, StepBound, PTL DEF Spec
<1> QED BY <1>1, <1>2, <1>4, PTL DEF Leasing

\* Every behaviour of acquire, _create, _release, the reaper and close() is one of
\* LeasePool: whoever gets a connection gets one for the target it asked for that
\* nobody else has.
THEOREM PoolKeepsPromise == Spec => PromiseKept
<1>1. Leasing /\ Leasing' /\ [Next]_vars => [Abstract!Next]_<<key, LeaseOf, BoundTo>>
  BY StepKeepsPromise DEF AbstractStep
<1> QED BY <1>1, InitKeepsPromise, LeasingInvariant, PTL DEF Spec, PromiseKept, Abstract!Spec
==============================================================================
