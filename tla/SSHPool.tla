------------------------------- MODULE SSHPool -------------------------------
(* The process-local SSH connection pool, src/src/utils/ssh_pool.py.        *)
(*                                                                          *)
(* Request threads lease connections from SSHConnectionManager, which keeps *)
(* its state under one Condition.  Every action below is either one section *)
(* of a method that runs with the lock held, or one step taken without it   *)
(* (connect, the use of the lease, client.close).  Time is not a number:    *)
(* a deadline that passes, a cooldown that ends and a connection that is no *)
(* longer _usable (dead transport, idle timeout, lifetime) are steps of the *)
(* environment.                                                             *)
EXTENDS Integers, FiniteSets, Sequences

CONSTANTS
  Requests,    \* threads of the service that call acquire
  Keys,        \* SSHConnectionKey values
  Clients,     \* PoolClient objects
  NoKey, NoClient,
  GlobalMax,   \* config.global_max_connections
  TargetMax,   \* config.target_max_connections
  MaxWaiters   \* config.max_waiters

ASSUME PoolConfig ==
  /\ GlobalMax \in Nat \ {0}
  /\ TargetMax \in 1 .. GlobalMax
  /\ MaxWaiters \in Nat

ASSUME FinitePopulation ==
  /\ IsFiniteSet(Requests) /\ IsFiniteSet(Keys) /\ IsFiniteSet(Clients)
  /\ NoKey \notin Keys /\ NoClient \notin Clients

VARIABLES
  home,          \* home[c] = k: c is in _states[k].connections (NoKey: in none)
  idle,          \* the listed connections with in_use = False
  alive,         \* the clients that _usable and is_active still accept
  creating,      \* the keys whose state has creating = True
  cooldown,      \* the keys with failure_until > now
  waiters,       \* waiters[k]: the queue of tickets, named by their request
  total,         \* _total_connections
  totalWaiters,  \* _total_waiters
  closed,        \* _closed
  pc,            \* where each request is, see Stages
  key,           \* the key a request is acquiring or holding
  ticket,        \* whether the request's local `ticket` is not None
  late,          \* whether the request's deadline has passed
  client,        \* the client a request is connecting, leasing or closing
  open,          \* client objects connect() was called on and close() was not
  doomed,        \* clients that close() took out of the pool and still closes
  reaper         \* whether the reaper thread is alive

poolVars == <<home, idle, alive, creating, cooldown, waiters, total, totalWaiters, closed>>
requestVars == <<pc, key, ticket, late, client>>
vars == <<poolVars, requestVars, open, doomed, reaper>>

(* "out": not in acquire.  "ready": about to take the lock for one turn of  *)
(* the loop.  "waiting": in condition.wait.  "connecting": in _create.      *)
(* "leased": in the with block.  "closing": about to call client.close on a *)
(* client that failed to connect or was dropped by _release.                *)
Stages == {"out", "ready", "waiting", "connecting", "leased", "closing"}

Init ==
  /\ home = [c \in Clients |-> NoKey]
  /\ idle = {} /\ alive = {} /\ creating = {} /\ cooldown = {}
  /\ waiters = [k \in Keys |-> <<>>]
  /\ total = 0 /\ totalWaiters = 0
  /\ closed = FALSE
  /\ pc = [r \in Requests |-> "out"]
  /\ key = [r \in Requests |-> NoKey]
  /\ ticket = [r \in Requests |-> FALSE]
  /\ late = [r \in Requests |-> FALSE]
  /\ client = [r \in Requests |-> NoClient]
  /\ open = {} /\ doomed = {}
  /\ reaper = FALSE

----------------------------------------------------------------------------
(* Helpers.                                                                 *)

\* max(0, n - m), the way every decrement of the counters is written
MinusUnclamped(n, m) == n - m  \* mutant: no max(0, ...)
Minus(n, m) == IF n >= m THEN n - m ELSE 0

\* waiters.remove(ticket), without the ValueError
Without(q, r) ==
  IF \E i \in DOMAIN q : q[i] = r
    THEN LET p == CHOOSE i \in DOMAIN q : q[i] = r
         IN  [i \in 1 .. Len(q) - 1 |-> IF i < p THEN q[i] ELSE q[i + 1]]
    ELSE q

Listed == {c \in Clients : home[c] # NoKey}
Conns(k) == {c \in Clients : home[c] = k}

\* condition.notify_all() seen by the stages of the requests
Notified(stages) ==
  [r \in Requests |-> IF stages[r] = "waiting" THEN "ready" ELSE stages[r]]

\* _prune(state, now): the idle connections of k that are not usable
Stale(k) == {c \in Conns(k) : c \in idle /\ c \notin alive}

\* What _acquire_record finds after its call of _prune
Kept(k) == Conns(k) \ Stale(k)
PruneKeepsSlots(k) == total  \* mutant: the slots of pruned connections stay taken
TotalKept(k) == Minus(total, Cardinality(Stale(k)))

\* _take_idle(state, now): what it may hand out after _prune
TakeIdleIgnoresInUse(k) == Kept(k)  \* mutant: in_use is not looked at
TakeIdleOfAnyTarget(k) ==  \* mutant: the identity of the connection is not looked at
  idle \cap alive
TakeIdle(k) == Kept(k) \cap idle

IsTurnBarging(r) ==  \* mutant: a newcomer does not look at the queue
  ticket[r] => waiters[key[r]] # <<>> /\ Head(waiters[key[r]]) = r

IsTurn(r) ==
  IF ticket[r] THEN waiters[key[r]] # <<>> /\ Head(waiters[key[r]]) = r
               ELSE waiters[key[r]] = <<>>

TargetCount(k) == Cardinality(Kept(k)) + (IF k \in creating THEN 1 ELSE 0)

\* _evict_oldest_idle(exclude_key=k) removes one of these; which one is the
\* least recently used makes no difference to any property here
Evictable(k) == {c \in idle : home[c] # k}

\* The sets of connections the section may evict before it reserves a slot
Evictions(k) ==
  IF TotalKept(k) >= GlobalMax /\ Evictable(k) # {}
    THEN {{c} : c \in Evictable(k)}
    ELSE {{}}

CanReserveTwice(k) ==  \* mutant: creations for a target are not serialised
  /\ TargetCount(k) < TargetMax
  /\ \E gone \in Evictions(k) : Minus(TotalKept(k), Cardinality(gone)) < GlobalMax

CanReserveOneMore(k) ==  \* mutant: <= for < against both limits
  /\ k \notin creating
  /\ TargetCount(k) <= TargetMax
  /\ \E gone \in Evictions(k) : Minus(TotalKept(k), Cardinality(gone)) <= GlobalMax

CanReserve(k) ==
  /\ k \notin creating
  /\ TargetCount(k) < TargetMax
  /\ \E gone \in Evictions(k) : Minus(TotalKept(k), Cardinality(gone)) < GlobalMax

CanProceed(r) ==
  LET k == key[r]
  IN  /\ IsTurn(r)
      /\ TakeIdle(k) # {} \/ k \in cooldown \/ CanReserve(k)

\* The connections in gone leave the pool and are closed with the lock held
RemoveNotClose(gone) ==  \* mutant: a removed client is never closed
  /\ home' = [c \in Clients |-> IF c \in gone THEN NoKey ELSE home[c]]
  /\ alive' = alive \ gone
  /\ open' = open

RemoveAndClose(gone) ==
  /\ home' = [c \in Clients |-> IF c \in gone THEN NoKey ELSE home[c]]
  /\ alive' = alive \ gone
  /\ open' = open \ gone

\* Mutants of DropWaiter: no notify_all; no decrement; the ticket stays queued
DropWaiterSilently(r, next) ==
  /\ waiters' = IF ticket[r] THEN [waiters EXCEPT ![key[r]] = Without(@, r)]
                             ELSE waiters
  /\ totalWaiters' = IF ticket[r] THEN Minus(totalWaiters, 1) ELSE totalWaiters
  /\ ticket' = [ticket EXCEPT ![r] = FALSE]
  /\ pc' = [pc EXCEPT ![r] = next]

DropWaiterUncounted(r, next) ==
  /\ waiters' = IF ticket[r] THEN [waiters EXCEPT ![key[r]] = Without(@, r)]
                             ELSE waiters
  /\ totalWaiters' = totalWaiters
  /\ ticket' = [ticket EXCEPT ![r] = FALSE]
  /\ pc' = LET moved == [pc EXCEPT ![r] = next]
           IN  IF ticket[r] THEN Notified(moved) ELSE moved

DropWaiterStaysQueued(r, next) ==
  /\ waiters' = waiters
  /\ totalWaiters' = IF ticket[r] THEN Minus(totalWaiters, 1) ELSE totalWaiters
  /\ ticket' = [ticket EXCEPT ![r] = FALSE]
  /\ pc' = LET moved == [pc EXCEPT ![r] = next]
           IN  IF ticket[r] THEN Notified(moved) ELSE moved

\* _drop_waiter(key, ticket), with the request moving on to stage next
DropWaiter(r, next) ==
  /\ waiters' = IF ticket[r] THEN [waiters EXCEPT ![key[r]] = Without(@, r)]
                             ELSE waiters
  /\ totalWaiters' = IF ticket[r] THEN Minus(totalWaiters, 1) ELSE totalWaiters
  /\ ticket' = [ticket EXCEPT ![r] = FALSE]
  /\ pc' = LET moved == [pc EXCEPT ![r] = next]
           IN  IF ticket[r] THEN Notified(moved) ELSE moved

\* The request has raised or returned: its locals are gone
Forget(r) ==
  /\ key' = [key EXCEPT ![r] = NoKey]
  /\ late' = [late EXCEPT ![r] = FALSE]

----------------------------------------------------------------------------
(* acquire and _acquire_record.                                             *)

Acquire(r, k) ==
  /\ pc[r] = "out"
  /\ pc' = [pc EXCEPT ![r] = "ready"]
  /\ key' = [key EXCEPT ![r] = k]
  /\ UNCHANGED <<poolVars, ticket, late, client, open, doomed, reaper>>

\* The closed branch; close() has emptied the queue already, the counter of
\* waiters is decremented once more and stays at 0
AcquireClosed(r) ==
  /\ pc[r] = "ready" /\ closed
  /\ DropWaiter(r, "out")
  /\ Forget(r)
  /\ UNCHANGED <<home, idle, alive, creating, cooldown, total, closed, client,
                 open, doomed, reaper>>

\* The prefix of every other turn of the loop: not closed, reaper running,
\* the target pruned (which notifies nobody)
Turn(r) == pc[r] = "ready" /\ ~closed /\ reaper' = TRUE

\* It is this request's turn and an idle usable connection is there
AcquireIdle(r) ==
  LET k == key[r]
  IN  /\ Turn(r) /\ IsTurn(r)
      /\ \E c \in TakeIdle(k) :
           /\ client' = [client EXCEPT ![r] = c]
           /\ idle' = idle \ (Stale(k) \cup {c})
      /\ RemoveAndClose(Stale(k))
      /\ total' = TotalKept(k)
      /\ DropWaiter(r, "leased")
      /\ late' = [late EXCEPT ![r] = FALSE]
      /\ UNCHANGED <<creating, cooldown, closed, key, doomed>>

\* The target failed to connect a short while ago: same error at once
AcquireCooldown(r) ==
  LET k == key[r]
  IN  /\ Turn(r) /\ IsTurn(r)
      /\ TakeIdle(k) = {}
      /\ k \in cooldown
      /\ RemoveAndClose(Stale(k))
      /\ idle' = idle \ Stale(k)
      /\ total' = TotalKept(k)
      /\ DropWaiter(r, "out")
      /\ Forget(r)
      /\ UNCHANGED <<creating, cooldown, closed, client, doomed>>

\* Reserve a slot, evicting an idle connection of another target when the
\* pool is full, and leave the lock to connect
AcquireReserve(r) ==
  LET k == key[r]
  IN  /\ Turn(r) /\ IsTurn(r)
      /\ TakeIdle(k) = {} /\ k \notin cooldown
      /\ CanReserve(k)
      /\ \E gone \in Evictions(k), c \in Clients \ (open \cup Listed) :
           /\ home' = [d \in Clients |-> IF d \in Stale(k) \cup gone THEN NoKey ELSE home[d]]
           /\ alive' = alive \ (Stale(k) \cup gone)
           /\ idle' = idle \ (Stale(k) \cup gone)
           /\ open' = (open \ (Stale(k) \cup gone)) \cup {c}
           /\ total' = Minus(TotalKept(k), Cardinality(gone)) + 1
           /\ client' = [client EXCEPT ![r] = c]
      /\ creating' = creating \cup {k}
      /\ DropWaiter(r, "connecting")
      /\ late' = [late EXCEPT ![r] = FALSE]
      /\ UNCHANGED <<cooldown, closed, key, doomed>>

\* Nothing to be had and the queue of the whole pool is full
AcquireQueueFull(r) ==
  LET k == key[r]
  IN  /\ Turn(r) /\ ~CanProceed(r)
      /\ ~ticket[r] /\ totalWaiters >= MaxWaiters
      /\ RemoveAndClose(Stale(k))
      /\ idle' = idle \ Stale(k)
      /\ total' = TotalKept(k)
      /\ pc' = [pc EXCEPT ![r] = "out"]
      /\ Forget(r)
      /\ UNCHANGED <<creating, cooldown, waiters, totalWaiters, closed, ticket,
                     client, doomed>>

\* Queue (first time round) and sleep in condition.wait
AcquireWait(r) ==
  LET k == key[r]
  IN  /\ Turn(r) /\ ~CanProceed(r)
      /\ ticket[r] \/ totalWaiters < MaxWaiters
      /\ ~late[r]
      /\ RemoveAndClose(Stale(k))
      /\ idle' = idle \ Stale(k)
      /\ total' = TotalKept(k)
      /\ waiters' = IF ticket[r] THEN waiters
                                 ELSE [waiters EXCEPT ![k] = Append(@, r)]
      /\ totalWaiters' = IF ticket[r] THEN totalWaiters ELSE totalWaiters + 1
      /\ ticket' = [ticket EXCEPT ![r] = TRUE]
      /\ pc' = [pc EXCEPT ![r] = "waiting"]
      /\ UNCHANGED <<creating, cooldown, closed, key, late, client, doomed>>

\* Nothing to be had and the deadline has passed; a request that had no
\* ticket takes one and drops it in the same section, which notifies
AcquireTimeout(r) ==
  LET k == key[r]
  IN  /\ Turn(r) /\ ~CanProceed(r)
      /\ ticket[r] \/ totalWaiters < MaxWaiters
      /\ late[r]
      /\ RemoveAndClose(Stale(k))
      /\ idle' = idle \ Stale(k)
      /\ total' = TotalKept(k)
      /\ waiters' = [waiters EXCEPT ![k] = Without(@, r)]
      /\ totalWaiters' = IF ticket[r] THEN Minus(totalWaiters, 1) ELSE totalWaiters
      /\ ticket' = [ticket EXCEPT ![r] = FALSE]
      /\ pc' = Notified([pc EXCEPT ![r] = "out"])
      /\ Forget(r)
      /\ UNCHANGED <<creating, cooldown, closed, client, doomed>>

----------------------------------------------------------------------------
(* _create, the use of the lease, _release.                                 *)

\* connect() succeeded.  The section does not look at _closed
CreateSucceeds(r) ==
  LET k == key[r]
  IN  /\ pc[r] = "connecting"
      /\ home' = [home EXCEPT ![client[r]] = k]
      /\ alive' = alive \cup {client[r]}
      /\ creating' = creating \ {k}
      /\ cooldown' = cooldown \ {k}
      /\ pc' = Notified([pc EXCEPT ![r] = "leased"])
      /\ UNCHANGED <<idle, waiters, total, totalWaiters, closed, key, ticket,
                     late, client, open, doomed, reaper>>

\* connect() raised: the slot is given back before client.close
CreateFails(r) ==
  LET k == key[r]
  IN  /\ pc[r] = "connecting"
      /\ creating' = creating \ {k}
      /\ total' = Minus(total, 1)
      /\ cooldown' = cooldown \cup {k}
      /\ pc' = Notified([pc EXCEPT ![r] = "closing"])
      /\ UNCHANGED <<home, idle, alive, waiters, totalWaiters, closed, key,
                     ticket, late, client, open, doomed, reaper>>

\* Whether _release removes a listed connection instead of parking it
MustDropUnlessClosed(c, invalidate) ==  \* mutant: _closed is not looked at
  invalidate \/ c \notin alive
MustDrop(c, invalidate) == closed \/ invalidate \/ c \notin alive

\* The with block ended, invalidate says whether in a connection error
Release(r, invalidate) ==
  LET c == client[r]
  IN  /\ pc[r] = "leased"
      /\ IF c \notin Listed
           THEN /\ pc' = [pc EXCEPT ![r] = "closing"]
                /\ UNCHANGED <<home, idle, alive, total, key, client>>
         ELSE IF MustDrop(c, invalidate)
           THEN /\ home' = [home EXCEPT ![c] = NoKey]
                /\ alive' = alive \ {c}
                /\ total' = Minus(total, 1)
                /\ pc' = Notified([pc EXCEPT ![r] = "closing"])
                /\ UNCHANGED <<idle, key, client>>
           ELSE /\ idle' = idle \cup {c}
                /\ pc' = Notified([pc EXCEPT ![r] = "out"])
                /\ key' = [key EXCEPT ![r] = NoKey]
                /\ client' = [client EXCEPT ![r] = NoClient]
                /\ UNCHANGED <<home, alive, total>>
      /\ UNCHANGED <<creating, cooldown, waiters, totalWaiters, closed, ticket,
                     late, open, doomed, reaper>>

\* client.close(), after the lock was given up
CloseClient(r) ==
  /\ pc[r] = "closing"
  /\ open' = open \ {client[r]}
  /\ pc' = [pc EXCEPT ![r] = "out"]
  /\ key' = [key EXCEPT ![r] = NoKey]
  /\ client' = [client EXCEPT ![r] = NoClient]
  /\ UNCHANGED <<poolVars, ticket, late, doomed, reaper>>

----------------------------------------------------------------------------
(* The reaper thread, close(), and the environment.                         *)

Reap ==
  LET gone == {c \in idle : c \notin alive}
  IN  /\ reaper /\ ~closed
      /\ RemoveAndClose(gone)
      /\ idle' = idle \ gone
      /\ total' = Minus(total, Cardinality(gone))
      /\ pc' = Notified(pc)
      /\ UNCHANGED <<creating, cooldown, waiters, totalWaiters, closed, key,
                     ticket, late, client, doomed, reaper>>

\* _stop is set, or the pass finds the pool closed: the thread returns
ReaperExit ==
  /\ reaper /\ closed
  /\ reaper' = FALSE
  /\ UNCHANGED <<poolVars, requestVars, open, doomed>>

\* close(), registered with atexit: the locked part
Shutdown ==
  /\ ~closed
  /\ closed' = TRUE
  /\ doomed' = Listed
  /\ home' = [c \in Clients |-> NoKey]
  /\ idle' = {} /\ alive' = {} /\ creating' = {} /\ cooldown' = {}
  /\ waiters' = [k \in Keys |-> <<>>]
  /\ total' = 0 /\ totalWaiters' = 0
  /\ pc' = Notified(pc)
  /\ UNCHANGED <<key, ticket, late, client, open, reaper>>

\* ... and its loop over the clients, without the lock; a client that is still
\* leased is closed under its request's feet
ShutdownCloses(c) ==
  /\ c \in doomed
  /\ doomed' = doomed \ {c}
  /\ open' = open \ {c}
  /\ UNCHANGED <<poolVars, requestVars, reaper>>

\* A transport dies, or idle timeout or lifetime run out
GoesStale(c) ==
  /\ c \in alive
  /\ alive' = alive \ {c}
  /\ UNCHANGED <<home, idle, creating, cooldown, waiters, total, totalWaiters,
                 closed, requestVars, open, doomed, reaper>>

\* failure_until passes
CooldownEnds(k) ==
  /\ k \in cooldown
  /\ cooldown' = cooldown \ {k}
  /\ UNCHANGED <<home, idle, alive, creating, waiters, total, totalWaiters,
                 closed, requestVars, open, doomed, reaper>>

\* The deadline passes; condition.wait(remaining) returns by itself
DeadlinePasses(r) ==
  /\ pc[r] \in {"ready", "waiting"} /\ ~late[r]
  /\ late' = [late EXCEPT ![r] = TRUE]
  /\ pc' = [pc EXCEPT ![r] = "ready"]
  /\ UNCHANGED <<poolVars, key, ticket, client, open, doomed, reaper>>

\* One turn of the loop of _acquire_record
Loop(r) ==
  \/ AcquireClosed(r) \/ AcquireIdle(r) \/ AcquireCooldown(r) \/ AcquireReserve(r)
  \/ AcquireQueueFull(r) \/ AcquireWait(r) \/ AcquireTimeout(r)

Create(r) == CreateSucceeds(r) \/ CreateFails(r)

EndLease(r) == \E invalidate \in BOOLEAN : Release(r, invalidate)

Next ==
  \/ \E r \in Requests :
       \/ \E k \in Keys : Acquire(r, k)
       \/ Loop(r) \/ Create(r) \/ EndLease(r) \/ CloseClient(r) \/ DeadlinePasses(r)
  \/ Reap \/ ReaperExit \/ Shutdown
  \/ \E c \in Clients : ShutdownCloses(c) \/ GoesStale(c)
  \/ \E k \in Keys : CooldownEnds(k)

Spec == Init /\ [][Next]_vars

\* Threads run, connect and the use of a lease end (both have timeouts of their
\* own), close() finishes its loop.  No deadline is assumed to pass and no
\* acquire is assumed to be made.
ThreadFairness ==
  /\ \A r \in Requests :
       WF_vars(Loop(r)) /\ WF_vars(Create(r)) /\ WF_vars(EndLease(r)) /\ WF_vars(CloseClient(r))
  /\ \A c \in Clients : WF_vars(ShutdownCloses(c))
  /\ WF_vars(ReaperExit)

FairSpec == Spec /\ ThreadFairness
----------------------------------------------------------------------------
(* Properties.                                                              *)

TypeOK ==
  /\ home \in [Clients -> Keys \cup {NoKey}]
  /\ idle \subseteq Clients /\ alive \subseteq Clients
  /\ creating \subseteq Keys /\ cooldown \subseteq Keys
  /\ waiters \in [Keys -> Seq(Requests)]
  /\ total \in Nat /\ totalWaiters \in Nat
  /\ closed \in BOOLEAN
  /\ pc \in [Requests -> Stages]
  /\ key \in [Requests -> Keys \cup {NoKey}]
  /\ ticket \in [Requests -> BOOLEAN] /\ late \in [Requests -> BOOLEAN]
  /\ client \in [Requests -> Clients \cup {NoClient}]
  /\ open \subseteq Clients /\ doomed \subseteq Clients
  /\ reaper \in BOOLEAN

\* One connection is leased to one request at a time (SSH_POOL.md:7): no two
\* requests hold the same client in any stage, and a client a request holds is
\* never on offer as idle, through prune, evict, release and close().
ExclusiveLease ==
  /\ \A r, q \in Requests : r # q /\ client[r] # NoClient => client[r] # client[q]
  /\ \A r \in Requests : client[r] \notin idle

\* _total_connections counts the connections in the pool and the reserved
\* creations, exactly, until the pool is closed (comment at ssh_pool.py:135).
\* A slot lost here is lost until the process restarts.
SlotsAccounted ==
  ~closed => total = Cardinality(Listed) + Cardinality(creating)

\* The pool stays within its limits, whatever is pruned, evicted, refused or
\* fails to connect: globally and for each target.
WithinLimits ==
  ~closed =>
    /\ total <= GlobalMax
    /\ \A k \in Keys :
         Cardinality(Conns(k)) + (IF k \in creating THEN 1 ELSE 0) <= TargetMax

\* Creation for one target is serialised (SSH_POOL.md:10), also across close(),
\* which clears `creating` under a creation in flight.
OneCreatorPerTarget ==
  /\ \A r, q \in Requests :
       pc[r] = "connecting" /\ pc[q] = "connecting" /\ key[r] = key[q] => r = q
  /\ ~closed => creating = {key[r] : r \in {q \in Requests : pc[q] = "connecting"}}

\* The queues hold exactly the tickets requests believe to hold, each once, and
\* _total_waiters counts them: a stray ticket would block its target forever.
QueueMatchesTickets ==
  ~closed =>
    /\ totalWaiters = Cardinality({r \in Requests : ticket[r]})
    /\ totalWaiters <= MaxWaiters
    /\ \A k \in Keys :
         /\ {waiters[k][i] : i \in DOMAIN waiters[k]}
              = {r \in Requests : ticket[r] /\ key[r] = k}
         /\ \A i, j \in DOMAIN waiters[k] : waiters[k][i] = waiters[k][j] => i = j

\* No lost wakeup: a request asleep in condition.wait could not go on if it
\* looked now, although prune and time change the state without notify_all; and
\* nobody sleeps in a closed pool.
NoLostWakeup ==
  \A r \in Requests : pc[r] = "waiting" => ~CanProceed(r) /\ ~closed

\* Every client that may hold a socket is listed, held by a request that will
\* release or close it, or on the list close() works off.
NoLeak ==
  open \subseteq Listed \cup doomed \cup {client[r] : r \in Requests}

\* A closed pool parks nothing: a connection that a late _create listed is
\* there only while its request leases it.
ClosedPoolParksNothing ==
  closed => \A c \in Listed : \E r \in Requests : pc[r] = "leased" /\ client[r] = c

\* Within a target service is in queue order: a step that serves r leaves no
\* other request of that target queued before it.
Serves(r) == pc[r] = "ready" /\ pc'[r] \in {"connecting", "leased"}
ServedInOrder ==
  [][\A r \in Requests : Serves(r) =>
       \A i \in DOMAIN waiters[key[r]] :
         waiters[key[r]][i] = r
           \/ \E j \in 1 .. i - 1 : waiters[key[r]][j] = r]_vars

\* What LeasePool calls the lease of a request and the target of a client; a
\* leased client keeps its target when close() takes it off the list
LeaseOf == [r \in Requests |-> IF pc[r] = "leased" THEN client[r] ELSE NoClient]
BoundTo ==
  [c \in Clients |->
     IF \E r \in Requests : pc[r] = "leased" /\ client[r] = c
       THEN key[CHOOSE r \in Requests : pc[r] = "leased" /\ client[r] = c]
       ELSE home[c]]

\* The pool keeps the promise LeasePool states: a lease is exclusive and is a
\* connection made for the same host, port, user and credential
\* (SSH_POOL.md:7-8), whatever queueing, eviction and close() do meanwhile.
Abstract == INSTANCE LeasePool WITH want <- key, lease <- LeaseOf, bound <- BoundTo
PromiseKept == Abstract!Spec

\* Requests of a single target all get an answer, without any deadline passing:
\* the queue of a target neither starves nor deadlocks.
EveryAcquireEnds ==
  \A r \in Requests : pc[r] = "ready" ~> pc[r] \in {"leased", "connecting", "out"}

\* After close() every connection is closed in the end, the ones leased or
\* being created at that moment too.
ShutdownDrains == closed ~> [](open = {} /\ Listed = {})

\* SSH_POOL.md:19, SSH_POOL_GLOBAL_MAX_CONNECTIONS: "Maximum physical SSH
\* connections in this process".  _release gives the slot back before it calls
\* client.close, so a new connection can be up while the old one still is.
Connected == open \ {client[r] : r \in {q \in Requests : pc[q] = "connecting"}}
PhysicalLimit == ~closed => Cardinality(Connected) <= GlobalMax
=============================================================================
