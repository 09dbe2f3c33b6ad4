---------------------------- MODULE SourceLimiter ----------------------------
(* The per-source limit on concurrent SQLite queries: SQLiteSourceLimiter in *)
(* src/src/sqlite_tool/sqlite_concurrency.py and its twin _SourceLimiter in  *)
(* src/src/rescue_channel/sqlite_rescue.py.  A thread first tries the        *)
(* source's semaphore without blocking; if that fails it is counted among    *)
(* the waiters of all sources under _guard, blocks on the semaphore with a   *)
(* timeout, and is counted off before it looks at what it got.               *)
EXTENDS Integers, FiniteSets

CONSTANTS
  Threads, Sources, NoSource,
  MaxPerSource,  \* config.max_per_source
  MaxWaiters     \* config.max_waiters

ASSUME LimiterConfig ==
  /\ MaxPerSource \in Nat \ {0}
  /\ MaxWaiters \in Nat
  /\ IsFiniteSet(Threads)
  /\ NoSource \notin Sources

VARIABLES
  free,     \* the value of each source's BoundedSemaphore
  waiting,  \* _waiters
  at,       \* where a thread is in acquire
  src       \* the source a thread wants or has a slot of

limiterVars == <<free, waiting, at, src>>

(* "idle": outside acquire.  "entered": before the non-blocking try.          *)
(* "queueing": the try failed, _guard is next.  "blocked": in                 *)
(* semaphore.acquire(timeout).  "granted", "expired": it returned True, False *)
(* and the waiter is not yet counted off.  "holding": in the with block.      *)
Places == {"idle", "entered", "queueing", "blocked", "granted", "expired", "holding"}

Init ==
  /\ free = [s \in Sources |-> MaxPerSource]
  /\ waiting = 0
  /\ at = [t \in Threads |-> "idle"]
  /\ src = [t \in Threads |-> NoSource]

Move(t, place) == at' = [at EXCEPT ![t] = place]
TakeSlot(t) == free[src[t]] > 0 /\ free' = [free EXCEPT ![src[t]] = @ - 1]
Leave(t) == Move(t, "idle") /\ src' = [src EXCEPT ![t] = NoSource]

Enter(t, s) ==
  /\ at[t] = "idle"
  /\ Move(t, "entered")
  /\ src' = [src EXCEPT ![t] = s]
  /\ UNCHANGED <<free, waiting>>

\* semaphore.acquire(blocking=False); nobody looks whether others are waiting
TryNow(t) ==
  /\ at[t] = "entered"
  /\ TakeSlot(t)
  /\ Move(t, "holding")
  /\ UNCHANGED <<waiting, src>>

TryFails(t) ==
  /\ at[t] = "entered"
  /\ free[src[t]] = 0
  /\ Move(t, "queueing")
  /\ UNCHANGED <<free, waiting, src>>

JoinAnyway(t) ==  \* mutant: <= for < against max_waiters
  /\ at[t] = "queueing" /\ waiting <= MaxWaiters
  /\ waiting' = waiting + 1
  /\ Move(t, "blocked")
  /\ UNCHANGED <<free, src>>

JoinUncounted(t) ==  \* mutant: _waiters is not incremented
  /\ at[t] = "queueing" /\ waiting < MaxWaiters
  /\ Move(t, "blocked")
  /\ UNCHANGED <<free, waiting, src>>

Join(t) ==
  /\ at[t] = "queueing" /\ waiting < MaxWaiters
  /\ waiting' = waiting + 1
  /\ Move(t, "blocked")
  /\ UNCHANGED <<free, src>>

\* SQLITE_SOURCE_QUEUE_FULL
QueueFull(t) ==
  /\ at[t] = "queueing" /\ waiting >= MaxWaiters
  /\ Leave(t)
  /\ UNCHANGED <<free, waiting>>

Granted(t) ==
  /\ at[t] = "blocked"
  /\ TakeSlot(t)
  /\ Move(t, "granted")
  /\ UNCHANGED <<waiting, src>>

Expires(t) ==
  /\ at[t] = "blocked"
  /\ Move(t, "expired")
  /\ UNCHANGED <<free, waiting, src>>

\* The finally block, then the with block ...
CountOffGranted(t) ==
  /\ at[t] = "granted"
  /\ waiting' = waiting - 1
  /\ Move(t, "holding")
  /\ UNCHANGED <<free, src>>

\* ... or SQLITE_SOURCE_ACQUIRE_TIMEOUT
CountOffExpired(t) ==
  /\ at[t] = "expired"
  /\ waiting' = waiting - 1
  /\ Leave(t)
  /\ UNCHANGED free

ReleaseForgotten(t) ==  \* mutant: the slot is not given back
  /\ at[t] = "holding"
  /\ Leave(t)
  /\ UNCHANGED <<free, waiting>>

\* semaphore.release() when the with block ends, however it ends
Release(t) ==
  /\ at[t] = "holding"
  /\ free' = [free EXCEPT ![src[t]] = @ + 1]
  /\ Leave(t)
  /\ UNCHANGED waiting

\* What a thread inside acquire does by itself
Proceed(t) ==
  \/ TryNow(t) \/ TryFails(t) \/ Join(t) \/ QueueFull(t)
  \/ Granted(t) \/ Expires(t) \/ CountOffGranted(t) \/ CountOffExpired(t)

Next ==
  \E t \in Threads : (\E s \in Sources : Enter(t, s)) \/ Proceed(t) \/ Release(t)

Spec == Init /\ [][Next]_limiterVars

----------------------------------------------------------------------------
(* Properties.                                                              *)

TypeOK ==
  /\ free \in [Sources -> Nat]
  /\ waiting \in Nat
  /\ at \in [Threads -> Places]
  /\ src \in [Threads -> Sources \cup {NoSource}]

\* No slot of a source is lost or handed out twice: the free ones and the ones
\* threads have make up the limit.  So BoundedSemaphore.release never raises.
Users(s) == {t \in Threads : src[t] = s /\ at[t] \in {"granted", "holding"}}
SlotsConserved == \A s \in Sources : free[s] + Cardinality(Users(s)) = MaxPerSource

\* _waiters counts exactly the threads that wait, on whichever source and
\* whatever became of their wait, and stays within max_waiters.
Waiters == {t \in Threads : at[t] \in {"blocked", "granted", "expired"}}
WaitersCounted == waiting = Cardinality(Waiters) /\ waiting <= MaxWaiters
=============================================================================
