----------------------------- MODULE SqliteRescue -----------------------------
(* The SQLite rescue service: sqlite_rescue_query, execute_request and        *)
(* _resolve_sources in src/src/rescue_channel/sqlite_rescue.py.  A handler    *)
(* takes a permit of _QUERY_SEMAPHORE or refuses, without waiting; resolves   *)
(* the pods one by one; and queries the sources one by one under a source     *)
(* limiter of the service's own, the twin of the endpoint's.  It goes on, and *)
(* may even start, when the request that called it has given up.              *)
EXTENDS Integers, FiniteSets

CONSTANTS
  Threads,          \* the requests of the query endpoint that may call
  Sources,          \* one for each pod, numbered in the order of the pods' names
  NoSource,
  RescueMax,        \* LOG_RESCUE_MAX_CONCURRENT_SQLITE_QUERIES
  RescuePerSource,  \* LOG_RESCUE_SQLITE_SOURCE_MAX_CONCURRENCY
  RescueWaiters     \* LOG_RESCUE_SQLITE_SOURCE_MAX_WAITERS

ASSUME RescueConfig ==
  /\ IsFiniteSet(Threads)
  /\ Sources \subseteq Nat /\ NoSource \notin Sources
  /\ {RescueMax, RescuePerSource} \subseteq Nat \ {0}
  /\ RescueWaiters \in Nat

VARIABLES
  call,     \* the call of a request, as in RescueService
  permits,  \* the value of _QUERY_SEMAPHORE
  handler,  \* where the handler of a call is
  hjob,     \* the locals of execute_request
  free, waiting, at, src  \* _SOURCE_LIMITER

limiterVars == <<free, waiting, at, src>>
handlerVars == <<permits, handler, hjob>>
vars == <<call, limiterVars, handlerVars>>

Limiter == INSTANCE SourceLimiter WITH MaxPerSource <- RescuePerSource, MaxWaiters <- RescueWaiters

Running == {t \in Threads : handler[t] \notin {"none", "replied"}}
Handled == {t \in Threads : handler[t] # "none"}
Service == INSTANCE RescueService WITH running <- Running, handled <- Handled

NoJob == [policy |-> "none", targets |-> {}, skipped |-> {}, todo |-> {},
          good |-> {}, bad |-> {}]

Init ==
  /\ call = [t \in Threads |-> "none"]
  /\ permits = RescueMax
  /\ handler = [t \in Threads |-> "none"]
  /\ hjob = [t \in Threads |-> NoJob]
  /\ Limiter!Init

Go(t, place) == handler' = [handler EXCEPT ![t] = place]
All(t) == hjob[t].policy = "all"
Outside == UNCHANGED call

----------------------------------------------------------------------------
(* The call                                                                 *)

\* The request's payload comes with it; requests.post may also time out, or
\* never reach the service
Call(t) ==
  /\ Service!Becomes(t, "none", "calling")
  /\ \E policy \in {"single", "all"} : hjob' = [hjob EXCEPT ![t].policy = policy]
  /\ UNCHANGED <<permits, handler, limiterVars>>

GiveUp(t) == Service!Becomes(t, "calling", "given up") /\ UNCHANGED <<handlerVars, limiterVars>>

\* The service learns nothing of its caller's timeout
Admit(t) ==
  /\ call[t] \in {"calling", "given up"} /\ handler[t] = "none" /\ permits > 0
  /\ permits' = permits - 1
  /\ Go(t, "targets")
  /\ UNCHANGED <<hjob, limiterVars>> /\ Outside

RefuseReleases(t) ==  \* mutant: the finally clause releases in any case
  /\ handler[t] = "none" /\ permits = 0
  /\ permits' = permits + 1
  /\ Service!Becomes(t, "calling", "answered")
  /\ UNCHANGED <<handler, hjob, limiterVars>>

\* TOO_MANY_REQUESTS; the finally clause looks at "acquired" and releases nothing
Refuse(t) ==
  /\ handler[t] = "none" /\ permits = 0
  /\ Service!Becomes(t, "calling", "answered")
  /\ UNCHANGED <<handlerVars, limiterVars>>

\* The finally clause, with the answer on its way to whoever still waits
Return(t) ==
  /\ handler[t] \in {"result", "error"}
  /\ permits' = permits + 1
  /\ Go(t, "replied")
  /\ hjob' = [hjob EXCEPT ![t] = NoJob]
  /\ call' = [call EXCEPT ![t] = IF @ = "calling" THEN "answered" ELSE @]
  /\ UNCHANGED limiterVars

\* An exception of execute_request is answered like a result
Raise(t) == Go(t, "error") /\ UNCHANGED <<permits, hjob>> /\ Outside

----------------------------------------------------------------------------
(* _resolve_sources: what it does is seen by nobody else until it ends       *)

\* Some codes skip a pod when the policy is "all" and every other one is raised,
\* as is NO_SQLITE_SOURCE_RESOLVED; with policy "single" there is but one pod
ResolveSources(t) ==
  /\ handler[t] = "targets"
  /\ \/ Raise(t)
     \/ \E pods \in SUBSET Sources : \E usable \in (SUBSET pods) \ {{}} :
          /\ All(t) \/ (Cardinality(pods) = 1 /\ usable = pods)
          /\ hjob' = [hjob EXCEPT ![t].targets = pods, ![t].skipped = pods \ usable,
                                  ![t].todo = usable]
          /\ Go(t, "loop") /\ UNCHANGED permits /\ Outside
  /\ UNCHANGED limiterVars

First(set) == CHOOSE s \in set : \A other \in set : s <= other

----------------------------------------------------------------------------
(* execute_request                                                          *)

NextSource(t) ==
  /\ handler[t] = "loop" /\ hjob[t].todo # {}
  /\ LET s == First(hjob[t].todo) IN
       Limiter!Enter(t, s) /\ hjob' = [hjob EXCEPT ![t].todo = @ \ {s}]
  /\ Go(t, "slot")
  /\ UNCHANGED permits /\ Outside

AtLimiter(t) ==
  /\ handler[t] = "slot"
  /\ \/ Limiter!TryNow(t) \/ Limiter!TryFails(t) \/ Limiter!Join(t)
     \/ Limiter!Granted(t) \/ Limiter!CountOffGranted(t)
  /\ UNCHANGED handlerVars /\ Outside

SlotExpires(t) ==
  /\ handler[t] = "slot" /\ Limiter!Expires(t)
  /\ UNCHANGED handlerVars /\ Outside

\* SQLITE_SOURCE_QUEUE_FULL and ..._ACQUIRE_TIMEOUT end the whole request
SlotRefused(t) ==
  /\ handler[t] = "slot"
  /\ Limiter!QueueFull(t) \/ Limiter!CountOffExpired(t)
  /\ Raise(t)

SourceFailsUnnoted(t, s) ==  \* mutant: the failure is logged only
  /\ hjob' = hjob /\ Go(t, "loop") /\ UNCHANGED permits /\ Outside

\* One source's failure is noted under policy "all"; a limit or an unexpected
\* exception ends the request under either; what the rows and bytes of all
\* sources add up to is not counted here, so that any of them may be the limit
SourceFails(t, s) ==
  \/ /\ All(t)
     /\ hjob' = [hjob EXCEPT ![t].bad = @ \cup {s}]
     /\ Go(t, "loop") /\ UNCHANGED permits /\ Outside
  \/ Raise(t)

SourceGives(t, s) ==
  /\ hjob' = [hjob EXCEPT ![t].good = @ \cup {s}]
  /\ Go(t, "loop") /\ UNCHANGED permits /\ Outside

\* kubectl exec under its timeout; then the slot goes back, however it ended,
\* and the output is looked at
Execute(t) ==
  /\ handler[t] = "slot" /\ Limiter!Release(t)
  /\ SourceGives(t, src[t]) \/ SourceFails(t, src[t])

\* NO_SQLITE_SOURCE_QUERY_SUCCEEDED, or the response, which may be too large
Finish(t) ==
  /\ handler[t] = "loop" /\ hjob[t].todo = {}
  /\ \/ Raise(t)
     \/ /\ hjob[t].good # {}
        /\ Go(t, "result")
        /\ UNCHANGED <<permits, hjob>> /\ Outside
  /\ UNCHANGED limiterVars

----------------------------------------------------------------------------
Work(t) ==
  \/ Admit(t) \/ Refuse(t) \/ ResolveSources(t)
  \/ NextSource(t) \/ AtLimiter(t) \/ SlotRefused(t) \/ Execute(t) \/ Finish(t)
  \/ Return(t)

Resting ==
  /\ \A t \in Threads : call[t] \in {"answered", "given up"} /\ t \notin Running
  /\ UNCHANGED vars

Next ==
  \/ Resting
  \/ \E t \in Threads : Call(t) \/ GiveUp(t) \/ SlotExpires(t) \/ Work(t)

Spec == Init /\ [][Next]_vars

----------------------------------------------------------------------------
(* Properties.                                                              *)

\* The service keeps what SqliteQuery relies on: no more handlers run than
\* there were permits, those of callers that gave up among them; a call is
\* refused only when all permits are out; and one call gets one answer.  This
\* holds only if every way out of a handler gives back its one permit and a
\* refusal gives back none.
KeepsPromise == Service!Spec

\* A result of the rescue service names every pod it resolved once, as skipped,
\* failed or queried, and at least one as queried; with policy "single" nothing
\* is missing from it.
RescueAccounts ==
  \A t \in Threads : handler[t] = "result" =>
    LET h == hjob[t] IN
    /\ h.targets = h.skipped \cup h.good \cup h.bad
    /\ h.good # {} /\ h.good \cap h.bad = {} /\ h.skipped \cap (h.good \cup h.bad) = {}
    /\ All(t) \/ h.good = h.targets
=============================================================================
