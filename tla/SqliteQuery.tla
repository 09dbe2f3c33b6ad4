----------------------------- MODULE SqliteQuery -----------------------------
(* The SQLite query endpoint: sqlite_query_api (service main) around         *)
(* handle_sqlite_query (sqlite_tool/sqlite_query.py), many requests at once.  *)
(* A request leases a connection to resolve its sources, gives it back, and   *)
(* then visits the sources one by one, each under a slot of the source        *)
(* limiter AND a new lease, always taken in that order.  A query that found   *)
(* the limiter or the SSH side saturated is handed to the rescue service.     *)
(* The SSH pool is seen through its limit and its errors (SSHPool has the     *)
(* rest), the rescue handler through its concurrency limit and its answers.   *)
EXTENDS SourceLimiter

CONSTANTS
  PoolMax,       \* connections the pool has for these requests
  RescueMax,     \* LOG_RESCUE_MAX_CONCURRENT_SQLITE_QUERIES
  MaxTotalRows   \* options.max_total_rows

\* Sources are numbered in the order of their pods' names, which is the order
\* in which every query visits them (resolve_k8s_targets sorts the pods).
ASSUME QueryConfig ==
  /\ Sources \subseteq Nat
  /\ PoolMax \in Nat \ {0} /\ RescueMax \in Nat \ {0} /\ MaxTotalRows \in Nat

VARIABLES
  phase,     \* where a request is
  job,       \* the locals of handle_sqlite_query
  leased,    \* the requests that hold an SSH lease
  rescuing,  \* the requests whose rescue handler runs (_QUERY_SEMAPHORE)
  error,     \* the ServiceError that left handle_sqlite_query
  answer     \* what the client was told

queryVars == <<phase, job, leased, rescuing, error, answer>>
allVars == <<limiterVars, queryVars>>

Phases == {"new", "connecting", "resolving", "loop", "slot", "executing",
           "unlocking", "rescue", "rescued", "answered"}

\* Error codes, grouped by what the code does with them
FallbackCodes == {"sourceBusy", "sshDown"}  \* SQLITE_RESCUE_FALLBACK_CODES
FatalCodes == FallbackCodes \cup {"limit"}  \* re-raised inside the loop
Codes == FatalCodes \cup {"sourceFailed", "poolClosed", "notResolved", "allFailed", "internal"}

\* "got" is what became of the source in hand
NoJob == [policy |-> "none", sources |-> {}, todo |-> {}, good |-> {}, bad |-> {},
          rows |-> 0, got |-> "none"]

QueryInit ==
  /\ Init
  /\ phase = [t \in Threads |-> "new"]
  /\ job = [t \in Threads |-> NoJob]
  /\ leased = {} /\ rescuing = {}
  /\ error = [t \in Threads |-> "none"]
  /\ answer = [t \in Threads |-> "none"]

Go(t, p) == phase' = [phase EXCEPT ![t] = p]
Answer(t, a) == Go(t, "answered") /\ answer' = [answer EXCEPT ![t] = a]

\* handle_sqlite_query raises: its locals are gone, and the endpoint either
\* answers or turns to the rescue service
Raise(t, code) ==
  /\ error' = [error EXCEPT ![t] = code]
  /\ job' = [job EXCEPT ![t] = [NoJob EXCEPT !.policy = job[t].policy]]
  /\ \/ code \in FallbackCodes /\ Go(t, "rescue") /\ UNCHANGED answer
     \/ code \notin FallbackCodes /\ Answer(t, "error")

Quiet == UNCHANGED <<error, answer>>

TakeLease(t) == Cardinality(leased) < PoolMax /\ leased' = leased \cup {t}
EndLease(t) == leased' = leased \ {t}

----------------------------------------------------------------------------
(* Resolution                                                               *)

Receive(t) ==
  /\ phase[t] = "new"
  /\ \E policy \in {"single", "all"} : job' = [job EXCEPT ![t].policy = policy]
  /\ Go(t, "connecting")
  /\ Quiet /\ UNCHANGED <<limiterVars, leased, rescuing>>

LeaseToResolve(t) ==
  /\ phase[t] = "connecting"
  /\ TakeLease(t)
  /\ Go(t, "resolving")
  /\ Quiet /\ UNCHANGED <<limiterVars, job, rescuing>>

ConnectFails(t) ==
  /\ phase[t] = "connecting"
  /\ \E code \in {"sshDown", "poolClosed"} : Raise(t, code)
  /\ UNCHANGED <<limiterVars, leased, rescuing>>

\* At least one source, and exactly one under pod_match_policy "single"
Resolved(t) ==
  /\ phase[t] = "resolving"
  /\ EndLease(t)
  /\ \E found \in (SUBSET Sources) \ {{}} :
       /\ job[t].policy = "single" => Cardinality(found) = 1
       /\ job' = [job EXCEPT ![t].sources = found, ![t].todo = found]
  /\ Go(t, "loop")
  /\ Quiet /\ UNCHANGED <<limiterVars, rescuing>>

ResolveFailsKeepsLease(t) ==  \* mutant: the lease survives the exception
  /\ phase[t] = "resolving"
  /\ \E code \in {"sshDown", "notResolved", "internal"} : Raise(t, code)
  /\ UNCHANGED <<limiterVars, leased, rescuing>>

ResolveFails(t) ==
  /\ phase[t] = "resolving"
  /\ EndLease(t)
  /\ \E code \in {"sshDown", "notResolved", "internal"} : Raise(t, code)
  /\ UNCHANGED <<limiterVars, rescuing>>

----------------------------------------------------------------------------
(* The loop over the sources                                                *)

NextSource(t) ==
  /\ phase[t] = "loop"
  /\ \E s \in job[t].todo :
       /\ \A other \in job[t].todo : s <= other
       /\ Enter(t, s)
       /\ job' = [job EXCEPT ![t].todo = @ \ {s}]
  /\ Go(t, "slot")
  /\ Quiet /\ UNCHANGED <<leased, rescuing>>

\* Inside the limiter's acquire, without and with its timeout
AtLimiter(t) ==
  /\ phase[t] = "slot"
  /\ \/ TryNow(t) \/ TryFails(t) \/ Join(t) \/ Granted(t) \/ CountOffGranted(t)
  /\ UNCHANGED queryVars

SlotTimeout(t) == phase[t] = "slot" /\ Expires(t) /\ UNCHANGED queryVars

SlotRefused(t) ==
  /\ phase[t] = "slot"
  /\ QueueFull(t) \/ CountOffExpired(t)
  /\ Raise(t, "sourceBusy")
  /\ UNCHANGED <<leased, rescuing>>

LeaseForSource(t) ==
  /\ phase[t] = "slot" /\ at[t] = "holding"
  /\ TakeLease(t)
  /\ Go(t, "executing")
  /\ Quiet /\ UNCHANGED <<limiterVars, job, rescuing>>

\* The except clause of the loop: with policy "all" a failure that is not
\* fatal is noted and the loop goes on
SourceFailsAlwaysRaises(t, code) ==  \* mutant: the policy is not looked at
  Raise(t, code)

SourceFails(t, code) ==
  \/ /\ code \in {"sourceFailed", "poolClosed"} /\ job[t].policy = "all"
     /\ job' = [job EXCEPT ![t].bad = @ \cup {src[t]}, ![t].got = "none"]
     /\ Go(t, "loop") /\ Quiet
  \/ /\ code \in FatalCodes \cup {"internal"} \/ job[t].policy = "single"
     /\ Raise(t, code)

\* No connection for the source: the slot goes back on the way out
NoLeaseForSource(t) ==
  /\ phase[t] = "slot" /\ Release(t)
  /\ \E code \in {"sshDown", "poolClosed"} : SourceFails(t, code)
  /\ UNCHANGED <<leased, rescuing>>

Execute(t) ==
  /\ phase[t] = "executing"
  /\ EndLease(t)
  /\ \E got \in {"rows", "sourceFailed", "sshDown", "limit", "internal"} :
       job' = [job EXCEPT ![t].got = got]
  /\ Go(t, "unlocking")
  /\ Quiet /\ UNCHANGED <<limiterVars, rescuing>>

WithinRowsPerSource(t, n) == n <= MaxTotalRows  \* mutant: rows do not accumulate
WithinRows(t, n) == job[t].rows + n <= MaxTotalRows

\* The remote script returns at most max_total_rows rows.  The result may also
\* be larger than max_result_size_bytes allows.
Collect(t) ==
  /\ phase[t] = "unlocking" /\ Release(t)
  /\ \/ /\ job[t].got = "rows"
        /\ \/ \E n \in 0 .. MaxTotalRows :
                /\ WithinRows(t, n)
                /\ job' = [job EXCEPT ![t].good = @ \cup {src[t]}, ![t].rows = @ + n,
                                      ![t].got = "none"]
                /\ Go(t, "loop") /\ Quiet
           \/ Raise(t, "limit")
     \/ job[t].got # "rows" /\ SourceFails(t, job[t].got)
  /\ UNCHANGED <<leased, rescuing>>

\* After the loop; the response as a whole may still be too large
Finish(t) ==
  /\ phase[t] = "loop" /\ job[t].todo = {}
  /\ \/ job[t].good = {} /\ Raise(t, "allFailed")
     \/ job[t].good # {} /\ Raise(t, "limit")
     \/ job[t].good # {} /\ Answer(t, "ok") /\ UNCHANGED <<job, error>>
  /\ UNCHANGED <<limiterVars, leased, rescuing>>

----------------------------------------------------------------------------
(* The rescue service                                                       *)

RescueAdmits(t) ==
  /\ phase[t] = "rescue" /\ Cardinality(rescuing) < RescueMax
  /\ rescuing' = rescuing \cup {t}
  /\ Go(t, "rescued")
  /\ UNCHANGED <<limiterVars, job, leased, error, answer>>

\* TOO_MANY_REQUESTS is a JSON answer like any other and is passed on
RescueBusy(t) ==
  /\ phase[t] = "rescue" /\ Cardinality(rescuing) >= RescueMax
  /\ Answer(t, "rescue")
  /\ UNCHANGED <<limiterVars, job, leased, rescuing, error>>

\* No connection, no JSON: the error that led here is the answer
RescueUnreachable(t) ==
  /\ phase[t] = "rescue"
  /\ Answer(t, "error")
  /\ UNCHANGED <<limiterVars, job, leased, rescuing, error>>

RescueReplies(t) ==
  /\ phase[t] = "rescued" /\ t \in rescuing
  /\ rescuing' = rescuing \ {t}
  /\ Answer(t, "rescue")
  /\ UNCHANGED <<limiterVars, job, leased, error>>

\* The read timeout of requests.post: the handler goes on, heard by nobody
RescueTimesOut(t) ==
  /\ phase[t] = "rescued"
  /\ Answer(t, "error")
  /\ UNCHANGED <<limiterVars, job, leased, rescuing, error>>

RescueEndsUnheard(t) ==
  /\ phase[t] = "answered" /\ t \in rescuing
  /\ rescuing' = rescuing \ {t}
  /\ UNCHANGED <<limiterVars, phase, job, leased, error, answer>>

----------------------------------------------------------------------------
\* What happens without anybody's timeout
Work(t) ==
  \/ LeaseToResolve(t) \/ Resolved(t) \/ ResolveFails(t)
  \/ NextSource(t) \/ AtLimiter(t) \/ SlotRefused(t) \/ LeaseForSource(t)
  \/ Execute(t) \/ Collect(t) \/ Finish(t)
  \/ RescueAdmits(t) \/ RescueBusy(t) \/ RescueReplies(t) \/ RescueEndsUnheard(t)

Trouble(t) ==
  \/ ConnectFails(t) \/ SlotTimeout(t) \/ NoLeaseForSource(t)
  \/ RescueUnreachable(t) \/ RescueTimesOut(t)

\* A request is received once; when all are answered the model rests
Resting ==
  /\ \A t \in Threads : phase[t] = "answered"
  /\ rescuing = {}
  /\ UNCHANGED allVars

QueryNext == Resting \/ \E t \in Threads : Receive(t) \/ Work(t) \/ Trouble(t)

QuerySpec == QueryInit /\ [][QueryNext]_allVars

\* Every request thread runs; no timeout is relied upon
FairQuerySpec == QuerySpec /\ \A t \in Threads : WF_allVars(Work(t))

----------------------------------------------------------------------------
(* Properties.                                                              *)

QueryTypeOK ==
  /\ TypeOK
  /\ phase \in [Threads -> Phases]
  /\ \A t \in Threads :
       /\ job[t].policy \in {"none", "single", "all"}
       /\ job[t].sources \cup job[t].todo \cup job[t].good \cup job[t].bad \subseteq Sources
       /\ job[t].rows \in Nat
  /\ leased \subseteq Threads /\ rescuing \subseteq Threads
  /\ error \in [Threads -> Codes \cup {"none"}]
  /\ answer \in [Threads -> {"none", "ok", "error", "rescue"}]

\* A slot is held only while its source is being queried, a lease only by a
\* request that runs commands over it, and a lease for a source only inside
\* that source's slot.  So nothing is held between sources, during the rescue
\* call or after the answer, whichever exception ended the query.
HeldOnlyWhileUsed ==
  \A t \in Threads :
    /\ t \in leased <=> phase[t] \in {"resolving", "executing"}
    /\ at[t] # "idle" <=> phase[t] \in {"slot", "executing", "unlocking"}
    /\ phase[t] \in {"executing", "unlocking"} => at[t] = "holding"

\* A success names every resolved source exactly once, as queried or as failed,
\* has at least one of the former, and stays within max_total_rows over all of
\* them together.
SuccessAccountsForSources ==
  \A t \in Threads : answer[t] = "ok" =>
    /\ job[t].good \cup job[t].bad = job[t].sources
    /\ job[t].good \cap job[t].bad = {}
    /\ job[t].good # {}
    /\ job[t].rows <= MaxTotalRows

\* How a query fails fits what happened to it: the failure of one source is the
\* error only under pod_match_policy "single"; under "all" the query fails as a
\* whole only after every resolved source was tried and none gave rows, however
\* many saturated queries compete; and the rescue service answers only for a
\* query that found something saturated, never for one that simply failed.
FailureFitsPolicy ==
  [][\A t \in Threads :
       /\ error[t] = "none" /\ error'[t] = "sourceFailed" => job[t].policy = "single"
       /\ error[t] = "none" /\ error'[t] = "allFailed" =>
            job[t].policy = "all" /\ job[t].bad = job[t].sources
       /\ answer'[t] = "rescue" => error[t] \in FallbackCodes]_allVars

\* Every received query is answered, though no timeout need ever fire: slots
\* and leases are always taken in the same order, so no two queries wait for
\* each other.
EveryQueryAnswered ==
  \A t \in Threads : phase[t] = "connecting" ~> phase[t] = "answered"
=============================================================================
