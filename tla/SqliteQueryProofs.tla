-------------------------- MODULE SqliteQueryProofs --------------------------
(* The source limiter keeps its slots and its waiters accounted for, and the  *)
(* query endpoint uses it as SourceLimiter describes it, so what is proved of *)
(* the limiter holds inside the endpoint; a query never keeps a slot or a     *)
(* lease beyond the step that needs it, accounts for its sources and fails as *)
(* its policy says: whatever the numbers of requests and sources and the      *)
(* configured limits.                                                         *)
EXTENDS SqliteQuery, FiniteSetTheorems, TLAPS

----------------------------------------------------------------------------
(* The limiter by itself.                                                   *)

\* A thread past the entry of acquire has a source
HasSource == \A t \in Threads : at[t] # "idle" => src[t] \in Sources

\* The inductive invariant: no slot is free that is not there, no thread waits
\* that is not counted
Accounted == TypeOK /\ HasSource /\ SlotsConserved /\ WaitersCounted

LEMMA FiniteThreads ==
  ASSUME NEW S, S \subseteq Threads
  PROVE  IsFiniteSet(S) /\ Cardinality(S) \in Nat
BY LimiterConfig, FS_Subset, FS_CardinalityType

LEMMA InitAccounted == Init => Accounted
<1> SUFFICES ASSUME Init PROVE Accounted
  OBVIOUS
<1>1. Waiters = {} /\ \A s \in Sources : Users(s) = {}
  BY LimiterConfig DEF Init, Waiters, Users
<1>2. Cardinality({}) = 0
  BY FS_EmptySet
<1> QED BY <1>1, <1>2, LimiterConfig
        DEF Init, Accounted, TypeOK, HasSource, SlotsConserved, WaitersCounted, Places

\* A step that moves no slot and no waiter
LEMMA NothingMoves ==
  ASSUME Accounted, UNCHANGED <<free, waiting>>, Waiters' = Waiters,
         \A s \in Sources : Users(s)' = Users(s)
  PROVE  SlotsConserved' /\ WaitersCounted'
BY DEF Accounted, SlotsConserved, WaitersCounted

\* A thread gets a slot of its source
LEMMA SlotTaken ==
  ASSUME Accounted, NEW t \in Threads, src[t] \in Sources, TakeSlot(t), t \notin Users(src[t]),
         \A s \in Sources : Users(s)' = IF s = src[t] THEN Users(s) \cup {t} ELSE Users(s)
  PROVE  SlotsConserved' /\ free' \in [Sources -> Nat]
<1>1. free' = [free EXCEPT ![src[t]] = free[src[t]] - 1] /\ free[src[t]] > 0
  BY DEF TakeSlot
<1>2. free' \in [Sources -> Nat]
  BY <1>1 DEF Accounted, TypeOK
<1>3. ASSUME NEW s \in Sources PROVE free'[s] + Cardinality(Users(s)') = MaxPerSource
  <2>1. IsFiniteSet(Users(s)) /\ Cardinality(Users(s)) \in Nat
    BY FiniteThreads DEF Users
  <2>2. free[s] + Cardinality(Users(s)) = MaxPerSource /\ free[s] \in Nat
    BY DEF Accounted, SlotsConserved, TypeOK
  <2>3. CASE s = src[t]
    <3>1. Cardinality(Users(s)') = Cardinality(Users(s)) + 1
      BY <2>1, <2>3, FS_AddElement
    <3>2. free'[s] = free[s] - 1
      BY <1>1, <2>3 DEF Accounted, TypeOK
    <3> QED BY <2>1, <2>2, <3>1, <3>2
  <2>4. CASE s # src[t]
    BY <1>1, <2>2, <2>4 DEF Accounted, TypeOK
  <2> QED BY <2>3, <2>4
<1> QED BY <1>2, <1>3 DEF SlotsConserved

LEMMA StepAccounted == Accounted /\ [Next]_limiterVars => Accounted'
<1> SUFFICES ASSUME Accounted, [Next]_limiterVars PROVE Accounted'
  OBVIOUS
<1>0. /\ IsFiniteSet(Waiters) /\ Cardinality(Waiters) \in Nat
      /\ waiting = Cardinality(Waiters) /\ waiting <= MaxWaiters
  BY FiniteThreads DEF Waiters, Accounted, WaitersCounted
<1>1. ASSUME NEW t \in Threads, NEW s \in Sources, Enter(t, s) PROVE Accounted'
  <2>1. TypeOK' /\ HasSource'
    BY <1>1 DEF Accounted, Enter, Move, TypeOK, HasSource, Places
  <2>2. Waiters' = Waiters /\ \A z \in Sources : Users(z)' = Users(z)
    BY <1>1, LimiterConfig DEF Accounted, Enter, Move, TypeOK, Waiters, Users
  <2> QED BY <1>1, <2>1, <2>2, NothingMoves DEF Accounted, Enter
<1>2. ASSUME NEW t \in Threads, TryNow(t) PROVE Accounted'
  <2>1. src[t] \in Sources /\ src' = src /\ at' = [at EXCEPT ![t] = "holding"] /\ waiting' = waiting
        /\ at[t] = "entered" /\ TakeSlot(t)
    BY <1>2 DEF TryNow, Move, Accounted, HasSource
  <2>2. /\ t \notin Users(src[t])
        /\ \A s \in Sources : Users(s)' = IF s = src[t] THEN Users(s) \cup {t} ELSE Users(s)
    BY <2>1 DEF Accounted, TypeOK, Users
  <2>3. SlotsConserved' /\ free' \in [Sources -> Nat]
    BY <2>1, <2>2, SlotTaken
  <2>4. TypeOK' /\ HasSource'
    BY <2>1, <2>3 DEF Accounted, TypeOK, HasSource, Places
  <2>5. Waiters' = Waiters
    BY <2>1 DEF Accounted, TypeOK, Waiters
  <2> QED BY <1>0, <2>1, <2>3, <2>4, <2>5 DEF Accounted, WaitersCounted
<1>3. ASSUME NEW t \in Threads, TryFails(t) PROVE Accounted'
  <2>1. TypeOK' /\ HasSource'
    BY <1>3 DEF Accounted, TryFails, Move, TypeOK, HasSource, Places
  <2>2. Waiters' = Waiters /\ \A z \in Sources : Users(z)' = Users(z)
    BY <1>3 DEF Accounted, TryFails, Move, TypeOK, Waiters, Users
  <2> QED BY <1>3, <2>1, <2>2, NothingMoves DEF Accounted, TryFails
<1>4. ASSUME NEW t \in Threads, Join(t) PROVE Accounted'
  <2>1. TypeOK' /\ HasSource'
    BY <1>4 DEF Accounted, Join, Move, TypeOK, HasSource, Places
  <2>2. t \notin Waiters /\ Waiters' = Waiters \cup {t}
        /\ \A z \in Sources : Users(z)' = Users(z)
    BY <1>4 DEF Accounted, Join, Move, TypeOK, Waiters, Users
  <2>3. Cardinality(Waiters') = Cardinality(Waiters) + 1
    BY <1>0, <2>2, FS_AddElement
  <2>4. waiting' = waiting + 1 /\ waiting < MaxWaiters /\ free' = free
    BY <1>4 DEF Join
  <2>5. WaitersCounted'
    BY <1>0, <2>3, <2>4, LimiterConfig DEF WaitersCounted
  <2>6. SlotsConserved'
    BY <2>2, <2>4 DEF Accounted, SlotsConserved
  <2> QED BY <2>1, <2>5, <2>6 DEF Accounted
<1>5. ASSUME NEW t \in Threads, QueueFull(t) PROVE Accounted'
  <2>1. TypeOK' /\ HasSource'
    BY <1>5 DEF Accounted, QueueFull, Leave, Move, TypeOK, HasSource, Places
  <2>2. Waiters' = Waiters /\ \A z \in Sources : Users(z)' = Users(z)
    BY <1>5, LimiterConfig DEF Accounted, QueueFull, Leave, Move, TypeOK, Waiters, Users
  <2> QED BY <1>5, <2>1, <2>2, NothingMoves DEF Accounted, QueueFull
<1>6. ASSUME NEW t \in Threads, Granted(t) PROVE Accounted'
  <2>1. src[t] \in Sources /\ src' = src /\ at' = [at EXCEPT ![t] = "granted"] /\ waiting' = waiting
        /\ at[t] = "blocked" /\ TakeSlot(t)
    BY <1>6 DEF Granted, Move, Accounted, HasSource
  <2>2. /\ t \notin Users(src[t])
        /\ \A s \in Sources : Users(s)' = IF s = src[t] THEN Users(s) \cup {t} ELSE Users(s)
    BY <2>1 DEF Accounted, TypeOK, Users
  <2>3. SlotsConserved' /\ free' \in [Sources -> Nat]
    BY <2>1, <2>2, SlotTaken
  <2>4. TypeOK' /\ HasSource'
    BY <2>1, <2>3 DEF Accounted, TypeOK, HasSource, Places
  <2>5. Waiters' = Waiters
    BY <2>1 DEF Accounted, TypeOK, Waiters
  <2> QED BY <1>0, <2>1, <2>3, <2>4, <2>5 DEF Accounted, WaitersCounted
<1>7. ASSUME NEW t \in Threads, Expires(t) PROVE Accounted'
  <2>1. TypeOK' /\ HasSource'
    BY <1>7 DEF Accounted, Expires, Move, TypeOK, HasSource, Places
  <2>2. Waiters' = Waiters /\ \A z \in Sources : Users(z)' = Users(z)
    BY <1>7 DEF Accounted, Expires, Move, TypeOK, Waiters, Users
  <2> QED BY <1>7, <2>1, <2>2, NothingMoves DEF Accounted, Expires
<1>8. ASSUME NEW t \in Threads, CountOffGranted(t) \/ CountOffExpired(t) PROVE Accounted'
  <2>1. /\ t \in Waiters /\ Waiters' = Waiters \ {t} /\ free' = free /\ waiting' = waiting - 1
        /\ \A z \in Sources : Users(z)' = Users(z)
    <3>1. CASE CountOffGranted(t)
      BY <3>1 DEF Accounted, CountOffGranted, Move, TypeOK, Waiters, Users
    <3>2. CASE CountOffExpired(t)
      BY <3>2, LimiterConfig DEF Accounted, CountOffExpired, Leave, Move, TypeOK, Waiters, Users
    <3> QED BY <1>8, <3>1, <3>2
  <2>2. Cardinality(Waiters') = Cardinality(Waiters) - 1 /\ Cardinality(Waiters') \in Nat
    <3>1. IsFiniteSet(Waiters \ {t})
      BY <1>0, FS_RemoveElement
    <3> QED BY <1>0, <2>1, <3>1, FS_RemoveElement, FS_CardinalityType
  <2>3. WaitersCounted'
    BY <1>0, <2>1, <2>2, LimiterConfig DEF WaitersCounted
  <2>4. SlotsConserved'
    BY <2>1 DEF Accounted, SlotsConserved
  <2>5. waiting' \in Nat
    BY <1>0, <2>1, <2>2
  <2>6. TypeOK' /\ HasSource'
    BY <1>8, <2>5
       DEF Accounted, CountOffGranted, CountOffExpired, Leave, Move, TypeOK, HasSource, Places
  <2> QED BY <2>3, <2>4, <2>6 DEF Accounted
<1>9. ASSUME NEW t \in Threads, Release(t) PROVE Accounted'
  <2>1. src[t] \in Sources /\ free' = [free EXCEPT ![src[t]] = free[src[t]] + 1]
        /\ waiting' = waiting
    BY <1>9 DEF Release, Accounted, HasSource
  <2>2. TypeOK' /\ HasSource'
    BY <1>9, <2>1 DEF Accounted, Release, Leave, Move, TypeOK, HasSource, Places
  <2>3. /\ Waiters' = Waiters /\ t \in Users(src[t])
        /\ \A s \in Sources : Users(s)' = IF s = src[t] THEN Users(s) \ {t} ELSE Users(s)
    BY <1>9, LimiterConfig DEF Accounted, Release, Leave, Move, TypeOK, Waiters, Users
  <2>4. ASSUME NEW s \in Sources PROVE free'[s] + Cardinality(Users(s)') = MaxPerSource
    <3>1. IsFiniteSet(Users(s)) /\ Cardinality(Users(s)) \in Nat
      BY FiniteThreads DEF Users
    <3>2. free[s] + Cardinality(Users(s)) = MaxPerSource /\ free[s] \in Nat
      BY DEF Accounted, SlotsConserved, TypeOK
    <3>3. CASE s = src[t]
      <4>1. Cardinality(Users(s)') = Cardinality(Users(s)) - 1
        BY <2>3, <3>1, <3>3, FS_RemoveElement
      <4>2. free'[s] = free[s] + 1
        BY <2>1, <3>3 DEF Accounted, TypeOK
      <4> QED BY <3>1, <3>2, <4>1, <4>2
    <3>4. CASE s # src[t]
      BY <2>1, <2>3, <3>2, <3>4 DEF Accounted, TypeOK
    <3> QED BY <3>3, <3>4
  <2> QED BY <1>0, <2>1, <2>2, <2>3, <2>4 DEF Accounted, SlotsConserved, WaitersCounted
<1>10. CASE UNCHANGED limiterVars
  BY <1>10 DEF limiterVars, Accounted, TypeOK, HasSource, SlotsConserved, WaitersCounted,
     Users, Waiters
<1> QED BY <1>1, <1>2, <1>3, <1>4, <1>5, <1>6, <1>7, <1>8, <1>9, <1>10 DEF Next, Proceed

LEMMA AlwaysAccounted == Spec => []Accounted
BY InitAccounted, StepAccounted, PTL DEF Spec

\* No slot is lost, none handed out beyond max_per_source.
THEOREM SlotsAlwaysConserved == Spec => []SlotsConserved
<1>1. Accounted => SlotsConserved
  BY DEF Accounted
<1> QED BY <1>1, AlwaysAccounted, PTL

\* The counter of waiters is exact and stays within max_waiters.
THEOREM WaitersAlwaysCounted == Spec => []WaitersCounted
<1>1. Accounted => WaitersCounted
  BY DEF Accounted
<1> QED BY <1>1, AlwaysAccounted, PTL

----------------------------------------------------------------------------
(* The queries.                                                             *)

\* The locals of handle_sqlite_query
JobType == [policy : {"none", "single", "all"},
            sources : SUBSET Sources, todo : SUBSET Sources,
            good : SUBSET Sources, bad : SUBSET Sources,
            rows : Nat, got : Codes \cup {"none", "rows"}]
TodoAreSources == job \in [Threads -> JobType]

LEMMA RaiseKeepsJobs ==
  ASSUME TodoAreSources, NEW t \in Threads, NEW code, Raise(t, code)
  PROVE  TodoAreSources'
<1>1. [NoJob EXCEPT !.policy = job[t].policy] \in JobType
  BY DEF TodoAreSources, NoJob, JobType
<1> QED BY <1>1 DEF TodoAreSources, Raise

\* The inductive invariant
Using ==
  /\ Accounted
  /\ TodoAreSources
  /\ phase \in [Threads -> Phases] /\ leased \subseteq Threads
  /\ HeldOnlyWhileUsed

LEMMA InitUsing == QueryInit => Using
<1> SUFFICES ASSUME QueryInit PROVE Using
  OBVIOUS
<1>1. Accounted
  BY InitAccounted DEF QueryInit
<1>2. TodoAreSources
  BY DEF QueryInit, TodoAreSources, JobType, NoJob
<1>3. phase \in [Threads -> Phases] /\ leased \subseteq Threads
  BY DEF QueryInit, Phases
<1>4. HeldOnlyWhileUsed
  BY DEF QueryInit, Init, HeldOnlyWhileUsed
<1> QED BY <1>1, <1>2, <1>3, <1>4 DEF Using

\* Every step of the endpoint is a step of the limiter, or leaves it alone.
LEMMA LimiterStep ==
  ASSUME Using, [QueryNext]_allVars
  PROVE  [Next]_limiterVars
<1>1. CASE UNCHANGED allVars
  BY <1>1 DEF allVars
<1>2. CASE Resting
  BY <1>2 DEF Resting, allVars
<1>3. ASSUME NEW t \in Threads, Receive(t) \/ Work(t) \/ Trouble(t) PROVE [Next]_limiterVars
  <2> USE DEF Next, Proceed, limiterVars
  <2>1. CASE Receive(t)
    BY <2>1 DEF Receive
  <2>2. CASE LeaseToResolve(t)
    BY <2>2 DEF LeaseToResolve
  <2>3. CASE Resolved(t)
    BY <2>3 DEF Resolved
  <2>4. CASE ResolveFails(t)
    BY <2>4 DEF ResolveFails
  <2>5. CASE NextSource(t)
    BY <2>5 DEF NextSource, Using, TodoAreSources, JobType
  <2>6. CASE AtLimiter(t)
    BY <2>6 DEF AtLimiter
  <2>7. CASE SlotRefused(t)
    BY <2>7 DEF SlotRefused
  <2>8. CASE LeaseForSource(t)
    BY <2>8 DEF LeaseForSource
  <2>9. CASE Execute(t)
    BY <2>9 DEF Execute
  <2>10. CASE Collect(t)
    BY <2>10 DEF Collect
  <2>11. CASE Finish(t)
    BY <2>11 DEF Finish
  <2>12. CASE RescueAdmits(t)
    BY <2>12 DEF RescueAdmits
  <2>13. CASE RescueBusy(t)
    BY <2>13 DEF RescueBusy
  <2>14. CASE RescueReplies(t)
    BY <2>14 DEF RescueReplies
  <2>15. CASE RescueEndsUnheard(t)
    BY <2>15 DEF RescueEndsUnheard
  <2>16. CASE ConnectFails(t)
    BY <2>16 DEF ConnectFails
  <2>17. CASE SlotTimeout(t)
    BY <2>17 DEF SlotTimeout
  <2>18. CASE NoLeaseForSource(t)
    BY <2>18 DEF NoLeaseForSource
  <2>19. CASE RescueUnreachable(t)
    BY <2>19 DEF RescueUnreachable
  <2>20. CASE RescueTimesOut(t)
    BY <2>20 DEF RescueTimesOut
  <2> QED BY <1>3, <2>1, <2>2, <2>3, <2>4, <2>5, <2>6, <2>7, <2>8, <2>9, <2>10, <2>11,
            <2>12, <2>13, <2>14, <2>15, <2>16, <2>17, <2>18, <2>19, <2>20 DEF Work, Trouble
<1> QED BY <1>1, <1>2, <1>3 DEF QueryNext

LEMMA SourceFailsKeepsJobs ==
  ASSUME TodoAreSources, NEW t \in Threads, src[t] \in Sources, NEW code, SourceFails(t, code)
  PROVE  TodoAreSources'
<1>1. CASE Raise(t, code)
  BY <1>1, RaiseKeepsJobs
<1>2. CASE job' = [job EXCEPT ![t].bad = @ \cup {src[t]}, ![t].got = "none"]
  <2>1. job[t] \in JobType
    BY DEF TodoAreSources
  <2>2. job' = [job EXCEPT ![t] = [[job[t] EXCEPT !.bad = job[t].bad \cup {src[t]}]
                                     EXCEPT !.got = "none"]]
    BY <1>2 DEF TodoAreSources
  <2>3. [[job[t] EXCEPT !.bad = job[t].bad \cup {src[t]}] EXCEPT !.got = "none"] \in JobType
    BY <2>1 DEF JobType
  <2> QED BY <2>2, <2>3 DEF TodoAreSources
<1> QED BY <1>1, <1>2 DEF SourceFails

\* The locals of a query stay what they are.
LEMMA JobsStep ==
  ASSUME Using, [QueryNext]_allVars
  PROVE  TodoAreSources'
<1> USE DEF Using
<1>1. CASE UNCHANGED allVars
  BY <1>1 DEF TodoAreSources, JobType, allVars, queryVars
<1>2. CASE Resting
  BY <1>2 DEF Resting, TodoAreSources, allVars, queryVars
<1>3. ASSUME NEW t \in Threads, Receive(t) \/ Work(t) \/ Trouble(t) PROVE TodoAreSources'
  <2>1. CASE Receive(t)
    BY <2>1 DEF Receive, TodoAreSources, JobType
  <2>2. CASE LeaseToResolve(t)
    BY <2>2 DEF LeaseToResolve, TodoAreSources
  <2>3. CASE Resolved(t)
    <3>1. PICK found \in SUBSET Sources :
                 job' = [job EXCEPT ![t].sources = found, ![t].todo = found]
      BY <2>3 DEF Resolved
    <3>2. job[t] \in JobType
      BY DEF TodoAreSources, JobType
    <3>3. job' = [job EXCEPT ![t] = [[job[t] EXCEPT !.sources = found] EXCEPT !.todo = found]]
      BY <3>1, <3>2 DEF TodoAreSources, JobType
    <3> QED BY <3>2, <3>3 DEF TodoAreSources, JobType
  <2>4. CASE ResolveFails(t)
    BY <2>4, RaiseKeepsJobs DEF ResolveFails
  <2>5. CASE NextSource(t)
    BY <2>5 DEF NextSource, TodoAreSources, JobType
  <2>6. CASE AtLimiter(t)
    BY <2>6 DEF AtLimiter, TodoAreSources, queryVars
  <2>7. CASE SlotRefused(t)
    BY <2>7, RaiseKeepsJobs DEF SlotRefused
  <2>8. CASE LeaseForSource(t)
    BY <2>8 DEF LeaseForSource, TodoAreSources
  <2>9. CASE Execute(t)
    BY <2>9 DEF Execute, TodoAreSources, JobType, Codes, FatalCodes, FallbackCodes
  <2>10. CASE Collect(t)
    <3>1. src[t] \in Sources
      BY <2>10 DEF Collect, Release, Accounted, HasSource
    <3>2. CASE SourceFails(t, job[t].got)
      BY <3>1, <3>2, SourceFailsKeepsJobs
    <3>3. CASE Raise(t, "limit")
      BY <3>3, RaiseKeepsJobs
    <3>4. ASSUME NEW n \in 0 .. MaxTotalRows,
                 job' = [job EXCEPT ![t].good = @ \cup {src[t]}, ![t].rows = @ + n, ![t].got = "none"]
          PROVE  TodoAreSources'
      <4>1. MaxTotalRows \in Nat /\ n \in Nat
        BY QueryConfig
      <4>2. job[t] \in JobType
        BY DEF TodoAreSources, JobType
      <4>3. job' = [job EXCEPT ![t] = [[[job[t] EXCEPT !.good = job[t].good \cup {src[t]}]
                                      EXCEPT !.rows = job[t].rows + n] EXCEPT !.got = "none"]]
        BY <3>4, <4>2 DEF TodoAreSources, JobType
      <4>4. job[t].rows + n \in Nat
        BY <4>1, <4>2 DEF JobType
      <4> QED BY <3>1, <4>2, <4>3, <4>4 DEF TodoAreSources, JobType
    <3> QED BY <2>10, <3>2, <3>3, <3>4 DEF Collect
  <2>11. CASE Finish(t)
    <3>1. CASE UNCHANGED job
      BY <3>1 DEF TodoAreSources, JobType
    <3>2. ASSUME NEW code, Raise(t, code) PROVE TodoAreSources'
      BY <3>2, RaiseKeepsJobs
    <3> QED BY <2>11, <3>1, <3>2 DEF Finish
  <2>12. CASE RescueAdmits(t)
    BY <2>12 DEF RescueAdmits, TodoAreSources
  <2>13. CASE RescueBusy(t)
    BY <2>13 DEF RescueBusy, TodoAreSources
  <2>14. CASE RescueReplies(t)
    BY <2>14 DEF RescueReplies, TodoAreSources
  <2>15. CASE RescueEndsUnheard(t)
    BY <2>15 DEF RescueEndsUnheard, TodoAreSources
  <2>16. CASE ConnectFails(t)
    BY <2>16, RaiseKeepsJobs DEF ConnectFails
  <2>17. CASE SlotTimeout(t)
    BY <2>17 DEF SlotTimeout, TodoAreSources, queryVars
  <2>18. CASE NoLeaseForSource(t)
    <3>1. src[t] \in Sources
      BY <2>18 DEF NoLeaseForSource, Release, Accounted, HasSource
    <3> QED BY <2>18, <3>1, SourceFailsKeepsJobs DEF NoLeaseForSource
  <2>19. CASE RescueUnreachable(t)
    BY <2>19 DEF RescueUnreachable, TodoAreSources
  <2>20. CASE RescueTimesOut(t)
    BY <2>20 DEF RescueTimesOut, TodoAreSources
  <2> QED BY <1>3, <2>1, <2>2, <2>3, <2>4, <2>5, <2>6, <2>7, <2>8, <2>9, <2>10, <2>11, <2>12,
            <2>13, <2>14, <2>15, <2>16, <2>17, <2>18, <2>19, <2>20 DEF Work, Trouble
<1> QED BY <1>1, <1>2, <1>3 DEF QueryNext

\* Slots and leases follow the phases.
LEMMA HeldStep ==
  ASSUME Using, [QueryNext]_allVars
  PROVE  phase' \in [Threads -> Phases] /\ leased' \subseteq Threads /\ HeldOnlyWhileUsed'
<1> DEFINE Goal == phase' \in [Threads -> Phases] /\ leased' \subseteq Threads /\ HeldOnlyWhileUsed'
<1> USE DEF Using, HeldOnlyWhileUsed
<1>0. at \in [Threads -> Places]
  BY DEF Accounted, TypeOK
<1>1. CASE UNCHANGED allVars
  BY <1>1 DEF allVars, queryVars, limiterVars
<1>2. CASE Resting
  BY <1>2 DEF Resting, allVars, queryVars, limiterVars
<1>3. ASSUME NEW t \in Threads, Receive(t) \/ Work(t) \/ Trouble(t) PROVE Goal
  <2> USE <1>0 DEF Phases, Go, Answer
  <2>1. CASE Receive(t)
    BY <2>1 DEF Receive, limiterVars
  <2>2. CASE LeaseToResolve(t)
    BY <2>2 DEF LeaseToResolve, TakeLease, limiterVars
  <2>3. CASE Resolved(t)
    BY <2>3 DEF Resolved, EndLease, limiterVars
  <2>4. CASE ResolveFails(t)
    BY <2>4 DEF ResolveFails, EndLease, Raise, limiterVars
  <2>5. CASE NextSource(t)
    BY <2>5 DEF NextSource, Enter, Move
  <2>6. CASE AtLimiter(t)
    BY <2>6 DEF AtLimiter, TryNow, TryFails, Join, Granted, CountOffGranted, Move, queryVars
  <2>7. CASE SlotRefused(t)
    BY <2>7 DEF SlotRefused, QueueFull, CountOffExpired, Leave, Move, Raise
  <2>8. CASE LeaseForSource(t)
    BY <2>8 DEF LeaseForSource, TakeLease, limiterVars
  <2>9. CASE Execute(t)
    BY <2>9 DEF Execute, EndLease, limiterVars
  <2>10. CASE Collect(t)
    BY <2>10 DEF Collect, Release, Leave, Move, Raise, SourceFails
  <2>11. CASE Finish(t)
    BY <2>11 DEF Finish, Raise, limiterVars
  <2>12. CASE RescueAdmits(t)
    BY <2>12 DEF RescueAdmits, limiterVars
  <2>13. CASE RescueBusy(t)
    BY <2>13 DEF RescueBusy, limiterVars
  <2>14. CASE RescueReplies(t)
    BY <2>14 DEF RescueReplies, limiterVars
  <2>15. CASE RescueEndsUnheard(t)
    BY <2>15 DEF RescueEndsUnheard, limiterVars
  <2>16. CASE ConnectFails(t)
    BY <2>16 DEF ConnectFails, Raise, limiterVars
  <2>17. CASE SlotTimeout(t)
    BY <2>17 DEF SlotTimeout, Expires, Move, queryVars
  <2>18. CASE NoLeaseForSource(t)
    BY <2>18 DEF NoLeaseForSource, Release, Leave, Move, Raise, SourceFails
  <2>19. CASE RescueUnreachable(t)
    BY <2>19 DEF RescueUnreachable, limiterVars
  <2>20. CASE RescueTimesOut(t)
    BY <2>20 DEF RescueTimesOut, limiterVars
  <2> QED BY <1>3, <2>1, <2>2, <2>3, <2>4, <2>5, <2>6, <2>7, <2>8, <2>9, <2>10, <2>11, <2>12,
            <2>13, <2>14, <2>15, <2>16, <2>17, <2>18, <2>19, <2>20 DEF Work, Trouble
<1> QED BY <1>1, <1>2, <1>3 DEF QueryNext

LEMMA AlwaysUsing == QuerySpec => []Using
<1>1. Using /\ [QueryNext]_allVars => Using'
  <2> SUFFICES ASSUME Using, [QueryNext]_allVars PROVE Using'
    OBVIOUS
  <2>1. Accounted'
    BY LimiterStep, StepAccounted DEF Using
  <2> QED BY <2>1, JobsStep, HeldStep DEF Using
<1> QED BY <1>1, InitUsing, PTL DEF QuerySpec

\* The endpoint implements the limiter: whatever queries, leases, failures and
\* rescue calls do, the limiter sees threads that enter, wait and release.
THEOREM EndpointUsesLimiter == QuerySpec => Spec
<1>1. QueryInit => Init
  BY DEF QueryInit
<1>2. Using /\ [QueryNext]_allVars => [Next]_limiterVars
  BY LimiterStep
<1> QED BY <1>1, <1>2, AlwaysUsing, PTL DEF QuerySpec, Spec

\* Inside the endpoint, too, no slot of a source is lost or handed out twice.
THEOREM QueriesConserveSlots == QuerySpec => []SlotsConserved
BY EndpointUsesLimiter, SlotsAlwaysConserved, PTL

\* Inside the endpoint, too, _waiters is the number of the queries that wait.
THEOREM QueriesCountWaiters == QuerySpec => []WaitersCounted
BY EndpointUsesLimiter, WaitersAlwaysCounted, PTL

\* Slots and leases are held only by the steps that use them, on every path out
\* of handle_sqlite_query.
THEOREM NothingOutlivesItsUse == QuerySpec => []HeldOnlyWhileUsed
<1>1. Using => HeldOnlyWhileUsed
  BY DEF Using
<1> QED BY <1>1, AlwaysUsing, PTL

\* Where each source of a query is: still to visit, in hand, queried or failed
InHand(t) == IF at[t] = "idle" THEN {} ELSE {src[t]}
BookedFor(t) ==
  /\ job[t].sources = job[t].todo \cup InHand(t) \cup job[t].good \cup job[t].bad
  /\ job[t].good \cap job[t].bad = {}
  /\ job[t].todo \cap (job[t].good \cup job[t].bad) = {}
  /\ InHand(t) \cap (job[t].todo \cup job[t].good \cup job[t].bad) = {}
  /\ job[t].rows <= MaxTotalRows
  /\ phase[t] \in {"new", "connecting", "resolving"} => job[t].good = {} /\ job[t].bad = {}
  /\ answer[t] = "ok" => phase[t] = "answered" /\ job[t].todo = {} /\ job[t].good # {}
Booked == answer \in [Threads -> {"none", "ok", "error", "rescue"}] /\ \A t \in Threads : BookedFor(t)

\* Only the request that takes a step has its books changed.
LEMMA OthersBooked ==
  ASSUME Booked, NEW t \in Threads, NEW u \in Threads \ {t},
         at'[u] = at[u], src'[u] = src[u], job'[u] = job[u],
         phase'[u] = phase[u], answer'[u] = answer[u]
  PROVE  BookedFor(u)'
BY DEF Booked, BookedFor, InHand

\* A step of one request leaves what the others know and are told alone.
LEMMA OthersAlone ==
  ASSUME NEW t \in Threads, Receive(t) \/ Work(t) \/ Trouble(t), NEW u \in Threads \ {t},
         at \in [Threads -> Places], src \in [Threads -> Sources \cup {NoSource}],
         job \in [Threads -> JobType], phase \in [Threads -> Phases],
         answer \in [Threads -> {"none", "ok", "error", "rescue"}]
  PROVE  /\ at'[u] = at[u] /\ src'[u] = src[u] /\ job'[u] = job[u]
         /\ phase'[u] = phase[u] /\ answer'[u] = answer[u]
<1> USE DEF Quiet, Go, Answer, limiterVars, queryVars
<1>1. CASE Receive(t) \/ LeaseToResolve(t) \/ Resolved(t) \/ LeaseForSource(t) \/ Execute(t)
  BY <1>1 DEF Receive, LeaseToResolve, Resolved, LeaseForSource, Execute
<1>2. CASE ResolveFails(t) \/ ConnectFails(t) \/ Finish(t)
  BY <1>2 DEF ResolveFails, ConnectFails, Finish, Raise
<1>3. CASE NextSource(t)
  BY <1>3 DEF NextSource, Enter, Move
<1>4. CASE AtLimiter(t) \/ SlotTimeout(t)
  BY <1>4 DEF AtLimiter, SlotTimeout, TryNow, TryFails, Join, Granted, CountOffGranted, Expires, Move
<1>5. CASE SlotRefused(t)
  BY <1>5 DEF SlotRefused, QueueFull, CountOffExpired, Leave, Move, Raise
<1>6. CASE NoLeaseForSource(t) \/ Collect(t)
  BY <1>6 DEF NoLeaseForSource, Collect, SourceFails, Release, Leave, Move, Raise
<1>7. CASE RescueAdmits(t) \/ RescueBusy(t) \/ RescueReplies(t) \/ RescueEndsUnheard(t)
           \/ RescueUnreachable(t) \/ RescueTimesOut(t)
  BY <1>7 DEF RescueAdmits, RescueBusy, RescueReplies, RescueEndsUnheard, RescueUnreachable, RescueTimesOut
<1> QED BY <1>1, <1>2, <1>3, <1>4, <1>5, <1>6, <1>7 DEF Work, Trouble

\* A query that raised has nothing left to account for.
LEMMA RaiseBooked ==
  ASSUME Using, Booked, NEW t \in Threads, NEW code, Raise(t, code), at'[t] = "idle",
         answer[t] # "ok"
  PROVE  BookedFor(t)' /\ answer' \in [Threads -> {"none", "ok", "error", "rescue"}]
<1>1. job'[t] = [NoJob EXCEPT !.policy = job[t].policy]
  BY DEF Raise, Using, TodoAreSources
<1>2. answer'[t] # "ok" /\ answer' \in [Threads -> {"none", "ok", "error", "rescue"}]
  BY DEF Raise, Answer, Booked
<1> QED BY <1>1, <1>2, QueryConfig DEF BookedFor, InHand, NoJob

\* Every step keeps the books.
LEMMA BookStep ==
  ASSUME Using, Booked, [QueryNext]_allVars
  PROVE  Booked'
<1> DEFINE AnswerType == [Threads -> {"none", "ok", "error", "rescue"}]
<1> USE DEF Using, Quiet, Go, Answer
<1>0. /\ job \in [Threads -> JobType] /\ at \in [Threads -> Places]
      /\ src \in [Threads -> Sources \cup {NoSource}] /\ answer \in AnswerType
  BY DEF Accounted, TypeOK, TodoAreSources, Booked
<1>1. CASE UNCHANGED allVars
  BY <1>1 DEF Booked, BookedFor, InHand, allVars, queryVars, limiterVars
<1>2. CASE Resting
  BY <1>2 DEF Resting, Booked, BookedFor, InHand, allVars, queryVars, limiterVars
<1>3. ASSUME NEW t \in Threads, Receive(t) \/ Work(t) \/ Trouble(t) PROVE Booked'
  <2>0. /\ BookedFor(t)
        /\ phase[t] # "answered" => answer[t] # "ok"
        /\ phase[t] \in {"slot", "executing", "unlocking"} <=> at[t] # "idle"
    BY DEF Booked, BookedFor, HeldOnlyWhileUsed
  <2>a. ASSUME NEW code, Raise(t, code), at'[t] = "idle", phase[t] # "answered"
        PROVE  BookedFor(t)' /\ answer' \in AnswerType
    BY <2>0, <2>a, RaiseBooked
  <2>b. ASSUME NEW code, SourceFails(t, code), at'[t] = "idle", at[t] = "holding"
        PROVE  BookedFor(t)' /\ answer' \in AnswerType
    <3>1. CASE Raise(t, code)
      BY <2>0, <2>a, <2>b, <3>1
    <3>2. CASE /\ job' = [job EXCEPT ![t].bad = @ \cup {src[t]}, ![t].got = "none"]
               /\ Go(t, "loop") /\ UNCHANGED <<error, answer>>
      <4>1. job'[t] = [[job[t] EXCEPT !.bad = job[t].bad \cup {src[t]}] EXCEPT !.got = "none"]
        BY <1>0, <3>2
      <4> QED BY <1>0, <2>0, <2>b, <3>2, <4>1 DEF BookedFor, InHand, JobType
    <3> QED BY <2>b, <3>1, <3>2 DEF SourceFails
  <2> SUFFICES BookedFor(t)' /\ answer' \in AnswerType
    BY <1>0, <1>3, OthersAlone, OthersBooked DEF Booked
  <2>1. CASE Receive(t)
    BY <1>0, <2>0, <2>1 DEF Receive, limiterVars, BookedFor, InHand, JobType
  <2>2. CASE LeaseToResolve(t)
    BY <1>0, <2>0, <2>2 DEF LeaseToResolve, limiterVars, BookedFor, InHand, JobType
  <2>3. CASE Resolved(t)
    <3>1. PICK found : job' = [job EXCEPT ![t].sources = found, ![t].todo = found]
      BY <2>3 DEF Resolved
    <3>2. job'[t] = [[job[t] EXCEPT !.sources = found] EXCEPT !.todo = found]
      BY <1>0, <3>1
    <3>3. job[t].good = {} /\ job[t].bad = {}
      BY <2>0, <2>3 DEF Resolved, BookedFor
    <3> QED BY <1>0, <2>0, <2>3, <3>2, <3>3 DEF Resolved, limiterVars, BookedFor, InHand, JobType
  <2>4. CASE ResolveFails(t)
    <3>1. phase[t] # "answered" /\ at'[t] = "idle"
      BY <1>0, <2>0, <2>4 DEF ResolveFails, limiterVars
    <3> QED BY <2>a, <2>4, <3>1 DEF ResolveFails
  <2>5. CASE NextSource(t)
    BY <1>0, <2>0, <2>5 DEF NextSource, Enter, Move, BookedFor, InHand, JobType
  <2>6. CASE AtLimiter(t)
    BY <1>0, <2>0, <2>6 DEF AtLimiter, TryNow, TryFails, Join, Granted, CountOffGranted, Move, queryVars, BookedFor, InHand, JobType
  <2>7. CASE SlotRefused(t)
    <3>1. phase[t] # "answered" /\ at'[t] = "idle"
      BY <1>0, <2>0, <2>7 DEF SlotRefused, QueueFull, CountOffExpired, Leave, Move
    <3> QED BY <2>a, <2>7, <3>1 DEF SlotRefused
  <2>8. CASE LeaseForSource(t)
    BY <1>0, <2>0, <2>8 DEF LeaseForSource, limiterVars, BookedFor, InHand, JobType
  <2>9. CASE Execute(t)
    BY <1>0, <2>0, <2>9 DEF Execute, limiterVars, BookedFor, InHand, JobType
  <2>10. CASE Collect(t)
    <3>1. at[t] = "holding" /\ at'[t] = "idle" /\ phase[t] = "unlocking"
      BY <1>0, <2>10 DEF Collect, Release, Leave, Move
    <3>2. ASSUME NEW n \in 0 .. MaxTotalRows, WithinRows(t, n),
                 job' = [job EXCEPT ![t].good = @ \cup {src[t]}, ![t].rows = @ + n, ![t].got = "none"],
                 Go(t, "loop"), UNCHANGED answer
          PROVE  BookedFor(t)' /\ answer' \in AnswerType
      <4>1. job'[t] = [[[job[t] EXCEPT !.good = job[t].good \cup {src[t]}]
                          EXCEPT !.rows = job[t].rows + n] EXCEPT !.got = "none"]
        BY <1>0, <3>2
      <4>2. answer'[t] # "ok" /\ answer' \in AnswerType
        BY <1>0, <2>0, <3>1, <3>2
      <4>3. job'[t].rows <= MaxTotalRows
        BY <1>0, <3>2, <4>1 DEF WithinRows, JobType
      <4>4. /\ job'[t].sources = job[t].sources /\ job'[t].todo = job[t].todo
            /\ job'[t].bad = job[t].bad /\ job'[t].good = job[t].good \cup {src[t]}
        BY <1>0, <4>1 DEF JobType
      <4>5. phase'[t] = "loop"
        BY <3>2
      <4> QED BY <2>0, <3>1, <4>2, <4>3, <4>4, <4>5 DEF BookedFor, InHand
    <3>3. CASE Raise(t, "limit")
      BY <2>a, <3>1, <3>3
    <3>4. CASE SourceFails(t, job[t].got)
      BY <2>b, <3>1, <3>4
    <3> QED BY <2>10, <3>2, <3>3, <3>4 DEF Collect
  <2>11. CASE Finish(t)
    <3>1. phase[t] = "loop" /\ at'[t] = "idle" /\ UNCHANGED <<at, src>>
      BY <1>0, <2>0, <2>11 DEF Finish, limiterVars
    <3>2. ASSUME NEW code, Raise(t, code) PROVE BookedFor(t)' /\ answer' \in AnswerType
      BY <2>a, <3>1, <3>2
    <3>3. CASE job[t].good # {} /\ Answer(t, "ok") /\ UNCHANGED <<job, error>>
      BY <1>0, <2>0, <2>11, <3>1, <3>3 DEF Finish, BookedFor, InHand
    <3> QED BY <2>11, <3>2, <3>3 DEF Finish
  <2>12. CASE RescueAdmits(t)
    BY <1>0, <2>0, <2>12 DEF RescueAdmits, limiterVars, BookedFor, InHand, JobType
  <2>13. CASE RescueBusy(t)
    BY <1>0, <2>0, <2>13 DEF RescueBusy, limiterVars, BookedFor, InHand, JobType
  <2>14. CASE RescueReplies(t)
    BY <1>0, <2>0, <2>14 DEF RescueReplies, limiterVars, BookedFor, InHand, JobType
  <2>15. CASE RescueEndsUnheard(t)
    BY <1>0, <2>0, <2>15 DEF RescueEndsUnheard, limiterVars, BookedFor, InHand, JobType
  <2>16. CASE ConnectFails(t)
    <3>1. phase[t] # "answered" /\ at'[t] = "idle"
      BY <1>0, <2>0, <2>16 DEF ConnectFails, limiterVars
    <3> QED BY <2>a, <2>16, <3>1 DEF ConnectFails
  <2>17. CASE SlotTimeout(t)
    BY <1>0, <2>0, <2>17 DEF SlotTimeout, Expires, Move, queryVars, BookedFor, InHand, JobType
  <2>18. CASE NoLeaseForSource(t)
    <3>1. at[t] = "holding" /\ at'[t] = "idle"
      BY <1>0, <2>18 DEF NoLeaseForSource, Release, Leave, Move
    <3> QED BY <2>b, <2>18, <3>1 DEF NoLeaseForSource
  <2>19. CASE RescueUnreachable(t)
    BY <1>0, <2>0, <2>19 DEF RescueUnreachable, limiterVars, BookedFor, InHand, JobType
  <2>20. CASE RescueTimesOut(t)
    BY <1>0, <2>0, <2>20 DEF RescueTimesOut, limiterVars, BookedFor, InHand, JobType
  <2> QED BY <1>3, <2>1, <2>2, <2>3, <2>4, <2>5, <2>6, <2>7, <2>8, <2>9, <2>10, <2>11, <2>12,
            <2>13, <2>14, <2>15, <2>16, <2>17, <2>18, <2>19, <2>20 DEF Work, Trouble
<1> QED BY <1>1, <1>2, <1>3 DEF QueryNext

\* A success lists every resolved source exactly once, as queried or as failed,
\* and its rows together stay within max_total_rows.
THEOREM SuccessesAccount == QuerySpec => []SuccessAccountsForSources
<1>1. QueryInit => Booked
  <2> SUFFICES ASSUME QueryInit PROVE Booked
    OBVIOUS
  <2> QED BY QueryConfig DEF QueryInit, Init, Booked, BookedFor, InHand, NoJob
<1>2. Using /\ Booked /\ [QueryNext]_allVars => Booked'
  BY BookStep
<1>3. Using /\ Booked => SuccessAccountsForSources
  BY DEF Using, Booked, BookedFor, InHand, HeldOnlyWhileUsed, SuccessAccountsForSources
<1> QED BY <1>1, <1>2, <1>3, AlwaysUsing, PTL DEF QuerySpec

----------------------------------------------------------------------------
(* How a query fails.                                                       *)

\* What a query knows before it fails: its policy, that it has sources, what
\* became of the one in hand, that no failure of a source was passed over under
\* "single"; and what was saturated for whoever turns to the rescue service.
Tried == {"loop", "slot", "executing", "unlocking"}
FailsFor(t) ==
  /\ phase[t] \in Tried \cup {"connecting", "resolving"} => job[t].policy \in {"single", "all"}
  /\ phase[t] \in Tried => job[t].sources # {}
  /\ phase[t] = "unlocking" =>
       job[t].got \in {"rows", "sourceFailed", "sshDown", "limit", "internal"}
  /\ job[t].policy = "single" => job[t].bad = {}
  /\ phase[t] \in {"rescue", "rescued"} \/ answer[t] = "rescue" => error[t] \in FallbackCodes
  /\ answer[t] = "rescue" => phase[t] = "answered"
Failing ==
  /\ error \in [Threads -> Codes \cup {"none"}] /\ rescuing \subseteq Threads
  /\ \A t \in Threads : FailsFor(t)

\* An error is noted only where handle_sqlite_query raises it.
LEMMA Raises ==
  ASSUME NEW t \in Threads, TodoAreSources, FailsFor(t), Receive(t) \/ Work(t) \/ Trouble(t)
  PROVE  UNCHANGED error \/ \E code \in Codes : Raise(t, code)
<1> USE DEF Quiet, queryVars, Codes, FatalCodes, FallbackCodes
<1>1. CASE Receive(t) \/ LeaseToResolve(t) \/ Resolved(t) \/ LeaseForSource(t) \/ Execute(t)
  BY <1>1 DEF Receive, LeaseToResolve, Resolved, LeaseForSource, Execute
<1>2. CASE ResolveFails(t) \/ ConnectFails(t) \/ Finish(t)
  BY <1>2 DEF ResolveFails, ConnectFails, Finish
<1>3. CASE NextSource(t) \/ AtLimiter(t) \/ SlotTimeout(t) \/ SlotRefused(t)
  BY <1>3 DEF NextSource, AtLimiter, SlotTimeout, SlotRefused
<1>4. CASE NoLeaseForSource(t)
  BY <1>4 DEF NoLeaseForSource, SourceFails
<1>5. CASE Collect(t)
  <2>1. job[t].got \in Codes \cup {"none", "rows"}
    BY DEF TodoAreSources, JobType
  <2>2. job[t].got # "none"
    BY <1>5 DEF FailsFor, Collect
  <2> QED BY <1>5, <2>1, <2>2 DEF Collect, SourceFails
<1>6. CASE RescueAdmits(t) \/ RescueBusy(t) \/ RescueReplies(t) \/ RescueEndsUnheard(t)
           \/ RescueUnreachable(t) \/ RescueTimesOut(t)
  BY <1>6 DEF RescueAdmits, RescueBusy, RescueReplies, RescueEndsUnheard, RescueUnreachable, RescueTimesOut
<1> QED BY <1>1, <1>2, <1>3, <1>4, <1>5, <1>6 DEF Work, Trouble

\* Whoever raises has been told nothing yet.
LEMMA RaisesFit ==
  ASSUME Using, Booked, Failing, NEW t \in Threads, NEW code, Raise(t, code), phase[t] # "answered"
  PROVE  FailsFor(t)'
<1>1. /\ job'[t] = [NoJob EXCEPT !.policy = job[t].policy] /\ error'[t] = code
      /\ job[t] \in JobType
  BY DEF Raise, Using, TodoAreSources, Failing
<1>2. job'[t].bad = {}
  BY <1>1 DEF NoJob
<1>3. answer[t] # "rescue"
  BY DEF Failing, FailsFor
<1>4. CASE code \in FallbackCodes /\ Go(t, "rescue") /\ UNCHANGED answer
  BY <1>1, <1>2, <1>3, <1>4 DEF FailsFor, Tried, Go, Using
<1>5. CASE Answer(t, "error")
  BY <1>1, <1>2, <1>5 DEF FailsFor, Tried, Go, Answer, Using, Booked
<1> QED BY <1>4, <1>5 DEF Raise

LEMMA FailStep ==
  ASSUME Using, Booked, Failing, [QueryNext]_allVars
  PROVE  Failing'
<1>0. /\ job \in [Threads -> JobType] /\ at \in [Threads -> Places] /\ phase \in [Threads -> Phases]
      /\ src \in [Threads -> Sources \cup {NoSource}] /\ TodoAreSources
      /\ answer \in [Threads -> {"none", "ok", "error", "rescue"}]
      /\ error \in [Threads -> Codes \cup {"none"}] /\ rescuing \subseteq Threads
  BY DEF Using, Accounted, TypeOK, TodoAreSources, Booked, Failing
<1>1. CASE UNCHANGED allVars
  BY <1>1 DEF Failing, FailsFor, allVars, queryVars
<1>2. CASE Resting
  BY <1>2 DEF Resting, Failing, FailsFor, allVars, queryVars
<1>3. ASSUME NEW t \in Threads, Receive(t) \/ Work(t) \/ Trouble(t) PROVE Failing'
  <2>0. FailsFor(t) /\ BookedFor(t)
    BY DEF Failing, Booked
  <2>1. UNCHANGED error \/ \E code \in Codes : Raise(t, code)
    BY <1>0, <1>3, <2>0, Raises
  <2>2. error' \in [Threads -> Codes \cup {"none"}] /\ \A u \in Threads \ {t} : error'[u] = error[u]
    BY <1>0, <2>1 DEF Raise
  <2>3. rescuing' \subseteq Threads
    BY <1>0, <1>3 DEF Work, Trouble, Receive, LeaseToResolve, Resolved, ResolveFails, NextSource,
       AtLimiter, SlotTimeout, SlotRefused, LeaseForSource, NoLeaseForSource, Execute, Collect, Finish,
       ConnectFails, RescueAdmits, RescueBusy, RescueReplies, RescueEndsUnheard, RescueUnreachable,
       RescueTimesOut, queryVars
  <2>4. ASSUME NEW u \in Threads \ {t} PROVE FailsFor(u)'
    <3>1. FailsFor(u) /\ error'[u] = error[u]
      BY <2>2 DEF Failing
    <3> QED BY <1>0, <1>3, <3>1, OthersAlone DEF FailsFor
  <2>5. FailsFor(t)'
    <3> USE DEF Quiet, Go, Answer
    <3>1. CASE (\E code : Raise(t, code)) /\ phase[t] # "answered"
      BY <3>1, RaisesFit
    <3>2. CASE Receive(t)
      <4>1. job[t].bad = {}
        BY <2>0, <3>2 DEF Receive, BookedFor
      <4> QED BY <1>0, <2>0, <3>2, <4>1 DEF Receive, FailsFor, Tried, JobType
    <3>3. CASE LeaseToResolve(t) \/ LeaseForSource(t) \/ RescueAdmits(t)
      BY <1>0, <2>0, <3>3 DEF LeaseToResolve, LeaseForSource, RescueAdmits, FailsFor, Tried
    <3>4. CASE Resolved(t)
      <4>1. PICK found \in (SUBSET Sources) \ {{}} : job' = [job EXCEPT ![t].sources = found, ![t].todo = found]
        BY <3>4 DEF Resolved
      <4>2. job'[t] = [[job[t] EXCEPT !.sources = found] EXCEPT !.todo = found]
        BY <1>0, <4>1
      <4>3. /\ job'[t].sources = found /\ job'[t].bad = job[t].bad /\ job'[t].policy = job[t].policy
        BY <1>0, <4>2 DEF JobType
      <4>4. found # {}
        OBVIOUS
      <4> QED BY <1>0, <2>0, <3>4, <4>3, <4>4 DEF Resolved, FailsFor, Tried
    <3>5. CASE NextSource(t)
      BY <1>0, <2>0, <3>5 DEF NextSource, FailsFor, Tried, JobType
    <3>6. CASE AtLimiter(t) \/ SlotTimeout(t)
      BY <1>0, <2>0, <3>6 DEF AtLimiter, SlotTimeout, FailsFor, queryVars
    <3>7. CASE Execute(t)
      BY <1>0, <2>0, <3>7 DEF Execute, FailsFor, Tried, JobType
    <3>8. ASSUME NEW code, SourceFails(t, code), phase[t] \in Tried PROVE FailsFor(t)'
      <4>1. CASE /\ job[t].policy = "all"
                 /\ job' = [job EXCEPT ![t].bad = @ \cup {src[t]}, ![t].got = "none"]
                 /\ Go(t, "loop") /\ UNCHANGED <<error, answer>>
        <5>1. job'[t].sources = job[t].sources /\ job'[t].policy = "all"
          BY <1>0, <4>1 DEF JobType
        <5> QED BY <1>0, <2>0, <3>8, <4>1, <5>1 DEF FailsFor, Tried
      <4> QED BY <3>1, <3>8, <4>1 DEF SourceFails, Tried
    <3>9. CASE Collect(t)
      <4>1. ASSUME NEW n, Go(t, "loop"), UNCHANGED <<error, answer>>,
                   job' = [job EXCEPT ![t].good = @ \cup {src[t]}, ![t].rows = @ + n, ![t].got = "none"]
            PROVE  FailsFor(t)'
        <5>1. /\ job'[t].sources = job[t].sources /\ job'[t].policy = job[t].policy
              /\ job'[t].bad = job[t].bad
          BY <1>0, <4>1 DEF JobType
        <5> QED BY <1>0, <2>0, <3>9, <4>1, <5>1 DEF Collect, FailsFor, Tried
      <4>2. phase[t] \in Tried /\ phase[t] # "answered"
        BY <3>9 DEF Collect, Tried
      <4> QED BY <3>1, <3>8, <3>9, <4>1, <4>2 DEF Collect
    <3>10. CASE NoLeaseForSource(t)
      BY <3>8, <3>10 DEF NoLeaseForSource, Tried
    <3>11. CASE ConnectFails(t) \/ ResolveFails(t) \/ SlotRefused(t)
      BY <3>1, <3>11 DEF ConnectFails, ResolveFails, SlotRefused
    <3>12. CASE Finish(t)
      <4>1. CASE Answer(t, "ok") /\ UNCHANGED <<job, error>>
        BY <1>0, <2>0, <4>1 DEF FailsFor, Tried
      <4> QED BY <3>1, <3>12, <4>1 DEF Finish
    <3>13. CASE RescueBusy(t) \/ RescueReplies(t) \/ RescueUnreachable(t) \/ RescueTimesOut(t)
      BY <1>0, <2>0, <3>13 DEF RescueBusy, RescueReplies, RescueUnreachable, RescueTimesOut, FailsFor, Tried
    <3>14. CASE RescueEndsUnheard(t)
      BY <1>0, <2>0, <3>14 DEF RescueEndsUnheard, FailsFor
    <3> QED BY <1>3, <3>2, <3>3, <3>4, <3>5, <3>6, <3>7, <3>9, <3>10, <3>11, <3>12, <3>13,
            <3>14 DEF Work, Trouble
  <2> QED BY <2>2, <2>3, <2>4, <2>5 DEF Failing
<1> QED BY <1>1, <1>2, <1>3 DEF QueryNext

LEMMA AlwaysFailing == QuerySpec => [](Using /\ Booked /\ Failing)
<1>1. QueryInit => Booked /\ Failing
  <2> SUFFICES ASSUME QueryInit PROVE Booked /\ Failing
    OBVIOUS
  <2> QED BY QueryConfig DEF QueryInit, Init, Booked, BookedFor, InHand, NoJob, Failing, FailsFor, Tried
<1>2. Using /\ Booked /\ Failing /\ [QueryNext]_allVars => Booked' /\ Failing'
  BY BookStep, FailStep
<1> QED BY <1>1, <1>2, AlwaysUsing, PTL DEF QuerySpec

\* Phases, locals, leases, errors and answers keep their types, the limiter's
\* state included: sqlite_query_api answers with nothing but a result, an error
\* of handle_sqlite_query or what the rescue service said.
THEOREM QueriesTyped == QuerySpec => []QueryTypeOK
<1>1. Using /\ Booked /\ Failing => QueryTypeOK
  BY DEF Using, Booked, Failing, TodoAreSources, JobType, Accounted, QueryTypeOK
<1> QED BY <1>1, AlwaysFailing, PTL

LEMMA FailureStep ==
  ASSUME Using, Booked, Failing, QueryNext, NEW t \in Threads
  PROVE  /\ error[t] = "none" /\ error'[t] = "sourceFailed" => job[t].policy = "single"
         /\ error[t] = "none" /\ error'[t] = "allFailed" =>
              job[t].policy = "all" /\ job[t].bad = job[t].sources
<1> SUFFICES ASSUME error[t] = "none", error'[t] \in {"sourceFailed", "allFailed"}
             PROVE  /\ error'[t] = "sourceFailed" => job[t].policy = "single"
                    /\ error'[t] = "allFailed" =>
                         job[t].policy = "all" /\ job[t].bad = job[t].sources
  OBVIOUS
<1>0. /\ error \in [Threads -> Codes \cup {"none"}] /\ TodoAreSources /\ FailsFor(t) /\ BookedFor(t)
      /\ HeldOnlyWhileUsed /\ at \in [Threads -> Places]
  BY DEF Using, Accounted, TypeOK, Failing, Booked
<1>1. PICK u \in Threads : Receive(u) \/ Work(u) \/ Trouble(u)
  BY DEF QueryNext, Resting, allVars, queryVars
<1>2. PICK code \in Codes : Raise(u, code)
  BY <1>1, Raises DEF Using, Failing
<1>3. u = t
  BY <1>0, <1>2 DEF Raise
<1>4. \A c : Raise(t, c) => error'[t] = c
  BY <1>0 DEF Raise
<1>5. \A c : SourceFails(t, c) =>
        UNCHANGED error \/ (Raise(t, c) /\ (c = "sourceFailed" => job[t].policy = "single"))
  BY DEF SourceFails, Quiet, FatalCodes, FallbackCodes
<1>6. error'[t] # error[t]
  OBVIOUS
<1>7. \/ error'[t] = "sourceFailed" /\ job[t].policy = "single"
      \/ error'[t] = "allFailed" /\ Finish(t) /\ job[t].good = {}
  <2>1. ~ConnectFails(t) /\ ~ResolveFails(t) /\ ~SlotRefused(t)
    BY <1>4 DEF ConnectFails, ResolveFails, SlotRefused
  <2>2. ~NoLeaseForSource(t)
    BY <1>4, <1>5, <1>6 DEF NoLeaseForSource
  <2>3. Collect(t) => error'[t] = "sourceFailed" /\ job[t].policy = "single"
    <3> SUFFICES ASSUME Collect(t) PROVE error'[t] = "sourceFailed" /\ job[t].policy = "single"
      OBVIOUS
    <3>1. job[t].got \in {"rows", "sourceFailed", "sshDown", "limit", "internal"}
      BY <1>0 DEF Collect, FailsFor
    <3>2. SourceFails(t, job[t].got)
      BY <1>4, <1>6 DEF Collect, Quiet
    <3> QED BY <1>4, <1>5, <1>6, <3>1, <3>2
  <2>4. Finish(t) => error'[t] = "allFailed" /\ job[t].good = {}
    BY <1>4, <1>6 DEF Finish
  <2>5. ~Receive(t) /\ ~LeaseToResolve(t) /\ ~Resolved(t) /\ ~LeaseForSource(t) /\ ~Execute(t)
    BY <1>6 DEF Receive, LeaseToResolve, Resolved, LeaseForSource, Execute, Quiet
  <2>6. ~NextSource(t) /\ ~AtLimiter(t) /\ ~SlotTimeout(t)
    BY <1>6 DEF NextSource, AtLimiter, SlotTimeout, Quiet, queryVars
  <2>7. /\ ~RescueAdmits(t) /\ ~RescueBusy(t) /\ ~RescueReplies(t) /\ ~RescueEndsUnheard(t)
        /\ ~RescueUnreachable(t) /\ ~RescueTimesOut(t)
    BY <1>6 DEF RescueAdmits, RescueBusy, RescueReplies, RescueEndsUnheard, RescueUnreachable,
       RescueTimesOut
  <2> QED BY <1>1, <1>3, <2>1, <2>2, <2>3, <2>4, <2>5, <2>6, <2>7 DEF Work, Trouble
<1>8. CASE error'[t] = "allFailed" /\ Finish(t) /\ job[t].good = {}
  <2>1. phase[t] = "loop" /\ at[t] = "idle" /\ job[t].todo = {}
    BY <1>0, <1>8 DEF Finish, HeldOnlyWhileUsed
  <2>2. job[t].bad = job[t].sources
    BY <1>0, <1>8, <2>1 DEF BookedFor, InHand
  <2>3. job[t].sources # {} /\ job[t].policy \in {"single", "all"} /\ (job[t].policy = "single" => job[t].bad = {})
    BY <1>0, <2>1 DEF FailsFor, Tried
  <2> QED BY <1>8, <2>2, <2>3
<1> QED BY <1>7, <1>8

\* The except clause of handle_sqlite_query against pod_match_policy: under
\* "all" a failing source fails the query only together with all the others,
\* under "single" the query fails of that one source; and whoever was answered
\* by the rescue service had found something saturated.
THEOREM FailuresFit == QuerySpec => FailureFitsPolicy
<1>1. /\ Using /\ Booked /\ Failing
      /\ (Using /\ Booked /\ Failing)'
      /\ [QueryNext]_allVars
      => [\A t \in Threads :
            /\ error[t] = "none" /\ error'[t] = "sourceFailed" => job[t].policy = "single"
            /\ error[t] = "none" /\ error'[t] = "allFailed" =>
                 job[t].policy = "all" /\ job[t].bad = job[t].sources
            /\ answer'[t] = "rescue" => error[t] \in FallbackCodes]_allVars
  <2> SUFFICES ASSUME Using, Booked, Failing, Failing', QueryNext, NEW t \in Threads
               PROVE  answer'[t] = "rescue" => error[t] \in FallbackCodes
    BY FailureStep
  <2> SUFFICES ASSUME answer'[t] = "rescue", error[t] # error'[t] PROVE FALSE
    BY DEF Failing, FailsFor
  <2>1. PICK u \in Threads : Receive(u) \/ Work(u) \/ Trouble(u)
    BY DEF QueryNext, Resting, allVars, queryVars
  <2>2. PICK code \in Codes : Raise(u, code)
    BY <2>1, Raises DEF Using, Failing
  <2>3. u = t
    BY <2>2 DEF Raise, Failing
  <2>4. phase'[t] = "answered" /\ answer'[t] = "rescue"
    BY DEF Failing, FailsFor
  <2> QED BY <2>2, <2>3, <2>4 DEF Raise, Go, Answer, Using, Booked
<1> QED BY <1>1, AlwaysFailing, PTL DEF QuerySpec, FailureFitsPolicy
=============================================================================
