-------------------------- MODULE SqliteRescueProofs --------------------------
(* The rescue service keeps the promise RescueService states and accounts for *)
(* every pod, whatever the number of callers and pods and the configuration.  *)
EXTENDS SqliteRescue, FiniteSetTheorems, WellFoundedInduction, TLAPS

----------------------------------------------------------------------------
(* First(set)                                                               *)

\* < on the naturals as a well-founded relation
LEMMA NaturalOrder ==
  \E R : IsWellFoundedOn(R, Nat) /\ \A x, y \in Nat : <<x, y>> \in R <=> x < y
<1> DEFINE R == OpToRel(<, Nat)
<1>1. IsWellFoundedOn(R, Nat)
  BY NatLessThanWellFounded
<1>2. \A x, y \in Nat : <<x, y>> \in R <=> x < y
  BY DEF OpToRel
<1> QED BY <1>1, <1>2

\* The next source is one of those that are left
LEMMA FirstIsMember ==
  ASSUME NEW set, set \subseteq Nat, set # {}
  PROVE  First(set) \in set
<1>1. PICK R : IsWellFoundedOn(R, Nat) /\ \A x, y \in Nat : <<x, y>> \in R <=> x < y
  BY NaturalOrder
<1>2. \E x \in set : \A y \in set : ~ (<<y, x>> \in R)
  <2>1. IsWellFoundedOn(R, Nat)
    BY <1>1
  <2> QED BY <2>1, WFMin, Zenon
<1>3. PICK x \in set : \A y \in set : ~ (<<y, x>> \in R)
  BY <1>2
<1>4. ASSUME NEW y \in set PROVE x <= y
  <2>1. x \in Nat /\ y \in Nat /\ ~(<<y, x>> \in R)
    BY <1>3
  <2>2. ~(y < x)
    BY <1>1, <2>1
  <2> QED BY <2>1, <2>2
<1> QED BY <1>3, <1>4 DEF First

----------------------------------------------------------------------------
(* The invariant.                                                           *)

Handlers == {"none", "targets", "loop", "slot", "result", "error", "replied"}
Jobs == [policy : {"none", "single", "all"}, targets : SUBSET Sources, skipped : SUBSET Sources,
         todo : SUBSET Sources, good : SUBSET Sources, bad : SUBSET Sources]

TypeInv ==
  /\ call \in [Threads -> {"none", "calling", "answered", "given up"}]
  /\ permits \in Nat
  /\ handler \in [Threads -> Handlers]
  /\ hjob \in [Threads -> Jobs]
  /\ src \in [Threads -> Sources \cup {NoSource}]

\* Every permit is free or with one handler that runs
PermitsOut == permits + Cardinality(Running) = RescueMax

\* A handler runs for a request that waits or has given up
CallsOpen ==
  \A t \in Threads :
    /\ call[t] = "none" => handler[t] = "none"
    /\ t \in Running => call[t] \in {"calling", "given up"}

\* The pods resolved are each in one place: skipped, still to do, in hand at
\* the limiter, queried or failed
InHand(t) == IF handler[t] = "slot" THEN {src[t]} ELSE {}
Seen(t) == hjob[t].skipped \cup hjob[t].todo \cup hjob[t].good \cup hjob[t].bad
Apart(t) ==
  /\ hjob[t].skipped \cap (hjob[t].todo \cup hjob[t].good \cup hjob[t].bad) = {}
  /\ hjob[t].todo \cap (hjob[t].good \cup hjob[t].bad) = {}
  /\ hjob[t].good \cap hjob[t].bad = {}
  /\ InHand(t) \cap Seen(t) = {}

JobAccounted(t) ==
  /\ handler[t] \in {"none", "targets"} => hjob[t].good = {} /\ hjob[t].bad = {}
  /\ handler[t] \in {"loop", "slot", "result"} =>
       /\ hjob[t].targets = Seen(t) \cup InHand(t) /\ Apart(t)
       /\ All(t) \/ (hjob[t].skipped = {} /\ hjob[t].bad = {})
  /\ handler[t] = "slot" => src[t] \in Sources
  /\ handler[t] = "result" => hjob[t].todo = {} /\ hjob[t].good # {}

JobsAccounted == \A t \in Threads : JobAccounted(t)

Inv == TypeInv /\ PermitsOut /\ CallsOpen /\ JobsAccounted

LEMMA FiniteRunning ==
  ASSUME NEW S, S \subseteq Threads
  PROVE  IsFiniteSet(S) /\ Cardinality(S) \in Nat
BY RescueConfig, FS_Subset, FS_CardinalityType

LEMMA InitInv == Init => Inv
<1> SUFFICES ASSUME Init PROVE Inv
  OBVIOUS
<1>1. Running = {} /\ Cardinality({}) = 0
  BY FS_EmptySet DEF Init, Running
<1>2. TypeInv
  BY RescueConfig DEF Init, TypeInv, Limiter!Init, Handlers, Jobs, NoJob
<1>3. PermitsOut
  BY <1>1, RescueConfig DEF Init, PermitsOut
<1>4. CallsOpen
  BY <1>1 DEF Init, CallsOpen
<1>5. JobsAccounted
  BY DEF Init, JobsAccounted, JobAccounted, NoJob
<1> QED BY <1>2, <1>3, <1>4, <1>5 DEF Inv

\* A step at the limiter touches no other thread's source
LEMMA LimiterSource ==
  ASSUME TypeInv, NEW t \in Threads,
         \/ Limiter!TryNow(t) \/ Limiter!TryFails(t) \/ Limiter!Join(t) \/ Limiter!Granted(t)
         \/ Limiter!CountOffGranted(t) \/ Limiter!Expires(t) \/ Limiter!QueueFull(t)
         \/ Limiter!CountOffExpired(t) \/ Limiter!Release(t)
  PROVE  /\ src' \in [Threads -> Sources \cup {NoSource}]
         /\ \A u \in Threads : u # t => src'[u] = src[u]
BY DEF TypeInv, Limiter!TryNow, Limiter!TryFails, Limiter!Join, Limiter!Granted,
       Limiter!CountOffGranted, Limiter!Expires, Limiter!QueueFull, Limiter!CountOffExpired,
       Limiter!Release, Limiter!Leave, Limiter!Move

----------------------------------------------------------------------------
(* The permits.                                                             *)

LEMMA PermitsAreNaturals == RescueMax \in Nat /\ RescueMax > 0
<1>1. RescueMax \in Nat \ {0}
  BY RescueConfig
<1> QED BY <1>1

\* The handlers that run stay the same, and so do the permits
LEMMA SamePermits ==
  ASSUME PermitsOut, permits' = permits,
         \A t \in Threads : handler'[t] \in {"none", "replied"} <=> handler[t] \in {"none", "replied"}
  PROVE  PermitsOut' /\ Running' = Running
<1>1. Running' = Running
  BY DEF Running
<1> QED BY <1>1 DEF PermitsOut

LEMMA AdmitTakesOne ==
  ASSUME TypeInv, PermitsOut, NEW t \in Threads, Admit(t)
  PROVE  PermitsOut' /\ permits' \in Nat /\ Running' = Running \cup {t} /\ t \notin Running
<1>1. handler' = [handler EXCEPT ![t] = "targets"] /\ handler[t] = "none"
      /\ permits' = permits - 1 /\ permits > 0
  BY DEF Admit, Go
<1>2. Running' = Running \cup {t} /\ t \notin Running
  BY <1>1 DEF Running, TypeInv
<1>3. IsFiniteSet(Running) /\ Cardinality(Running) \in Nat
  BY FiniteRunning DEF Running
<1>4. Cardinality(Running') = Cardinality(Running) + 1
  BY <1>2, <1>3, FS_AddElement
<1>5. permits \in Nat /\ permits + Cardinality(Running) = RescueMax
  BY DEF TypeInv, PermitsOut
<1>6. permits' \in Nat /\ permits' + Cardinality(Running') = RescueMax
  BY <1>1, <1>3, <1>4, <1>5, PermitsAreNaturals
<1> QED BY <1>2, <1>6 DEF PermitsOut

LEMMA ReturnGivesBackOne ==
  ASSUME TypeInv, PermitsOut, NEW t \in Threads, Return(t)
  PROVE  PermitsOut' /\ permits' \in Nat /\ Running' = Running \ {t} /\ t \in Running
<1>1. handler' = [handler EXCEPT ![t] = "replied"] /\ handler[t] \in {"result", "error"}
      /\ permits' = permits + 1
  BY DEF Return, Go
<1>2. Running' = Running \ {t} /\ t \in Running
  BY <1>1 DEF Running, TypeInv
<1>3. IsFiniteSet(Running) /\ Cardinality(Running) \in Nat
  BY FiniteRunning DEF Running
<1>4. Cardinality(Running') = Cardinality(Running) - 1 /\ Cardinality(Running') \in Nat
  <2>1. IsFiniteSet(Running \ {t})
    BY <1>3, FS_RemoveElement
  <2> QED BY <1>2, <1>3, <2>1, FS_RemoveElement, FS_CardinalityType
<1>5. permits \in Nat /\ permits + Cardinality(Running) = RescueMax
  BY DEF TypeInv, PermitsOut
<1>6. permits' \in Nat /\ permits' + Cardinality(Running') = RescueMax
  BY <1>1, <1>3, <1>4, <1>5, PermitsAreNaturals
<1> QED BY <1>2, <1>6 DEF PermitsOut

----------------------------------------------------------------------------
(* The steps.                                                               *)

\* A step of t leaves the accounts of the other handlers alone
LEMMA OthersAccounted ==
  ASSUME Inv, NEW t \in Threads, JobAccounted(t)',
         \A u \in Threads : u # t =>
           handler'[u] = handler[u] /\ hjob'[u] = hjob[u] /\ src'[u] = src[u]
  PROVE  JobsAccounted'
<1> SUFFICES ASSUME NEW u \in Threads, u # t PROVE JobAccounted(u)'
  BY DEF JobsAccounted
<1> QED BY DEF Inv, JobsAccounted, JobAccounted, Seen, Apart, InHand, All

\* A step of a handler that runs, from one place inside to another
LEMMA InsideStep ==
  ASSUME Inv, NEW t \in Threads, NEW place \in {"targets", "loop", "slot", "result", "error"},
         handler[t] \in {"targets", "loop", "slot"}, Go(t, place),
         permits' = permits, call' = call,
         hjob' \in [Threads -> Jobs], src' \in [Threads -> Sources \cup {NoSource}],
         \A u \in Threads : u # t => hjob'[u] = hjob[u] /\ src'[u] = src[u],
         JobAccounted(t)'
  PROVE  Inv'
<1>1. TypeInv'
  BY DEF Inv, TypeInv, Go, Handlers
<1>2. PermitsOut' /\ Running' = Running
  BY SamePermits DEF Inv, TypeInv, Go
<1>3. CallsOpen'
  BY <1>2 DEF Inv, TypeInv, CallsOpen, Go
<1>4. JobsAccounted'
  BY OthersAccounted DEF Inv, TypeInv, Go
<1> QED BY <1>1, <1>2, <1>3, <1>4 DEF Inv

\* An error ends the handler's accounts
LEMMA RaiseStep ==
  ASSUME Inv, NEW t \in Threads, handler[t] \in {"targets", "loop", "slot"}, Raise(t),
         src' \in [Threads -> Sources \cup {NoSource}],
         \A u \in Threads : u # t => src'[u] = src[u]
  PROVE  Inv'
<1>1. Go(t, "error") /\ hjob' = hjob /\ permits' = permits /\ call' = call
  BY DEF Raise, Outside
<1>2. handler'[t] = "error"
  BY <1>1 DEF Go, Inv, TypeInv
<1>3. JobAccounted(t)'
  BY <1>2 DEF JobAccounted
<1> QED BY <1>1, <1>3, InsideStep DEF Inv, TypeInv

LEMMA ResolveStep ==
  ASSUME Inv, NEW t \in Threads, ResolveSources(t)
  PROVE  Inv'
<1>0. handler[t] = "targets" /\ src' = src
  BY DEF ResolveSources, limiterVars
<1>1. CASE Raise(t)
  BY <1>0, <1>1, RaiseStep DEF Inv, TypeInv
<1>2. ASSUME NEW pods \in SUBSET Sources, NEW usable \in SUBSET pods,
             All(t) \/ (Cardinality(pods) = 1 /\ usable = pods),
             hjob' = [hjob EXCEPT ![t].targets = pods, ![t].skipped = pods \ usable,
                                  ![t].todo = usable],
             Go(t, "loop"), UNCHANGED permits, Outside
      PROVE  Inv'
  <2>1. hjob[t] \in Jobs /\ hjob[t].good = {} /\ hjob[t].bad = {}
    BY <1>0 DEF Inv, TypeInv, JobsAccounted, JobAccounted
  <2>2. /\ hjob' \in [Threads -> Jobs]
        /\ \A u \in Threads : u # t => hjob'[u] = hjob[u]
        /\ hjob'[t].targets = pods /\ hjob'[t].skipped = pods \ usable /\ hjob'[t].todo = usable
        /\ hjob'[t].good = {} /\ hjob'[t].bad = {} /\ hjob'[t].policy = hjob[t].policy
    BY <1>2, <2>1 DEF Inv, TypeInv, Jobs
  <2>3. handler'[t] = "loop"
    BY <1>2 DEF Go, Inv, TypeInv
  <2>4. JobAccounted(t)'
    BY <1>2, <2>2, <2>3 DEF JobAccounted, Seen, Apart, InHand, All
  <2> QED BY <1>0, <1>2, <2>2, <2>4, InsideStep DEF Inv, TypeInv, Outside
<1> QED BY <1>1, <1>2 DEF ResolveSources

LEMMA NextSourceStep ==
  ASSUME Inv, NEW t \in Threads, NextSource(t)
  PROVE  Inv'
<1> DEFINE s == First(hjob[t].todo)
<1>0. handler[t] = "loop" /\ hjob[t].todo # {} /\ hjob[t] \in Jobs /\ hjob[t].todo \subseteq Sources
  BY DEF NextSource, Inv, TypeInv, Jobs
<1>1. s \in hjob[t].todo /\ s \in Sources
  BY <1>0, FirstIsMember, RescueConfig
<1>2. /\ src' = [src EXCEPT ![t] = s] /\ hjob' = [hjob EXCEPT ![t].todo = @ \ {s}]
      /\ Go(t, "slot") /\ permits' = permits /\ call' = call
  BY DEF NextSource, Limiter!Enter, Outside
<1> HIDE DEF s
<1>3. /\ hjob' \in [Threads -> Jobs] /\ src' \in [Threads -> Sources \cup {NoSource}]
      /\ \A u \in Threads : u # t => hjob'[u] = hjob[u] /\ src'[u] = src[u]
      /\ hjob'[t].todo = hjob[t].todo \ {s} /\ src'[t] = s
      /\ hjob'[t].targets = hjob[t].targets /\ hjob'[t].skipped = hjob[t].skipped
      /\ hjob'[t].good = hjob[t].good /\ hjob'[t].bad = hjob[t].bad
      /\ hjob'[t].policy = hjob[t].policy
  BY <1>0, <1>1, <1>2 DEF Inv, TypeInv, Jobs
<1>4. handler'[t] = "slot"
  BY <1>2 DEF Go, Inv, TypeInv
<1>5. JobAccounted(t)'
  BY <1>0, <1>1, <1>3, <1>4 DEF Inv, JobsAccounted, JobAccounted, Seen, Apart, InHand, All
<1> QED BY <1>0, <1>2, <1>3, <1>5, InsideStep

LEMMA ExecuteStep ==
  ASSUME Inv, NEW t \in Threads, Execute(t)
  PROVE  Inv'
<1>0. handler[t] = "slot" /\ Limiter!Release(t) /\ src[t] \in Sources /\ hjob[t] \in Jobs
  BY DEF Execute, Inv, TypeInv, JobsAccounted, JobAccounted
<1>1. /\ src' \in [Threads -> Sources \cup {NoSource}]
      /\ \A u \in Threads : u # t => src'[u] = src[u]
  BY <1>0, LimiterSource DEF Inv
<1>2. CASE SourceGives(t, src[t])
  <2>1. /\ Go(t, "loop") /\ permits' = permits /\ call' = call
        /\ hjob' = [hjob EXCEPT ![t].good = @ \cup {src[t]}]
    BY <1>2 DEF SourceGives, Outside
  <2>2. /\ hjob' \in [Threads -> Jobs] /\ \A u \in Threads : u # t => hjob'[u] = hjob[u]
        /\ hjob'[t].good = hjob[t].good \cup {src[t]}
        /\ hjob'[t].targets = hjob[t].targets /\ hjob'[t].skipped = hjob[t].skipped
        /\ hjob'[t].todo = hjob[t].todo /\ hjob'[t].bad = hjob[t].bad
        /\ hjob'[t].policy = hjob[t].policy
    BY <1>0, <2>1 DEF Inv, TypeInv, Jobs
  <2>3. handler'[t] = "loop"
    BY <2>1 DEF Go, Inv, TypeInv
  <2>4. JobAccounted(t)'
    BY <1>0, <2>2, <2>3 DEF Inv, JobsAccounted, JobAccounted, Seen, Apart, InHand, All
  <2> QED BY <1>0, <1>1, <2>1, <2>2, <2>4, InsideStep
<1>3. CASE SourceFails(t, src[t]) /\ ~Raise(t)
  <2>1. /\ Go(t, "loop") /\ permits' = permits /\ call' = call /\ All(t)
        /\ hjob' = [hjob EXCEPT ![t].bad = @ \cup {src[t]}]
    BY <1>3 DEF SourceFails, Outside
  <2>2. /\ hjob' \in [Threads -> Jobs] /\ \A u \in Threads : u # t => hjob'[u] = hjob[u]
        /\ hjob'[t].bad = hjob[t].bad \cup {src[t]}
        /\ hjob'[t].targets = hjob[t].targets /\ hjob'[t].skipped = hjob[t].skipped
        /\ hjob'[t].todo = hjob[t].todo /\ hjob'[t].good = hjob[t].good
        /\ hjob'[t].policy = hjob[t].policy
    BY <1>0, <2>1 DEF Inv, TypeInv, Jobs
  <2>3. handler'[t] = "loop"
    BY <2>1 DEF Go, Inv, TypeInv
  <2>4. JobAccounted(t)'
    BY <1>0, <2>1, <2>2, <2>3 DEF Inv, JobsAccounted, JobAccounted, Seen, Apart, InHand, All
  <2> QED BY <1>0, <1>1, <2>1, <2>2, <2>4, InsideStep
<1>4. CASE Raise(t)
  BY <1>0, <1>1, <1>4, RaiseStep
<1> QED BY <1>2, <1>3, <1>4 DEF Execute

LEMMA StepInv == Inv /\ [Next]_vars => Inv'
<1> SUFFICES ASSUME Inv, [Next]_vars PROVE Inv'
  OBVIOUS
<1>1. ASSUME NEW t \in Threads, Call(t) PROVE Inv'
  <2>1. call[t] = "none" /\ call' = [call EXCEPT ![t] = "calling"] /\ handler[t] = "none"
        /\ UNCHANGED <<permits, handler, src>>
    BY <1>1 DEF Call, Service!Becomes, limiterVars, Inv, CallsOpen
  <2>2. PICK policy \in {"single", "all"} : hjob' = [hjob EXCEPT ![t].policy = policy]
    BY <1>1 DEF Call
  <2>3. TypeInv'
    BY <2>1, <2>2 DEF Inv, TypeInv, Jobs
  <2>4. PermitsOut' /\ Running' = Running
    BY <2>1, SamePermits DEF Inv
  <2>5. CallsOpen'
    BY <2>1, <2>4 DEF Inv, TypeInv, CallsOpen
  <2>6. JobAccounted(t)'
    <3>1. hjob'[t].good = hjob[t].good /\ hjob'[t].bad = hjob[t].bad
      BY <2>2 DEF Inv, TypeInv, Jobs
    <3> QED BY <2>1, <3>1 DEF Inv, JobsAccounted, JobAccounted
  <2>7. JobsAccounted'
    BY <2>1, <2>2, <2>6, OthersAccounted DEF Inv, TypeInv
  <2> QED BY <2>3, <2>4, <2>5, <2>7 DEF Inv
<1>2. ASSUME NEW t \in Threads, GiveUp(t) \/ Refuse(t) PROVE Inv'
  <2>1. PICK to \in {"given up", "answered"} :
          /\ call[t] = "calling" /\ call' = [call EXCEPT ![t] = to]
          /\ to = "answered" => handler[t] = "none"
    BY <1>2 DEF GiveUp, Refuse, Service!Becomes
  <2>2. UNCHANGED <<permits, handler, hjob, src>>
    BY <1>2 DEF GiveUp, Refuse, handlerVars, limiterVars
  <2>3. TypeInv'
    BY <2>1, <2>2 DEF Inv, TypeInv
  <2>4. PermitsOut' /\ Running' = Running
    BY <2>2, SamePermits DEF Inv
  <2>5. CallsOpen'
    BY <2>1, <2>2, <2>4 DEF Inv, TypeInv, CallsOpen, Running
  <2>6. JobsAccounted'
    BY <2>2 DEF Inv, JobsAccounted, JobAccounted, Seen, Apart, InHand, All
  <2> QED BY <2>3, <2>4, <2>5, <2>6 DEF Inv
<1>3. ASSUME NEW t \in Threads, Admit(t) PROVE Inv'
  <2>1. /\ call[t] \in {"calling", "given up"} /\ handler[t] = "none"
        /\ handler' = [handler EXCEPT ![t] = "targets"]
        /\ UNCHANGED <<call, hjob, src>>
    BY <1>3 DEF Admit, Go, Outside, limiterVars
  <2>2. PermitsOut' /\ permits' \in Nat /\ Running' = Running \cup {t}
    BY <1>3, AdmitTakesOne DEF Inv
  <2>3. TypeInv'
    BY <2>1, <2>2 DEF Inv, TypeInv, Handlers
  <2>4. CallsOpen'
    BY <2>1, <2>2 DEF Inv, TypeInv, CallsOpen
  <2>5. JobAccounted(t)'
    BY <2>1 DEF Inv, TypeInv, JobsAccounted, JobAccounted
  <2>6. JobsAccounted'
    BY <2>1, <2>5, OthersAccounted DEF Inv, TypeInv
  <2> QED BY <2>2, <2>3, <2>4, <2>6 DEF Inv
<1>4. ASSUME NEW t \in Threads, ResolveSources(t) \/ NextSource(t) \/ Execute(t) PROVE Inv'
  BY <1>4, ResolveStep, NextSourceStep, ExecuteStep
<1>5. ASSUME NEW t \in Threads, AtLimiter(t) \/ SlotExpires(t) PROVE Inv'
  <2>1. handler[t] = "slot" /\ UNCHANGED <<call, permits, handler, hjob>>
    BY <1>5 DEF AtLimiter, SlotExpires, handlerVars, Outside
  <2>2. src' = src
    BY <1>5 DEF AtLimiter, SlotExpires, Limiter!TryNow, Limiter!TryFails, Limiter!Join,
                Limiter!Granted, Limiter!CountOffGranted, Limiter!Expires
  <2> QED BY <2>1, <2>2 DEF Inv, TypeInv, PermitsOut, CallsOpen, Running, JobsAccounted,
                            JobAccounted, Seen, Apart, InHand, All
<1>6. ASSUME NEW t \in Threads, SlotRefused(t) PROVE Inv'
  <2>1. /\ src' \in [Threads -> Sources \cup {NoSource}]
        /\ \A u \in Threads : u # t => src'[u] = src[u]
    BY <1>6, LimiterSource DEF SlotRefused, Inv
  <2> QED BY <1>6, <2>1, RaiseStep DEF SlotRefused
<1>7. ASSUME NEW t \in Threads, Finish(t) PROVE Inv'
  <2>1. handler[t] = "loop" /\ hjob[t].todo = {} /\ src' = src
    BY <1>7 DEF Finish, limiterVars
  <2>2. CASE Raise(t)
    BY <2>1, <2>2, RaiseStep DEF Inv, TypeInv
  <2>3. CASE ~Raise(t)
    <3>1. hjob[t].good # {} /\ Go(t, "result") /\ UNCHANGED <<permits, hjob, call>>
      BY <1>7, <2>3 DEF Finish, Outside
    <3>2. handler'[t] = "result"
      BY <3>1 DEF Go, Inv, TypeInv
    <3>3. JobAccounted(t)'
      BY <2>1, <3>1, <3>2 DEF Inv, JobsAccounted, JobAccounted, Seen, Apart, InHand, All
    <3> QED BY <2>1, <3>1, <3>3, InsideStep DEF Inv, TypeInv
  <2> QED BY <2>2, <2>3
<1>8. ASSUME NEW t \in Threads, Return(t) PROVE Inv'
  <2>1. /\ handler[t] \in {"result", "error"} /\ handler' = [handler EXCEPT ![t] = "replied"]
        /\ hjob' = [hjob EXCEPT ![t] = NoJob] /\ src' = src
        /\ call' = [call EXCEPT ![t] = IF @ = "calling" THEN "answered" ELSE @]
    BY <1>8 DEF Return, Go, limiterVars
  <2>2. PermitsOut' /\ permits' \in Nat /\ Running' = Running \ {t}
    BY <1>8, ReturnGivesBackOne DEF Inv
  <2>3. TypeInv'
    BY <2>1, <2>2 DEF Inv, TypeInv, Handlers, Jobs, NoJob
  <2>4. CallsOpen'
    BY <2>1, <2>2 DEF Inv, TypeInv, CallsOpen
  <2>5. JobAccounted(t)'
    BY <2>1 DEF Inv, TypeInv, JobAccounted
  <2>6. JobsAccounted'
    BY <2>1, <2>5, OthersAccounted DEF Inv, TypeInv
  <2> QED BY <2>2, <2>3, <2>4, <2>6 DEF Inv
<1>9. CASE UNCHANGED vars
  BY <1>9 DEF vars, limiterVars, handlerVars, Inv, TypeInv, PermitsOut, CallsOpen, Running,
              JobsAccounted, JobAccounted, Seen, Apart, InHand, All
<1> QED
  BY <1>1, <1>2, <1>3, <1>4, <1>5, <1>6, <1>7, <1>8, <1>9 DEF Next, Resting, Work

LEMMA Invariance == Spec => []Inv
BY InitInv, StepInv, PTL DEF Spec

\* The loop of execute_request accounts for the pods _resolve_sources gave it: a
\* result names every pod once, and with policy "single" misses nothing.
THEOREM EveryPodAccounted == Spec => []RescueAccounts
<1>1. Inv => RescueAccounts
  BY DEF Inv, JobsAccounted, JobAccounted, RescueAccounts, Seen, Apart, InHand, All
<1> QED BY <1>1, Invariance, PTL

----------------------------------------------------------------------------
(* The promise.                                                             *)

\* The service counts its handlers with the same Cardinality
LEMMA SameCardinality == ASSUME NEW S PROVE Service!Cardinality(S) = Cardinality(S)
BY DEF Cardinality, Service!Cardinality

LEMMA StepKeepsPromise == Inv /\ Inv' /\ [Next]_vars => [Service!Next]_<<call, Running, Handled>>
<1> SUFFICES ASSUME Inv, Inv', [Next]_vars PROVE Service!Next \/ UNCHANGED <<call, Running, Handled>>
  OBVIOUS
<1>1. ASSUME NEW t \in Threads, Call(t) PROVE Service!Call(t)
  <2>1. handler' = handler
    BY <1>1 DEF Call
  <2> QED BY <1>1, <2>1 DEF Call, Service!Call, Running, Handled
<1>2. ASSUME NEW t \in Threads, GiveUp(t) PROVE Service!GiveUp(t)
  BY <1>2 DEF GiveUp, Service!GiveUp, handlerVars, Running, Handled
<1>3. ASSUME NEW t \in Threads, Refuse(t) PROVE Service!Refuse(t)
  <2>1. permits = 0 /\ handler' = handler /\ handler[t] = "none"
    BY <1>3 DEF Refuse, handlerVars
  <2>2. Running' = Running /\ Handled' = Handled /\ t \notin Handled
    BY <2>1 DEF Running, Handled
  <2>3. Cardinality(Running) \in Nat
    BY FiniteRunning DEF Running
  <2>4. Cardinality(Running) >= RescueMax
    <3>1. permits + Cardinality(Running) = RescueMax
      BY DEF Inv, PermitsOut
    <3> QED BY <2>1, <2>3, <3>1, PermitsAreNaturals
  <2>5. Service!Becomes(t, "calling", "answered")
    BY <1>3 DEF Refuse
  <2> QED BY <2>2, <2>4, <2>5, SameCardinality DEF Service!Refuse
<1>4. ASSUME NEW t \in Threads, Admit(t) PROVE Service!Admit(t)
  <2>1. Running' = Running \cup {t} /\ Handled' = Handled \cup {t} /\ t \notin Handled
    <3>1. handler' = [handler EXCEPT ![t] = "targets"] /\ handler[t] = "none"
      BY <1>4 DEF Admit, Go
    <3>2. Handled' = Handled \cup {t} /\ t \notin Handled
      BY <3>1 DEF Handled, Inv, TypeInv
    <3> QED BY <1>4, <3>2, AdmitTakesOne DEF Inv
  <2>2. Cardinality(Running) \in Nat
    BY FiniteRunning DEF Running
  <2>3. Cardinality(Running) < RescueMax
    <3>1. permits + Cardinality(Running) = RescueMax /\ permits \in Nat
      BY DEF Inv, TypeInv, PermitsOut
    <3>2. permits > 0
      BY <1>4 DEF Admit
    <3> QED BY <2>2, <3>1, <3>2, PermitsAreNaturals
  <2>4. call[t] \in {"calling", "given up"} /\ UNCHANGED call
    BY <1>4 DEF Admit, Outside
  <2> QED BY <2>1, <2>3, <2>4, SameCardinality DEF Service!Admit
<1>5. ASSUME NEW t \in Threads, Return(t) PROVE Service!Answer(t)
  <2>1. Running' = Running \ {t} /\ t \in Running
    BY <1>5, ReturnGivesBackOne DEF Inv
  <2>2. call[t] \in {"calling", "given up"}
    BY <2>1 DEF Inv, CallsOpen
  <2>3. call' = [call EXCEPT ![t] = IF @ = "calling" THEN "answered" ELSE @] /\ Handled' = Handled
    <3>1. handler[t] # "none" /\ handler' = [handler EXCEPT ![t] = "replied"]
      BY <1>5 DEF Return, Go
    <3> QED BY <1>5, <3>1 DEF Return, Handled, Inv, TypeInv
  <2>4. CASE call[t] = "calling"
    BY <2>1, <2>3, <2>4 DEF Service!Answer, Service!Becomes
  <2>5. CASE call[t] = "given up"
    BY <2>1, <2>3, <2>5 DEF Service!Answer, Inv, TypeInv
  <2> QED BY <2>2, <2>4, <2>5
<1>6. ASSUME NEW t \in Threads,
             \/ ResolveSources(t) \/ NextSource(t) \/ AtLimiter(t) \/ SlotExpires(t)
             \/ SlotRefused(t) \/ Execute(t) \/ Finish(t)
      PROVE  UNCHANGED <<call, Running, Handled>>
  <2>1. call' = call /\ handler[t] \in {"targets", "loop", "slot"}
        /\ (handler' = handler
             \/ \E place \in {"loop", "slot", "result", "error"} :
                  handler' = [handler EXCEPT ![t] = place])
    BY <1>6 DEF ResolveSources, NextSource, AtLimiter, SlotExpires, SlotRefused, Execute, Finish,
                SourceGives, SourceFails, Raise, Go, Outside, handlerVars
  <2>2. Running' = Running /\ Handled' = Handled
    BY <2>1 DEF Running, Handled, Inv, TypeInv
  <2> QED BY <2>1, <2>2
<1>7. ASSUME UNCHANGED vars PROVE UNCHANGED <<call, Running, Handled>>
  BY <1>7 DEF vars, handlerVars, Running, Handled
<1> QED
  BY <1>1, <1>2, <1>3, <1>4, <1>5, <1>6, <1>7 DEF Next, Resting, Work, Service!Next

\* Every way out of the handler gives back its one permit of _QUERY_SEMAPHORE and a
\* refusal gives back none: the service keeps its promise to the query endpoint.
THEOREM ServiceKeepsPromise == Spec => KeepsPromise
<1>1. Init => Service!Init
  BY DEF Init, Service!Init, Running, Handled
<1> QED BY <1>1, StepKeepsPromise, Invariance, PTL
        DEF Spec, KeepsPromise, Service!Spec, Service!vars
=============================================================================
