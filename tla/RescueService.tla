---------------------------- MODULE RescueService ----------------------------
(* What the SQLite rescue service promises those who call it: a call is       *)
(* refused at once when RescueMax handlers run, and otherwise handled and     *)
(* answered, once; a caller that has given up hears nothing, but its handler  *)
(* still counts until it ends, also when it starts only now.  SqliteRescue is *)
(* the service that keeps this, SqliteQuery the endpoint that relies on it.   *)
EXTENDS Integers, FiniteSets

CONSTANTS
  Threads,   \* the requests that may call
  RescueMax  \* LOG_RESCUE_MAX_CONCURRENT_SQLITE_QUERIES

VARIABLES
  call,    \* "none", "calling", "answered" or "given up"
  running, \* the requests whose handler runs
  handled  \* the requests that have had a permit

vars == <<call, running, handled>>

Init == call = [t \in Threads |-> "none"] /\ running = {} /\ handled = {}

Becomes(t, from, to) == call[t] = from /\ call' = [call EXCEPT ![t] = to]

Call(t) == Becomes(t, "none", "calling") /\ UNCHANGED <<running, handled>>

\* A call may be read from its connection after its caller has given up
Admit(t) ==
  /\ call[t] \in {"calling", "given up"} /\ t \notin handled
  /\ Cardinality(running) < RescueMax
  /\ running' = running \cup {t} /\ handled' = handled \cup {t}
  /\ UNCHANGED call

\* TOO_MANY_REQUESTS, which a caller that has given up does not hear
Refuse(t) ==
  /\ t \notin handled /\ Cardinality(running) >= RescueMax
  /\ Becomes(t, "calling", "answered")
  /\ UNCHANGED <<running, handled>>

Answer(t) ==
  /\ t \in running /\ running' = running \ {t}
  /\ \/ Becomes(t, "calling", "answered")
     \/ call[t] = "given up" /\ UNCHANGED call
  /\ UNCHANGED handled

GiveUp(t) == Becomes(t, "calling", "given up") /\ UNCHANGED <<running, handled>>

Next == \E t \in Threads : Call(t) \/ Admit(t) \/ Refuse(t) \/ Answer(t) \/ GiveUp(t)

Spec == Init /\ [][Next]_vars
=============================================================================
