------------------------------ MODULE LeasePool ------------------------------
(* What a user of the SSH pool may rely on (SSH_POOL.md, "Runtime model"):   *)
(* a request that asked for a target gets, exclusively, a connection that is *)
(* bound to that target: either a new one or one parked by an earlier lease  *)
(* for the same target.  Queues, limits, cooldowns and the reaper are not    *)
(* part of the promise.                                                      *)
CONSTANTS Requests, Keys, Clients, NoKey, NoClient

VARIABLES
  want,   \* the target a request is in acquire for, or holds a lease for
  lease,  \* the client leased to a request
  bound   \* the target a client of the pool is connected to

Init ==
  /\ want = [r \in Requests |-> NoKey]
  /\ lease = [r \in Requests |-> NoClient]
  /\ bound = [c \in Clients |-> NoKey]

Leased(c) == \E r \in Requests : lease[r] = c

Ask(r, k) ==
  /\ want[r] = NoKey
  /\ want' = [want EXCEPT ![r] = k]
  /\ UNCHANGED <<lease, bound>>

\* The request gave up, or its lease is over and its client closed
Leave(r) ==
  /\ want[r] # NoKey /\ lease[r] = NoClient
  /\ want' = [want EXCEPT ![r] = NoKey]
  /\ UNCHANGED <<lease, bound>>

\* Connections nobody leases may disappear at any moment, in any number: lost
\* ones are no longer bound to a target
Discarded(lost) ==
  [c \in Clients |-> IF c \in lost THEN NoKey ELSE bound[c]]

Discard ==
  \E lost \in SUBSET {c \in Clients : bound[c] # NoKey /\ ~Leased(c)} :
    /\ lost # {}
    /\ bound' = Discarded(lost)
    /\ UNCHANGED <<want, lease>>

\* ... also in the step in which some request stops asking
DiscardAndLeave(r) ==
  \E lost \in SUBSET {c \in Clients : bound[c] # NoKey /\ ~Leased(c)} :
    /\ want[r] # NoKey /\ lease[r] = NoClient
    /\ bound' = Discarded(lost)
    /\ want' = [want EXCEPT ![r] = NoKey]
    /\ UNCHANGED lease

\* A parked connection of the same target
Reuse(r, c) ==
  /\ want[r] # NoKey /\ lease[r] = NoClient
  /\ bound[c] = want[r] /\ ~Leased(c)
  /\ \E lost \in SUBSET {d \in Clients \ {c} : bound[d] # NoKey /\ ~Leased(d)} :
       bound' = Discarded(lost)
  /\ lease' = [lease EXCEPT ![r] = c]
  /\ UNCHANGED want

\* A fresh connection to the target
Connect(r, c) ==
  /\ want[r] # NoKey /\ lease[r] = NoClient
  /\ bound[c] = NoKey /\ ~Leased(c)
  /\ bound' = [bound EXCEPT ![c] = want[r]]
  /\ lease' = [lease EXCEPT ![r] = c]
  /\ UNCHANGED want

\* The lease ends and the connection is parked for the next request ...
Park(r) ==
  /\ lease[r] # NoClient
  /\ lease' = [lease EXCEPT ![r] = NoClient]
  /\ want' = [want EXCEPT ![r] = NoKey]
  /\ UNCHANGED bound

\* ... or is not seen again
Drop(r) ==
  /\ lease[r] # NoClient
  /\ lease' = [lease EXCEPT ![r] = NoClient]
  /\ bound' = [bound EXCEPT ![lease[r]] = NoKey]
  /\ UNCHANGED want

Next ==
  \/ Discard
  \/ \E r \in Requests :
       \/ \E k \in Keys : Ask(r, k)
       \/ Leave(r) \/ DiscardAndLeave(r) \/ Park(r) \/ Drop(r)
       \/ \E c \in Clients : Reuse(r, c) \/ Connect(r, c)

Spec == Init /\ [][Next]_<<want, lease, bound>>
=============================================================================
