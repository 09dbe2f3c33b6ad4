------------------------------ MODULE MCSSHPool ------------------------------
(* SSHPool on small populations.  Four clients are enough for three requests *)
(* and two slots: at most one listed connection, two held by the other       *)
(* requests and a fresh one.                                                 *)
EXTENDS SSHPool, TLC

Symmetry == Permutations(Requests) \cup Permutations(Keys) \cup Permutations(Clients)
=============================================================================
