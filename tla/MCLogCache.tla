------------------------------ MODULE MCLogCache ------------------------------
(* LogCache with interchangeable requests and pods                           *)
EXTENDS LogCache, TLC

Symmetry == Permutations(Requests) \cup Permutations(Pods)
=============================================================================
