---------------------------- MODULE MCExtractCache ----------------------------
(* ExtractCache with interchangeable requests                                *)
EXTENDS ExtractCache, TLC

Symmetry == Permutations(Requests)
=============================================================================
