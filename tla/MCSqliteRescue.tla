---------------------------- MODULE MCSqliteRescue ----------------------------
(* SqliteRescue with interchangeable callers                                  *)
EXTENDS SqliteRescue, TLC

Symmetry == Permutations(Threads)
=============================================================================
