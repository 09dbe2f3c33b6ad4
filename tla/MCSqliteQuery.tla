---------------------------- MODULE MCSqliteQuery ----------------------------
(* SqliteQuery with interchangeable request threads                          *)
EXTENDS SqliteQuery, TLC

Symmetry == Permutations(Threads)
=============================================================================
