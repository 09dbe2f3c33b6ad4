----------------------------- MODULE MCFileExport -----------------------------
(* FileExport with interchangeable requests                                  *)
EXTENDS FileExport, TLC

Symmetry == Permutations(Exports)
=============================================================================
