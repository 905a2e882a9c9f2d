--------------------------- MODULE MCDatabaseFiles --------------------------
(* Constants for model checking DatabaseFiles.                               *)
EXTENDS DatabaseFiles, TLC

CONSTANTS t1, t2, t3

MCTask == {t1, t2, t3}
TaskSymmetry == Permutations(MCTask)
=============================================================================
