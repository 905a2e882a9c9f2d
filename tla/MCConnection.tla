---------------------------- MODULE MCConnection ----------------------------
(* Constants for model checking Connection.                                  *)
EXTENDS Connection, TLC

CONSTANTS v1, v2, v3

MCValue == {v1, v2, v3}
ValueSymmetry == Permutations(MCValue)

TwoValues == {v1, v2}

Cancellation == {"cancel"}
EngineFaults == {"busy", "conflict"}
UsageFaults == {"conflict", "abort", "raw", "cancel"}
=============================================================================
