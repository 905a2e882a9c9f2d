---------------------------- MODULE MCMigration -----------------------------
(* Constants for model checking Migration.                                   *)
EXTENDS Migration

CONSTANTS a, b

Two == {a, b}

TwoVersions == {1, 2}
OnlySecond == {2}
AllFaults == {"sql", "commit", "crash"}
=============================================================================
