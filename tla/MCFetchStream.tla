--------------------------- MODULE MCFetchStream ----------------------------
(* Constants for model checking FetchStream.                                 *)
EXTENDS FetchStream

CONSTANTS q1, q2, q3

MCSql == {q1, q2, q3}
=============================================================================
