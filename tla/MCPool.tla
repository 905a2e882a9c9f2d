------------------------------- MODULE MCPool -------------------------------
(* Constants for model checking Pool.                                        *)
EXTENDS Pool, TLC

CONSTANTS c1, c2, alice, bob

MCConns == {c1, c2}
MCClients == {alice, bob}
=============================================================================
