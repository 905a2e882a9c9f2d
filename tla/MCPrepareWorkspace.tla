------------------------- MODULE MCPrepareWorkspace -------------------------
(* Constants for model checking PrepareWorkspace.                            *)
EXTENDS PrepareWorkspace

MCProc == {1, 2}

(* Two processes of one machine, or of two containers. *)
MCPids == {[p \in MCProc |-> p], [p \in MCProc |-> 1]}
=============================================================================
