-------------------------- MODULE TransactionState --------------------------
(* The bookkeeping a TursoConnection keeps about SQLx transactions           *)
(* (connection.rs, struct TransactionState): how many Transaction handles    *)
(* are open, which dropped handles still wait for their ROLLBACK, and        *)
(* whether a rollback ever failed.  One operator per method; a method that   *)
(* takes &mut self returns the new state.                                    *)
EXTENDS Naturals, Sequences

(* The type of a state: `usize` depths are natural numbers. *)
TransactionStates ==
  [depth : Nat, pending : Seq(Nat \ {0}), failed : BOOLEAN]

DefaultState == [depth |-> 0, pending |-> <<>>, failed |-> FALSE]

IncrementDepth(s) == [s EXCEPT !.depth = @ + 1]

(* Decrement saturates: it is a no-op at depth 0. *)
DecrementDepth(s) == IF s.depth > 0 THEN [s EXCEPT !.depth = @ - 1] ELSE s

-----------------------------------------------------------------------------
(* Faulty variants of MarkRollbackNeeded and PopPendingRollback, one bug     *)
(* each: the queue is filled from the front; the depth is not queued;        *)
(* nothing is popped.                                                        *)
MarkPushesFront(s) ==
  IF s.depth = 0 THEN s
  ELSE DecrementDepth([s EXCEPT !.pending = <<s.depth>> \o @])

MarkForgets(s) == DecrementDepth(s)

PopKeeps(s) == s

-----------------------------------------------------------------------------

(* A handle is dropped while open: its depth is queued and the depth drops.  *)
MarkRollbackNeeded(s) ==
  IF s.depth = 0 THEN s
  ELSE DecrementDepth([s EXCEPT !.pending = Append(@, s.depth)])

(* pop_front: the deepest queued depth, because handles drop inside out. *)
NextPendingRollback(s) == Head(s.pending)

PopPendingRollback(s) == [s EXCEPT !.pending = Tail(@)]

MarkRollbackFailed(s) == [s EXCEPT !.failed = TRUE, !.pending = <<>>]
=============================================================================
