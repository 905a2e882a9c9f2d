------------------------------- MODULE Engine -------------------------------
(* One turso::Connection as sqlx-turso-core uses it: the SQL transaction     *)
(* control statements it is sent and the database content it reads and       *)
(* writes.  turso and sqlx_core are external crates; this module models what *)
(* the adapter relies on (SQLite's semantics of BEGIN, COMMIT, ROLLBACK and  *)
(* savepoints), and its operators are external in PROJECT.json.              *)
(*                                                                           *)
(* A state of the engine:                                                    *)
(*   active    a transaction is open                                         *)
(*   implicit  ... and it was opened by SAVEPOINT rather than by BEGIN       *)
(*   data      the content this connection sees                              *)
(*   base      the content when the open transaction began                   *)
(*   stack     the savepoints, each with its name and the content it took    *)
(* Savepoint names are not unique: ROLLBACK TO leaves its savepoint on the   *)
(* stack, and a later SAVEPOINT may push the same name again.                *)
EXTENDS Naturals, Sequences

EngineStates(Value) ==
  [active : BOOLEAN, implicit : BOOLEAN, data : Value, base : Value,
   stack : Seq([name : Nat, data : Value])]

FreshEngine(v) ==
  [active |-> FALSE, implicit |-> FALSE, data |-> v, base |-> v, stack |-> <<>>]

(* What every other connection, and this one after a crash, would see. *)
Durable(e) == IF e.active THEN e.base ELSE e.data

-----------------------------------------------------------------------------
(* sqlx_core::transaction: begin_, commit_ and rollback_ansi_transaction_sql *)
(* turn a depth into a statement.  The savepoint opened at depth d is named  *)
(* after d, so the scope of depth d + 1 owns savepoint d.                    *)
Plain(verb) == [verb |-> verb, name |-> 0]
Named(verb, n) == [verb |-> verb, name |-> n]

BeginSql(depth) ==
  IF depth = 0 THEN Plain("BEGIN") ELSE Named("SAVEPOINT", depth)

CommitSql(depth) ==
  IF depth = 1 THEN Plain("COMMIT") ELSE Named("RELEASE", depth - 1)

RollbackSql(depth) ==
  IF depth = 1 THEN Plain("ROLLBACK") ELSE Named("ROLLBACK TO", depth - 1)

-----------------------------------------------------------------------------
(* Position i of the stack is the innermost savepoint named n. *)
IsInnermost(stack, n, i) ==
  /\ i \in DOMAIN stack
  /\ stack[i].name = n
  /\ \A j \in DOMAIN stack : stack[j].name = n => j <= i

HasSavepoint(stack, n) == \E i \in DOMAIN stack : IsInnermost(stack, n, i)

Innermost(stack, n) == CHOOSE i \in DOMAIN stack : IsInnermost(stack, n, i)

(* The engine runs the statement rather than returning an error. *)
Accepts(e, sql) ==
  CASE sql.verb = "BEGIN"                     -> ~e.active
    [] sql.verb \in {"COMMIT", "ROLLBACK"}    -> e.active
    [] sql.verb = "SAVEPOINT"                 -> TRUE
    [] sql.verb \in {"RELEASE", "ROLLBACK TO"} -> HasSavepoint(e.stack, sql.name)

Close(e, v) ==
  [active |-> FALSE, implicit |-> FALSE, data |-> v, base |-> v, stack |-> <<>>]

Open(e, viaSavepoint) ==
  IF e.active THEN e
  ELSE [e EXCEPT !.active = TRUE, !.implicit = viaSavepoint, !.base = e.data]

(* RELEASE of the savepoint that opened the transaction commits it. *)
Release(e, n) ==
  LET i == Innermost(e.stack, n)
  IN  IF e.implicit /\ i = 1
      THEN Close(e, e.data)
      ELSE [e EXCEPT !.stack = SubSeq(@, 1, i - 1)]

RollbackTo(e, n) ==
  LET i == Innermost(e.stack, n)
  IN  [e EXCEPT !.data = e.stack[i].data, !.stack = SubSeq(@, 1, i)]

(* The engine after a statement it accepts. *)
Run(e, sql) ==
  CASE sql.verb = "BEGIN"       -> Open(e, FALSE)
    [] sql.verb = "COMMIT"      -> Close(e, e.data)
    [] sql.verb = "ROLLBACK"    -> Close(e, e.base)
    [] sql.verb = "SAVEPOINT"   ->
         [Open(e, TRUE) EXCEPT
            !.stack = Append(@, [name |-> sql.name, data |-> e.data])]
    [] sql.verb = "RELEASE"     -> Release(e, sql.name)
    [] sql.verb = "ROLLBACK TO" -> RollbackTo(e, sql.name)

(* The engine gives the open transaction up on its own: a write-write        *)
(* conflict found at COMMIT, or a statement error that ends the transaction. *)
Abort(e) == IF e.active THEN Close(e, e.base) ELSE e

Write(e, v) == [e EXCEPT !.data = v]
=============================================================================
