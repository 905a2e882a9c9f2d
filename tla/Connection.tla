----------------------------- MODULE Connection -----------------------------
(* One TursoConnection and the application that owns it: the transaction     *)
(* manager (transaction.rs), the lazy rollback of dropped handles            *)
(* (connection.rs, clear_pending_rollback) and the execution path of         *)
(* executor.rs (fetch_many_sql) around one engine connection.                *)
(*                                                                           *)
(* Every call takes &mut TursoConnection, so at most one call is in flight.  *)
(* A call is split at its awaits: each statement sent to the engine is one   *)
(* step, and a step may be replaced by a failure of the statement or by the  *)
(* application dropping the future while it waits.                           *)
EXTENDS TransactionState, Engine

CONSTANTS
  Value,             \* database contents
  MaxDepth,          \* bound: Transaction handles open at a time
  MaxSavepoints,     \* bound: savepoints on the engine's stack
  Faults             \* what may go wrong in a run

(* "busy": any transaction statement may fail and change nothing;            *)
(* "conflict": a COMMIT may fail and the engine roll the transaction back;   *)
(* "abort": a failing query may make the engine roll the transaction back;   *)
(* "raw": the application may run BEGIN, COMMIT or ROLLBACK as a query;      *)
(* "cancel": the application may drop the future of a call in flight.        *)
AllFaults == {"busy", "conflict", "abort", "raw", "cancel"}

ASSUME ConnectionAssumption ==
  /\ Value # {}
  /\ MaxDepth \in Nat
  /\ MaxSavepoints \in Nat
  /\ Faults \subseteq AllFaults

VARIABLES
  st,        \* the TransactionState of the connection
  engine,    \* its turso::Connection
  handles,   \* Transaction handles the application holds, one inside the other
  op,        \* the call in flight, or "idle"
  result,    \* what the last call returned
  seen       \* the content the last read returned

vars == <<st, engine, handles, op, result, seen>>

RawOps == {"BEGIN", "COMMIT", "ROLLBACK"}
Ops == {"begin", "begin_with", "commit", "rollback", "write", "read"} \cup RawOps

Init ==
  /\ st = DefaultState
  /\ \E v \in Value : engine = FreshEngine(v) /\ seen = v
  /\ handles = 0
  /\ op = "idle"
  /\ result = "ok"

-----------------------------------------------------------------------------
(* The application starts a call, or drops a handle without a call.          *)

Call(o) ==
  /\ op = "idle"
  /\ op' = o
  /\ UNCHANGED <<st, engine, handles, result, seen>>

(* `begin_with` carries a custom statement such as BEGIN IMMEDIATE. *)
CallBegin ==
  /\ handles < MaxDepth
  /\ Len(engine.stack) < MaxSavepoints
  /\ Call("begin") \/ Call("begin_with")

(* Consumes the innermost handle. *)
CallEnd == handles > 0 /\ (Call("commit") \/ Call("rollback"))

CallQuery == Call("write") \/ Call("read")

CallRaw == "raw" \in Faults /\ \E o \in RawOps : Call(o)

(* Transaction::drop calls start_rollback, which sends nothing. *)
DropHandle ==
  /\ op = "idle"
  /\ handles > 0
  /\ handles' = handles - 1
  /\ st' = MarkRollbackNeeded(st)
  /\ UNCHANGED <<engine, op, result, seen>>

-----------------------------------------------------------------------------
(* How a call ends.                                                          *)

ReturnOk == op' = "idle" /\ result' = "ok"

(* commit and rollback own the handle they were called on; sqlx_core makes   *)
(* the handle of a begin, already open, before it awaits begin().            *)
OwnsOpenHandle == op \in {"begin", "begin_with", "commit", "rollback"}

(* The call returns Err, or its future is dropped, with s as the state so    *)
(* far: the handle it owns is dropped still open.  That of a begin was never *)
(* counted, so what its drop queues is the rollback of the scope around it.  *)
GiveUp(s) ==
  /\ op' = "idle"
  /\ result' = "err"
  /\ st' = IF OwnsOpenHandle THEN MarkRollbackNeeded(s) ELSE s
  /\ handles' = IF op \in {"commit", "rollback"} THEN handles - 1 ELSE handles

-----------------------------------------------------------------------------
(* clear_pending_rollback, which every call awaits first.                    *)

(* Faulty: the flag set by a failed rollback is not looked at. *)
ReadyEvenIfFailed == op # "idle" /\ st.pending = <<>>

(* It returned Ok: the call's own statement is next. *)
Ready == op # "idle" /\ ~st.failed /\ st.pending = <<>>

Draining == op # "idle" /\ ~st.failed /\ st.pending # <<>>

PendingSql == RollbackSql(NextPendingRollback(st))

(* A failed rollback made the connection unusable: Err(WorkerCrashed). *)
RefuseFailed ==
  /\ op # "idle"
  /\ st.failed
  /\ GiveUp(st)
  /\ UNCHANGED <<engine, seen>>

RollBackPending ==
  /\ Draining
  /\ Accepts(engine, PendingSql)
  /\ engine' = Run(engine, PendingSql)
  /\ st' = PopPendingRollback(st)
  /\ UNCHANGED <<handles, op, result, seen>>

(* Faulty: an inactive transaction is tolerated at no depth. *)
TolerableNever(depth) == FALSE

(* The engine says "cannot rollback - no transaction is active" and the      *)
(* depth is 1: what had to be undone is already gone.                        *)
Tolerable(depth) == depth = 1 /\ ~engine.active

SkipPending ==
  /\ Draining
  /\ Tolerable(NextPendingRollback(st))
  /\ st' = PopPendingRollback(st)
  /\ UNCHANGED <<engine, handles, op, result, seen>>

FailPending ==
  /\ Draining
  /\ \/ ~Accepts(engine, PendingSql) /\ ~Tolerable(NextPendingRollback(st))
     \/ "busy" \in Faults
  /\ GiveUp(MarkRollbackFailed(PopPendingRollback(st)))
  /\ UNCHANGED <<engine, seen>>

(* The future is dropped at the await of the ROLLBACK: the depth is off the  *)
(* queue whether or not the engine ran the statement.                        *)
CancelPending ==
  /\ "cancel" \in Faults
  /\ Draining
  /\ \/ engine' = engine
     \/ Accepts(engine, PendingSql) /\ engine' = Run(engine, PendingSql)
  /\ GiveUp(PopPendingRollback(st))
  /\ UNCHANGED seen

-----------------------------------------------------------------------------
(* TursoTransactionManager.                                                  *)

(* Faulty: rollback sends the statement of commit. *)
OwnSqlNeverUndoes ==
  CASE op = "begin"                     -> BeginSql(st.depth)
    [] op = "begin_with"                -> Plain("BEGIN")
    [] op \in {"commit", "rollback"}    -> CommitSql(st.depth)
    [] op \in RawOps                    -> Plain(op)

(* The statement a transaction call sends once the queue is drained. *)
OwnSql ==
  CASE op = "begin"      -> BeginSql(st.depth)
    [] op = "begin_with" -> Plain("BEGIN")
    [] op = "commit"     -> CommitSql(st.depth)
    [] op = "rollback"   -> RollbackSql(st.depth)
    [] op \in RawOps     -> Plain(op)

(* InvalidSavePointStatement: returned before anything is sent. *)
CustomInScope == op = "begin_with" /\ st.depth > 0

Begin ==
  /\ Ready
  /\ op \in {"begin", "begin_with"}
  /\ ~CustomInScope
  /\ Accepts(engine, OwnSql)
  /\ engine' = Run(engine, OwnSql)
  /\ st' = IncrementDepth(st)
  /\ handles' = handles + 1
  /\ ReturnOk
  /\ UNCHANGED seen

(* Faulty: COMMIT at every depth. *)
EndCommitsAll ==
  /\ Ready
  /\ op \in {"commit", "rollback"}
  /\ st.depth > 0
  /\ Accepts(engine, Plain("COMMIT"))
  /\ engine' = Run(engine, Plain("COMMIT"))
  /\ st' = DecrementDepth(st)
  /\ handles' = handles - 1
  /\ ReturnOk
  /\ UNCHANGED seen

(* Faulty: the depth is left alone after a commit or rollback. *)
EndKeepsDepth ==
  /\ Ready
  /\ op \in {"commit", "rollback"}
  /\ st.depth > 0
  /\ Accepts(engine, OwnSql)
  /\ engine' = Run(engine, OwnSql)
  /\ handles' = handles - 1
  /\ ReturnOk
  /\ UNCHANGED <<st, seen>>

(* commit and rollback. *)
End ==
  /\ Ready
  /\ op \in {"commit", "rollback"}
  /\ st.depth > 0
  /\ Accepts(engine, OwnSql)
  /\ engine' = Run(engine, OwnSql)
  /\ st' = DecrementDepth(st)
  /\ handles' = handles - 1
  /\ ReturnOk
  /\ UNCHANGED seen

(* At depth 0 they return Ok without a statement. *)
EndAtZero ==
  /\ Ready
  /\ op \in {"commit", "rollback"}
  /\ st.depth = 0
  /\ handles' = handles - 1
  /\ ReturnOk
  /\ UNCHANGED <<st, engine, seen>>

(* The statement of begin, commit or rollback fails; so does a raw one. *)
OwnFails ==
  /\ Ready
  /\ op \in {"begin", "begin_with", "commit", "rollback"} \cup RawOps
  /\ op \in {"commit", "rollback"} => st.depth > 0
  /\ \/ (CustomInScope \/ ~Accepts(engine, OwnSql) \/ "busy" \in Faults)
        /\ engine' = engine
     \/ "conflict" \in Faults /\ OwnSql = Plain("COMMIT") /\ engine' = Abort(engine)
  /\ GiveUp(st)
  /\ UNCHANGED seen

-----------------------------------------------------------------------------
(* fetch_many_sql.                                                           *)

WriteQuery ==
  /\ Ready
  /\ op = "write"
  /\ \E v \in Value : engine' = Write(engine, v)
  /\ ReturnOk
  /\ UNCHANGED <<st, handles, seen>>

ReadQuery ==
  /\ Ready
  /\ op = "read"
  /\ seen' = engine.data
  /\ ReturnOk
  /\ UNCHANGED <<st, engine, handles>>

RawQuery ==
  /\ Ready
  /\ op \in RawOps
  /\ Accepts(engine, OwnSql)
  /\ engine' = Run(engine, OwnSql)
  /\ ReturnOk
  /\ UNCHANGED <<st, handles, seen>>

(* A query is refused by the adapter (a batch or a named placeholder with    *)
(* arguments) or by the engine (parse error, constraint, busy).              *)
QueryFails ==
  /\ Ready
  /\ op \in {"write", "read"}
  /\ \/ engine' = engine
     \/ "abort" \in Faults /\ engine' = Abort(engine)
  /\ GiveUp(st)
  /\ UNCHANGED seen

-----------------------------------------------------------------------------
(* The future of a call is dropped while its own statement is awaited; the   *)
(* engine has run the statement or it has not.                               *)
CancelOwn ==
  /\ "cancel" \in Faults
  /\ Ready
  /\ ~CustomInScope
  /\ op \in {"commit", "rollback"} => st.depth > 0
  /\ \/ engine' = engine
     \/ /\ op \notin {"write", "read"}
        /\ Accepts(engine, OwnSql)
        /\ engine' = Run(engine, OwnSql)
     \/ op = "write" /\ \E v \in Value : engine' = Write(engine, v)
  /\ GiveUp(st)
  /\ UNCHANGED seen

Progress ==
  \/ RefuseFailed
  \/ RollBackPending
  \/ SkipPending
  \/ FailPending
  \/ Begin
  \/ End
  \/ EndAtZero
  \/ OwnFails
  \/ WriteQuery
  \/ ReadQuery
  \/ RawQuery
  \/ QueryFails

Cancel == CancelPending \/ CancelOwn

Next ==
  \/ CallBegin
  \/ CallEnd
  \/ CallQuery
  \/ CallRaw
  \/ DropHandle
  \/ Progress
  \/ Cancel

Spec == Init /\ [][Next]_vars

(* A call in flight is polled until it completes. *)
FairSpec == Spec /\ WF_vars(Progress)
-----------------------------------------------------------------------------
(* Properties.                                                               *)

(* Type correctness.  `usize` depths never go below zero and no queued       *)
(* rollback has depth 0, which rollback_ansi_transaction_sql could not name. *)
TypeOK ==
  /\ st \in TransactionStates
  /\ engine \in EngineStates(Value)
  /\ handles \in Nat
  /\ op \in Ops \cup {"idle"}
  /\ result \in {"ok", "err"}
  /\ seen \in Value

(* Queued rollbacks undo scopes inside out: the queue always counts down by  *)
(* one and ends just above the depth still open, whatever fails, is          *)
(* cancelled or is dropped in between (connection.rs, mark_rollback_needed   *)
(* and pop_pending_rollback).                                                *)
CountsDown(s) ==
  \A i \in 1 .. Len(s.pending) : s.pending[i] = s.depth + Len(s.pending) + 1 - i

PendingCountsDown == CountsDown(st)

(* No scope outlives its handle: the adapter never counts more open scopes   *)
(* than the application holds Transaction handles, or a dropped transaction  *)
(* would stay open with nothing queued to undo it (connection.rs,            *)
(* mark_rollback_needed; transaction.rs).  It may count fewer: a begin that  *)
(* fails inside a scope takes the scope from its handle.                     *)
ScopesHaveHandles == st.depth <= handles

(* The scopes the adapter knows of: open handles and queued rollbacks. *)
Levels == st.depth + Len(st.pending)

(* A write under an open handle never autocommits: as long as the connection *)
(* is usable and a handle is open, the engine is inside a transaction.       *)
OpenHandleMeansOpenTransaction ==
  ~st.failed /\ st.depth > 0 => engine.active

(* No transaction outlives its handles unnoticed: if the engine is inside a  *)
(* transaction, a handle is open, a rollback is queued or the connection is  *)
(* marked failed (clear_pending_rollback, tests of transaction.rs).          *)
NoOrphanTransaction ==
  engine.active => st.failed \/ Levels > 0

(* ROLLBACK TO and RELEASE address the right savepoint although ROLLBACK TO  *)
(* leaves savepoints of dead scopes behind: the innermost savepoints of the  *)
(* live scopes exist and are nested like the scopes.                         *)
ScopesNested ==
  ~st.failed =>
    \A n \in 1 .. Levels - 1 :
       /\ HasSavepoint(engine.stack, n)
       /\ \A m \in 1 .. n - 1 :
            Innermost(engine.stack, m) < Innermost(engine.stack, n)

(* A connection whose rollback failed stays failed and neither reads nor     *)
(* changes the database again (Err(WorkerCrashed), connection.rs).           *)
PoisonedIsInert ==
  [][st.failed => st'.failed /\ UNCHANGED <<engine, seen>>]_vars

(* Cleaning up after the outermost scope never makes the connection          *)
(* unusable, even if the engine already ended the transaction on its own:    *)
(* only a savepoint that is gone can (given the engine does not refuse a     *)
(* ROLLBACK it could run, so not with fault "busy").                         *)
OutermostCleanupNeverPoisons ==
  [][~st.failed /\ st'.failed => NextPendingRollback(st) > 1]_vars

(* When the rollback of the outermost scope leaves the queue, the engine's   *)
(* transaction is over or the connection is marked failed: what a dropped    *)
(* handle left behind is rolled back on the next use (transaction.rs, test   *)
(* dropped_transaction_rolls_back_on_next_use).  Not so under "cancel".      *)
DroppedRollsBackOnNextUse ==
  [][st.pending = <<1>> /\ st'.pending = <<>> => ~engine'.active \/ st'.failed]_vars

(* Every call returns: the drain loop ends, whatever is queued and fails. *)
CallsReturn == (op # "idle") ~> (op = "idle")

-----------------------------------------------------------------------------
(* What is written through a Transaction handle is not published before a    *)
(* commit.  NOT what happens: the rollback that a rejected nested begin      *)
(* queues runs before the next write, which is then on its own (test         *)
(* rejects_custom_begin_inside_nested_transaction of transaction.rs).        *)
WritesWaitForCommit ==
  [][op = "write" /\ handles > 0 => Durable(engine)' = Durable(engine)]_vars

(* Lazy rollback is not observable: Connection implements                    *)
(* NestedTransactions, where a dropped scope is undone at once.  The         *)
(* content a queued rollback will restore stands for the content seen.       *)

(* The content scope number i began with. *)
Snapshot(i) ==
  IF i = 1 THEN Durable(engine)
  ELSE engine.stack[Innermost(engine.stack, i - 1)].data

LogicalData ==
  IF st.failed THEN Durable(engine)
  ELSE IF st.pending = <<>> THEN engine.data
  ELSE Snapshot(st.depth + 1)

LogicalScopes ==
  IF st.failed THEN <<>> ELSE [i \in 1 .. st.depth |-> Snapshot(i)]

Nested == INSTANCE NestedTransactions WITH
  durable <- Durable(engine),
  data    <- LogicalData,
  scopes  <- LogicalScopes,
  usable  <- ~st.failed,
  call    <- op

(* Holds for the faults in which the engine, not the application, is in      *)
(* control of its transactions: fault sets within {"busy", "conflict"}.      *)
ImplementsNested == Nested!Spec
=============================================================================
