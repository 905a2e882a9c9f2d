------------------------------ MODULE Migration ------------------------------
(* The migration support of migrate.rs: Migrators run at the same time on    *)
(* connections to one database file, each driving the Migrate methods in the *)
(* order of sqlx_core's Migrator (ensure table, dirty_version, list, then    *)
(* apply, skip or revert).  lock() and unlock() do nothing in this adapter,  *)
(* so nothing keeps two migrators apart except the engine's write lock.      *)
(*                                                                           *)
(* A script is Parts statements, none of which can run twice (CREATE TABLE). *)
(* A step is one statement of one connection; a migrator may crash between   *)
(* any two of them, and a statement may fail.                                *)
EXTENDS Naturals, FiniteSets

CONSTANTS
  Migrators,      \* processes, each with a connection of its own
  NoOne,          \* not a migrator
  Versions,       \* versions of the migrations, in the order they apply
  NoTx,           \* those marked `-- no-transaction`
  Parts,          \* statements per script
  MaxRuns,        \* bound: runs started by all migrators
  Faults          \* "sql": a statement may fail; "commit": a COMMIT may fail;
                  \* "crash": a process may die

ASSUME MigrationAssumption ==
  /\ NoOne \notin Migrators
  /\ Versions \subseteq Nat \ {0}
  /\ IsFiniteSet(Versions)
  /\ NoTx \subseteq Versions
  /\ Parts \in Nat \ {0}
  /\ MaxRuns \in Nat
  /\ Faults \subseteq {"sql", "commit", "crash"}

VARIABLES
  table,      \* the migrations table exists
  rows,       \* its row per version: "none", "ok", "skipped" or "dirty"
  schema,     \* how many statements of each script are in force
  writer,     \* the migrator whose transaction holds the write lock, or NoOne
  work,       \* the rows and schema of that transaction
  pc,         \* where each migrator is
  cur,        \* the version each migrator works on
  part,       \* the statements of its script in force as far as it knows
  known,      \* the versions each migrator read from the table
  doomed,     \* the migrator's connection has a queued rollback
  runs,       \* runs started
  met         \* a run has started while another was under way

db == <<table, rows, schema>>
vars == <<table, rows, schema, writer, work, pc, cur, part, known, doomed, runs, met>>

Committed == [rows |-> rows, schema |-> schema]

Init ==
  /\ table = FALSE
  /\ rows = [v \in Versions |-> "none"]
  /\ schema = [v \in Versions |-> 0]
  /\ writer = NoOne
  /\ work = Committed
  /\ pc = [m \in Migrators |-> "idle"]
  /\ cur = [m \in Migrators |-> 0]
  /\ part = [m \in Migrators |-> 0]
  /\ known = [m \in Migrators |-> {}]
  /\ doomed = [m \in Migrators |-> FALSE]
  /\ runs = 0
  /\ met = FALSE

-----------------------------------------------------------------------------
(* The engine: one writer at a time, autocommit outside a transaction.       *)

Goto(m, label) == pc' = [pc EXCEPT ![m] = label]

(* The write lock is free for m; otherwise its statement fails as busy. *)
CanWrite(m) == writer \in {NoOne, m}

InTx(m) == cur[m] \notin NoTx

(* The content m writes to. *)
View(m) == IF writer = m THEN work ELSE Committed

(* Faulty: the statements of a script do not share a transaction. *)
PutAutocommit(m, new) ==
  /\ rows' = new.rows
  /\ schema' = new.schema
  /\ UNCHANGED <<table, writer, work>>

(* m's statement leaves `new` inside its transaction, or commits it. *)
Put(m, new) ==
  IF InTx(m)
  THEN writer' = m /\ work' = new /\ UNCHANGED db
  ELSE /\ rows' = new.rows
       /\ schema' = new.schema
       /\ UNCHANGED <<table, writer, work>>

(* Dropping m's open Transaction queues its rollback; the lock stays taken   *)
(* until the connection is used again.                                       *)
DropTx(m) == doomed' = [doomed EXCEPT ![m] = InTx(m)]

(* Faulty: the rollback runs but stays in the queue. *)
ClearPendingKeeps(m) ==
  /\ doomed[m]
  /\ pc[m] # "idle"
  /\ writer' = IF writer = m THEN NoOne ELSE writer
  /\ UNCHANGED <<table, rows, schema, work, pc, cur, part, known, doomed, runs>>

(* clear_pending_rollback on m's next use of its connection. *)
ClearPending(m) ==
  /\ doomed[m]
  /\ pc[m] # "idle"
  /\ doomed' = [doomed EXCEPT ![m] = FALSE]
  /\ writer' = IF writer = m THEN NoOne ELSE writer
  /\ UNCHANGED <<table, rows, schema, work, pc, cur, part, known, runs>>

At(m, label) == pc[m] = label /\ ~doomed[m]

-----------------------------------------------------------------------------
(* Migrator::run and Migrator::undo up to the first migration.               *)

Start(m) ==
  /\ pc[m] = "idle"
  /\ runs < MaxRuns
  /\ runs' = runs + 1
  /\ met' = (met \/ \E n \in Migrators : pc[n] # "idle")
  /\ Goto(m, "ensure")
  /\ UNCHANGED <<table, rows, schema, writer, work, cur, part, known, doomed>>

(* CREATE TABLE IF NOT EXISTS. *)
EnsureTable(m) ==
  /\ At(m, "ensure")
  /\ \/ table /\ UNCHANGED table
     \/ ~table /\ CanWrite(m) /\ table' = TRUE
  /\ Goto(m, "check")
  /\ UNCHANGED <<rows, schema, writer, work, cur, part, known, doomed, runs>>

DirtyVersions == {v \in Versions : rows[v] = "dirty"}

(* A dirty version ends the run with MigrateError::Dirty. *)
CheckDirty(m) ==
  /\ At(m, "check")
  /\ Goto(m, IF DirtyVersions = {} THEN "list" ELSE "idle")
  /\ UNCHANGED <<table, rows, schema, writer, work, cur, part, known, doomed, runs>>

ListApplied(m) ==
  /\ At(m, "list")
  /\ known' = [known EXCEPT ![m] = {v \in Versions : rows[v] # "none"}]
  /\ \E dir \in {"up", "down"} : Goto(m, dir)
  /\ UNCHANGED <<table, rows, schema, writer, work, cur, part, doomed, runs>>

Unknown(m) == Versions \ known[m]

(* The lowest version that was not applied is next, and is applied or, on    *)
(* request, skipped; BEGIN is deferred and takes no lock.                    *)
NextUp(m) ==
  /\ At(m, "up")
  /\ \E v \in Unknown(m) :
       /\ \A u \in Unknown(m) : v <= u
       /\ cur' = [cur EXCEPT ![m] = v]
  /\ part' = [part EXCEPT ![m] = 0]
  /\ \E label \in {"script", "skip"} : Goto(m, label)
  /\ UNCHANGED <<table, rows, schema, writer, work, known, doomed, runs>>

(* undo reverts the highest version that was applied. *)
NextDown(m) ==
  /\ At(m, "down")
  /\ \E v \in known[m] :
       /\ \A u \in known[m] : u <= v
       /\ cur' = [cur EXCEPT ![m] = v]
  /\ part' = [part EXCEPT ![m] = Parts]
  /\ Goto(m, "revert")
  /\ UNCHANGED <<table, rows, schema, writer, work, known, doomed, runs>>

Finish(m) ==
  /\ \/ At(m, "up") /\ Unknown(m) = {}
     \/ At(m, "down")
  /\ Goto(m, "idle")
  /\ UNCHANGED <<table, rows, schema, writer, work, cur, part, known, doomed, runs>>

-----------------------------------------------------------------------------
(* apply.                                                                    *)

WithRow(m, status) == [View(m) EXCEPT !.rows[cur[m]] = status]
WithParts(m, n) == [View(m) EXCEPT !.schema[cur[m]] = n]

(* A statement fails: the lock is taken, its object is not as the script     *)
(* expects, or for any other reason.                                         *)
StatementFails(m, expected) ==
  ~CanWrite(m) \/ ~expected \/ "sql" \in Faults

(* The script creates something that exists, or needs what does not. *)
ScriptFits(m) == View(m).schema[cur[m]] = part[m]

ScriptStatement(m) ==
  /\ At(m, "script")
  /\ part[m] < Parts
  /\ CanWrite(m)
  /\ ScriptFits(m)
  /\ Put(m, WithParts(m, part[m] + 1))
  /\ part' = [part EXCEPT ![m] = @ + 1]
  /\ UNCHANGED <<pc, cur, known, doomed, runs>>

(* INSERT OR REPLACE of the success row, by the connection that ran the      *)
(* script and inside its transaction if it has one.                          *)
InsertRow(m) ==
  /\ At(m, "script")
  /\ part[m] = Parts
  /\ CanWrite(m)
  /\ Put(m, WithRow(m, "ok"))
  /\ Goto(m, IF InTx(m) THEN "commit" ELSE "time")
  /\ UNCHANGED <<cur, part, known, doomed, runs>>

(* execute_migration returns Err; the Transaction goes out of scope. *)
ExecuteFails(m) ==
  /\ At(m, "script")
  /\ StatementFails(m, part[m] < Parts => ScriptFits(m))
  /\ DropTx(m)
  /\ Goto(m, "dirty")
  /\ UNCHANGED <<table, rows, schema, writer, work, cur, part, known, runs>>

(* Faulty: the row is inserted by a statement of its own after the commit.   *)
CommitForgetsRow(m) ==
  /\ At(m, "commit")
  /\ schema' = work.schema
  /\ writer' = NoOne
  /\ Goto(m, "time")
  /\ UNCHANGED <<table, rows, work, cur, part, known, doomed, runs>>

Commit(m) ==
  /\ At(m, "commit")
  /\ rows' = work.rows
  /\ schema' = work.schema
  /\ writer' = NoOne
  /\ Goto(m, "time")
  /\ UNCHANGED <<table, work, cur, part, known, doomed, runs>>

(* The `?` after commit() returns before the dirty row is written.  The      *)
(* engine may keep the transaction or have given it up.                      *)
CommitFails(m) ==
  /\ "commit" \in Faults
  /\ pc[m] \in {"commit", "uncommit"} /\ ~doomed[m]
  /\ writer' \in {m, NoOne}
  /\ DropTx(m)
  /\ Goto(m, "idle")
  /\ UNCHANGED <<table, rows, schema, work, cur, part, known, runs>>

(* Faulty: the failure is recorded nowhere and the run goes on. *)
RecordFailureSwallowed(m) ==
  /\ At(m, "dirty")
  /\ known' = [known EXCEPT ![m] = @ \cup {cur[m]}]
  /\ Goto(m, "up")
  /\ UNCHANGED <<table, rows, schema, writer, work, cur, part, doomed, runs>>

(* INSERT OR REPLACE of the failure row, outside any transaction. *)
RecordFailure(m) ==
  /\ At(m, "dirty")
  /\ CanWrite(m)
  /\ rows' = [rows EXCEPT ![cur[m]] = "dirty"]
  /\ Goto(m, "idle")
  /\ UNCHANGED <<table, schema, writer, work, cur, part, known, doomed, runs>>

(* UPDATE of the execution time; apply is done. *)
UpdateTime(m) ==
  /\ At(m, "time")
  /\ CanWrite(m)
  /\ known' = [known EXCEPT ![m] = @ \cup {cur[m]}]
  /\ Goto(m, "up")
  /\ UNCHANGED <<table, rows, schema, writer, work, cur, part, doomed, runs>>

(* The statements whose failure only ends the run with an error: CREATE      *)
(* TABLE, the dirty row, the execution time, the row of a skipped version,   *)
(* the two SELECTs and the BEGIN of a transaction.                           *)
PlainFails(m) ==
  /\ \/ /\ \E label \in {"ensure", "dirty", "time", "skip"} : At(m, label)
        /\ StatementFails(m, pc[m] = "skip" => rows[cur[m]] = "none")
     \/ /\ \E label \in {"check", "list", "up", "down"} : At(m, label)
        /\ "sql" \in Faults
  /\ Goto(m, "idle")
  /\ UNCHANGED <<table, rows, schema, writer, work, cur, part, known, doomed, runs>>

-----------------------------------------------------------------------------
(* skip: INSERT, which fails if the row exists.                              *)

Skip(m) ==
  /\ At(m, "skip")
  /\ CanWrite(m)
  /\ rows[cur[m]] = "none"
  /\ rows' = [rows EXCEPT ![cur[m]] = "skipped"]
  /\ known' = [known EXCEPT ![m] = @ \cup {cur[m]}]
  /\ Goto(m, "up")
  /\ UNCHANGED <<table, schema, writer, work, cur, part, doomed, runs>>

-----------------------------------------------------------------------------
(* revert.                                                                   *)

RevertStatement(m) ==
  /\ At(m, "revert")
  /\ part[m] > 0
  /\ CanWrite(m)
  /\ ScriptFits(m)
  /\ Put(m, WithParts(m, part[m] - 1))
  /\ part' = [part EXCEPT ![m] = @ - 1]
  /\ UNCHANGED <<pc, cur, known, doomed, runs>>

(* DELETE of the row; without a transaction this ends the revert. *)
DeleteRow(m) ==
  /\ At(m, "revert")
  /\ part[m] = 0
  /\ CanWrite(m)
  /\ Put(m, WithRow(m, "none"))
  /\ known' = [known EXCEPT ![m] = @ \ {cur[m]}]
  /\ Goto(m, IF InTx(m) THEN "uncommit" ELSE "down")
  /\ UNCHANGED <<cur, part, doomed, runs>>

CommitRevert(m) ==
  /\ At(m, "uncommit")
  /\ rows' = work.rows
  /\ schema' = work.schema
  /\ writer' = NoOne
  /\ Goto(m, "down")
  /\ UNCHANGED <<table, work, cur, part, known, doomed, runs>>

(* revert_migration returns Err and nothing is recorded. *)
RevertFails(m) ==
  /\ At(m, "revert")
  /\ StatementFails(m, part[m] > 0 => ScriptFits(m))
  /\ DropTx(m)
  /\ Goto(m, "idle")
  /\ UNCHANGED <<table, rows, schema, writer, work, cur, part, known, runs>>

-----------------------------------------------------------------------------
(* The process dies or closes its connection: the engine rolls back.         *)
Crash(m) ==
  /\ "crash" \in Faults
  /\ pc[m] # "idle" \/ doomed[m]
  /\ writer' = IF writer = m THEN NoOne ELSE writer
  /\ doomed' = [doomed EXCEPT ![m] = FALSE]
  /\ Goto(m, "idle")
  /\ UNCHANGED <<table, rows, schema, work, cur, part, known, runs>>

Step(m) ==
  \/ ClearPending(m)
  \/ EnsureTable(m)
  \/ CheckDirty(m)
  \/ ListApplied(m)
  \/ NextUp(m)
  \/ NextDown(m)
  \/ Finish(m)
  \/ ScriptStatement(m)
  \/ InsertRow(m)
  \/ ExecuteFails(m)
  \/ Commit(m)
  \/ CommitFails(m)
  \/ RecordFailure(m)
  \/ UpdateTime(m)
  \/ PlainFails(m)
  \/ Skip(m)
  \/ RevertStatement(m)
  \/ DeleteRow(m)
  \/ CommitRevert(m)
  \/ RevertFails(m)

Next ==
  \E m \in Migrators :
    \/ Start(m)
    \/ (Step(m) \/ Crash(m)) /\ UNCHANGED met

Spec == Init /\ [][Next]_vars

(* A migrator that is not dead goes on. *)
FairSpec == Spec /\ \A m \in Migrators : WF_vars(Step(m) /\ UNCHANGED met)

-----------------------------------------------------------------------------
(* Properties.                                                               *)

Statuses == {"none", "ok", "skipped", "dirty"}
Labels == {"idle", "ensure", "check", "list", "up", "down", "script", "commit",
           "time", "dirty", "skip", "revert", "uncommit"}

(* Type correctness: `part` never leaves the script, rows have one status. *)
TypeOK ==
  /\ table \in BOOLEAN
  /\ rows \in [Versions -> Statuses]
  /\ schema \in [Versions -> 0 .. Parts]
  /\ writer \in Migrators \cup {NoOne}
  /\ work \in [rows : [Versions -> Statuses], schema : [Versions -> 0 .. Parts]]
  /\ pc \in [Migrators -> Labels]
  /\ cur \in [Migrators -> Versions \cup {0}]
  /\ part \in [Migrators -> 0 .. Parts]
  /\ known \in [Migrators -> SUBSET Versions]
  /\ doomed \in [Migrators -> BOOLEAN]
  /\ runs \in 0 .. MaxRuns
  /\ met \in BOOLEAN

(* The script of a transactional migration and its row take effect together, *)
(* whoever else migrates and wherever a process dies: a success row means    *)
(* the whole script is in force, no row or a skipped one means none of it is *)
(* (execute_migration and revert_migration inside one Transaction).          *)
ScriptAndRowTogether ==
  \A v \in Versions \ NoTx :
    /\ rows[v] = "ok" => schema[v] = Parts
    /\ rows[v] \in {"none", "skipped"} => schema[v] = 0

(* A dirty row of a transactional migration has left nothing behind: its     *)
(* transaction was rolled back before the row was written (apply,            *)
(* clear_pending_rollback).  Only where two runs met is a dirty row beside a *)
(* script in force: the loser of the race has replaced the winner's row.     *)
DirtyLeavesNothing ==
  \A v \in Versions \ NoTx : rows[v] = "dirty" /\ ~met => schema[v] = 0

(* As long as no two runs met, no migration is in force above one that has   *)
(* no row: versions apply upwards and revert downwards, across failures and  *)
(* crashes, whichever migrator goes next.                                    *)
InOrder ==
  ~met => \A u, v \in Versions : u < v /\ rows[u] = "none" => rows[v] = "none"

(* The write lock is never orphaned: its holder is inside a run or will roll *)
(* back on its next use (apply, revert, mark_rollback_needed).               *)
LockHasOwner ==
  \A m \in Migrators : writer = m => pc[m] # "idle" \/ doomed[m]

(* Every run comes to an end, whoever holds the lock. *)
RunsEnd == \A m \in Migrators : (pc[m] # "idle") ~> (pc[m] = "idle")
=============================================================================
