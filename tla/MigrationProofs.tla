--------------------------- MODULE MigrationProofs ---------------------------
(* Theorems about migrators that meet, fail and die, for any number of       *)
(* migrators, versions, statements and runs.                                 *)
EXTENDS Migration, TLAPS

USE MigrationAssumption

-----------------------------------------------------------------------------
(* Type correctness.                                                         *)

Contents == [rows : [Versions -> Statuses], schema : [Versions -> 0 .. Parts]]

(* The labels at which a migrator works on a version. *)
Working == {"script", "commit", "time", "dirty", "skip", "revert", "uncommit"}

TypeInv ==
  TypeOK /\ \A m \in Migrators : pc[m] \in Working => cur[m] \in Versions

LEMMA ViewType ==
  ASSUME TypeOK, NEW m \in Migrators
  PROVE  View(m) \in Contents
  BY DEF TypeOK, View, Committed, Contents

(* The content a statement leaves behind. *)
LEMMA WithRowIs ==
  ASSUME TypeOK, NEW m \in Migrators, cur[m] \in Versions, NEW s \in Statuses
  PROVE  /\ WithRow(m, s) \in Contents
         /\ WithRow(m, s).rows = [View(m).rows EXCEPT ![cur[m]] = s]
         /\ WithRow(m, s).schema = View(m).schema
  BY ViewType DEF WithRow, Contents

LEMMA WithPartsIs ==
  ASSUME TypeOK, NEW m \in Migrators, cur[m] \in Versions, NEW n \in 0 .. Parts
  PROVE  /\ WithParts(m, n) \in Contents
         /\ WithParts(m, n).rows = View(m).rows
         /\ WithParts(m, n).schema = [View(m).schema EXCEPT ![cur[m]] = n]
  BY ViewType DEF WithParts, Contents

LEMMA PutType ==
  ASSUME TypeOK, NEW m \in Migrators, NEW new \in Contents, Put(m, new)
  PROVE  /\ table' \in BOOLEAN
         /\ rows' \in [Versions -> Statuses]
         /\ schema' \in [Versions -> 0 .. Parts]
         /\ writer' \in Migrators \cup {NoOne}
         /\ work' \in Contents
  BY DEF TypeOK, Put, Contents, db

LEMMA InitTypes ==
  ASSUME Init
  PROVE  TypeInv
<1>1. /\ schema \in [Versions -> 0 .. Parts]
      /\ part \in [Migrators -> 0 .. Parts]
      /\ cur \in [Migrators -> Versions \cup {0}]
      /\ runs \in 0 .. MaxRuns
  BY DEF Init
<1>2. rows \in [Versions -> Statuses]
  BY DEF Init, Statuses
<1>3. work \in Contents
  BY <1>1, <1>2 DEF Init, Committed, Contents
<1>4. table \in BOOLEAN /\ doomed \in [Migrators -> BOOLEAN] /\ met \in BOOLEAN
  BY DEF Init
<1>5. /\ writer \in Migrators \cup {NoOne}
      /\ pc \in [Migrators -> Labels]
      /\ known \in [Migrators -> SUBSET Versions]
      /\ \A m \in Migrators : pc[m] \notin Working
  BY DEF Init, Labels, Working
<1> QED
  BY <1>1, <1>2, <1>3, <1>4, <1>5 DEF TypeInv, TypeOK, Contents

LEMMA StartTypes ==
  ASSUME TypeInv, NEW m \in Migrators, Start(m)
  PROVE  TypeInv'
<1>1. runs' \in 0 .. MaxRuns
  BY DEF Start, TypeInv, TypeOK
<1>2. met' \in BOOLEAN
  BY DEF Start
<1> QED
  BY <1>1, <1>2 DEF Start, Goto, TypeInv, TypeOK, Labels, Working

(* The statements of a script or of its row. *)
LEMMA PutTypes ==
  ASSUME TypeInv, NEW m \in Migrators, UNCHANGED met,
         ScriptStatement(m) \/ InsertRow(m) \/ RevertStatement(m) \/ DeleteRow(m)
  PROVE  TypeInv'
<1>1. cur[m] \in Versions
  BY DEF TypeInv, Working, At, ScriptStatement, InsertRow, RevertStatement, DeleteRow
<1>2. CASE ScriptStatement(m)
  <2>1. part[m] + 1 \in 0 .. Parts
    BY <1>2 DEF ScriptStatement, TypeInv, TypeOK
  <2> DEFINE new == WithParts(m, part[m] + 1)
  <2>2. new \in Contents
    BY <1>1, <2>1, WithPartsIs DEF TypeInv
  <2>3. Put(m, new)
    BY <1>2 DEF ScriptStatement
  <2> HIDE DEF new
  <2>4. TypeOK'
    BY <1>2, <2>1, <2>2, <2>3, PutType DEF ScriptStatement, TypeInv, TypeOK, Contents
  <2> QED
    BY <1>2, <2>4 DEF ScriptStatement, TypeInv
<1>3. CASE RevertStatement(m)
  <2>1. part[m] - 1 \in 0 .. Parts
    BY <1>3 DEF RevertStatement, TypeInv, TypeOK
  <2> DEFINE new == WithParts(m, part[m] - 1)
  <2>2. new \in Contents
    BY <1>1, <2>1, WithPartsIs DEF TypeInv
  <2>3. Put(m, new)
    BY <1>3 DEF RevertStatement
  <2> HIDE DEF new
  <2>4. TypeOK'
    BY <1>3, <2>1, <2>2, <2>3, PutType DEF RevertStatement, TypeInv, TypeOK, Contents
  <2> QED
    BY <1>3, <2>4 DEF RevertStatement, TypeInv
<1>4. CASE InsertRow(m)
  <2> DEFINE new == WithRow(m, "ok")
  <2>1. new \in Contents
    BY <1>1, WithRowIs DEF TypeInv, Statuses
  <2>2. Put(m, new)
    BY <1>4 DEF InsertRow
  <2> HIDE DEF new
  <2>3. TypeOK'
    BY <1>4, <2>1, <2>2, PutType DEF InsertRow, Goto, TypeInv, TypeOK, Contents, Labels
  <2> QED
    BY <1>1, <1>4, <2>3 DEF InsertRow, Goto, TypeInv, TypeOK
<1>5. CASE DeleteRow(m)
  <2> DEFINE new == WithRow(m, "none")
  <2>1. new \in Contents
    BY <1>1, WithRowIs DEF TypeInv, Statuses
  <2>2. Put(m, new)
    BY <1>5 DEF DeleteRow
  <2> HIDE DEF new
  <2>3. TypeOK'
    BY <1>5, <2>1, <2>2, PutType DEF DeleteRow, Goto, TypeInv, TypeOK, Contents, Labels
  <2> QED
    BY <1>1, <1>5, <2>3 DEF DeleteRow, Goto, TypeInv, TypeOK
<1> QED BY <1>2, <1>3, <1>4, <1>5
(* CREATE TABLE, the two SELECTs and the way to the next migration.          *)
LEMMA WayTypes ==
  ASSUME TypeInv, NEW m \in Migrators, UNCHANGED met,
         EnsureTable(m) \/ CheckDirty(m) \/ ListApplied(m) \/ Finish(m) \/ PlainFails(m)
  PROVE  TypeInv'
<1>1. CASE EnsureTable(m)
  BY <1>1 DEF EnsureTable, Goto, TypeInv, TypeOK, Labels, Working
<1>2. CASE CheckDirty(m)
  BY <1>2 DEF CheckDirty, Goto, TypeInv, TypeOK, Labels, Working
<1>3. CASE ListApplied(m)
  BY <1>3 DEF ListApplied, Goto, TypeInv, TypeOK, Labels, Working
<1>4. CASE Finish(m)
  BY <1>4 DEF Finish, Goto, TypeInv, TypeOK, Labels, Working
<1>5. CASE PlainFails(m)
  BY <1>5 DEF PlainFails, Goto, TypeInv, TypeOK, Labels, Working
<1> QED BY <1>1, <1>2, <1>3, <1>4, <1>5

LEMMA NextVersionTypes ==
  ASSUME TypeInv, NEW m \in Migrators, UNCHANGED met, NextUp(m) \/ NextDown(m)
  PROVE  TypeInv'
<1>1. CASE NextUp(m)
  <2>1. PICK v \in Versions : cur' = [cur EXCEPT ![m] = v]
    BY <1>1 DEF NextUp, Unknown
  <2>2. part' \in [Migrators -> 0 .. Parts]
    BY <1>1 DEF NextUp, TypeInv, TypeOK
  <2>3. pc' \in [Migrators -> Labels] /\ \A n \in Migrators \ {m} : pc'[n] = pc[n]
    BY <1>1 DEF NextUp, Goto, TypeInv, TypeOK, Labels
  <2> QED
    BY <1>1, <2>1, <2>2, <2>3 DEF NextUp, TypeInv, TypeOK
<1>2. CASE NextDown(m)
  <2>1. PICK v \in Versions : cur' = [cur EXCEPT ![m] = v]
    BY <1>2 DEF NextDown, TypeInv, TypeOK
  <2>2. part' \in [Migrators -> 0 .. Parts]
    BY <1>2 DEF NextDown, TypeInv, TypeOK
  <2>3. pc' \in [Migrators -> Labels] /\ \A n \in Migrators \ {m} : pc'[n] = pc[n]
    BY <1>2 DEF NextDown, Goto, TypeInv, TypeOK, Labels
  <2> QED
    BY <1>2, <2>1, <2>2, <2>3 DEF NextDown, TypeInv, TypeOK
<1> QED BY <1>1, <1>2

(* The end of a migration, one way or the other.                             *)
LEMMA EndTypes ==
  ASSUME TypeInv, NEW m \in Migrators, UNCHANGED met,
         \/ ClearPending(m) \/ ExecuteFails(m) \/ Commit(m) \/ CommitFails(m)
         \/ RecordFailure(m) \/ UpdateTime(m) \/ Skip(m) \/ CommitRevert(m)
         \/ RevertFails(m) \/ Crash(m)
  PROVE  TypeInv'
<1>1. CASE ClearPending(m)
  BY <1>1 DEF ClearPending, TypeInv, TypeOK
<1>2. CASE ExecuteFails(m)
  BY <1>2 DEF ExecuteFails, DropTx, InTx, At, Goto, TypeInv, TypeOK, Labels, Working
<1>3. CASE Commit(m)
  BY <1>3 DEF Commit, At, Goto, TypeInv, TypeOK, Labels, Working
<1>4. CASE CommitFails(m)
  BY <1>4 DEF CommitFails, DropTx, InTx, At, Goto, TypeInv, TypeOK, Labels, Working
<1>5. CASE RecordFailure(m)
  BY <1>5 DEF RecordFailure, At, Goto, TypeInv, TypeOK, Labels, Working, Statuses
<1>6. CASE UpdateTime(m)
  BY <1>6 DEF UpdateTime, At, Goto, TypeInv, TypeOK, Labels, Working
<1>7. CASE Skip(m)
  BY <1>7 DEF Skip, At, Goto, TypeInv, TypeOK, Labels, Working, Statuses
<1>8. CASE CommitRevert(m)
  BY <1>8 DEF CommitRevert, At, Goto, TypeInv, TypeOK, Labels, Working
<1>9. CASE RevertFails(m)
  BY <1>9 DEF RevertFails, DropTx, InTx, At, Goto, TypeInv, TypeOK, Labels, Working
<1>10. CASE Crash(m)
  BY <1>10 DEF Crash, Goto, TypeInv, TypeOK, Labels, Working
<1> QED
  BY <1>1, <1>2, <1>3, <1>4, <1>5, <1>6, <1>7, <1>8, <1>9, <1>10

LEMMA StepTypes ==
  ASSUME TypeInv, NEW m \in Migrators, Step(m) \/ Crash(m), UNCHANGED met
  PROVE  TypeInv'
  BY PutTypes, WayTypes, NextVersionTypes, EndTypes DEF Step

LEMMA TypeAlways == Spec => []TypeInv
<1>1. TypeInv /\ [Next]_vars => TypeInv'
  <2> SUFFICES ASSUME TypeInv, [Next]_vars PROVE TypeInv'
    OBVIOUS
  <2>1. CASE UNCHANGED vars
    BY <2>1 DEF TypeInv, TypeOK, vars
  <2> QED
    BY <2>1, StartTypes, StepTypes DEF Next
<1> QED BY <1>1, InitTypes, PTL DEF Spec

(* No run leaves its script, and every version has one of the four statuses. *)
THEOREM TypeCorrect == Spec => []TypeOK
<1>1. TypeInv => TypeOK
  BY DEF TypeInv
<1> QED BY <1>1, TypeAlways, PTL

-----------------------------------------------------------------------------
(* The write lock and the content of its transaction.                        *)

(* m has begun to write inside a transaction. *)
Begun(m) ==
  /\ InTx(m)
  /\ \/ pc[m] \in {"commit", "uncommit"}
     \/ pc[m] = "script" /\ part[m] > 0
     \/ pc[m] = "revert" /\ part[m] < Parts

Writing(m) == writer = m /\ ~doomed[m]

(* A dropped transaction ends its run, or is about to be recorded; who       *)
(* writes is inside a script or at its commit; who has begun holds the lock. *)
Locked(m) ==
  /\ doomed[m] => pc[m] \in {"idle", "ensure", "dirty"}
  /\ pc[m] \in {"commit", "uncommit"} => InTx(m)
  /\ Writing(m) => InTx(m) /\ pc[m] \in {"script", "commit", "revert", "uncommit"}
  /\ Begun(m) => writer = m

(* The transaction differs from what is committed in m's version only, as    *)
(* far as its script has come. *)
Wrote(m) ==
  Writing(m) =>
    /\ \A v \in Versions \ {cur[m]} :
         work.rows[v] = rows[v] /\ work.schema[v] = schema[v]
    /\ pc[m] \in {"script", "revert"} => work.schema[cur[m]] = part[m]
    /\ pc[m] = "commit" => work.rows[cur[m]] = "ok" /\ work.schema[cur[m]] = Parts
    /\ pc[m] = "uncommit" => work.rows[cur[m]] = "none" /\ work.schema[cur[m]] = 0

WriteInv == \A m \in Migrators : Locked(m) /\ Wrote(m)

-----------------------------------------------------------------------------
(* Runs that do not meet.                                                    *)

PastCheck == {"list", "up", "down"} \cup Working

Applied == {v \in Versions : rows[v] # "none"}

(* m knows the table as it is, but for the version it works on.              *)
Knows(m) ==
  /\ pc[m] \in {"up", "down", "script", "skip", "commit", "revert"} => known[m] = Applied
  /\ pc[m] = "time" => rows[cur[m]] = "ok" /\ known[m] = Applied \ {cur[m]}
  /\ pc[m] = "uncommit" => known[m] = Applied \ {cur[m]}

(* m goes up from the lowest version without a row, and down from the        *)
(* highest one with a row. *)
AtTheEdge(m) ==
  /\ pc[m] \in {"script", "skip", "commit", "dirty"} =>
       /\ rows[cur[m]] = "none"
       /\ \A v \in Versions : v < cur[m] => rows[v] # "none"
  /\ pc[m] \in {"revert", "uncommit"} =>
       \A v \in Versions : cur[m] < v => rows[v] = "none"

(* No run goes past the check while a version is dirty, and no other run is  *)
(* under way. *)
Apart(m) ==
  /\ \A n \in Migrators : pc[m] # "idle" /\ pc[n] # "idle" => m = n
  /\ pc[m] \in PastCheck => DirtyVersions = {}

ApartInv == ~met => \A m \in Migrators : Knows(m) /\ AtTheEdge(m) /\ Apart(m)

-----------------------------------------------------------------------------
(* The write lock, step by step.                                             *)

(* A step of m leaves the others where they are, and writes only if the lock *)
(* is free or its own. *)
Mine(m) ==
  /\ \A n \in Migrators \ {m} :
       /\ pc'[n] = pc[n] /\ cur'[n] = cur[n] /\ part'[n] = part[n]
       /\ known'[n] = known[n] /\ (doomed'[n] <=> doomed[n])
  /\ \/ writer' = writer /\ UNCHANGED <<rows, schema, work>>
     \/ CanWrite(m) /\ writer' \in {NoOne, m}

LEMMA PutIsMine ==
  ASSUME NEW m, NEW new, CanWrite(m), Put(m, new)
  PROVE  writer' \in {NoOne, m}
  BY DEF Put, CanWrite

LEMMA StepIsMine ==
  ASSUME TypeInv, WriteInv, NEW m \in Migrators, Start(m) \/ Step(m) \/ Crash(m)
  PROVE  Mine(m)
<1>1. \A n \in Migrators \ {m} :
        /\ pc'[n] = pc[n] /\ cur'[n] = cur[n] /\ part'[n] = part[n]
        /\ known'[n] = known[n] /\ (doomed'[n] <=> doomed[n])
  <2> SUFFICES ASSUME NEW n \in Migrators \ {m}
      PROVE  /\ pc'[n] = pc[n] /\ cur'[n] = cur[n] /\ part'[n] = part[n]
             /\ known'[n] = known[n] /\ (doomed'[n] <=> doomed[n])
    OBVIOUS
  <2>1. CASE Start(m) \/ Crash(m) \/ ClearPending(m) \/ EnsureTable(m) \/ CheckDirty(m) \/ ListApplied(m)
    BY <2>1 DEF Start, Crash, ClearPending, EnsureTable, CheckDirty, ListApplied, Goto, TypeInv, TypeOK
  <2>2. CASE NextUp(m) \/ NextDown(m) \/ Finish(m) \/ PlainFails(m) \/ Skip(m) \/ UpdateTime(m)
    BY <2>2 DEF NextUp, NextDown, Finish, PlainFails, Skip, UpdateTime, Goto, TypeInv, TypeOK
  <2>3. CASE ScriptStatement(m) \/ InsertRow(m) \/ RevertStatement(m) \/ DeleteRow(m)
    BY <2>3 DEF ScriptStatement, InsertRow, RevertStatement, DeleteRow, Goto, TypeInv, TypeOK
  <2>4. CASE \/ ExecuteFails(m) \/ RevertFails(m) \/ CommitFails(m)
             \/ Commit(m) \/ CommitRevert(m) \/ RecordFailure(m)
    BY <2>4 DEF ExecuteFails, RevertFails, CommitFails, Commit, CommitRevert, RecordFailure,
                DropTx, Goto, TypeInv, TypeOK
  <2> QED BY <2>1, <2>2, <2>3, <2>4 DEF Step
<1>2. \/ writer' = writer /\ UNCHANGED <<rows, schema, work>>
      \/ CanWrite(m) /\ writer' \in {NoOne, m}
  <2>1. CASE \/ Start(m) \/ EnsureTable(m) \/ CheckDirty(m) \/ ListApplied(m) \/ NextUp(m)
             \/ NextDown(m) \/ Finish(m) \/ PlainFails(m) \/ UpdateTime(m)
             \/ ExecuteFails(m) \/ RevertFails(m)
    BY <2>1 DEF Start, EnsureTable, CheckDirty, ListApplied, NextUp, NextDown, Finish,
                PlainFails, UpdateTime, ExecuteFails, RevertFails
  <2>2. CASE ScriptStatement(m) \/ InsertRow(m) \/ RevertStatement(m) \/ DeleteRow(m)
    BY <2>2, PutIsMine DEF ScriptStatement, InsertRow, RevertStatement, DeleteRow
  <2>3. CASE Skip(m) \/ RecordFailure(m)
    BY <2>3 DEF Skip, RecordFailure, CanWrite
  <2>4. CASE Commit(m) \/ CommitRevert(m) \/ CommitFails(m)
    <3>1. writer = m
      BY <2>4 DEF WriteInv, Locked, Begun, Commit, CommitRevert, CommitFails, At
    <3> QED BY <2>4, <3>1 DEF Commit, CommitRevert, CommitFails, CanWrite
  <2>5. CASE ClearPending(m) \/ Crash(m)
    BY <2>5 DEF ClearPending, Crash, CanWrite
  <2> QED BY <2>1, <2>2, <2>3, <2>4, <2>5 DEF Step
<1> QED BY <1>1, <1>2 DEF Mine

(* So m's steps keep what the invariant says of the others.                  *)
LEMMA OthersKeep ==
  ASSUME TypeInv, WriteInv, NEW m \in Migrators, Mine(m), NEW n \in Migrators \ {m}
  PROVE  Locked(n)' /\ Wrote(n)'
<1>1. /\ pc'[n] = pc[n] /\ cur'[n] = cur[n] /\ part'[n] = part[n]
      /\ (doomed'[n] <=> doomed[n])
  BY DEF Mine
<1>2. n # NoOne /\ n # m
  OBVIOUS
<1>3. (writer' = n) <=> (writer = n)
  BY <1>2 DEF Mine, CanWrite
<1>4. (Begun(n)' <=> Begun(n)) /\ (InTx(n)' <=> InTx(n)) /\ (Writing(n)' <=> Writing(n))
  BY <1>1, <1>3 DEF Begun, InTx, Writing
<1>5. Locked(n)'
  BY <1>1, <1>3, <1>4 DEF WriteInv, Locked
<1>6. Wrote(n)'
  <2>1. CASE ~Writing(n)
    BY <1>4, <2>1 DEF Wrote
  <2>2. CASE Writing(n)
    <3>1. UNCHANGED <<rows, schema, work>>
      BY <1>2, <2>2 DEF Writing, Mine, CanWrite
    <3> QED
      BY <1>1, <1>4, <3>1 DEF WriteInv, Wrote
  <2> QED BY <2>1, <2>2
<1> QED BY <1>5, <1>6

(* m's own steps.  Those that write nothing and open no transaction:         *)
LEMMA QuietKeeps ==
  ASSUME TypeInv, WriteInv, NEW m \in Migrators,
         \/ Start(m) \/ EnsureTable(m) \/ CheckDirty(m) \/ ListApplied(m) \/ NextUp(m)
         \/ NextDown(m) \/ Finish(m) \/ UpdateTime(m) \/ PlainFails(m) \/ Skip(m)
         \/ RecordFailure(m)
  PROVE  Locked(m)' /\ Wrote(m)'
<1>1. writer' = writer /\ doomed' = doomed
  BY DEF Start, EnsureTable, CheckDirty, ListApplied, NextUp, NextDown, Finish, UpdateTime,
         PlainFails, Skip, RecordFailure
<1>2. ~Writing(m)
  BY DEF WriteInv, Locked, Writing, At, Start, EnsureTable, CheckDirty, ListApplied, NextUp,
         NextDown, Finish, UpdateTime, PlainFails, Skip, RecordFailure
<1>3. Wrote(m)'
  BY <1>1, <1>2 DEF Wrote, Writing
<1>4. pc'[m] \in {"ensure", "check", "list", "up", "down", "script", "skip", "revert", "idle"}
  BY DEF Start, EnsureTable, CheckDirty, ListApplied, NextUp, NextDown, Finish, UpdateTime,
         PlainFails, Skip, RecordFailure, Goto, TypeInv, TypeOK
<1>5. doomed[m] => pc'[m] \in {"idle", "ensure", "dirty"}
  BY DEF Start, EnsureTable, CheckDirty, ListApplied, NextUp, NextDown, Finish, UpdateTime,
         PlainFails, Skip, RecordFailure, At, Goto, TypeInv, TypeOK
<1>6. ~Begun(m)'
  <2>1. CASE NextUp(m)
    BY <2>1 DEF NextUp, Goto, Begun, TypeInv, TypeOK
  <2>2. CASE NextDown(m)
    BY <2>2 DEF NextDown, Goto, Begun, TypeInv, TypeOK
  <2>3. CASE ~(NextUp(m) \/ NextDown(m))
    <3>1. pc'[m] \notin {"script", "revert", "commit", "uncommit"}
      BY <2>3 DEF Start, EnsureTable, CheckDirty, ListApplied, Finish, UpdateTime,
                  PlainFails, Skip, RecordFailure, Goto, TypeInv, TypeOK
    <3> QED BY <3>1 DEF Begun
  <2> QED BY <2>1, <2>2, <2>3
<1> QED
  BY <1>1, <1>2, <1>3, <1>4, <1>5, <1>6 DEF Locked, Writing

(* Those that end a transaction: m holds no lock, or a dropped one.          *)
LEMMA EndKeeps ==
  ASSUME TypeInv, WriteInv, NEW m \in Migrators,
         \/ ClearPending(m) \/ Crash(m) \/ Commit(m) \/ CommitRevert(m)
         \/ CommitFails(m) \/ ExecuteFails(m) \/ RevertFails(m)
  PROVE  Locked(m)' /\ Wrote(m)'
<1>1. /\ pc'[m] \in {"idle", "ensure", "dirty", "time", "down"}
      /\ doomed'[m] => pc'[m] \in {"idle", "ensure", "dirty"}
  <2>1. CASE ClearPending(m)
    BY <2>1 DEF WriteInv, Locked, ClearPending
  <2>2. CASE Crash(m)
    BY <2>2 DEF Crash, Goto, TypeInv, TypeOK
  <2>3. CASE Commit(m) \/ CommitRevert(m)
    BY <2>3 DEF Commit, CommitRevert, At, Goto, TypeInv, TypeOK
  <2>4. CASE CommitFails(m) \/ ExecuteFails(m) \/ RevertFails(m)
    BY <2>4 DEF CommitFails, ExecuteFails, RevertFails, Goto, TypeInv, TypeOK
  <2> QED BY <2>1, <2>2, <2>3, <2>4
<1>2. ~Writing(m)'
  <2>1. CASE ClearPending(m) \/ Crash(m) \/ Commit(m) \/ CommitRevert(m)
    BY <2>1 DEF ClearPending, Crash, Commit, CommitRevert, Writing
  <2>2. CASE CommitFails(m)
    <3>1. InTx(m)
      BY <2>2 DEF CommitFails, WriteInv, Locked
    <3> QED BY <2>2, <3>1, Zenon DEF CommitFails, DropTx, Writing, TypeInv, TypeOK
  <2>3. CASE ExecuteFails(m) \/ RevertFails(m)
    <3>1. writer' = writer /\ doomed' = [doomed EXCEPT ![m] = InTx(m)] /\ ~doomed[m]
      BY <2>3, Zenon DEF ExecuteFails, RevertFails, DropTx, At
    <3>2. writer = m => InTx(m)
      BY <3>1 DEF WriteInv, Locked, Writing
    <3> QED BY <3>1, <3>2, Zenon DEF Writing, TypeInv, TypeOK
  <2> QED BY <2>1, <2>2, <2>3
<1>3. ~Begun(m)'
  BY <1>1 DEF Begun
<1> QED
  BY <1>1, <1>2, <1>3 DEF Locked, Wrote

(* What m sees is what is committed, but for its own version.                *)
LEMMA ViewIs ==
  ASSUME TypeInv, WriteInv, NEW m \in Migrators, ~doomed[m]
  PROVE  \A v \in Versions \ {cur[m]} :
           View(m).rows[v] = rows[v] /\ View(m).schema[v] = schema[v]
<1>1. CASE writer = m
  <2>1. Writing(m) /\ View(m) = work
    BY <1>1 DEF View, Writing
  <2>2. Wrote(m)
    BY <2>1 DEF WriteInv
  <2> QED BY <2>1, <2>2 DEF Wrote
<1>2. CASE writer # m
  BY <1>2 DEF View, Committed
<1> QED BY <1>1, <1>2

(* What a transaction holds after a write.                                   *)
LEMMA PutParts ==
  ASSUME TypeInv, WriteInv, NEW m \in Migrators, ~doomed[m], cur[m] \in Versions,
         NEW n \in 0 .. Parts
  PROVE  /\ WithParts(m, n).schema[cur[m]] = n
         /\ WithParts(m, n).rows[cur[m]] = View(m).rows[cur[m]]
         /\ \A v \in Versions \ {cur[m]} :
              WithParts(m, n).rows[v] = rows[v] /\ WithParts(m, n).schema[v] = schema[v]
<1>1. View(m).schema \in [Versions -> 0 .. Parts]
  BY ViewType DEF TypeInv, Contents
<1>2. /\ WithParts(m, n).rows = View(m).rows
      /\ WithParts(m, n).schema = [View(m).schema EXCEPT ![cur[m]] = n]
  BY WithPartsIs DEF TypeInv
<1> QED BY <1>1, <1>2, ViewIs

LEMMA PutRow ==
  ASSUME TypeInv, WriteInv, NEW m \in Migrators, ~doomed[m], cur[m] \in Versions,
         NEW s \in Statuses
  PROVE  /\ WithRow(m, s).rows[cur[m]] = s
         /\ WithRow(m, s).schema[cur[m]] = View(m).schema[cur[m]]
         /\ \A v \in Versions \ {cur[m]} :
              WithRow(m, s).rows[v] = rows[v] /\ WithRow(m, s).schema[v] = schema[v]
<1>1. View(m).rows \in [Versions -> Statuses]
  BY ViewType DEF TypeInv, Contents
<1>2. /\ WithRow(m, s).schema = View(m).schema
      /\ WithRow(m, s).rows = [View(m).rows EXCEPT ![cur[m]] = s]
  BY WithRowIs DEF TypeInv
<1> QED BY <1>1, <1>2, ViewIs

(* Those that write.                                                         *)
LEMMA ScriptStatementKeeps ==
  ASSUME TypeInv, WriteInv, NEW m \in Migrators, ScriptStatement(m)
  PROVE  Locked(m)' /\ Wrote(m)'
<1>1. /\ pc[m] = "script" /\ ~doomed[m] /\ cur[m] \in Versions /\ part[m] + 1 \in 0 .. Parts
      /\ pc' = pc /\ cur' = cur /\ doomed' = doomed /\ part'[m] = part[m] + 1
      /\ Put(m, WithParts(m, part[m] + 1))
  BY DEF ScriptStatement, At, TypeInv, TypeOK, Working
<1>2. CASE InTx(m)
  <2>1. writer' = m /\ work' = WithParts(m, part[m] + 1) /\ UNCHANGED db
    BY <1>1, <1>2 DEF Put
  <2>2. /\ work'.schema[cur[m]] = part'[m]
        /\ \A v \in Versions \ {cur[m]} :
             work'.rows[v] = rows[v] /\ work'.schema[v] = schema[v]
    BY <1>1, <2>1, PutParts
  <2>3. Wrote(m)'
    BY <1>1, <2>1, <2>2 DEF Wrote, db
  <2>4. Locked(m)'
    BY <1>1, <1>2, <2>1 DEF Locked, Writing, Begun, InTx
  <2> QED BY <2>3, <2>4
<1>3. CASE ~InTx(m)
  <2>1. writer' = writer /\ ~Writing(m)
    BY <1>1, <1>3 DEF Put, WriteInv, Locked
  <2>2. ~Writing(m)' /\ ~InTx(m)'
    BY <1>1, <1>3, <2>1 DEF Writing, InTx
  <2> QED
    BY <1>1, <2>2 DEF Locked, Wrote, Begun
<1> QED BY <1>2, <1>3

LEMMA RevertStatementKeeps ==
  ASSUME TypeInv, WriteInv, NEW m \in Migrators, RevertStatement(m)
  PROVE  Locked(m)' /\ Wrote(m)'
<1>1. /\ pc[m] = "revert" /\ ~doomed[m] /\ cur[m] \in Versions /\ part[m] - 1 \in 0 .. Parts
      /\ pc' = pc /\ cur' = cur /\ doomed' = doomed /\ part'[m] = part[m] - 1
      /\ Put(m, WithParts(m, part[m] - 1))
  BY DEF RevertStatement, At, TypeInv, TypeOK, Working
<1>2. CASE InTx(m)
  <2>1. writer' = m /\ work' = WithParts(m, part[m] - 1) /\ UNCHANGED db
    BY <1>1, <1>2 DEF Put
  <2>2. /\ work'.schema[cur[m]] = part'[m]
        /\ \A v \in Versions \ {cur[m]} :
             work'.rows[v] = rows[v] /\ work'.schema[v] = schema[v]
    BY <1>1, <2>1, PutParts
  <2>3. Wrote(m)'
    BY <1>1, <2>1, <2>2 DEF Wrote, db
  <2>4. Locked(m)'
    BY <1>1, <1>2, <2>1 DEF Locked, Writing, Begun, InTx
  <2> QED BY <2>3, <2>4
<1>3. CASE ~InTx(m)
  <2>1. writer' = writer /\ ~Writing(m)
    BY <1>1, <1>3 DEF Put, WriteInv, Locked
  <2>2. ~Writing(m)' /\ ~InTx(m)'
    BY <1>1, <1>3, <2>1 DEF Writing, InTx
  <2> QED
    BY <1>1, <2>2 DEF Locked, Wrote, Begun
<1> QED BY <1>2, <1>3

LEMMA InsertRowKeeps ==
  ASSUME TypeInv, WriteInv, NEW m \in Migrators, InsertRow(m)
  PROVE  Locked(m)' /\ Wrote(m)'
<1>1. /\ pc[m] = "script" /\ ~doomed[m] /\ cur[m] \in Versions /\ part[m] = Parts
      /\ pc'[m] = IF InTx(m) THEN "commit" ELSE "time"
      /\ cur' = cur /\ doomed' = doomed /\ part' = part
      /\ Put(m, WithRow(m, "ok"))
  BY DEF InsertRow, At, Goto, TypeInv, TypeOK, Working
<1>2. CASE InTx(m)
  <2>1. writer' = m /\ work' = WithRow(m, "ok") /\ UNCHANGED db
    BY <1>1, <1>2 DEF Put
  <2>2. writer = m
    BY <1>1, <1>2 DEF WriteInv, Locked, Begun
  <2>3. View(m).schema[cur[m]] = Parts
    BY <1>1, <2>2 DEF View, WriteInv, Wrote, Writing
  <2>4. /\ work'.rows[cur[m]] = "ok" /\ work'.schema[cur[m]] = Parts
        /\ \A v \in Versions \ {cur[m]} :
             work'.rows[v] = rows[v] /\ work'.schema[v] = schema[v]
    BY <1>1, <2>1, <2>3, PutRow DEF Statuses
  <2>5. Wrote(m)'
    BY <1>1, <1>2, <2>1, <2>4 DEF Wrote, db
  <2>6. Locked(m)'
    BY <1>1, <1>2, <2>1 DEF Locked, Writing, Begun, InTx
  <2> QED BY <2>5, <2>6
<1>3. CASE ~InTx(m)
  <2>1. writer' = writer /\ ~Writing(m)
    BY <1>1, <1>3 DEF Put, WriteInv, Locked
  <2>2. ~Writing(m)' /\ ~InTx(m)' /\ pc'[m] = "time"
    BY <1>1, <1>3, <2>1 DEF Writing, InTx
  <2> QED
    BY <1>1, <2>2 DEF Locked, Wrote, Begun
<1> QED BY <1>2, <1>3

LEMMA DeleteRowKeeps ==
  ASSUME TypeInv, WriteInv, NEW m \in Migrators, DeleteRow(m)
  PROVE  Locked(m)' /\ Wrote(m)'
<1>1. /\ pc[m] = "revert" /\ ~doomed[m] /\ cur[m] \in Versions /\ part[m] = 0
      /\ pc'[m] = IF InTx(m) THEN "uncommit" ELSE "down"
      /\ cur' = cur /\ doomed' = doomed /\ part' = part
      /\ Put(m, WithRow(m, "none"))
  BY DEF DeleteRow, At, Goto, TypeInv, TypeOK, Working
<1>2. CASE InTx(m)
  <2>1. writer' = m /\ work' = WithRow(m, "none") /\ UNCHANGED db
    BY <1>1, <1>2 DEF Put
  <2>2. writer = m
    BY <1>1, <1>2 DEF WriteInv, Locked, Begun
  <2>3. View(m).schema[cur[m]] = 0
    BY <1>1, <2>2 DEF View, WriteInv, Wrote, Writing
  <2>4. /\ work'.rows[cur[m]] = "none" /\ work'.schema[cur[m]] = 0
        /\ \A v \in Versions \ {cur[m]} :
             work'.rows[v] = rows[v] /\ work'.schema[v] = schema[v]
    BY <1>1, <2>1, <2>3, PutRow DEF Statuses
  <2>5. Wrote(m)'
    BY <1>1, <1>2, <2>1, <2>4 DEF Wrote, db
  <2>6. Locked(m)'
    BY <1>1, <1>2, <2>1 DEF Locked, Writing, Begun, InTx
  <2> QED BY <2>5, <2>6
<1>3. CASE ~InTx(m)
  <2>1. writer' = writer /\ ~Writing(m)
    BY <1>1, <1>3 DEF Put, WriteInv, Locked
  <2>2. ~Writing(m)' /\ ~InTx(m)' /\ pc'[m] = "down"
    BY <1>1, <1>3, <2>1 DEF Writing, InTx
  <2> QED
    BY <1>1, <2>2 DEF Locked, Wrote, Begun
<1> QED BY <1>2, <1>3

LEMMA StepKeepsWrites ==
  ASSUME TypeInv, WriteInv, NEW m \in Migrators, Start(m) \/ Step(m) \/ Crash(m)
  PROVE  WriteInv'
<1>1. Locked(m)' /\ Wrote(m)'
  BY QuietKeeps, EndKeeps, ScriptStatementKeeps, RevertStatementKeeps, InsertRowKeeps,
     DeleteRowKeeps DEF Step
<1>2. \A n \in Migrators \ {m} : Locked(n)' /\ Wrote(n)'
  BY StepIsMine, OthersKeep
<1> QED BY <1>1, <1>2 DEF WriteInv

LEMMA WritesAlways == Spec => [](TypeInv /\ WriteInv)
<1>1. Init => TypeInv /\ WriteInv
  <2> SUFFICES ASSUME Init, NEW m \in Migrators PROVE Locked(m) /\ Wrote(m)
    BY InitTypes DEF WriteInv
  <2>1. pc[m] = "idle" /\ writer # m /\ ~doomed[m]
    BY DEF Init
  <2> QED BY <2>1 DEF Locked, Wrote, Begun, Writing
<1>2. TypeInv /\ WriteInv /\ [Next]_vars => (TypeInv /\ WriteInv)'
  <2> SUFFICES ASSUME TypeInv, WriteInv, [Next]_vars PROVE TypeInv' /\ WriteInv'
    OBVIOUS
  <2>1. CASE UNCHANGED vars
    BY <2>1 DEF TypeInv, TypeOK, WriteInv, Locked, Wrote, Begun, Writing, InTx, vars
  <2> QED
    BY <2>1, StartTypes, StepTypes, StepKeepsWrites DEF Next
<1> QED BY <1>1, <1>2, PTL DEF Spec

-----------------------------------------------------------------------------
(* The write lock is never orphaned: whoever holds it is inside a run, or    *)
(* will roll back on its next use. *)
THEOREM LockHasOwnerAlways == Spec => []LockHasOwner
<1>1. WriteInv => LockHasOwner
  BY DEF WriteInv, Locked, Writing, LockHasOwner
<1> QED BY <1>1, WritesAlways, PTL

-----------------------------------------------------------------------------
(* Script and row.                                                           *)

(* The steps that change the committed rows or schema. *)
Changes(m) ==
  \/ ScriptStatement(m) \/ InsertRow(m) \/ RevertStatement(m) \/ DeleteRow(m)
  \/ Commit(m) \/ CommitRevert(m) \/ RecordFailure(m) \/ Skip(m)

LEMMA OthersChangeNothing ==
  ASSUME NEW m \in Migrators, Start(m) \/ Step(m) \/ Crash(m), ~Changes(m)
  PROVE  UNCHANGED <<rows, schema>>
  BY DEF Changes, Step, Start, Crash, ClearPending, EnsureTable, CheckDirty, ListApplied,
         NextUp, NextDown, Finish, ExecuteFails, CommitFails, UpdateTime, PlainFails, RevertFails

(* A statement of a script or of its row is committed only outside a         *)
(* transaction, and changes its own version only. *)
LEMMA PutChanges ==
  ASSUME TypeInv, WriteInv, NEW m \in Migrators,
         ScriptStatement(m) \/ InsertRow(m) \/ RevertStatement(m) \/ DeleteRow(m)
  PROVE  \/ UNCHANGED <<rows, schema>>
         \/ /\ cur[m] \in NoTx
            /\ \A v \in Versions \ {cur[m]} : rows'[v] = rows[v] /\ schema'[v] = schema[v]
<1>1. ~doomed[m] /\ cur[m] \in Versions
  BY DEF ScriptStatement, InsertRow, RevertStatement, DeleteRow, At, TypeInv, Working
<1>2. CASE InTx(m)
  BY <1>2 DEF ScriptStatement, InsertRow, RevertStatement, DeleteRow, Put, db
<1>3. CASE ~InTx(m)
  <2>1. CASE ScriptStatement(m)
    <3>1. part[m] + 1 \in 0 .. Parts
      BY <2>1 DEF ScriptStatement, TypeInv, TypeOK
    <3> QED
      BY <1>1, <1>3, <2>1, <3>1, PutParts DEF ScriptStatement, Put, InTx
  <2>2. CASE RevertStatement(m)
    <3>1. part[m] - 1 \in 0 .. Parts
      BY <2>2 DEF RevertStatement, TypeInv, TypeOK
    <3> QED
      BY <1>1, <1>3, <2>2, <3>1, PutParts DEF RevertStatement, Put, InTx
  <2>3. CASE InsertRow(m)
    BY <1>1, <1>3, <2>3, PutRow DEF InsertRow, Put, InTx, Statuses
  <2>4. CASE DeleteRow(m)
    BY <1>1, <1>3, <2>4, PutRow DEF DeleteRow, Put, InTx, Statuses
  <2> QED BY <2>1, <2>2, <2>3, <2>4
<1> QED BY <1>2, <1>3

(* A commit changes its own version only. *)
LEMMA CommitIs ==
  ASSUME TypeInv, WriteInv, NEW m \in Migrators, Commit(m) \/ CommitRevert(m)
  PROVE  /\ \A v \in Versions \ {cur[m]} : rows'[v] = rows[v] /\ schema'[v] = schema[v]
         /\ cur[m] \in Versions
         /\ Commit(m) => rows'[cur[m]] = "ok" /\ schema'[cur[m]] = Parts
         /\ CommitRevert(m) => rows'[cur[m]] = "none" /\ schema'[cur[m]] = 0
<1>1. /\ rows' = work.rows /\ schema' = work.schema /\ ~doomed[m] /\ Begun(m)
      /\ cur[m] \in Versions
  BY DEF Commit, CommitRevert, At, WriteInv, Locked, Begun, TypeInv, Working
<1>2. Writing(m)
  BY <1>1 DEF WriteInv, Locked, Writing
<1> QED
  BY <1>1, <1>2 DEF WriteInv, Wrote, Commit, CommitRevert, At

LEMMA StepKeepsTogether ==
  ASSUME TypeInv, WriteInv, ScriptAndRowTogether,
         NEW m \in Migrators, Start(m) \/ Step(m) \/ Crash(m)
  PROVE  ScriptAndRowTogether'
<1>1. CASE ~Changes(m)
  BY <1>1, OthersChangeNothing DEF ScriptAndRowTogether
<1>2. CASE ScriptStatement(m) \/ InsertRow(m) \/ RevertStatement(m) \/ DeleteRow(m)
  BY <1>2, PutChanges DEF ScriptAndRowTogether
<1>3. CASE Commit(m) \/ CommitRevert(m)
  BY <1>3, CommitIs DEF ScriptAndRowTogether
<1>4. CASE RecordFailure(m)
  BY <1>4 DEF RecordFailure, ScriptAndRowTogether, TypeInv, TypeOK
<1>5. CASE Skip(m)
  BY <1>5 DEF Skip, ScriptAndRowTogether, TypeInv, TypeOK
<1> QED BY <1>1, <1>2, <1>3, <1>4, <1>5 DEF Changes

LEMMA TogetherStep ==
  TypeInv /\ WriteInv /\ ScriptAndRowTogether /\ [Next]_vars => ScriptAndRowTogether'
<1> SUFFICES ASSUME TypeInv, WriteInv, ScriptAndRowTogether, [Next]_vars
    PROVE  ScriptAndRowTogether'
  OBVIOUS
<1>1. CASE UNCHANGED vars
  BY <1>1 DEF vars, ScriptAndRowTogether
<1> QED BY <1>1, StepKeepsTogether DEF Next

(* Script and row of a transactional migration take effect together, however *)
(* many migrators there are and whatever fails. *)
THEOREM ScriptAndRowAlways == Spec => []ScriptAndRowTogether
<1>1. Init => ScriptAndRowTogether
  BY DEF Init, ScriptAndRowTogether
<1> QED BY <1>1, TogetherStep, WritesAlways, PTL DEF Spec

-----------------------------------------------------------------------------
(* Runs that do not meet, step by step.                                      *)

(* What each writing step makes of the rows. *)
LEMMA RowsAfter ==
  ASSUME TypeInv, WriteInv, NEW m \in Migrators
  PROVE  /\ ScriptStatement(m) \/ RevertStatement(m) => rows' = rows
         /\ InsertRow(m) =>
              IF InTx(m) THEN rows' = rows ELSE rows' = [rows EXCEPT ![cur[m]] = "ok"]
         /\ DeleteRow(m) =>
              IF InTx(m) THEN rows' = rows ELSE rows' = [rows EXCEPT ![cur[m]] = "none"]
         /\ Commit(m) => rows' = [rows EXCEPT ![cur[m]] = "ok"]
         /\ CommitRevert(m) => rows' = [rows EXCEPT ![cur[m]] = "none"]
<1> USE DEF TypeInv
<1>1. ASSUME ~InTx(m), ~doomed[m] PROVE View(m).rows = rows
  BY <1>1 DEF View, Committed, WriteInv, Locked, Writing
<1>2. ASSUME ScriptStatement(m) PROVE rows' = rows
  <2>1. /\ cur[m] \in Versions /\ ~doomed[m] /\ part[m] + 1 \in 0 .. Parts
        /\ Put(m, WithParts(m, part[m] + 1))
    BY <1>2 DEF ScriptStatement, At, TypeOK, Working
  <2>2. WithParts(m, part[m] + 1).rows = View(m).rows
    BY <2>1, WithPartsIs
  <2> QED BY <1>1, <2>1, <2>2 DEF Put, db
<1>3. ASSUME RevertStatement(m) PROVE rows' = rows
  <2>1. /\ cur[m] \in Versions /\ ~doomed[m] /\ part[m] - 1 \in 0 .. Parts
        /\ Put(m, WithParts(m, part[m] - 1))
    BY <1>3 DEF RevertStatement, At, TypeOK, Working
  <2>2. WithParts(m, part[m] - 1).rows = View(m).rows
    BY <2>1, WithPartsIs
  <2> QED BY <1>1, <2>1, <2>2 DEF Put, db
<1>4. ASSUME InsertRow(m)
      PROVE  IF InTx(m) THEN rows' = rows ELSE rows' = [rows EXCEPT ![cur[m]] = "ok"]
  <2>1. cur[m] \in Versions /\ ~doomed[m] /\ Put(m, WithRow(m, "ok"))
    BY <1>4 DEF InsertRow, At, Working
  <2>2. WithRow(m, "ok").rows = [View(m).rows EXCEPT ![cur[m]] = "ok"]
    BY <2>1, WithRowIs DEF Statuses
  <2> QED BY <1>1, <2>1, <2>2 DEF Put, db
<1>5. ASSUME DeleteRow(m)
      PROVE  IF InTx(m) THEN rows' = rows ELSE rows' = [rows EXCEPT ![cur[m]] = "none"]
  <2>1. cur[m] \in Versions /\ ~doomed[m] /\ Put(m, WithRow(m, "none"))
    BY <1>5 DEF DeleteRow, At, Working
  <2>2. WithRow(m, "none").rows = [View(m).rows EXCEPT ![cur[m]] = "none"]
    BY <2>1, WithRowIs DEF Statuses
  <2> QED BY <1>1, <2>1, <2>2 DEF Put, db
<1>6. ASSUME Commit(m) \/ CommitRevert(m)
      PROVE  rows' \in [Versions -> Statuses] /\ rows \in [Versions -> Statuses]
  BY <1>6 DEF Commit, CommitRevert, TypeOK
<1>7. ASSUME Commit(m) PROVE rows' = [rows EXCEPT ![cur[m]] = "ok"]
  BY <1>6, <1>7, CommitIs
<1>8. ASSUME CommitRevert(m) PROVE rows' = [rows EXCEPT ![cur[m]] = "none"]
  <2>1. /\ \A v \in Versions \ {cur[m]} : rows'[v] = rows[v]
        /\ rows'[cur[m]] = "none"
    BY <1>8, CommitIs
  <2> QED BY <1>6, <1>8, <2>1
<1> QED BY <1>2, <1>3, <1>4, <1>5, <1>7, <1>8

(* What m knows after its own step, while no other run is under way.         *)
Sees(m) == Knows(m) /\ AtTheEdge(m) /\ (pc[m] \in PastCheck => DirtyVersions = {})

LEMMA WaySees ==
  ASSUME TypeInv, WriteInv, NEW m \in Migrators, Sees(m),
         \/ EnsureTable(m) \/ CheckDirty(m) \/ ListApplied(m) \/ Finish(m)
         \/ PlainFails(m) \/ ClearPending(m)
  PROVE  Sees(m)'
<1> USE DEF Sees, Knows, AtTheEdge, Applied, DirtyVersions, PastCheck, Working, At, Goto,
            TypeInv, TypeOK
<1>1. CASE EnsureTable(m)
  BY <1>1 DEF EnsureTable
<1>2. CASE CheckDirty(m)
  <2>1. rows' = rows /\ pc'[m] = IF DirtyVersions = {} THEN "list" ELSE "idle"
    BY <1>2 DEF CheckDirty
  <2> QED BY <2>1
<1>3. CASE ListApplied(m)
  <2>1. rows' = rows /\ pc'[m] \in {"up", "down"} /\ known'[m] = Applied /\ DirtyVersions = {}
    BY <1>3 DEF ListApplied
  <2> QED BY <2>1
<1>4. CASE Finish(m)
  BY <1>4 DEF Finish
<1>5. CASE PlainFails(m)
  BY <1>5 DEF PlainFails
<1>6. CASE ClearPending(m)
  BY <1>6 DEF ClearPending
<1> QED BY <1>1, <1>2, <1>3, <1>4, <1>5, <1>6

LEMMA NextVersionSees ==
  ASSUME TypeInv, NEW m \in Migrators, Sees(m), NextUp(m) \/ NextDown(m)
  PROVE  Sees(m)'
<1>1. /\ rows' = rows /\ known' = known /\ known[m] = Applied
      /\ pc'[m] \in {"script", "skip", "revert"} /\ DirtyVersions = {}
  BY DEF NextUp, NextDown, At, Goto, Sees, Knows, PastCheck, TypeInv, TypeOK
<1>2. CASE NextUp(m)
  <2>1. PICK v \in Unknown(m) : /\ \A u \in Unknown(m) : v <= u
                                /\ cur' = [cur EXCEPT ![m] = v]
    BY <1>2 DEF NextUp
  <2>2. v \in Versions /\ rows[v] = "none" /\ cur'[m] = v
    BY <1>1, <2>1 DEF Unknown, Applied, TypeInv, TypeOK
  <2>3. \A u \in Versions : u < v => rows[u] # "none"
    BY <1>1, <2>1, <2>2 DEF Unknown, Applied
  <2>4. pc'[m] \in {"script", "skip"}
    BY <1>2 DEF NextUp, Goto, TypeInv, TypeOK
  <2> QED
    BY <1>1, <2>2, <2>3, <2>4 DEF Sees, Knows, AtTheEdge, Applied, DirtyVersions
<1>3. CASE NextDown(m)
  <2>1. PICK v \in known[m] : /\ \A u \in known[m] : u <= v
                              /\ cur' = [cur EXCEPT ![m] = v]
    BY <1>3 DEF NextDown
  <2>2. v \in Versions /\ cur'[m] = v
    BY <1>1, <2>1 DEF Applied, TypeInv, TypeOK
  <2>3. ASSUME NEW u \in Versions, v < u PROVE rows[u] = "none"
    <3>1. u \notin known[m]
      BY <2>1, <2>2, <2>3
    <3> QED BY <1>1, <3>1 DEF Applied
  <2>4. pc'[m] = "revert"
    BY <1>3 DEF NextDown, Goto, TypeInv, TypeOK
  <2> QED
    BY <1>1, <2>2, <2>3, <2>4 DEF Sees, Knows, AtTheEdge, Applied, DirtyVersions
<1> QED BY <1>2, <1>3

LEMMA ApplySees ==
  ASSUME TypeInv, WriteInv, NEW m \in Migrators, Sees(m),
         \/ ScriptStatement(m) \/ InsertRow(m) \/ ExecuteFails(m) \/ Commit(m)
         \/ CommitFails(m) \/ RecordFailure(m) \/ UpdateTime(m) \/ Skip(m)
  PROVE  Sees(m)'
<1>1. CASE CommitFails(m) \/ RecordFailure(m)
  <2>1. pc'[m] = "idle"
    BY <1>1 DEF CommitFails, RecordFailure, Goto, TypeInv, TypeOK
  <2> QED BY <2>1 DEF Sees, Knows, AtTheEdge, PastCheck, Working
<1>2. CASE ScriptStatement(m) \/ ExecuteFails(m)
  <2>1. /\ rows' = rows /\ known' = known /\ cur' = cur /\ pc[m] = "script"
        /\ pc'[m] \in {"script", "dirty"}
    BY <1>2, RowsAfter DEF ScriptStatement, ExecuteFails, At, Goto, TypeInv, TypeOK
  <2> QED
    BY <2>1 DEF Sees, Knows, AtTheEdge, PastCheck, Working, Applied, DirtyVersions
<1>3. CASE (InsertRow(m) /\ ~InTx(m)) \/ Commit(m)
  <2>1. /\ rows' = [rows EXCEPT ![cur[m]] = "ok"] /\ known' = known /\ cur' = cur
        /\ pc[m] \in {"script", "commit"} /\ pc'[m] = "time" /\ cur[m] \in Versions
    BY <1>3, RowsAfter DEF InsertRow, Commit, At, Goto, TypeInv, TypeOK, Working
  <2>2. rows \in [Versions -> Statuses] /\ rows[cur[m]] = "none" /\ known[m] = Applied
    BY <2>1 DEF Sees, Knows, AtTheEdge, TypeInv, TypeOK
  <2>3. Applied' \ {cur[m]} = Applied /\ DirtyVersions' = DirtyVersions
    BY <2>1, <2>2 DEF Applied, DirtyVersions
  <2>4. DirtyVersions = {}
    BY <2>1 DEF Sees, PastCheck, Working
  <2> QED
    BY <2>1, <2>2, <2>3, <2>4 DEF Sees, Knows, AtTheEdge
<1>4. CASE InsertRow(m) /\ InTx(m)
  <2>1. /\ rows' = rows /\ known' = known /\ cur' = cur /\ pc[m] = "script"
        /\ pc'[m] = "commit"
    BY <1>4, RowsAfter DEF InsertRow, At, Goto, TypeInv, TypeOK
  <2> QED
    BY <2>1 DEF Sees, Knows, AtTheEdge, PastCheck, Working, Applied, DirtyVersions
<1>5. CASE UpdateTime(m)
  <2>1. /\ rows' = rows /\ known'[m] = known[m] \cup {cur[m]} /\ pc[m] = "time"
        /\ pc'[m] = "up" /\ cur[m] \in Versions
    BY <1>5 DEF UpdateTime, At, Goto, TypeInv, TypeOK, Working
  <2>2. known'[m] = Applied' /\ DirtyVersions' = {}
    BY <2>1 DEF Sees, Knows, Applied, DirtyVersions, PastCheck, Working
  <2> QED
    BY <2>1, <2>2 DEF Sees, Knows, AtTheEdge
<1>6. CASE Skip(m)
  <2>1. /\ rows' = [rows EXCEPT ![cur[m]] = "skipped"] /\ known'[m] = known[m] \cup {cur[m]}
        /\ pc[m] = "skip" /\ pc'[m] = "up" /\ cur[m] \in Versions
        /\ rows \in [Versions -> Statuses]
    BY <1>6 DEF Skip, At, Goto, TypeInv, TypeOK, Working
  <2>2. known[m] = Applied /\ DirtyVersions = {}
    BY <2>1 DEF Sees, Knows, PastCheck, Working
  <2>3. known'[m] = Applied' /\ DirtyVersions' = {}
    BY <2>1, <2>2 DEF Applied, DirtyVersions
  <2> QED
    BY <2>1, <2>3 DEF Sees, Knows, AtTheEdge
<1> QED BY <1>1, <1>2, <1>3, <1>4, <1>5, <1>6

LEMMA RevertSees ==
  ASSUME TypeInv, WriteInv, NEW m \in Migrators, Sees(m),
         RevertStatement(m) \/ DeleteRow(m) \/ CommitRevert(m) \/ RevertFails(m)
  PROVE  Sees(m)'
<1>1. CASE RevertFails(m)
  <2>1. pc'[m] = "idle"
    BY <1>1 DEF RevertFails, Goto, TypeInv, TypeOK
  <2> QED BY <2>1 DEF Sees, Knows, AtTheEdge, PastCheck, Working
<1>2. CASE RevertStatement(m)
  <2>1. rows' = rows /\ UNCHANGED <<known, cur, pc>>
    BY <1>2, RowsAfter DEF RevertStatement
  <2> QED
    BY <2>1 DEF Sees, Knows, AtTheEdge, Applied, DirtyVersions
<1>3. CASE DeleteRow(m) /\ InTx(m)
  <2>1. /\ rows' = rows /\ known'[m] = known[m] \ {cur[m]} /\ cur' = cur /\ pc[m] = "revert"
        /\ pc'[m] = "uncommit"
    BY <1>3, RowsAfter DEF DeleteRow, At, Goto, TypeInv, TypeOK
  <2> QED
    BY <2>1 DEF Sees, Knows, AtTheEdge, PastCheck, Working, Applied, DirtyVersions
<1>4. CASE (DeleteRow(m) /\ ~InTx(m)) \/ CommitRevert(m)
  <2>1. /\ rows' = [rows EXCEPT ![cur[m]] = "none"]
        /\ pc[m] \in {"revert", "uncommit"} /\ pc'[m] = "down" /\ cur[m] \in Versions
        /\ rows \in [Versions -> Statuses]
    BY <1>4, RowsAfter DEF DeleteRow, CommitRevert, At, Goto, TypeInv, TypeOK, Working
  <2>2. known'[m] = Applied \ {cur[m]}
    BY <1>4 DEF DeleteRow, CommitRevert, At, Sees, Knows, TypeInv, TypeOK
  <2>3. DirtyVersions = {}
    BY <2>1 DEF Sees, PastCheck, Working
  <2>4. known'[m] = Applied' /\ DirtyVersions' = {}
    BY <2>1, <2>2, <2>3 DEF Applied, DirtyVersions
  <2> QED
    BY <2>1, <2>4 DEF Sees, Knows, AtTheEdge
<1> QED BY <1>1, <1>2, <1>3, <1>4

LEMMA StepSees ==
  ASSUME TypeInv, WriteInv, NEW m \in Migrators, Sees(m), Step(m)
  PROVE  Sees(m)'
  BY WaySees, NextVersionSees, ApplySees, RevertSees DEF Step

LEMMA StepNotIdle ==
  ASSUME NEW m \in Migrators, Step(m)
  PROVE  pc[m] # "idle"
  BY DEF Step, At, ClearPending, EnsureTable, CheckDirty, ListApplied, NextUp, NextDown,
         Finish, ScriptStatement, InsertRow, ExecuteFails, Commit, CommitFails, RecordFailure,
         UpdateTime, PlainFails, Skip, RevertStatement, DeleteRow, CommitRevert, RevertFails

ApartSees ==
  ~met => \A m \in Migrators :
            /\ Sees(m)
            /\ \A n \in Migrators : pc[m] # "idle" /\ pc[n] # "idle" => m = n

LEMMA ApartIs == ApartInv <=> ApartSees
  BY DEF ApartInv, ApartSees, Apart, Sees

LEMMA ApartStart ==
  ASSUME TypeInv, WriteInv, ApartSees, NEW m \in Migrators, Start(m)
  PROVE  ApartSees'
<1> SUFFICES ASSUME ~met' PROVE ApartSees'
  BY DEF ApartSees
<1>1. \A n \in Migrators : pc[n] = "idle"
  BY DEF Start
<1>2. /\ pc'[m] = "ensure"
      /\ \A n \in Migrators \ {m} : pc'[n] = "idle"
  BY <1>1 DEF Start, Goto, TypeInv, TypeOK
<1>3. \A n \in Migrators : Sees(n)'
  BY <1>2 DEF Sees, Knows, AtTheEdge, PastCheck, Working
<1> QED BY <1>2, <1>3 DEF ApartSees

LEMMA ApartStep ==
  ASSUME TypeInv, WriteInv, ApartSees, NEW m \in Migrators, Step(m), UNCHANGED met
  PROVE  ApartSees'
<1> SUFFICES ASSUME ~met' PROVE ApartSees'
  BY DEF ApartSees
<1>1. /\ Sees(m)
      /\ \A n \in Migrators \ {m} : pc[n] = "idle"
  BY StepNotIdle DEF ApartSees
<1>2. \A n \in Migrators \ {m} : pc'[n] = "idle"
  BY <1>1, StepIsMine DEF Mine
<1>3. \A n \in Migrators \ {m} : Sees(n)'
  BY <1>2 DEF Sees, Knows, AtTheEdge, PastCheck, Working
<1>4. Sees(m)'
  BY <1>1, StepSees
<1> QED BY <1>2, <1>3, <1>4 DEF ApartSees

LEMMA ApartCrash ==
  ASSUME TypeInv, WriteInv, ApartSees, NEW m \in Migrators, Crash(m), UNCHANGED met
  PROVE  ApartSees'
<1>1. /\ pc'[m] = "idle" /\ UNCHANGED <<rows, known, cur>>
      /\ \A n \in Migrators \ {m} : pc'[n] = pc[n]
  BY DEF Crash, Goto, TypeInv, TypeOK
<1>2. ASSUME ~met' PROVE \A n \in Migrators : Sees(n)'
  BY <1>1, <1>2 DEF ApartSees, Sees, Knows, AtTheEdge, PastCheck, Working, Applied, DirtyVersions
<1>3. ASSUME ~met', NEW k \in Migrators, NEW n \in Migrators, pc'[k] # "idle", pc'[n] # "idle"
      PROVE  k = n
  BY <1>1, <1>3 DEF ApartSees
<1> QED BY <1>2, <1>3 DEF ApartSees

LEMMA ApartAlways == Spec => []ApartInv
<1>1. Init => ApartSees
  BY DEF Init, ApartSees, Sees, Knows, AtTheEdge, PastCheck, Working
<1>2. TypeInv /\ WriteInv /\ ApartSees /\ [Next]_vars => ApartSees'
  <2> SUFFICES ASSUME TypeInv, WriteInv, ApartSees, [Next]_vars PROVE ApartSees'
    OBVIOUS
  <2>1. CASE UNCHANGED vars
    BY <2>1 DEF vars, ApartSees, Sees, Knows, AtTheEdge, Applied, DirtyVersions
  <2> QED
    BY <2>1, ApartStart, ApartStep, ApartCrash DEF Next
<1>3. Spec => []ApartSees
  BY <1>1, <1>2, WritesAlways, PTL DEF Spec
<1> QED BY <1>3, ApartIs, PTL

-----------------------------------------------------------------------------
(* What holds between runs that do not meet.                                 *)

(* A dirty row leaves nothing behind: the row that RecordFailure replaces    *)
(* was not there, so nothing of its script is committed. *)
LEMMA DirtyStep ==
  TypeInv /\ WriteInv /\ ApartInv /\ ScriptAndRowTogether /\ DirtyLeavesNothing /\ [Next]_vars
    => DirtyLeavesNothing'
<1> SUFFICES ASSUME TypeInv, WriteInv, ApartInv, ScriptAndRowTogether, DirtyLeavesNothing,
                    [Next]_vars, ~met'
             PROVE  DirtyLeavesNothing'
  BY DEF DirtyLeavesNothing
<1>1. CASE UNCHANGED vars
  BY <1>1 DEF vars, DirtyLeavesNothing
<1>2. ASSUME NEW m \in Migrators, Start(m) \/ Step(m) \/ Crash(m), ~met
      PROVE  DirtyLeavesNothing'
  <2>1. CASE ~Changes(m)
    BY <1>2, <2>1, OthersChangeNothing DEF DirtyLeavesNothing
  <2>2. CASE ScriptStatement(m) \/ InsertRow(m) \/ RevertStatement(m) \/ DeleteRow(m)
    BY <1>2, <2>2, PutChanges DEF DirtyLeavesNothing
  <2>3. CASE Commit(m) \/ CommitRevert(m)
    BY <1>2, <2>3, CommitIs DEF DirtyLeavesNothing
  <2>4. CASE RecordFailure(m)
    <3>1. /\ rows' = [rows EXCEPT ![cur[m]] = "dirty"] /\ schema' = schema
          /\ rows[cur[m]] = "none" /\ cur[m] \in Versions
      BY <1>2, <2>4 DEF RecordFailure, At, ApartInv, AtTheEdge, TypeInv, Working
    <3> QED
      BY <1>2, <3>1 DEF DirtyLeavesNothing, ScriptAndRowTogether, TypeInv, TypeOK
  <2>5. CASE Skip(m)
    BY <1>2, <2>5 DEF Skip, DirtyLeavesNothing, TypeInv, TypeOK
  <2> QED BY <2>1, <2>2, <2>3, <2>4, <2>5 DEF Changes
<1>3. [Next]_vars => ~met
  BY DEF Next, Start, vars, TypeInv, TypeOK
<1> QED BY <1>1, <1>2, <1>3 DEF Next

(* A dirty row of a transactional migration has left nothing of its script   *)
(* behind, unless runs met. *)
THEOREM DirtyLeavesNothingAlways == Spec => []DirtyLeavesNothing
<1>1. Init => DirtyLeavesNothing
  BY DEF Init, DirtyLeavesNothing
<1> QED
  BY <1>1, DirtyStep, ApartAlways, ScriptAndRowAlways, WritesAlways, PTL DEF Spec

(* The rows after a step of m: unchanged, or changed at m's version, which   *)
(* is at the edge. *)
LEMMA RowChange ==
  ASSUME TypeInv, WriteInv, ApartInv, ~met,
         NEW m \in Migrators, Start(m) \/ Step(m) \/ Crash(m)
  PROVE  \/ rows' = rows
         \/ /\ cur[m] \in Versions
            /\ \E s \in Statuses \ {"none"} : rows' = [rows EXCEPT ![cur[m]] = s]
            /\ \A v \in Versions : v < cur[m] => rows[v] # "none"
         \/ /\ cur[m] \in Versions
            /\ rows' = [rows EXCEPT ![cur[m]] = "none"]
            /\ \A v \in Versions : cur[m] < v => rows[v] = "none"
<1>1. CASE ~Changes(m)
  BY <1>1, OthersChangeNothing
<1>2. CASE ScriptStatement(m) \/ RevertStatement(m)
  BY <1>2, RowsAfter
<1>3. CASE InsertRow(m) \/ Commit(m)
  <2>1. cur[m] \in Versions /\ \A v \in Versions : v < cur[m] => rows[v] # "none"
    BY <1>3 DEF InsertRow, Commit, At, ApartInv, AtTheEdge, TypeInv, Working
  <2>2. rows' = rows \/ rows' = [rows EXCEPT ![cur[m]] = "ok"]
    BY <1>3, RowsAfter
  <2> QED BY <2>1, <2>2 DEF Statuses
<1>4. CASE DeleteRow(m) \/ CommitRevert(m)
  <2>1. cur[m] \in Versions /\ \A v \in Versions : cur[m] < v => rows[v] = "none"
    BY <1>4 DEF DeleteRow, CommitRevert, At, ApartInv, AtTheEdge, TypeInv, Working
  <2>2. rows' = rows \/ rows' = [rows EXCEPT ![cur[m]] = "none"]
    BY <1>4, RowsAfter
  <2> QED BY <2>1, <2>2
<1>5. CASE RecordFailure(m) \/ Skip(m)
  <2>1. cur[m] \in Versions /\ \A v \in Versions : v < cur[m] => rows[v] # "none"
    BY <1>5 DEF RecordFailure, Skip, At, ApartInv, AtTheEdge, TypeInv, Working
  <2>2. \E s \in {"dirty", "skipped"} : rows' = [rows EXCEPT ![cur[m]] = s]
    BY <1>5 DEF RecordFailure, Skip
  <2> QED BY <2>1, <2>2 DEF Statuses
<1> QED BY <1>1, <1>2, <1>3, <1>4, <1>5 DEF Changes

LEMMA OrderStep ==
  TypeInv /\ WriteInv /\ ApartInv /\ InOrder /\ [Next]_vars => InOrder'
<1> SUFFICES ASSUME TypeInv, WriteInv, ApartInv, InOrder, [Next]_vars, ~met',
                    NEW u \in Versions, NEW v \in Versions, u < v, rows'[u] = "none"
             PROVE  rows'[v] = "none"
  BY DEF InOrder
<1>1. CASE UNCHANGED vars
  BY <1>1 DEF vars, InOrder
<1>2. ASSUME NEW m \in Migrators, Start(m) \/ Step(m) \/ Crash(m), ~met
      PROVE  rows'[v] = "none"
  <2>1. rows \in [Versions -> Statuses]
    BY DEF TypeInv, TypeOK
  <2>2. CASE rows' = rows
    BY <1>2, <2>2 DEF InOrder
  <2>3. CASE /\ cur[m] \in Versions
             /\ \E s \in Statuses \ {"none"} : rows' = [rows EXCEPT ![cur[m]] = s]
             /\ \A w \in Versions : w < cur[m] => rows[w] # "none"
    <3>1. u # cur[m] /\ rows[u] = "none"
      BY <2>1, <2>3
    <3>2. cur[m] < u
      <4>1. cur[m] \in Nat /\ u \in Nat
        BY <2>3
      <4>2. ~(u < cur[m])
        BY <2>3, <3>1
      <4> QED BY <3>1, <4>1, <4>2
    <3>3. v # cur[m]
      BY <2>3, <3>2
    <3>4. rows'[v] = rows[v]
      BY <2>1, <2>3, <3>3
    <3> QED BY <1>2, <3>1, <3>4 DEF InOrder
  <2>4. CASE /\ cur[m] \in Versions
             /\ rows' = [rows EXCEPT ![cur[m]] = "none"]
             /\ \A w \in Versions : cur[m] < w => rows[w] = "none"
    <3>1. CASE v = cur[m]
      BY <2>1, <2>4, <3>1
    <3>2. CASE v # cur[m]
      <4>1. rows'[v] = rows[v]
        BY <2>1, <2>4, <3>2
      <4>2. CASE u = cur[m]
        BY <2>4, <4>1, <4>2
      <4>3. CASE u # cur[m]
        <5>1. rows[u] = "none"
          BY <2>1, <2>4, <4>3
        <5> QED BY <1>2, <4>1, <5>1 DEF InOrder
      <4> QED BY <4>2, <4>3
    <3> QED BY <3>1, <3>2
  <2> QED BY <1>2, <2>2, <2>3, <2>4, RowChange
<1>3. [Next]_vars => ~met
  BY DEF Next, Start, vars, TypeInv, TypeOK
<1> QED BY <1>1, <1>2, <1>3 DEF Next

(* As long as no two runs met, no migration is in force above one that has   *)
(* no row. *)
THEOREM InOrderAlways == Spec => []InOrder
<1>1. Init => InOrder
  BY DEF Init, InOrder
<1> QED BY <1>1, OrderStep, ApartAlways, WritesAlways, PTL DEF Spec
=============================================================================
