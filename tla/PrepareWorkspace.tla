-------------------------- MODULE PrepareWorkspace --------------------------
(* `sqlx-turso prepare` (sqlx-turso-cli/src/main.rs): query metadata is      *)
(* collected in a staging directory by `cargo check` and then swapped in for *)
(* the offline directory.  Several processes may prepare the same directory, *)
(* any of them may be killed between two calls to the file system, and any   *)
(* call may fail.                                                            *)
EXTENDS Naturals

CONSTANTS
  Proc,          \* command lines that may run at the same time
  Pids,          \* the ways process ids may be given to them: two processes
                 \* of different containers may have the same
  MaxAttempt,    \* bound: attempts of unique_sibling
  MaxRuns,       \* bound: runs in a behaviour
  MaxErrors,     \* bound: calls to the file system that fail
  MaxKills       \* bound: processes that are killed

ASSUME PrepareAssumption ==
  /\ Pids \subseteq [Proc -> Nat]
  /\ {MaxAttempt, MaxRuns, MaxErrors, MaxKills} \subseteq Nat

Final == [role |-> "final", pid |-> 0, attempt |-> 0]
Names == [role : {"tmp", "old"}, pid : UNION {{pidOf[p] : p \in Proc} : pidOf \in Pids},
          attempt : 0 .. MaxAttempt] \cup {Final}

(* What a name stands for: nothing, a file, or the directory of a run.  A    *)
(* directory is "fresh" until cargo wrote to it and "part" while files are   *)
(* still to come or already removed.  A check that succeeds leaves it        *)
(* "whole", with the metadata of every query, or, since it expands only what *)
(* it compiles anew, with "some" of it, or "bare".                           *)
None == [kind |-> "none", run |-> 0]
Dir(kind, r) == [kind |-> kind, run |-> r]
Finished == {"bare", "some", "whole"}
Kinds == {"none", "file", "fresh", "part"} \cup Finished

VARIABLES
  pid,           \* the process id each process runs with
  fs,            \* the directory that contains the offline directory
  pc,            \* where each process is, "idle" if it does not run
  run,           \* the number of its run
  staging,       \* PrepareWorkspace::staging_dir
  backup,        \* PrepareWorkspace::backup_dir
  had,           \* had_existing
  result,        \* how its last run ended
  runs,          \* runs so far
  errors,        \* failed calls so far
  kills          \* killed processes so far

workspace == <<run, staging, backup, had>>
counters == <<runs, errors, kills>>
vars == <<pid, fs, pc, workspace, result, counters>>

Exists(name) == fs[name].kind # "none"
Complete(c) == c.kind \in Finished

Init ==
  /\ pid \in Pids
  /\ \E c \in {None, Dir("file", 0)} \cup {Dir(kind, 0) : kind \in Finished} :
       fs = [n \in Names |-> IF n = Final THEN c ELSE None]
  /\ pc = [p \in Proc |-> "idle"]
  /\ run = [p \in Proc |-> 0]
  /\ staging = [p \in Proc |-> Final]
  /\ backup = [p \in Proc |-> Final]
  /\ had = [p \in Proc |-> FALSE]
  /\ result = [p \in Proc |-> "none"]
  /\ runs = 0 /\ errors = 0 /\ kills = 0

-----------------------------------------------------------------------------
(* File system calls (external).                                             *)

(* rename of a directory replaces nothing but an empty directory. *)
CanRename(from, to) == Exists(from) /\ fs[to].kind \in {"none", "fresh", "bare"}
Rename(from, to) == [fs EXCEPT ![to] = fs[from], ![from] = None]

(* remove_dir_all that is interrupted leaves some of the files. *)
Removed(name) == [fs EXCEPT ![name] = None]
HalfRemoved(name) ==
  IF fs[name].kind \in {"part", "some", "whole"} THEN [fs EXCEPT ![name].kind = "part"] ELSE fs

Fail == errors < MaxErrors /\ errors' = errors + 1

-----------------------------------------------------------------------------
Goto(p, label) == pc' = [pc EXCEPT ![p] = label]
Return(p, r) == Goto(p, "idle") /\ result' = [result EXCEPT ![p] = r]
Stay == UNCHANGED result

(* Prepare::run, up to the checks of PrepareWorkspace::create. *)
Start(p) ==
  /\ pc[p] = "idle" /\ runs < MaxRuns
  /\ runs' = runs + 1
  /\ run' = [run EXCEPT ![p] = runs + 1]
  /\ IF fs[Final].kind = "file" THEN Return(p, "err") ELSE Goto(p, "create") /\ Stay
  /\ UNCHANGED <<fs, staging, backup, had, errors, kills>>

(* validate_offline_dir: "", "." and "/" are no offline directories. *)
RefusePath(p) ==
  /\ pc[p] = "idle" /\ runs < MaxRuns
  /\ runs' = runs + 1
  /\ run' = [run EXCEPT ![p] = runs + 1]
  /\ Return(p, "err")
  /\ UNCHANGED <<fs, staging, backup, had, errors, kills>>

(* Faulty: the first candidate is taken, free or not. *)
UniqueSiblingUnchecked(p, role) == [role |-> role, pid |-> pid[p], attempt |-> 0]

UniqueSibling(p, role) ==
  LET Candidate(n) == [role |-> role, pid |-> pid[p], attempt |-> n]
      n == CHOOSE i \in 0 .. MaxAttempt :
             /\ ~Exists(Candidate(i))
             /\ \A j \in 0 .. i - 1 : Exists(Candidate(j))
  IN  Candidate(n)

HasSibling(p, role) ==
  \E i \in 0 .. MaxAttempt : ~Exists([role |-> role, pid |-> pid[p], attempt |-> i])

(* The rest of PrepareWorkspace::create. *)
Create(p) ==
  /\ pc[p] = "create"
  /\ HasSibling(p, "tmp") /\ HasSibling(p, "old")
  /\ fs' = [fs EXCEPT ![UniqueSibling(p, "tmp")] = Dir("fresh", run[p])]
  /\ staging' = [staging EXCEPT ![p] = UniqueSibling(p, "tmp")]
  /\ backup' = [backup EXCEPT ![p] = UniqueSibling(p, "old")]
  /\ Goto(p, "check")
  /\ Stay /\ UNCHANGED <<run, had, counters>>

(* create_dir fails, perhaps because a process with the same id was faster. *)
CreateFails(p) ==
  /\ pc[p] = "create"
  /\ \/ Fail
     \/ UNCHANGED errors /\ \E q \in Proc \ {p} : pid[q] = pid[p] /\ pc[q] = "check"
  /\ Return(p, "err")
  /\ UNCHANGED <<fs, workspace, runs, kills>>

(* cargo check (external): the macros write to SQLX_OFFLINE_DIR. *)
CargoWrites(p) ==
  /\ pc[p] = "check"
  /\ fs' = [fs EXCEPT ![staging[p]] = Dir("part", run[p])]
  /\ Stay /\ UNCHANGED <<pc, workspace, counters>>

(* Nothing tells a whole directory from one with some of the metadata.       *)
CargoSucceeds(p) ==
  /\ pc[p] = "check"
  /\ \E kind \in IF fs[staging[p]].kind = "fresh" THEN Finished ELSE Finished \ {"bare"} :
       fs' = [fs EXCEPT ![staging[p]] = Dir(kind, run[p])]
  /\ Goto(p, "commit")
  /\ Stay /\ UNCHANGED <<workspace, counters>>

(* Faulty: the exit status of cargo is not looked at. *)
CargoFailsUnnoticed(p) ==
  /\ pc[p] = "check"
  /\ Goto(p, "commit")
  /\ Stay /\ UNCHANGED <<fs, workspace, counters>>

CargoFails(p) ==
  /\ pc[p] = "check"
  /\ Goto(p, "cleanup")
  /\ Stay /\ UNCHANGED <<fs, workspace, counters>>

(* cargo cannot be started: nothing is cleaned up. *)
CargoMissing(p) ==
  /\ pc[p] = "check" /\ fs[staging[p]].kind = "fresh"
  /\ Return(p, "err")
  /\ UNCHANGED <<fs, workspace, counters>>

(* PrepareWorkspace::cleanup ignores errors. *)
Cleanup(p) ==
  /\ pc[p] = "cleanup"
  /\ \/ fs' = Removed(staging[p]) /\ UNCHANGED errors
     \/ fs' = HalfRemoved(staging[p]) /\ Fail
  /\ Return(p, "err")
  /\ UNCHANGED <<workspace, runs, kills>>

-----------------------------------------------------------------------------
(* PrepareWorkspace::commit.                                                 *)

(* A directory with the name of the backup is in the way, or not. *)
RemoveStaleBackup(p) ==
  /\ pc[p] = "commit" /\ Exists(backup[p])
  /\ \E removed \in BOOLEAN :
       IF removed
       THEN fs' = Removed(backup[p]) /\ Goto(p, "look") /\ Stay /\ UNCHANGED errors
       ELSE fs' = HalfRemoved(backup[p]) /\ Return(p, "err") /\ Fail
  /\ UNCHANGED <<workspace, runs, kills>>

NoStaleBackup(p) ==
  /\ pc[p] = "commit" /\ ~Exists(backup[p])
  /\ Goto(p, "look")
  /\ Stay /\ UNCHANGED <<fs, workspace, counters>>

LookForExisting(p) ==
  /\ pc[p] = "look"
  /\ had' = [had EXCEPT ![p] = Exists(Final)]
  /\ Goto(p, IF Exists(Final) THEN "aside" ELSE "install")
  /\ Stay /\ UNCHANGED <<fs, run, staging, backup, counters>>

SetAside(p) ==
  /\ pc[p] = "aside"
  /\ \/ /\ CanRename(Final, backup[p])
        /\ fs' = Rename(Final, backup[p])
        /\ Goto(p, "install") /\ Stay /\ UNCHANGED errors
     \/ /\ CanRename(Final, backup[p]) /\ Fail
        /\ Return(p, "err") /\ UNCHANGED fs
     \/ /\ ~CanRename(Final, backup[p])
        /\ Return(p, "err") /\ UNCHANGED <<fs, errors>>
  /\ UNCHANGED <<workspace, runs, kills>>

Install(p) ==
  /\ pc[p] = "install"
  /\ CanRename(staging[p], Final)
  /\ fs' = Rename(staging[p], Final)
  /\ IF had[p] THEN Goto(p, "remove") /\ Stay ELSE Return(p, "ok")
  /\ UNCHANGED <<workspace, counters>>

(* Faulty: the error is returned at once. *)
InstallFailsAtOnce(p) ==
  /\ pc[p] = "install"
  /\ IF CanRename(staging[p], Final) THEN Fail ELSE UNCHANGED errors
  /\ Return(p, "err")
  /\ UNCHANGED <<fs, workspace, runs, kills>>

InstallFails(p) ==
  /\ pc[p] = "install"
  /\ IF CanRename(staging[p], Final) THEN Fail ELSE UNCHANGED errors
  /\ IF had[p] THEN Goto(p, "restore") /\ Stay ELSE Return(p, "err")
  /\ UNCHANGED <<fs, workspace, runs, kills>>

(* What was set aside is moved back; whether that works is not looked at. *)
Restore(p) ==
  /\ pc[p] = "restore"
  /\ \/ CanRename(backup[p], Final) /\ fs' = Rename(backup[p], Final) /\ UNCHANGED errors
     \/ CanRename(backup[p], Final) /\ UNCHANGED fs /\ Fail
     \/ ~CanRename(backup[p], Final) /\ UNCHANGED <<fs, errors>>
  /\ Return(p, "err")
  /\ UNCHANGED <<workspace, runs, kills>>

(* The metadata is replaced even if the old one cannot be removed. *)
RemoveBackup(p) ==
  /\ pc[p] = "remove"
  /\ \/ Exists(backup[p]) /\ fs' = Removed(backup[p]) /\ Return(p, "ok") /\ UNCHANGED errors
     \/ fs' = HalfRemoved(backup[p]) /\ Return(p, "err") /\ Fail
     \/ ~Exists(backup[p]) /\ UNCHANGED <<fs, errors>> /\ Return(p, "err")
  /\ UNCHANGED <<workspace, runs, kills>>

-----------------------------------------------------------------------------
(* A process is killed, perhaps while it removes a directory. *)
Crash(p) ==
  /\ kills < MaxKills /\ kills' = kills + 1
  /\ pc[p] # "idle"
  /\ fs' \in {fs, CASE pc[p] = "cleanup" -> HalfRemoved(staging[p])
                     [] pc[p] \in {"commit", "remove"} -> HalfRemoved(backup[p])
                     [] OTHER -> fs}
  /\ Return(p, "killed")
  /\ UNCHANGED <<workspace, runs, errors>>

Cargo(p) == CargoWrites(p) \/ CargoSucceeds(p) \/ CargoFails(p) \/ CargoMissing(p)

Commit(p) ==
  \/ RemoveStaleBackup(p) \/ NoStaleBackup(p) \/ LookForExisting(p)
  \/ SetAside(p) \/ Install(p) \/ InstallFails(p) \/ Restore(p) \/ RemoveBackup(p)

Next ==
  /\ \E p \in Proc :
       \/ Start(p) \/ RefusePath(p) \/ Create(p) \/ CreateFails(p)
       \/ Cargo(p) \/ Cleanup(p) \/ Commit(p) \/ Crash(p)
  /\ UNCHANGED pid

Spec == Init /\ [][Next]_vars

-----------------------------------------------------------------------------
(* Properties.                                                               *)

(* Type correctness: a directory name stands for what a run put there. *)
TypeOK ==
  /\ pid \in Pids
  /\ fs \in [Names -> [kind : Kinds, run : 0 .. MaxRuns]]
  /\ \A n \in Names \ {Final} : fs[n].kind # "file"
  /\ pc \in [Proc -> {"idle", "create", "check", "cleanup", "commit", "look", "aside",
                     "install", "restore", "remove"}]
  /\ run \in [Proc -> 0 .. MaxRuns]
  /\ staging \in [Proc -> Names] /\ backup \in [Proc -> Names]
  /\ had \in [Proc -> BOOLEAN]
  /\ result \in [Proc -> {"none", "ok", "err", "killed"}]
  /\ runs \in 0 .. MaxRuns /\ errors \in 0 .. MaxErrors /\ kills \in 0 .. MaxKills

OwnPids == \A p, q \in Proc : p # q => pid[p] # pid[q]

(* The offline directory never shows the output of a cargo check that did    *)
(* not succeed, nor a directory half removed (Prepare::run_with_program      *)
(* commits on success only; both renames of commit are of whole              *)
(* directories), unless two processes with the same id share a backup and one*)
(* stops while it removes it.                                                *)
FinalNeverPartial ==
  OwnPids \/ errors + kills = 0 => fs[Final].kind \notin {"part", "fresh"}

(* The metadata in use or a copy set aside.  A staging directory does not    *)
(* count: nobody will look there.                                            *)
Kept == \E n \in Names : n.role # "tmp" /\ Complete(fs[n])

(* Once there is complete metadata, some remains in place or set aside, even *)
(* if processes are killed or calls fail (PrepareWorkspace::commit removes   *)
(* the backup only after the new directory is in place; unique_sibling       *)
(* keeps it apart from what a killed process with the same id left), unless  *)
(* two processes run with the same id.                                       *)
MetadataSurvives == [][OwnPids /\ Kept => Kept']_vars

(* When all runs are over and none was killed, complete metadata is in place *)
(* and not only in some backup, and certainly if a run succeeded, even if    *)
(* one call failed (the rollback of PrepareWorkspace::commit under a         *)
(* concurrent run); with equal process ids, if none did.                     *)
InPlaceWhenIdle ==
  kills = 0 /\ errors <= (IF OwnPids THEN 1 ELSE 0) /\ (\A p \in Proc : pc[p] = "idle")
    => (Kept \/ (\E p \in Proc : result[p] = "ok") => Complete(fs[Final]))
=============================================================================
