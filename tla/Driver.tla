------------------------------- MODULE Driver -------------------------------
(* Opening connections (driver.rs, TursoDriver::connect): tasks connect with *)
(* options that may be clones of one another, and clones share the           *)
(* TursoMemoryState with the in-memory database behind an async mutex.  A    *)
(* call is split at its awaits; any of them may fail, and the application    *)
(* may drop the future at any of them.                                       *)
EXTENDS Naturals, Sequences, SequencesExt

CONSTANTS
  Task,          \* tasks that open connections
  NoTask,        \* none of them
  Options,       \* connect options in use
  Pragmas,       \* pragma_update calls: busy_timeout and each PRAGMA with a value
  MaxDatabases   \* bound: databases built, one that was there included

(* state: which TursoMemoryState a clone carries; flaw: a setting that some  *)
(* path of connect refuses, or "none".                                       *)
AllOptions ==
  [target : {"memory", "file"}, state : Nat, shared : BOOLEAN, create : BOOLEAN,
   sync : BOOLEAN, flaw : {"none", "auto_vacuum", "read_only", "immutable", "custom_io"}]

ASSUME DriverAssumption ==
  /\ NoTask \notin Task
  /\ Options \subseteq AllOptions /\ Options # {}
  /\ Pragmas \in Nat /\ MaxDatabases \in Nat

VARIABLES
  slot,          \* TursoMemoryState::database, 0 for None
  holder,        \* who holds its mutex
  waiting,       \* who waits for it, in the order of the mutex (FIFO)
  file,          \* the database in the file, 0 if there is no file
  pc,            \* where each task is
  opts,          \* the options it connects with
  db,            \* the database it got
  pragma,        \* pragmas applied to its connection
  built          \* databases there have been so far

mutex == <<holder, waiting>>
tasks == <<pc, opts, db, pragma>>
vars == <<slot, mutex, file, tasks, built>>

States == {o.state : o \in Options}

(* What `opts` holds for a task that does not connect: it is not looked at. *)
NoOptions == CHOOSE o \in Options : TRUE

Init ==
  /\ slot = [s \in States |-> 0]
  /\ holder = [s \in States |-> NoTask]
  /\ waiting = [s \in States |-> <<>>]
  /\ file \in {0, 1} /\ built = file
  /\ pc = [t \in Task |-> "idle"]
  /\ opts = [t \in Task |-> NoOptions]
  /\ db = [t \in Task |-> 0]
  /\ pragma = [t \in Task |-> 0]

-----------------------------------------------------------------------------
(* Guards of connect, in its order.                                          *)

(* Faulty: private in-memory databases go through the shared state too. *)
UsesSharedStateAlways(o) == o.target = "memory" /\ ~o.sync

(* memory_database locks the state; a sync database is always built. *)
UsesSharedState(o) == o.target = "memory" /\ o.shared /\ ~o.sync

(* validate_pragmas, validate_open_support and the checks of connect_sync. *)
Refused(o) == o.flaw \in {"auto_vacuum", "read_only", "immutable"} \/ (o.sync /\ o.flaw = "custom_io")

(* validate_file_target. *)
FileMissing(o) == o.target = "file" /\ ~o.create /\ file = 0

Connect(t) ==
  /\ pc[t] = "idle"
  /\ \E o \in Options :
       /\ ~Refused(o) /\ ~FileMissing(o)
       /\ opts' = [opts EXCEPT ![t] = o]
       /\ IF UsesSharedState(o)
          THEN /\ waiting' = [waiting EXCEPT ![o.state] = Append(@, t)]
               /\ pc' = [pc EXCEPT ![t] = "wait"]
          ELSE /\ pc' = [pc EXCEPT ![t] = "build"]
               /\ UNCHANGED waiting
  /\ UNCHANGED <<slot, holder, file, db, pragma, built>>

(* The error is returned before anything is built. *)
ConnectRefused(t) ==
  /\ pc[t] = "idle"
  /\ \E o \in Options : Refused(o) \/ FileMissing(o)
  /\ UNCHANGED vars

-----------------------------------------------------------------------------
State(t) == opts[t].state

(* lock().await returns to the first who waits. *)
Acquires(t) ==
  /\ pc[t] = "wait"
  /\ holder[State(t)] = NoTask
  /\ waiting[State(t)] # <<>> /\ Head(waiting[State(t)]) = t
  /\ waiting' = [waiting EXCEPT ![State(t)] = Tail(@)]

(* memory_database finds the database that another connect built. *)
Reuse(t) ==
  /\ Acquires(t) /\ slot[State(t)] # 0
  /\ db' = [db EXCEPT ![t] = slot[State(t)]]
  /\ pc' = [pc EXCEPT ![t] = "pragmas"]
  /\ UNCHANGED <<slot, holder, file, opts, pragma, built>>

(* Faulty: the mutex is not held while the database is built. *)
StartBuildUnlocked(t) ==
  /\ Acquires(t) /\ slot[State(t)] = 0
  /\ pc' = [pc EXCEPT ![t] = "locked"]
  /\ UNCHANGED <<slot, holder, file, opts, db, pragma, built>>

(* There is none: it is built with the mutex held. *)
StartBuild(t) ==
  /\ Acquires(t) /\ slot[State(t)] = 0
  /\ holder' = [holder EXCEPT ![State(t)] = t]
  /\ pc' = [pc EXCEPT ![t] = "locked"]
  /\ UNCHANGED <<slot, file, opts, db, pragma, built>>

(* build_database, or the sync builder, succeeds: it opens the file, which   *)
(* the engine creates if it does not exist, or makes an in-memory database.  *)
OpensFile(t) == opts[t].target = "file" /\ file # 0

Open(t) ==
  /\ pc[t] = "build" /\ OpensFile(t)
  /\ db' = [db EXCEPT ![t] = file]
  /\ pc' = [pc EXCEPT ![t] = "pragmas"]
  /\ UNCHANGED <<slot, mutex, file, opts, pragma, built>>

Build(t) ==
  /\ pc[t] \in {"locked", "build"} /\ ~OpensFile(t) /\ built < MaxDatabases
  /\ built' = built + 1
  /\ db' = [db EXCEPT ![t] = built + 1]
  /\ IF pc[t] = "locked"
     THEN /\ slot' = [slot EXCEPT ![State(t)] = built + 1]
          /\ holder' = [holder EXCEPT ![State(t)] = NoTask]
     ELSE UNCHANGED <<slot, holder>>
  /\ file' = IF opts[t].target = "file" THEN built + 1 ELSE file
  /\ pc' = [pc EXCEPT ![t] = "pragmas"]
  /\ UNCHANGED <<waiting, opts, pragma>>

ApplyPragma(t) ==
  /\ pc[t] = "pragmas" /\ pragma[t] < Pragmas
  /\ pragma' = [pragma EXCEPT ![t] = @ + 1]
  /\ UNCHANGED <<slot, mutex, file, pc, opts, db, built>>

Connected(t) ==
  /\ pc[t] = "pragmas" /\ pragma[t] = Pragmas
  /\ pc' = [pc EXCEPT ![t] = "open"]
  /\ UNCHANGED <<slot, mutex, file, opts, db, pragma, built>>

(* Faulty: an error while the mutex is held leaves it locked. *)
ReleaseNothing(t) == UNCHANGED holder

(* The guard is dropped. *)
Release(t) ==
  holder' = [s \in States |-> IF holder[s] = t THEN NoTask ELSE holder[s]]

(* What a connect leaves when it returns an error or is dropped: the guard   *)
(* or the place in the mutex's queue and the connection are gone, a database *)
(* in the slot stays.                                                        *)
EndAttempt(t) ==
  /\ pc' = [pc EXCEPT ![t] = "idle"]
  /\ opts' = [opts EXCEPT ![t] = NoOptions]
  /\ db' = [db EXCEPT ![t] = 0]
  /\ pragma' = [pragma EXCEPT ![t] = 0]
  /\ waiting' = [s \in States |-> SelectSeq(waiting[s], LAMBDA u : u # t)]
  /\ Release(t)
  /\ UNCHANGED <<slot, file, built>>

BuildFails(t) == pc[t] \in {"locked", "build"} /\ EndAttempt(t)
PragmaFails(t) == pc[t] = "pragmas" /\ pragma[t] < Pragmas /\ EndAttempt(t)
Cancel(t) == pc[t] \in {"wait", "locked", "build", "pragmas"} /\ EndAttempt(t)
CloseConnection(t) == pc[t] = "open" /\ EndAttempt(t)

(* drop_database removes the main file first; a connection keeps what it has.*)
DropDatabase ==
  /\ file # 0
  /\ file' = 0
  /\ UNCHANGED <<slot, mutex, tasks, built>>

Step(t) ==
  \/ Reuse(t) \/ StartBuild(t) \/ Open(t) \/ Build(t) \/ BuildFails(t)
  \/ ApplyPragma(t) \/ PragmaFails(t) \/ Connected(t)

Next ==
  \/ \E t \in Task :
       Connect(t) \/ ConnectRefused(t) \/ Step(t) \/ Cancel(t) \/ CloseConnection(t)
  \/ DropDatabase

Spec == Init /\ [][Next]_vars

(* A connect in flight is polled until it completes. *)
FairSpec == Spec /\ \A t \in Task : WF_vars(Step(t))

-----------------------------------------------------------------------------
(* Properties.                                                               *)

(* Type correctness; a mutex is held by a task that builds a database, and   *)
(* nobody waits for it twice.                                                *)
TypeOK ==
  /\ slot \in [States -> 0 .. MaxDatabases]
  /\ \A s \in States :
       /\ holder[s] # NoTask => holder[s] \in Task /\ pc[holder[s]] = "locked"
       /\ waiting[s] \in Seq(Task) /\ IsInjective(waiting[s])
  /\ file \in 0 .. MaxDatabases
  /\ pc \in [Task -> {"idle", "wait", "locked", "build", "pragmas", "open"}]
  /\ opts \in [Task -> Options]
  /\ db \in [Task -> 0 .. MaxDatabases]
  /\ pragma \in [Task -> 0 .. Pragmas]
  /\ built \in 0 .. MaxDatabases

(* Clones of shared in-memory options. *)
IsShared(o) == o.target = "memory" /\ o.shared /\ ~o.sync
Shares(t, u) == IsShared(opts[t]) /\ IsShared(opts[u]) /\ State(t) = State(u)

HasDatabase(t) == pc[t] \in {"pragmas", "open"}

(* Connections through clones of shared in-memory options are connections to *)
(* one database, whoever connected first, failed or gave up (memory_database;*)
(* options.rs, test preserves_memory_identity_across_clones_and_builders).   *)
ClonesShareOneDatabase ==
  \A t, u \in Task :
    HasDatabase(t) /\ HasDatabase(u) /\ Shares(t, u) => db[t] = db[u]

(* Two connections have one database only if their options are clones with a *)
(* shared cache, or if both are to the database file, whatever failed or was *)
(* dropped in between: a private in-memory database, and one of sync options,*)
(* belong to one connection (memory_database, connect_sync, in_memory(true)  *)
(* after a clone).                                                           *)
ToFile(t) == opts[t].target = "file"

OthersStayApart ==
  \A t, u \in Task :
    t # u /\ HasDatabase(t) /\ HasDatabase(u) /\ db[t] = db[u]
      => Shares(t, u) \/ (ToFile(t) /\ ToFile(u))

(* A connect that is not dropped returns, although others fail or are        *)
(* dropped while they hold the mutex or wait for it.                         *)
ConnectsReturn ==
  \A t \in Task : pc[t] \in {"wait", "locked", "build", "pragmas"} ~> pc[t] \in {"idle", "open"}
=============================================================================
