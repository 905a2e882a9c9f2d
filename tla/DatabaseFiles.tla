---------------------------- MODULE DatabaseFiles ---------------------------
(* The files of a database: MigrateDatabase for Turso (migrate.rs), which    *)
(* creates, looks for and drops them, the list it drops them by              *)
(* (lifecycle.rs), and connects to a file (driver.rs), each a task that may  *)
(* run at the same time as the others, fail, or stop at any await because    *)
(* its future is dropped or the process dies.                                *)
(*                                                                           *)
(* A file that exists belongs to a life of the database: the main file       *)
(* starts one when the engine creates it, and the engine (external) creates  *)
(* the sidecars it needs for the life it opened.  0 is a missing file.       *)
EXTENDS Naturals, Sequences

CONSTANTS
  Task,
  MaxLives     \* bound: main files created

ASSUME DatabaseFilesAssumption == MaxLives \in Nat

(* Faulty: what only a synced database has is left out. *)
KnownFilesLocal == <<"main", "-wal", "-shm", "-wal-tshm">>

(* known_database_files, in its order. *)
KnownFiles ==
  <<"main", "-wal", "-shm", "-wal-tshm", "-wal-revert", "-info", "-changes">>

Files == {"main", "-wal", "-shm", "-wal-tshm", "-wal-revert", "-info", "-changes"}
Sidecars == Files \ {"main"}

VARIABLES
  life,     \* the life each file belongs to
  lives,    \* main files created so far
  pc,       \* where each task is
  create,   \* create_if_missing of its options
  next,     \* position in KnownFiles of the file it removes next
  dropped,  \* tasks whose checked file was removed before they opened it
  begun,    \* lives a drop has removed a file of
  left,     \* lives some files of which a drop that broke off left
  met       \* lives there were when a database was opened during a drop

task == <<pc, create, next, dropped>>
traces == <<begun, left, met>>
vars == <<life, lives, task, traces>>

Init ==
  /\ life = [f \in Files |-> 0]
  /\ lives = 0
  /\ pc = [t \in Task |-> "idle"]
  /\ create = [t \in Task |-> FALSE]
  /\ next = [t \in Task |-> 1]
  /\ dropped = {}
  /\ begun = {} /\ left = {} /\ met = {}

(* Path::exists, which is also all that database_exists asks. *)
Exists == life["main"] # 0

Go(t, where) == pc' = [pc EXCEPT ![t] = where]

(* The call returns, or its future is dropped: it forgets where it was. *)
Return(t) ==
  /\ Go(t, "idle")
  /\ create' = [create EXCEPT ![t] = FALSE]
  /\ next' = [next EXCEPT ![t] = 1]
  /\ dropped' = dropped \ {t}

-----------------------------------------------------------------------------
(* Faulty: a missing file is left to the engine. *)
MayOpenAlways(creates) == TRUE

(* validate_file_target. *)
MayOpen(creates) == creates \/ Exists

(* TursoDriver::connect up to the first await. *)
Connect(t) ==
  /\ pc[t] = "idle"
  /\ \E creates \in BOOLEAN :
       /\ MayOpen(creates)
       /\ create' = [create EXCEPT ![t] = creates]
  /\ Go(t, "open")
  /\ UNCHANGED <<life, lives, next, dropped, traces>>

(* "database file ... does not exist". *)
NotFound(t) == pc[t] = "idle" /\ ~MayOpen(FALSE) /\ UNCHANGED vars

(* create_database connects with create_if_missing and closes. *)
CreateDatabase(t) ==
  /\ pc[t] = "idle"
  /\ Go(t, "open")
  /\ create' = [create EXCEPT ![t] = TRUE]
  /\ UNCHANGED <<life, lives, next, dropped, traces>>

(* The lives there are files of. *)
Lives == {life[f] : f \in Files} \ {0}

Dropping == \E t \in Task : pc[t] = "drop"

(* The engine opens the file, which it creates if it is gone by now, and     *)
(* creates the sidecars it wants and does not find.                          *)
Open(t) ==
  /\ pc[t] = "open"
  /\ ~Exists => lives < MaxLives
  /\ \E wanted \in {{}, {"-wal", "-info"}} :
       LET mine == IF Exists THEN life["main"] ELSE lives + 1
       IN  /\ life' = [f \in Files |->
                         IF f = "main" \/ (f \in wanted /\ life[f] = 0) THEN mine ELSE life[f]]
           /\ lives' = IF Exists THEN lives ELSE mine
           /\ met' = IF Dropping THEN met \cup {mine} \cup Lives ELSE met
  /\ Return(t)
  /\ UNCHANGED <<begun, left>>

-----------------------------------------------------------------------------
(* drop_database: remove_known_database_files.                               *)

DropDatabase(t) ==
  /\ pc[t] = "idle"
  /\ Go(t, "drop")
  /\ UNCHANGED <<life, lives, create, next, dropped, traces>>

Removing(t) == pc[t] = "drop" /\ next[t] <= Len(KnownFiles)

(* Tasks that checked that the main file exists and have not opened it yet. *)
Checked == {u \in Task : pc[u] = "open" /\ ~create[u]}

(* A file that is not found is passed over. *)
RemoveFile(t) ==
  /\ Removing(t)
  /\ life' = [life EXCEPT ![KnownFiles[next[t]]] = 0]
  /\ next' = [next EXCEPT ![t] = @ + 1]
  /\ dropped' = IF KnownFiles[next[t]] = "main" THEN dropped \cup Checked ELSE dropped
  /\ begun' = begun \cup {life[KnownFiles[next[t]]]}
  /\ UNCHANGED <<lives, pc, create, left, met>>

(* Another error ends it, and so does a dropped future or a dying process:   *)
(* what it has not reached yet stays.                                        *)
DropBreaksOff(t) ==
  /\ Removing(t)
  /\ Return(t)
  /\ left' = left \cup Lives
  /\ UNCHANGED <<life, lives, begun, met>>

DropDone(t) ==
  /\ pc[t] = "drop" /\ next[t] > Len(KnownFiles)
  /\ Return(t)
  /\ UNCHANGED <<life, lives, traces>>

(* Opening fails, or its future is dropped. *)
OpenBreaksOff(t) ==
  /\ pc[t] = "open"
  /\ Return(t)
  /\ UNCHANGED <<life, lives, traces>>

Next ==
  \E t \in Task :
    \/ Connect(t) \/ NotFound(t) \/ CreateDatabase(t) \/ Open(t) \/ OpenBreaksOff(t)
    \/ DropDatabase(t) \/ RemoveFile(t) \/ DropBreaksOff(t) \/ DropDone(t)

Spec == Init /\ [][Next]_vars

-----------------------------------------------------------------------------
(* Properties.                                                               *)

(* Type correctness; no file is younger than the youngest main file, and     *)
(* every drop begins with the first file.                                    *)
TypeOK ==
  /\ lives \in 0 .. MaxLives
  /\ life \in [Files -> 0 .. lives]
  /\ pc \in [Task -> {"idle", "open", "drop"}]
  /\ next \in [Task -> 1 .. Len(KnownFiles) + 1]
  /\ \A t \in Task : pc[t] # "drop" => next[t] = 1
  /\ dropped \subseteq Task
  /\ begun \cup left \cup met \subseteq 0 .. lives

(* The engine never finds a sidecar of a dropped database beside a new main  *)
(* file, which it would take for its own, unless a drop broke off or a       *)
(* database was opened in the middle of one (remove_known_database_files).   *)
OneLife ==
  Exists => \A f \in Sidecars : life[f] \in {0, life["main"]} \cup left \cup met

(* What database_exists calls missing has left nothing on the disk, with the *)
(* same exceptions.                                                          *)
MissingIsClean ==
  ~Exists /\ ~Dropping => Lives \subseteq left \cup met

(* The main file goes first: a database whose sidecars a drop has begun to   *)
(* remove cannot be opened any more, so nobody works on a part of it.        *)
HalfDroppedIsHidden ==
  Exists => life["main"] \notin begun \ met

(* A drop that returned Ok removed every file, also what an earlier one left *)
(* when it broke off, unless a database was opened while it ran.             *)
DroppedIsGone ==
  [][\A t \in Task :
       next[t] > Len(KnownFiles) /\ pc'[t] = "idle" => Lives \subseteq met]_vars

(* A connect without create_if_missing creates a database only if a drop     *)
(* removed the one it had seen (options.rs, create_if_missing).              *)
NoFileUnlessAsked ==
  [][\A t \in Task :
       pc[t] = "open" /\ pc'[t] = "idle" /\ lives' > lives =>
         create[t] \/ t \in dropped]_vars
=============================================================================
