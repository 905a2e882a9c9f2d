---------------------------- MODULE DriverProofs ----------------------------
(* Machine-checked proofs that connections share a database exactly if their *)
(* options are clones with a shared cache or name the file, for any number   *)
(* of tasks, options, pragmas and databases (Driver), and of the options     *)
(* (Options): that what Driver knows in-memory ones by, their                *)
(* TursoMemoryState, is also what they are called, that a URL of any length  *)
(* is read as what it says as a whole, and that options written to a URL     *)
(* come back the same.                                                       *)
EXTENDS Driver, Options, WellFoundedInduction, TLAPS

-----------------------------------------------------------------------------
(* The inductive invariant.  The types that the rest of it needs.            *)
Types ==
  /\ slot \in [States -> Nat]
  /\ holder \in [States -> Task \cup {NoTask}]
  /\ pc \in [Task -> {"idle", "wait", "locked", "build", "pragmas", "open"}]
  /\ opts \in [Task -> Options]
  /\ db \in [Task -> Nat]
  /\ built \in Nat
  /\ file \in Nat

(* Who builds a shared database holds the mutex of an empty slot, and nobody *)
(* else goes near it.                                                        *)
OneBuilder ==
  \A t \in Task :
    /\ pc[t] = "wait" => IsShared(opts[t])
    /\ pc[t] = "build" => ~IsShared(opts[t])
    /\ pc[t] = "locked" =>
         IsShared(opts[t]) /\ holder[State(t)] = t /\ slot[State(t)] = 0

(* A database of one connection only. *)
IsOwn(o) == o.target # "file" /\ ~IsShared(o)

(* Shared connections have the database of the slot, those to a file none    *)
(* that is in a slot, and others their own.                                  *)
SlotOrOwn ==
  \A t \in Task : HasDatabase(t) =>
    /\ db[t] \in 1 .. built
    /\ IsShared(opts[t]) => db[t] = slot[State(t)]
    /\ ~IsShared(opts[t]) => \A s \in States : db[t] # slot[s]
    /\ IsOwn(opts[t]) =>
         /\ db[t] # file
         /\ \A u \in Task \ {t} : HasDatabase(u) => db[u] # db[t]

(* Databases are numbered as they come to be, and no two slots, nor a slot   *)
(* and the file, share one.                                                  *)
SlotsApart ==
  /\ \A s \in States : slot[s] <= built
  /\ \A r, s \in States : r # s /\ slot[r] = slot[s] => slot[r] = 0
  /\ file <= built
  /\ \A s \in States : slot[s] = file => file = 0

DriverInv == Types /\ OneBuilder /\ SlotOrOwn /\ SlotsApart

-----------------------------------------------------------------------------
LEMMA StateOf ==
  ASSUME Types, NEW t \in Task
  PROVE  State(t) \in States /\ opts[t] \in Options
BY DEF Types, State, States

LEMMA DriverInit == Init => DriverInv
<1> SUFFICES ASSUME Init PROVE DriverInv
  OBVIOUS
<1>1. NoOptions \in Options
  BY DriverAssumption DEF NoOptions
<1>2. Types
  BY <1>1 DEF Init, Types
<1> QED
  BY <1>2 DEF Init, DriverInv, OneBuilder, SlotOrOwn, SlotsApart, HasDatabase

(* A connect starts: the options of an idle task change. *)
LEMMA ConnectKeeps ==
  ASSUME DriverInv, NEW t \in Task, Connect(t)
  PROVE  DriverInv'
<1>1. PICK o \in Options :
        /\ opts' = [opts EXCEPT ![t] = o]
        /\ \/ pc' = [pc EXCEPT ![t] = "wait"] /\ IsShared(o)
           \/ pc' = [pc EXCEPT ![t] = "build"] /\ ~IsShared(o)
  BY DEF Connect, UsesSharedState, IsShared
<1>2. pc[t] = "idle" /\ UNCHANGED <<slot, holder, file, db, built>>
  BY DEF Connect, mutex
<1>3. Types'
  BY <1>1, <1>2 DEF DriverInv, Types
<1>4. OneBuilder'
  BY <1>1, <1>2 DEF DriverInv, Types, OneBuilder, State
<1>5. SlotOrOwn'
  BY <1>1, <1>2 DEF DriverInv, Types, SlotOrOwn, HasDatabase, State
<1>6. SlotsApart'
  BY <1>2 DEF DriverInv, SlotsApart
<1> QED
  BY <1>3, <1>4, <1>5, <1>6 DEF DriverInv

(* A task gets database d, which is of the kind its options ask for and no   *)
(* task's own, while the databases of the others stay what they are.         *)
LEMMA GetsKeeps ==
  ASSUME DriverInv, NEW t \in Task, NEW d \in 1 .. built', built \in Nat, built' \in Nat,
         built <= built', opts' = opts,
         \A u \in Task : db'[u] = IF u = t THEN d ELSE db[u],
         \A u \in Task : HasDatabase(u)' <=> u = t \/ HasDatabase(u),
         \A u \in Task \ {t} : HasDatabase(u) =>
            /\ IsShared(opts[u]) => slot'[State(u)] = slot[State(u)]
            /\ \A s \in States : slot'[s] = slot[s] \/ slot'[s] # db[u]
            /\ file' = file \/ file' # db[u]
            /\ IsOwn(opts[t]) \/ IsOwn(opts[u]) => db[u] # d,
         IsShared(opts[t]) => d = slot'[State(t)],
         ~IsShared(opts[t]) => \A s \in States : d # slot'[s],
         IsOwn(opts[t]) => d # file'
  PROVE  SlotOrOwn'
<1> SUFFICES ASSUME NEW u \in Task, u = t \/ HasDatabase(u)
             PROVE  /\ db'[u] \in 1 .. built'
                    /\ IsShared(opts[u]) => db'[u] = slot'[State(u)]
                    /\ ~IsShared(opts[u]) => \A s \in States : db'[u] # slot'[s]
                    /\ IsOwn(opts[u]) =>
                         /\ db'[u] # file'
                         /\ \A v \in Task \ {u} : v = t \/ HasDatabase(v) => db'[v] # db'[u]
  BY DEF SlotOrOwn, State
<1>1. CASE u = t
  <2>1. db'[u] = d /\ \A v \in Task \ {u} : db'[v] = db[v]
    BY <1>1
  <2> QED BY <1>1, <2>1
<1>2. CASE u # t
  <2>1. HasDatabase(u) /\ db'[u] = db[u]
    BY <1>2
  <2>2. /\ db[u] \in 1 .. built
        /\ IsShared(opts[u]) => db[u] = slot[State(u)]
        /\ ~IsShared(opts[u]) => \A s \in States : db[u] # slot[s]
        /\ IsOwn(opts[u]) =>
             /\ db[u] # file
             /\ \A v \in Task \ {u} : HasDatabase(v) => db[v] # db[u]
    BY <2>1 DEF DriverInv, SlotOrOwn
  <2>3. db[u] \in 1 .. built'
    BY <2>2
  <2>4. ~IsShared(opts[u]) => \A s \in States : db[u] # slot'[s]
    BY <1>2, <2>1, <2>2
  <2>5. IsOwn(opts[u]) => db[u] # file' /\ db[u] # d
    BY <1>2, <2>1, <2>2
  <2>6. \A v \in Task : db'[v] = IF v = t THEN d ELSE db[v]
    OBVIOUS
  <2> QED BY <1>2, <2>1, <2>2, <2>3, <2>4, <2>5, <2>6
<1> QED BY <1>1, <1>2

(* A waiting task gets the database of the slot. *)
LEMMA ReuseKeeps ==
  ASSUME DriverInv, NEW t \in Task, Reuse(t)
  PROVE  DriverInv'
<1>1. /\ pc[t] = "wait" /\ pc' = [pc EXCEPT ![t] = "pragmas"]
      /\ slot[State(t)] # 0 /\ db' = [db EXCEPT ![t] = slot[State(t)]]
      /\ UNCHANGED <<slot, holder, file, opts, built>>
  BY DEF Reuse, Acquires
<1>2. State(t) \in States /\ IsShared(opts[t])
  BY <1>1, StateOf DEF DriverInv, OneBuilder
<1>3. Types'
  BY <1>1, <1>2 DEF DriverInv, Types
<1>4. OneBuilder'
  BY <1>1 DEF DriverInv, Types, OneBuilder, State
<1>5. \A u \in Task : HasDatabase(u)' <=> u = t \/ HasDatabase(u)
  BY <1>1 DEF DriverInv, Types, HasDatabase
<1>6. SlotsApart'
  BY <1>1 DEF DriverInv, SlotsApart
<1>7. slot[State(t)] \in 1 .. built /\ built \in Nat
  BY <1>1, <1>2 DEF DriverInv, Types, SlotsApart
<1>8. ~IsOwn(opts[t])
  BY <1>2 DEF IsOwn
<1>9. \A u \in Task : HasDatabase(u) /\ IsOwn(opts[u]) => db[u] # slot[State(t)]
  BY <1>2 DEF DriverInv, SlotOrOwn, IsOwn
<1>10. \A u \in Task : db'[u] = IF u = t THEN slot[State(t)] ELSE db[u]
  BY <1>1 DEF DriverInv, Types
<1>11. SlotOrOwn'
  BY <1>1, <1>2, <1>5, <1>7, <1>8, <1>9, <1>10, GetsKeeps
<1> QED
  BY <1>3, <1>4, <1>6, <1>11 DEF DriverInv

(* A waiting task takes the mutex of an empty slot. *)
LEMMA StartBuildKeeps ==
  ASSUME DriverInv, NEW t \in Task, StartBuild(t)
  PROVE  DriverInv'
<1>1. /\ pc[t] = "wait" /\ pc' = [pc EXCEPT ![t] = "locked"]
      /\ slot[State(t)] = 0 /\ holder[State(t)] = NoTask
      /\ holder' = [holder EXCEPT ![State(t)] = t]
      /\ UNCHANGED <<slot, file, opts, db, built>>
  BY DEF StartBuild, Acquires
<1>2. State(t) \in States /\ IsShared(opts[t])
  BY <1>1, StateOf DEF DriverInv, OneBuilder
<1>3. Types'
  BY <1>1, <1>2 DEF DriverInv, Types
<1>4. OneBuilder'
  BY <1>1, <1>2, DriverAssumption DEF DriverInv, Types, OneBuilder, State
<1>5. SlotOrOwn' /\ SlotsApart'
  BY <1>1 DEF DriverInv, Types, SlotOrOwn, SlotsApart, HasDatabase, State
<1> QED
  BY <1>3, <1>4, <1>5 DEF DriverInv

(* A connect opens the file: it gets a database that is in no slot and that  *)
(* nobody but those who are connected to the file have.                      *)
LEMMA OpenKeeps ==
  ASSUME DriverInv, NEW t \in Task, Open(t)
  PROVE  DriverInv'
<1>1. /\ pc[t] = "build" /\ pc' = [pc EXCEPT ![t] = "pragmas"]
      /\ opts[t].target = "file" /\ file # 0 /\ db' = [db EXCEPT ![t] = file]
      /\ UNCHANGED <<slot, holder, file, opts, built>>
  BY DEF Open, OpensFile, mutex
<1>2. ~IsShared(opts[t]) /\ ~IsOwn(opts[t])
  BY <1>1 DEF IsShared, IsOwn
<1>3. Types'
  BY <1>1 DEF DriverInv, Types
<1>4. OneBuilder'
  BY <1>1 DEF DriverInv, Types, OneBuilder, State
<1>5. SlotsApart'
  BY <1>1 DEF DriverInv, SlotsApart
<1>6. file \in 1 .. built /\ built \in Nat
  BY <1>1 DEF DriverInv, Types, SlotsApart
<1>7. \A u \in Task : HasDatabase(u)' <=> u = t \/ HasDatabase(u)
  BY <1>1 DEF DriverInv, Types, HasDatabase
<1>8. \A u \in Task : HasDatabase(u) /\ IsOwn(opts[u]) => db[u] # file
  BY DEF DriverInv, SlotOrOwn
<1>9. \A s \in States : slot[s] # file
  BY <1>1 DEF DriverInv, SlotsApart
<1>10. \A u \in Task : db'[u] = IF u = t THEN file ELSE db[u]
  BY <1>1 DEF DriverInv, Types
<1>11. SlotOrOwn'
  BY <1>1, <1>2, <1>6, <1>7, <1>8, <1>9, <1>10, GetsKeeps
<1> QED
  BY <1>3, <1>4, <1>5, <1>11 DEF DriverInv

(* A database is built; it has a number that no other has. *)
LEMMA BuildKeeps ==
  ASSUME DriverInv, NEW t \in Task, Build(t)
  PROVE  DriverInv'
<1>1. /\ pc[t] \in {"locked", "build"} /\ pc' = [pc EXCEPT ![t] = "pragmas"]
      /\ built' = built + 1 /\ db' = [db EXCEPT ![t] = built + 1]
      /\ UNCHANGED opts
      /\ file' = IF opts[t].target = "file" THEN built + 1 ELSE file
  BY DEF Build
<1>2. /\ State(t) \in States /\ built \in Nat /\ file \in Nat
      /\ \A u \in Task : HasDatabase(u)' <=> u = t \/ HasDatabase(u)
      /\ \A u \in Task : db'[u] = IF u = t THEN built + 1 ELSE db[u]
      /\ \A u \in Task : HasDatabase(u) => db[u] # built + 1
      /\ \A s \in States : slot[s] # built + 1
  <2>1. State(t) \in States /\ built \in Nat /\ file \in Nat
    BY StateOf DEF DriverInv, Types
  <2>2. \A u \in Task : HasDatabase(u)' <=> u = t \/ HasDatabase(u)
    BY <1>1 DEF DriverInv, Types, HasDatabase
  <2>3. \A u \in Task : db'[u] = IF u = t THEN built + 1 ELSE db[u]
    BY <1>1 DEF DriverInv, Types
  <2>4. \A u \in Task : HasDatabase(u) => db[u] # built + 1
    BY <2>1 DEF DriverInv, SlotOrOwn
  <2>5. \A s \in States : slot[s] # built + 1
    BY <2>1 DEF DriverInv, SlotsApart
  <2> QED BY <2>1, <2>2, <2>3, <2>4, <2>5
<1>3. CASE pc[t] = "locked"
  <2>1. /\ slot' = [slot EXCEPT ![State(t)] = built + 1]
        /\ holder' = [holder EXCEPT ![State(t)] = NoTask]
    BY <1>3 DEF Build
  <2>2. IsShared(opts[t]) /\ holder[State(t)] = t /\ slot[State(t)] = 0
    BY <1>3 DEF DriverInv, OneBuilder
  <2>7. file' = file /\ ~IsOwn(opts[t])
    BY <1>1, <2>2 DEF IsShared, IsOwn
  <2>3. Types'
    BY <1>1, <1>2, <2>1 DEF DriverInv, Types
  <2>4. OneBuilder'
    BY <1>1, <1>2, <2>1, <2>2 DEF DriverInv, Types, OneBuilder, State
  <2>8. \A s \in States : slot'[s] = IF s = State(t) THEN built + 1 ELSE slot[s]
    BY <2>1 DEF DriverInv, Types
  <2>9. \A u \in Task : HasDatabase(u) /\ IsShared(opts[u]) => State(u) # State(t)
    BY <1>2, <2>2 DEF DriverInv, SlotOrOwn
  <2>10. ASSUME NEW u \in Task \ {t}, HasDatabase(u)
         PROVE  /\ IsShared(opts[u]) => slot'[State(u)] = slot[State(u)]
                /\ \A s \in States : slot'[s] = slot[s] \/ slot'[s] # db[u]
                /\ db[u] # built + 1
    <3>1. State(u) \in States
      BY StateOf DEF DriverInv
    <3> QED BY <1>2, <2>8, <2>9, <2>10, <3>1
  <2>11. slot'[State(t)] = built + 1 /\ built + 1 \in 1 .. built' /\ built <= built' /\ built' \in Nat
    BY <1>1, <1>2, <2>8
  <2>5. SlotOrOwn'
    BY <1>1, <1>2, <2>2, <2>7, <2>10, <2>11, GetsKeeps
  <2>6. SlotsApart'
    BY <1>1, <1>2, <2>1, <2>7 DEF DriverInv, Types, SlotsApart
  <2> QED
    BY <2>3, <2>4, <2>5, <2>6 DEF DriverInv
<1>4. CASE pc[t] = "build"
  <2>1. UNCHANGED <<slot, holder>>
    BY <1>4 DEF Build
  <2>2. ~IsShared(opts[t])
    BY <1>4 DEF DriverInv, OneBuilder
  <2>3. Types'
    BY <1>1, <1>2, <2>1 DEF DriverInv, Types
  <2>4. OneBuilder'
    BY <1>1, <2>1 DEF DriverInv, Types, OneBuilder, State
  <2>7. built + 1 \in 1 .. built' /\ built <= built' /\ built' \in Nat
    BY <1>1, <1>2
  <2>8. IsOwn(opts[t]) => file' = file /\ file # built + 1
    BY <1>1, <1>2 DEF IsOwn, DriverInv, SlotsApart
  <2>9. file' = file \/ file' = built + 1
    BY <1>1
  <2>5. SlotOrOwn'
    BY <1>1, <1>2, <2>1, <2>2, <2>7, <2>8, <2>9, GetsKeeps
  <2>6. SlotsApart'
    BY <1>1, <1>2, <2>1 DEF DriverInv, Types, SlotsApart
  <2> QED
    BY <2>3, <2>4, <2>5, <2>6 DEF DriverInv
<1> QED
  BY <1>1, <1>3, <1>4

(* A connect or a connection ends, and what it held is released. *)
LEMMA EndAttemptKeeps ==
  ASSUME DriverInv, NEW t \in Task, EndAttempt(t)
  PROVE  DriverInv'
<1>1. /\ pc' = [pc EXCEPT ![t] = "idle"] /\ db' = [db EXCEPT ![t] = 0]
      /\ holder' = [s \in States |-> IF holder[s] = t THEN NoTask ELSE holder[s]]
      /\ opts' = [opts EXCEPT ![t] = NoOptions]
      /\ UNCHANGED <<slot, file, built>>
  BY DEF EndAttempt, Release
<1>2. Types'
  BY <1>1, DriverAssumption DEF DriverInv, Types, NoOptions
<1>3. OneBuilder'
  BY <1>1, StateOf DEF DriverInv, Types, OneBuilder, State
<1>4. SlotOrOwn' /\ SlotsApart'
  BY <1>1 DEF DriverInv, Types, SlotOrOwn, SlotsApart, HasDatabase, State
<1> QED
  BY <1>2, <1>3, <1>4 DEF DriverInv

(* The steps that leave the databases alone. *)
LEMMA OthersKeep ==
  ASSUME DriverInv,
         (\E t \in Task : ConnectRefused(t) \/ ApplyPragma(t) \/ Connected(t)) \/ DropDatabase \/ UNCHANGED vars
  PROVE  DriverInv'
<1>1. /\ UNCHANGED <<slot, holder, opts, db, built>>
      /\ file' = file \/ file' = 0
      /\ \/ pc' = pc
         \/ \E t \in Task : pc[t] = "pragmas" /\ pc' = [pc EXCEPT ![t] = "open"]
  BY DEF ConnectRefused, ApplyPragma, Connected, DropDatabase, vars, tasks, mutex
<1>2. Types' /\ OneBuilder'
  BY <1>1 DEF DriverInv, Types, OneBuilder, State
<1>3. \A t \in Task : HasDatabase(t)' <=> HasDatabase(t)
  BY <1>1 DEF DriverInv, Types, HasDatabase
<1>4. SlotOrOwn'
  BY <1>1, <1>3 DEF DriverInv, SlotOrOwn, State
<1>5. SlotsApart'
  BY <1>1 DEF DriverInv, Types, SlotsApart
<1> QED
  BY <1>2, <1>4, <1>5 DEF DriverInv

LEMMA DriverStep == DriverInv /\ [Next]_vars => DriverInv'
<1> SUFFICES ASSUME DriverInv, [Next]_vars PROVE DriverInv'
  OBVIOUS
<1>1. ASSUME NEW t \in Task, Connect(t) PROVE DriverInv'
  BY <1>1, ConnectKeeps
<1>2. ASSUME NEW t \in Task, Reuse(t) PROVE DriverInv'
  BY <1>2, ReuseKeeps
<1>3. ASSUME NEW t \in Task, StartBuild(t) PROVE DriverInv'
  BY <1>3, StartBuildKeeps
<1>4. ASSUME NEW t \in Task, Build(t) PROVE DriverInv'
  BY <1>4, BuildKeeps
<1>5. ASSUME NEW t \in Task,
             BuildFails(t) \/ PragmaFails(t) \/ Cancel(t) \/ CloseConnection(t)
      PROVE DriverInv'
  BY <1>5, EndAttemptKeeps DEF BuildFails, PragmaFails, Cancel, CloseConnection
<1>6. ASSUME NEW t \in Task, Open(t) PROVE DriverInv'
  BY <1>6, OpenKeeps
<1> QED
  BY <1>1, <1>2, <1>3, <1>4, <1>5, <1>6, OthersKeep DEF Next, Step

-----------------------------------------------------------------------------
(* Whoever connects through clones of shared in-memory options gets the same *)
(* database, whatever fails or is dropped in between.                        *)
THEOREM ClonesShare == Spec => []ClonesShareOneDatabase
<1>1. DriverInv => ClonesShareOneDatabase
  BY DEF DriverInv, SlotOrOwn, ClonesShareOneDatabase, Shares
<1> QED
  BY <1>1, DriverInit, DriverStep, PTL DEF Spec

(* Nobody else gets that database, nor one that is not in the file.          *)
THEOREM OthersApart == Spec => []OthersStayApart
<1>1. DriverInv => OthersStayApart
  <2> SUFFICES ASSUME DriverInv, NEW t \in Task, NEW u \in Task, t # u,
                      HasDatabase(t), HasDatabase(u), db[t] = db[u]
               PROVE  Shares(t, u) \/ (ToFile(t) /\ ToFile(u))
    BY DEF OthersStayApart
  <2>1. ~IsOwn(opts[t]) /\ ~IsOwn(opts[u])
    BY DEF DriverInv, SlotOrOwn
  <2>2. State(t) \in States /\ State(u) \in States
    BY StateOf DEF DriverInv
  <2>3. CASE IsShared(opts[t]) /\ IsShared(opts[u])
    <3>1. db[t] # 0 /\ slot[State(t)] = db[t] /\ slot[State(u)] = db[t]
      BY <2>3 DEF DriverInv, SlotOrOwn
    <3>2. State(t) = State(u)
      BY <2>2, <3>1 DEF DriverInv, SlotsApart
    <3> QED BY <2>3, <3>2 DEF Shares
  <2>4. ~(IsShared(opts[t]) /\ ~IsShared(opts[u])) /\ ~(IsShared(opts[u]) /\ ~IsShared(opts[t]))
    BY <2>2 DEF DriverInv, SlotOrOwn
  <2>5. CASE ~IsShared(opts[t]) /\ ~IsShared(opts[u])
    BY <2>1, <2>5 DEF IsOwn, ToFile
  <2> QED BY <2>3, <2>4, <2>5
<1> QED
  BY <1>1, DriverInit, DriverStep, PTL DEF Spec

-----------------------------------------------------------------------------
(* Options.  What a builder method does to the name and the state.           *)

Fields == {"target", "memory_state", "open_mode", "cache", "immutable", "vfs", "custom_io",
           "encryption", "sync", "features", "pragmas"}

(* The name of an in-memory database is that of the state it is kept in.     *)
NameIsState(o) ==
  DOMAIN o = Fields /\ (o.target.kind = "memory" => o.target = Memory(o.memory_state))

LEMMA SettingKeeps ==
  ASSUME NEW o, NameIsState(o), NEW p, DOMAIN p = DOMAIN o,
         p.target = o.target, p.memory_state = o.memory_state
  PROVE  NameIsState(p)
BY DEF NameIsState

LEMMA DefaultKeeps == ASSUME NEW n PROVE NameIsState(Default(n))
<1>1. Default(n).target = Memory(n) /\ Default(n).memory_state = n /\ DOMAIN Default(n) = Fields
  BY Zenon DEF Default, Fields
<1> QED BY <1>1 DEF NameIsState

LEMMA FilenameKeeps ==
  ASSUME NEW o, NameIsState(o), NEW f
  PROVE  NameIsState(Filename(o, f))
<1>1. File(f).kind = "file"
  BY Zenon DEF File
<1>2. Filename(o, f).target = File(f) /\ DOMAIN Filename(o, f) = DOMAIN o
  BY Zenon DEF Filename, NameIsState, Fields
<1> QED BY <1>1, <1>2 DEF NameIsState

LEMMA InMemoryKeeps ==
  ASSUME NEW o, NameIsState(o), NEW b, NEW n
  PROVE  NameIsState(InMemory(o, b, n))
<1>1. CASE ~b
  BY <1>1, FilenameKeeps, Zenon DEF InMemory
<1>2. CASE b
  <2> DEFINE p == [o EXCEPT !.target = Memory(n), !.cache = "shared", !.memory_state = n]
  <2>1. p.target = Memory(n) /\ p.memory_state = n /\ DOMAIN p = DOMAIN o
    BY Zenon DEF NameIsState, Fields
  <2>2. InMemory(o, b, n) = p
    BY <1>2, Zenon DEF InMemory
  <2> HIDE DEF p
  <2> QED BY <2>1, <2>2 DEF NameIsState
<1> QED BY <1>1, <1>2

(* The other builder methods change neither. *)
LEMMA OthersKeepName ==
  ASSUME NEW o, NameIsState(o), NEW b, NEW x, NEW y
  PROVE  /\ NameIsState(ReadOnly(o, b)) /\ NameIsState(CreateIfMissing(o, b))
         /\ NameIsState(SharedCache(o, b)) /\ NameIsState(Immutable(o, b))
         /\ NameIsState(Vfs(o, x)) /\ NameIsState(CustomIo(o)) /\ NameIsState(ClearCustomIo(o))
         /\ NameIsState(EncryptionOptions(o, x)) /\ NameIsState(WithSyncOptions(o, x))
         /\ NameIsState(ExperimentalFeature(o, x, b))
         /\ NameIsState(Pragma(o, x, y)) /\ NameIsState(Mvcc(o, b))
<1>1. \A p : (\E f \in Fields \ {"target", "memory_state"} : \E v : p = [o EXCEPT ![f] = v])
              => NameIsState(p)
  <2> SUFFICES ASSUME NEW p, NEW f \in Fields \ {"target", "memory_state"}, NEW v,
                      p = [o EXCEPT ![f] = v]
               PROVE  NameIsState(p)
    OBVIOUS
  <2>1. "target" \in DOMAIN o /\ "memory_state" \in DOMAIN o /\ f # "target" /\ f # "memory_state"
    BY DEF NameIsState, Fields
  <2>2. DOMAIN p = DOMAIN o /\ p.target = o.target /\ p.memory_state = o.memory_state
    BY <2>1
  <2> QED BY <2>2, SettingKeeps
<1>2. \A v : /\ NameIsState([o EXCEPT !.open_mode = v]) /\ NameIsState([o EXCEPT !.cache = v])
             /\ NameIsState([o EXCEPT !.immutable = v]) /\ NameIsState([o EXCEPT !.vfs = v])
             /\ NameIsState([o EXCEPT !.custom_io = v]) /\ NameIsState([o EXCEPT !.encryption = v])
             /\ NameIsState([o EXCEPT !.sync = v]) /\ NameIsState([o EXCEPT !.features = v])
             /\ NameIsState([o EXCEPT !.pragmas = v])
  BY <1>1, Zenon DEF Fields
<1>3. /\ NameIsState(ReadOnly(o, b)) /\ NameIsState(CreateIfMissing(o, b))
      /\ NameIsState(SharedCache(o, b)) /\ NameIsState(Immutable(o, b))
      /\ NameIsState(ClearCustomIo(o))
      /\ NameIsState(EncryptionOptions(o, x)) /\ NameIsState(WithSyncOptions(o, x))
      /\ NameIsState(ExperimentalFeature(o, x, b))
  BY <1>2, Zenon DEF ReadOnly, CreateIfMissing, SharedCache, Immutable, ClearCustomIo,
     EncryptionOptions, WithSyncOptions, ExperimentalFeature
<1>4. NameIsState(Vfs(o, x)) /\ NameIsState(CustomIo(o))
  <2>1. /\ DOMAIN Vfs(o, x) = DOMAIN o /\ Vfs(o, x).target = o.target
        /\ Vfs(o, x).memory_state = o.memory_state
    BY Zenon DEF Vfs, NameIsState, Fields
  <2>2. /\ DOMAIN CustomIo(o) = DOMAIN o /\ CustomIo(o).target = o.target
        /\ CustomIo(o).memory_state = o.memory_state
    BY Zenon DEF CustomIo, NameIsState, Fields
  <2> QED BY <2>1, <2>2, SettingKeeps
<1>5. \A k, v : NameIsState(Pragma(o, k, v))
  BY <1>2, Zenon DEF Pragma
<1>6. NameIsState(Mvcc(o, b))
  BY <1>5, Zenon DEF Mvcc
<1> QED BY <1>3, <1>4, <1>5, <1>6

-----------------------------------------------------------------------------
(* Reading a URL.                                                            *)

(* A list of anything. *)
IsList(s) == \E S : s \in Seq(S)

(* A state of the parser, with options that keep the name and the state      *)
(* alike.                                                                    *)
Reading(s) == DOMAIN s = {"options", "cipher", "hexkey", "sync", "ok"} /\ NameIsState(s.options)

(* Every update of the parser's state leaves such a state. *)
LEMMA ReadingStays ==
  ASSUME NEW s, Reading(s), NEW o, NameIsState(o), NEW v
  PROVE  /\ Reading(With(s, o)) /\ Reading(Refuse(s))
         /\ Reading([s EXCEPT !.cipher = v]) /\ Reading([s EXCEPT !.hexkey = v])
         /\ Reading([s EXCEPT !.sync = v])
         /\ With(s, o).options = o
<1> DEFINE t == With(s, o)
<1>1. DOMAIN t = DOMAIN s /\ t.options = o
  BY Zenon DEF With, Reading
<1>2. DOMAIN Refuse(s) = DOMAIN s /\ Refuse(s).options = s.options
  BY Zenon DEF Refuse, Reading
<1>3. /\ DOMAIN [s EXCEPT !.cipher = v] = DOMAIN s /\ [s EXCEPT !.cipher = v].options = s.options
      /\ DOMAIN [s EXCEPT !.hexkey = v] = DOMAIN s /\ [s EXCEPT !.hexkey = v].options = s.options
      /\ DOMAIN [s EXCEPT !.sync = v] = DOMAIN s /\ [s EXCEPT !.sync = v].options = s.options
  BY Zenon DEF Reading
<1> QED BY <1>1, <1>2, <1>3, Zenon DEF Reading

(* The state before the first parameter. *)
LEMMA ParsingReads == ASSUME NEW d, NEW n PROVE Reading(Parsing(d, n))
<1> DEFINE o == IF d = ":memory:" THEN InMemory(Default(n), TRUE, n + 1)
                ELSE Filename(Default(n), d)
<1>1. NameIsState(o)
  BY DefaultKeeps, InMemoryKeeps, FilenameKeeps, Zenon
<1>2. /\ Parsing(d, n).options = o
      /\ DOMAIN Parsing(d, n) = {"options", "cipher", "hexkey", "sync", "ok"}
  BY Zenon DEF Parsing
<1> QED BY <1>1, <1>2, Zenon DEF Reading

(* The parameter mode, which makes the options in-memory or opens them in    *)
(* another way.                                                              *)
LEMMA ModeReads ==
  ASSUME NEW s, Reading(s), NEW value, NEW n
  PROVE  Reading(Mode(s, value, n))
<1>1. NameIsState(s.options)
  BY DEF Reading
<1>2. /\ NameIsState(ReadOnly(s.options, TRUE)) /\ NameIsState(CreateIfMissing(s.options, TRUE))
      /\ NameIsState(InMemory(s.options, TRUE, n))
  BY <1>1, OthersKeepName, InMemoryKeeps, Zenon
<1> QED BY <1>1, <1>2, ReadingStays DEF Mode

(* A sync parameter changes the sync options only. *)
LEMMA SyncReads ==
  ASSUME NEW s, Reading(s), NEW key \in SyncKeys, NEW value
  PROVE  Reading(SyncParam(s, key, value))
<1>1. NameIsState(s.options)
  BY DEF Reading
<1>2. \A v : Reading([s EXCEPT !.sync = v])
  BY <1>1, ReadingStays, Zenon
<1>3. Reading(Refuse(s))
  BY <1>1, ReadingStays, Zenon
<1>4. CASE key = "sync_remote_url"
  BY <1>2, <1>4 DEF SyncParam
<1>5. CASE key = "sync_auth_token"
  BY <1>2, <1>5 DEF SyncParam
<1>6. CASE key = "sync_client_name"
  BY <1>2, <1>6 DEF SyncParam
<1>7. CASE key = "sync_long_poll_timeout_ms"
  BY <1>2, <1>3, <1>7 DEF SyncParam
<1>8. CASE key = "sync_bootstrap_if_empty"
  BY <1>2, <1>3, <1>8 DEF SyncParam
<1> QED BY <1>4, <1>5, <1>6, <1>7, <1>8 DEF SyncKeys

(* Any parameter. *)
LEMMA ParamReads ==
  ASSUME NEW s, Reading(s), NEW key, NEW value, NEW n
  PROVE  Reading(ApplyParam(s, key, value, n))
<1>0. NameIsState(s.options)
  BY DEF Reading
<1>1. /\ \A o : NameIsState(o) => Reading(With(s, o))
      /\ \A v : Reading([s EXCEPT !.cipher = v]) /\ Reading([s EXCEPT !.hexkey = v])
      /\ Reading(Refuse(s))
  BY <1>0, ReadingStays, Zenon
<1>2. /\ \A b : NameIsState(SharedCache(s.options, b)) /\ NameIsState(Immutable(s.options, b))
      /\ NameIsState(Vfs(s.options, value)) /\ NameIsState(Pragma(s.options, key, value))
      /\ NameIsState(Mvcc(s.options, TRUE))
  BY <1>0, OthersKeepName, Zenon
<1>3. Reading(Mode(s, value, n))
  BY ModeReads
<1>4. Reading(Cache(s, value))
  BY <1>1, <1>2, Zenon DEF Cache
<1>5. Reading(Experimental(s, value))
  <2>1. \A v : NameIsState([s.options EXCEPT !.features = v])
    <3> SUFFICES ASSUME NEW v PROVE NameIsState([s.options EXCEPT !.features = v])
      OBVIOUS
    <3>1. /\ DOMAIN [s.options EXCEPT !.features = v] = DOMAIN s.options
          /\ [s.options EXCEPT !.features = v].target = s.options.target
          /\ [s.options EXCEPT !.features = v].memory_state = s.options.memory_state
      BY <1>0, Zenon DEF NameIsState, Fields
    <3> QED BY <1>0, <3>1, SettingKeeps
  <2> QED BY <1>1, <2>1, Zenon DEF Experimental
<1>6. key \in SyncKeys => Reading(SyncParam(s, key, value))
  BY SyncReads
<1> HIDE DEF Reading
<1> QED
  BY <1>1, <1>2, <1>3, <1>4, <1>5, <1>6 DEF ApplyParam, SyncKeys

(* What from_str does after the loop. *)
LEMMA FinishReads ==
  ASSUME NEW s, Reading(s)
  PROVE  Reading(Finish(s))
<1>1. \A t : Reading(t) =>
              /\ Reading(Refuse(t))
              /\ \A x : /\ Reading(With(t, EncryptionOptions(t.options, x)))
                        /\ Reading(With(t, WithSyncOptions(t.options, x)))
  <2> SUFFICES ASSUME NEW t, Reading(t), NEW x
               PROVE  /\ Reading(Refuse(t)) /\ Reading(With(t, EncryptionOptions(t.options, x)))
                      /\ Reading(With(t, WithSyncOptions(t.options, x)))
    OBVIOUS
  <2>1. NameIsState(t.options)
    BY DEF Reading
  <2>2. NameIsState(EncryptionOptions(t.options, x)) /\ NameIsState(WithSyncOptions(t.options, x))
    BY <2>1, OthersKeepName, Zenon
  <2> QED BY <2>1, <2>2, ReadingStays, Zenon
<1>2. Reading(Encrypted(s))
  BY <1>1, Zenon DEF Encrypted
<1>3. Reading(Synced(Encrypted(s)))
  BY <1>1, <1>2, Zenon DEF Synced
<1> QED BY <1>3, Zenon DEF Finish

(* Every set of numbers has a least one. *)
LEMMA LeastNatural ==
  ASSUME NEW T, T \subseteq Nat, T # {}
  PROVE  \E x \in T : \A y \in T : x <= y
<1> DEFINE R == OpToRel(<, Nat)
<1>1. IsWellFoundedOn(R, Nat)
  BY NatLessThanWellFounded
<1>2. \A x \in Nat, y \in Nat : x < y => <<x, y>> \in R
  BY DEF OpToRel
<1> HIDE DEF R
<1>3. PICK x \in T : \A y \in T : ~ (<<y, x>> \in R)
  BY <1>1, WFMin
<1>4. ASSUME NEW y \in T PROVE x <= y
  <2>1. ~ (<<y, x>> \in R) /\ x \in Nat /\ y \in Nat
    BY <1>3
  <2>2. ~ (y < x)
    BY <1>2, <2>1, Zenon
  <2> QED BY <2>1, <2>2
<1> QED BY <1>4

(* The loop's states are what the recursion says: for every number of rounds *)
(* there is a function that satisfies it.                                    *)
LEMMA RoundsAre ==
  ASSUME NEW u, Len(u.params) \in Nat, NEW n
  PROVE  LET r == Rounds(u, n) IN
         /\ r[0] = Parsing(u.database, n)
         /\ \A i \in 1 .. Len(u.params) :
              r[i] = ApplyParam(r[i - 1], u.params[i].key, u.params[i].value, n + 2)
<1> DEFINE L == Len(u.params)
           Start == Parsing(u.database, n)
           Round(s, i) == ApplyParam(s, u.params[i].key, u.params[i].value, n + 2)
           Upto(f, k) == f = [i \in 0 .. k |-> IF i = 0 THEN Start ELSE Round(f[i - 1], i)]
<1>1. Rounds(u, n) = CHOOSE f : Upto(f, L)
  BY Zenon DEF Rounds
<1>0. L \in Nat
  OBVIOUS
<1> HIDE DEF L, Start, Round
<1>2. \A k \in Nat : \E f : Upto(f, k)
  <2> DEFINE T == {k \in Nat : ~ \E f : Upto(f, k)}
  <2> SUFFICES ASSUME T # {} PROVE FALSE
    OBVIOUS
  <2>1. PICK k \in T : \A j \in T : k <= j
    <3> HIDE DEF T
    <3>1. T \subseteq Nat
      BY DEF T
    <3> QED BY <3>1, LeastNatural
  <2>2. k # 0
    <3> DEFINE f == [i \in 0 .. 0 |-> Start]
    <3>1. f = [i \in 0 .. 0 |-> IF i = 0 THEN Start ELSE Round(f[i - 1], i)]
      OBVIOUS
    <3>2. Upto(f, 0)
      BY <3>1
    <3> QED BY <3>2, <2>1
  <2>3. k - 1 \in Nat /\ k - 1 \notin T
    <3>1. T \subseteq Nat
      OBVIOUS
    <3> HIDE DEF T
    <3> QED BY <2>1, <2>2, <3>1
  <2>4. PICK g : Upto(g, k - 1)
    BY <2>3
  <2> DEFINE f == [i \in 0 .. k |-> IF i = k THEN Round(g[k - 1], k) ELSE g[i]]
             h == [i \in 0 .. k |-> IF i = 0 THEN Start ELSE Round(f[i - 1], i)]
  <2>5. ASSUME NEW i \in 0 .. k PROVE f[i] = h[i]
    <3>1. CASE i = k
      <4>1. f[i - 1] = g[k - 1] /\ i # 0
        BY <2>2, <2>3, <3>1
      <4>2. f[i] = Round(g[k - 1], k)
        BY <3>1
      <4>3. h[i] = Round(f[i - 1], i)
        BY <4>1
      <4> QED BY <3>1, <4>1, <4>2, <4>3
    <3>2. CASE i # k
      <4>1. i \in 0 .. k - 1 /\ f[i] = g[i]
        BY <2>3, <3>2
      <4>2. g[i] = IF i = 0 THEN Start ELSE Round(g[i - 1], i)
        BY <2>4, <4>1
      <4>3. i # 0 => f[i - 1] = g[i - 1]
        BY <2>3, <4>1
      <4>4. h[i] = IF i = 0 THEN Start ELSE Round(f[i - 1], i)
        OBVIOUS
      <4> QED BY <4>1, <4>2, <4>3, <4>4
    <3> QED BY <3>1, <3>2
  <2>6. f = h
    BY <2>5
  <2>7. Upto(f, k)
    BY <2>6
  <2> QED BY <2>1, <2>7
<1> DEFINE r == Rounds(u, n)
<1>3. Upto(r, L)
  BY <1>0, <1>1, <1>2
<1> HIDE DEF r
<1>4. r[0] = Start /\ \A i \in 1 .. L : r[i] = Round(r[i - 1], i)
  BY <1>0, <1>3
<1> QED BY <1>4 DEF r, Start, Round, L

(* The loop and what follows it, for a URL of any length. *)
LEMMA ParseReads ==
  ASSUME NEW u, Len(u.params) \in Nat, NEW n
  PROVE  Reading(Parse(u, n))
<1> DEFINE L == Len(u.params)
           r == Rounds(u, n)
           T == {i \in 0 .. L : ~Reading(r[i])}
<1>0. L \in Nat
  OBVIOUS
<1>1. Reading(r[0])
  BY RoundsAre, ParsingReads
<1>2. \A i \in 1 .. L : Reading(r[i - 1]) => Reading(r[i])
  <2> SUFFICES ASSUME NEW i \in 1 .. L, Reading(r[i - 1]) PROVE Reading(r[i])
    OBVIOUS
  <2>1. r[i] = ApplyParam(r[i - 1], u.params[i].key, u.params[i].value, n + 2)
    BY RoundsAre
  <2> HIDE DEF r
  <2> QED BY <2>1, ParamReads
<1> HIDE DEF r, L
<1>3. T = {}
  <2> SUFFICES ASSUME T # {} PROVE FALSE
    OBVIOUS
  <2>1. T \subseteq Nat
    BY <1>0
  <2>2. PICK i \in T : \A j \in T : i <= j
    BY <2>1, LeastNatural
  <2>3. i # 0
    BY <1>1
  <2>4. i - 1 \in 0 .. L /\ i - 1 \notin T /\ i \in 1 .. L
    BY <1>0, <2>2, <2>3
  <2> QED BY <1>2, <2>2, <2>4
<1>4. Reading(r[L])
  BY <1>0, <1>3
<1> QED BY <1>4, FinishReads DEF Parse, r, L

-----------------------------------------------------------------------------
(* What one parameter does. *)

(* The settings of options. *)
LEMMA FieldsAre ==
  /\ "target" \in Fields /\ "memory_state" \in Fields /\ "open_mode" \in Fields
  /\ "cache" \in Fields /\ "immutable" \in Fields /\ "vfs" \in Fields
  /\ "custom_io" \in Fields /\ "encryption" \in Fields /\ "sync" \in Fields
  /\ "features" \in Fields /\ "pragmas" \in Fields
BY Zenon DEF Fields

(* What With and the other updates of the parser's state leave.              *)
LEMMA WithIs ==
  ASSUME NEW s, Reading(s), NEW v, NEW t, t = With(s, v)
  PROVE
         /\ t.options = v /\ t.ok = s.ok /\ t.sync = s.sync
         /\ t.cipher = s.cipher /\ t.hexkey = s.hexkey
BY Zenon DEF Reading, With

LEMMA SyncIs ==
  ASSUME NEW s, Reading(s), NEW v, NEW t, t = [s EXCEPT !.sync = v]
  PROVE
              /\ t.sync = v /\ t.cipher = s.cipher /\ t.hexkey = s.hexkey
              /\ t.options = s.options /\ t.ok = s.ok
BY Zenon DEF Reading

LEMMA RefuseIs ==
  ASSUME NEW s, Reading(s), NEW t, t = Refuse(s)
  PROVE
              /\ t.ok = FALSE /\ t.options = s.options /\ t.sync = s.sync
              /\ t.cipher = s.cipher /\ t.hexkey = s.hexkey
BY Zenon DEF Reading, Refuse

(* The settings of options that a parameter may change. *)
Same(q, o, F) == \A f \in Fields \ F : q[f] = o[f]

(* q is o with the setting f changed. *)
Changes(q, o, f, v) == q = [o EXCEPT ![f] = v]

(* In t one setting of the options in s is changed, and nothing else.        *)
Sets(s, t, f, v) ==
  /\ t.options[f] = v /\ Same(t.options, s.options, {f})
  /\ t.ok = s.ok /\ t.sync = s.sync
  /\ t.cipher = s.cipher /\ t.hexkey = s.hexkey

(* An update of one setting changes that setting and no other. *)
LEMMA SetField ==
  ASSUME NEW s, Reading(s), NEW f \in Fields, NEW v, NEW q, Changes(q, s.options, f, v),
         NEW t, t = With(s, q)
  PROVE  Sets(s, t, f, v)
<1>1. Fields \subseteq DOMAIN s.options
  BY DEF Reading, NameIsState
<1>2. q[f] = v /\ \A g \in Fields \ {f} : q[g] = s.options[g]
  BY <1>1 DEF Changes
<1>3. /\ t.options = q /\ t.ok = s.ok /\ t.sync = s.sync
      /\ t.cipher = s.cipher /\ t.hexkey = s.hexkey
  BY WithIs
<1> QED BY <1>2, <1>3, Zenon DEF Same, Sets

(* The value of every setting after a parameter. *)
Effect(s, t, key, value) ==
  LET o == s.options
      q == t.options
  IN  /\ t.ok = s.ok
      /\ t.cipher = IF key = "encryption_cipher" THEN value ELSE s.cipher
      /\ t.hexkey = IF key = "encryption_hexkey" THEN value ELSE s.hexkey
      /\ key \notin SyncKeys => t.sync = s.sync
      /\ q.target.kind = IF key = "mode" /\ value = "memory" THEN "memory" ELSE o.target.kind
      /\ (key = "mode" /\ value = "memory") \/ q.target = o.target
      /\ q.open_mode = IF key = "mode" /\ value \in {"ro", "rwc"} THEN value ELSE o.open_mode
      /\ q.cache = IF key = "mode" /\ value = "memory" THEN "shared"
                   ELSE IF key = "cache" THEN value ELSE o.cache
      /\ q.immutable = IF key = "immutable" THEN value \in Truth ELSE o.immutable
      /\ q.vfs = IF key = "vfs" THEN value ELSE o.vfs
      /\ q.features = IF key = "experimental" THEN o.features \cup FeaturesOf(value) ELSE o.features
      /\ q.pragmas = IF key = "journal_mode"
                     THEN Pragma(o, key, IF IsMvcc(value) THEN "'mvcc'" ELSE value).pragmas
                     ELSE o.pragmas
      /\ q.encryption = o.encryption /\ q.sync = o.sync

(* Options that agree on every setting. *)
LEMMA SameAre ==
  ASSUME NEW q, NEW o, NEW F, Same(q, o, F)
  PROVE  /\ "target" \notin F => q.target = o.target
         /\ "open_mode" \notin F => q.open_mode = o.open_mode
         /\ "cache" \notin F => q.cache = o.cache
         /\ "immutable" \notin F => q.immutable = o.immutable
         /\ "vfs" \notin F => q.vfs = o.vfs
         /\ "features" \notin F => q.features = o.features
         /\ "pragmas" \notin F => q.pragmas = o.pragmas
         /\ "encryption" \notin F => q.encryption = o.encryption
         /\ "sync" \notin F => q.sync = o.sync
BY FieldsAre, Zenon DEF Same

(* Effect for a parameter which sets exactly the fields F of the options *)
LEMMA OneOption ==
  ASSUME NEW s, NEW t, NEW F, Same(t.options, s.options, F),
         t.ok = s.ok, t.sync = s.sync, t.cipher = s.cipher, t.hexkey = s.hexkey,
         NEW key, NEW value, key \notin SyncKeys, key \notin {"encryption_cipher", "encryption_hexkey"},
         "encryption" \notin F, "sync" \notin F,
         \/ key = "mode" /\ value \in {"ro", "rwc"} /\ F = {"open_mode"} /\ t.options.open_mode = value
         \/ key = "mode" /\ value = "memory" /\ F = {"target", "cache", "memory_state"}
              /\ t.options.target.kind = "memory" /\ t.options.cache = "shared"
         \/ key = "cache" /\ F = {"cache"} /\ t.options.cache = value
         \/ key = "immutable" /\ F = {"immutable"} /\ t.options.immutable = (value \in Truth)
         \/ key = "vfs" /\ F = {"vfs", "custom_io"} /\ t.options.vfs = value
         \/ key = "experimental" /\ F = {"features"}
              /\ t.options.features = s.options.features \cup FeaturesOf(value)
         \/ key = "journal_mode" /\ F = {"pragmas"}
              /\ t.options.pragmas = Pragma(s.options, key, IF IsMvcc(value) THEN "'mvcc'" ELSE value).pragmas
         \/ key = "mode" /\ value = "rw" /\ F = {}
  PROVE  Effect(s, t, key, value)
<1>1. /\ "target" \notin F => t.options.target = s.options.target
      /\ "open_mode" \notin F => t.options.open_mode = s.options.open_mode
      /\ "cache" \notin F => t.options.cache = s.options.cache
      /\ "immutable" \notin F => t.options.immutable = s.options.immutable
      /\ "vfs" \notin F => t.options.vfs = s.options.vfs
      /\ "features" \notin F => t.options.features = s.options.features
      /\ "pragmas" \notin F => t.options.pragmas = s.options.pragmas
      /\ t.options.encryption = s.options.encryption
      /\ t.options.sync = s.options.sync
  BY SameAre
<1>2. key \notin {"encryption_cipher", "encryption_hexkey"} /\ key \notin SyncKeys
  OBVIOUS
<1>3. CASE key = "mode" /\ value \in {"ro", "rwc"} /\ F = {"open_mode"} /\ t.options.open_mode = value
  BY <1>1, <1>3 DEF Effect
<1>4. CASE key = "mode" /\ value = "memory" /\ F = {"target", "cache", "memory_state"}
              /\ t.options.target.kind = "memory" /\ t.options.cache = "shared"
  BY <1>1, <1>4 DEF Effect
<1>5. CASE key = "cache" /\ F = {"cache"} /\ t.options.cache = value
  BY <1>1, <1>5 DEF Effect
<1>6. CASE key = "immutable" /\ F = {"immutable"} /\ t.options.immutable = (value \in Truth)
  BY <1>1, <1>6 DEF Effect
<1>7. CASE key = "vfs" /\ F = {"vfs", "custom_io"} /\ t.options.vfs = value
  BY <1>1, <1>7 DEF Effect
<1>8. CASE key = "experimental" /\ F = {"features"}
              /\ t.options.features = s.options.features \cup FeaturesOf(value)
  BY <1>1, <1>8 DEF Effect
<1>9. CASE key = "journal_mode" /\ F = {"pragmas"}
              /\ t.options.pragmas = Pragma(s.options, key, IF IsMvcc(value) THEN "'mvcc'" ELSE value).pragmas
  BY <1>1, <1>9 DEF Effect
<1>10. CASE key = "mode" /\ value = "rw" /\ F = {}
  BY <1>1, <1>10 DEF Effect
<1> QED BY <1>3, <1>4, <1>5, <1>6, <1>7, <1>8, <1>9, <1>10, Zenon

(* The keys of these parameters are no sync keys. *)
LEMMA Keys ==
  ASSUME NEW key, key \in {"mode", "cache", "immutable", "vfs", "experimental", "journal_mode",
                           "encryption_cipher", "encryption_hexkey"}
  PROVE  key \notin SyncKeys
BY DEF SyncKeys

(* Parameters that leave the options alone: those for encryption and sync. *)
LEMMA OptionsKept ==
  ASSUME NEW s, NEW t, t.options = s.options, t.ok = s.ok, NEW key, NEW value,
         t.cipher = IF key = "encryption_cipher" THEN value ELSE s.cipher,
         t.hexkey = IF key = "encryption_hexkey" THEN value ELSE s.hexkey,
         key \notin SyncKeys => t.sync = s.sync,
         key \in SyncKeys \cup {"encryption_cipher", "encryption_hexkey"}
  PROVE  Effect(s, t, key, value)
<1>1. key \notin {"mode", "cache", "immutable", "vfs", "experimental", "journal_mode"}
  BY DEF SyncKeys
<1> QED BY <1>1 DEF Effect

(* A target made for memory is in memory. *)
LEMMA MemoryKind == \A n : Memory(n).kind = "memory"
BY Zenon DEF Memory

(* mode=memory, mode=ro and mode=rwc. *)
LEMMA ModeEffect ==
  ASSUME NEW s, Reading(s), NEW value \in {"ro", "rw", "rwc", "memory"}, NEW n,
         NEW t, t = Mode(s, value, n)
  PROVE  Effect(s, t, "mode", value)
<1>0. "mode" \notin SyncKeys /\ "open_mode" \in Fields
  BY Keys, FieldsAre, Zenon
<1>1. CASE value \in {"ro", "rwc"}
  <2>0. PICK q : Changes(q, s.options, "open_mode", value)
    BY Zenon DEF Changes
  <2>1. t = With(s, q)
    <3>1. /\ value = "ro" => t = With(s, ReadOnly(s.options, TRUE))
          /\ value = "rwc" => t = With(s, CreateIfMissing(s.options, TRUE))
      BY DEF Mode
    <3> QED BY <1>1, <2>0, <3>1, Zenon DEF Changes, ReadOnly, CreateIfMissing
  <2>2. Sets(s, t, "open_mode", value)
    BY <1>0, <2>0, <2>1, SetField
  <2>3. Effect(s, t, "mode", value)
    BY <1>0, <1>1, <2>2, OneOption DEF Sets
  <2> QED BY <2>2, <2>3 DEF Sets
<1>2. CASE value = "memory"
  <2> DEFINE q == InMemory(s.options, TRUE, n)
  <2>1. t = With(s, q)
    BY <1>2 DEF Mode
  <2>2. q = [s.options EXCEPT !.target = Memory(n), !.cache = "shared", !.memory_state = n]
    BY Zenon DEF InMemory
  <2>3. Fields \subseteq DOMAIN s.options
    BY DEF Reading, NameIsState
  <2>4. q.target = Memory(n) /\ q.cache = "shared"
    BY <2>2, <2>3, FieldsAre, Zenon
  <2>5. Same(q, s.options, {"target", "cache", "memory_state"})
    BY <2>2, <2>3, Zenon DEF Same
  <2>6. q.target.kind = "memory"
    BY <2>4, MemoryKind
  <2> HIDE DEF q
  <2>7. /\ t.options = q /\ t.ok = s.ok /\ t.sync = s.sync
        /\ t.cipher = s.cipher /\ t.hexkey = s.hexkey
    BY <2>1, WithIs
  <2>8. Effect(s, t, "mode", value)
    BY <1>0, <1>2, <2>4, <2>5, <2>6, <2>7, OneOption
  <2> QED BY <2>7, <2>8
<1>3. CASE value = "rw"
  <2>1. t = s
    BY <1>3 DEF Mode
  <2>2. Same(t.options, s.options, {})
    BY <2>1 DEF Same
  <2>3. Effect(s, t, "mode", value)
    BY <1>0, <1>3, <2>1, <2>2, OneOption
  <2> QED BY <2>1, <2>3
<1> QED BY <1>1, <1>2, <1>3

(* The parameters that set one setting to what they say. *)
LEMMA FieldEffect ==
  ASSUME NEW s, Reading(s), NEW t, NEW key, NEW value, NEW f, NEW v,
         NEW q, Changes(q, s.options, f, v), t = With(s, q),
         \/ key = "cache" /\ f = "cache" /\ v = value
         \/ key = "immutable" /\ f = "immutable" /\ v = (value \in Truth)
         \/ key = "experimental" /\ f = "features" /\ v = s.options.features \cup FeaturesOf(value)
         \/ key = "journal_mode" /\ f = "pragmas"
              /\ v = Pragma(s.options, key, IF IsMvcc(value) THEN "'mvcc'" ELSE value).pragmas
  PROVE  Effect(s, t, key, value)
<1>1. key \notin SyncKeys /\ f \in Fields
  BY Keys, FieldsAre, Zenon
<1>2. Sets(s, t, f, v)
  BY <1>1, SetField
<1>3. CASE key = "cache" /\ f = "cache" /\ v = value
  BY <1>1, <1>2, <1>3, OneOption DEF Sets
<1>4. CASE key = "immutable" /\ f = "immutable" /\ v = (value \in Truth)
  BY <1>1, <1>2, <1>4, OneOption DEF Sets
<1>5. CASE key = "experimental" /\ f = "features" /\ v = s.options.features \cup FeaturesOf(value)
  BY <1>1, <1>2, <1>5, OneOption DEF Sets
<1>6. CASE key = "journal_mode" /\ f = "pragmas"
              /\ v = Pragma(s.options, key, IF IsMvcc(value) THEN "'mvcc'" ELSE value).pragmas
  BY <1>1, <1>2, <1>6, OneOption DEF Sets
<1>7. t.ok = s.ok
  BY <1>2 DEF Sets
<1> QED BY <1>3, <1>4, <1>5, <1>6, <1>7

(* vfs, which drops the custom IO. *)
LEMMA VfsEffect ==
  ASSUME NEW s, Reading(s), NEW t, NEW value, t = With(s, Vfs(s.options, value))
  PROVE  Effect(s, t, "vfs", value)
<1> DEFINE q == Vfs(s.options, value)
<1>0. "vfs" \notin SyncKeys
  BY Keys, Zenon
<1>1. Fields \subseteq DOMAIN s.options
  BY DEF Reading, NameIsState
<1>2. q.vfs = value
  BY <1>1, FieldsAre, Zenon DEF Vfs
<1>3. Same(q, s.options, {"vfs", "custom_io"})
  BY <1>1, Zenon DEF Vfs, Same
<1>4. t = With(s, q)
  OBVIOUS
<1> HIDE DEF q
<1>5. /\ t.options = q /\ t.ok = s.ok /\ t.sync = s.sync
      /\ t.cipher = s.cipher /\ t.hexkey = s.hexkey
  BY <1>4, WithIs
<1>6. Effect(s, t, "vfs", value)
  BY <1>0, <1>2, <1>3, <1>5, OneOption
<1> QED BY <1>5, <1>6

(* Sync options of these values.                                             *)
SyncOf(remote, token, client, timeout, bootstrap) ==
  <<[remote_url |-> remote, auth_token |-> token, client_name |-> client,
     long_poll_timeout |-> timeout, bootstrap_if_empty |-> bootstrap]>>

(* The sync options sync_remote_url begins with. *)
LEMMA NewSyncIs == \A v : NewSync(v) = SyncOf(v, "none", "none", "none", TRUE)
BY Zenon DEF NewSync, SyncOf

(* The five settings of sync options. *)
LEMMA SyncFields ==
  ASSUME NEW a, NEW b, NEW c, NEW d, NEW e, NEW s, s = SyncOf(a, b, c, d, e)
  PROVE  /\ s # NoSync /\ s[1].remote_url = a /\ s[1].auth_token = b /\ s[1].client_name = c
         /\ s[1].long_poll_timeout = d /\ s[1].bootstrap_if_empty = e
BY DEF SyncOf, NoSync

(* The sync options after a parameter. *)
SyncAfter(key, value, a, b, c, d, e) ==
  IF key = "sync_remote_url" THEN NewSync(value)
  ELSE SyncOf(a, IF key = "sync_auth_token" THEN value ELSE b,
                 IF key = "sync_client_name" THEN value ELSE c,
                 IF key = "sync_long_poll_timeout_ms" THEN value ELSE d,
                 IF key = "sync_bootstrap_if_empty" THEN value \in Truth ELSE e)

(* A sync parameter has this effect if it is acceptable, and is refused      *)
(* otherwise.                                                                *)
LEMMA SyncEffect ==
  ASSUME NEW s, Reading(s), NEW key \in SyncKeys, NEW value,
         key = "sync_long_poll_timeout_ms" => value \notin NoMillis,
         key = "sync_bootstrap_if_empty" => IsBool(value),
         NEW a, NEW b, NEW c, NEW d, NEW e, SyncOrDefault(s.sync) = SyncOf(a, b, c, d, e),
         NEW t, t = SyncParam(s, key, value)
  PROVE  Effect(s, t, key, value) /\ t.sync = SyncAfter(key, value, a, b, c, d, e)
<1> DEFINE x == SyncOrDefault(s.sync)[1]
<1>1. /\ <<[x EXCEPT !.auth_token = value]>> = SyncOf(a, value, c, d, e)
      /\ <<[x EXCEPT !.client_name = value]>> = SyncOf(a, b, value, d, e)
      /\ <<[x EXCEPT !.long_poll_timeout = value]>> = SyncOf(a, b, c, value, e)
      /\ <<[x EXCEPT !.bootstrap_if_empty = value \in Truth]>> = SyncOf(a, b, c, d, value \in Truth)
  <2>1. x = SyncOf(a, b, c, d, e)[1]
    BY Zenon
  <2> HIDE DEF x
  <2>2. \A w : /\ <<[x EXCEPT !.auth_token = w]>> = SyncOf(a, w, c, d, e)
               /\ <<[x EXCEPT !.client_name = w]>> = SyncOf(a, b, w, d, e)
               /\ <<[x EXCEPT !.long_poll_timeout = w]>> = SyncOf(a, b, c, w, e)
               /\ <<[x EXCEPT !.bootstrap_if_empty = w]>> = SyncOf(a, b, c, d, w)
    BY <2>1 DEF SyncOf
  <2> QED BY <2>2, Zenon
<1>2. PICK v : v = SyncAfter(key, value, a, b, c, d, e)
  OBVIOUS
<1>3. t = [s EXCEPT !.sync = v]
  <2>1. CASE key = "sync_remote_url"
    BY <1>2, <2>1 DEF SyncAfter, SyncParam
  <2>2. CASE key = "sync_auth_token"
    <3>1. t = [s EXCEPT !.sync = <<[x EXCEPT !.auth_token = value]>>]
      BY <2>2 DEF SyncParam
    <3>2. v = SyncOf(a, value, c, d, e)
      BY <1>2, <2>2, Zenon DEF SyncAfter
    <3> QED BY <1>1, <3>1, <3>2, Zenon
  <2>3. CASE key = "sync_client_name"
    <3>1. t = [s EXCEPT !.sync = <<[x EXCEPT !.client_name = value]>>]
      BY <2>3 DEF SyncParam
    <3>2. v = SyncOf(a, b, value, d, e)
      BY <1>2, <2>3, Zenon DEF SyncAfter
    <3> QED BY <1>1, <3>1, <3>2, Zenon
  <2>4. CASE key = "sync_long_poll_timeout_ms"
    <3>1. t = [s EXCEPT !.sync = <<[x EXCEPT !.long_poll_timeout = value]>>]
      BY <2>4 DEF SyncParam
    <3>2. v = SyncOf(a, b, c, value, e)
      BY <1>2, <2>4, Zenon DEF SyncAfter
    <3> QED BY <1>1, <3>1, <3>2, Zenon
  <2>5. CASE key = "sync_bootstrap_if_empty"
    <3>1. t = [s EXCEPT !.sync = <<[x EXCEPT !.bootstrap_if_empty = value \in Truth]>>]
      BY <2>5 DEF SyncParam
    <3>2. v = SyncOf(a, b, c, d, value \in Truth)
      BY <1>2, <2>5, Zenon DEF SyncAfter
    <3> QED BY <1>1, <3>1, <3>2, Zenon
  <2> QED BY <2>1, <2>2, <2>3, <2>4, <2>5 DEF SyncKeys
<1>4. /\ t.sync = v /\ t.cipher = s.cipher /\ t.hexkey = s.hexkey
      /\ t.options = s.options /\ t.ok = s.ok
  BY <1>3, SyncIs
<1>5. key \notin {"encryption_cipher", "encryption_hexkey"}
  BY DEF SyncKeys
<1>6. Effect(s, t, key, value)
  BY <1>4, <1>5, OptionsKept
<1> QED BY <1>2, <1>4, <1>6

(* What a refused parameter is.                                              *)
LEMMA AcceptableKeys ==
  ASSUME NEW p
  PROVE  /\ p.key = "mode" => (Acceptable(p) <=> p.value \in {"ro", "rw", "rwc", "memory"})
         /\ p.key = "cache" => (Acceptable(p) <=> p.value \in {"private", "shared"})
         /\ p.key \in {"immutable", "sync_bootstrap_if_empty"} => (Acceptable(p) <=> IsBool(p.value))
         /\ p.key = "experimental" =>
              (Acceptable(p) <=> Elements(p.value) \subseteq DOMAIN FeatureNames)
         /\ p.key = "sync_long_poll_timeout_ms" => (Acceptable(p) <=> p.value \notin NoMillis)
         /\ p.key \in {"vfs", "encryption_cipher", "encryption_hexkey", "journal_mode",
                       "sync_remote_url", "sync_auth_token", "sync_client_name"} => Acceptable(p)
         /\ p.key \notin {"mode", "cache", "immutable", "experimental", "vfs", "encryption_cipher",
                          "encryption_hexkey", "journal_mode"} \cup SyncKeys => ~Acceptable(p)
BY DEF Acceptable, SyncKeys

(* journal_mode replaces the value of a pragma. *)
LEMMA PragmaEffect ==
  ASSUME NEW s, Reading(s), NEW value, NEW t,
         t = With(s, IF IsMvcc(value) THEN Mvcc(s.options, TRUE)
                     ELSE Pragma(s.options, "journal_mode", value))
  PROVE  Effect(s, t, "journal_mode", value)
<1> DEFINE w == IF IsMvcc(value) THEN "'mvcc'" ELSE value
<1>1. PICK q : q = Pragma(s.options, "journal_mode", w)
  OBVIOUS
<1>2. t = With(s, q)
  BY <1>1, Zenon DEF Mvcc
<1>3. PICK v : Changes(q, s.options, "pragmas", v)
  BY <1>1, Zenon DEF Pragma, Changes
<1>4. "pragmas" \in DOMAIN s.options
  BY FieldsAre DEF Reading, NameIsState
<1>5. q.pragmas = v
  BY <1>3, <1>4 DEF Changes
<1>6. v = Pragma(s.options, "journal_mode", w).pragmas
  BY <1>1, <1>5
<1> HIDE DEF w
<1> QED BY <1>2, <1>3, <1>6, FieldEffect DEF w

(* Every parameter has the effect its key and value say. *)
LEMMA ParamEffect ==
  ASSUME NEW s, Reading(s), s.ok, NEW p, NEW n, NEW t, t = ApplyParam(s, p.key, p.value, n),
         NEW a, NEW b, NEW c, NEW d, NEW e, SyncOrDefault(s.sync) = SyncOf(a, b, c, d, e)
  PROVE  /\ Acceptable(p) => Effect(s, t, p.key, p.value)
         /\ Acceptable(p) /\ p.key \in SyncKeys => t.sync = SyncAfter(p.key, p.value, a, b, c, d, e)
         /\ ~Acceptable(p) => ~t.ok
<1> DEFINE Good == /\ Acceptable(p) => Effect(s, t, p.key, p.value)
                   /\ Acceptable(p) /\ p.key \in SyncKeys =>
                        t.sync = SyncAfter(p.key, p.value, a, b, c, d, e)
                   /\ ~Acceptable(p) => ~t.ok
<1>1. t = Refuse(s) => ~t.ok
  BY RefuseIs
<1>2. CASE p.key = "mode"
  <2>1. t = Mode(s, p.value, n) /\ p.key \notin SyncKeys
    BY <1>2, Keys DEF ApplyParam
  <2>2. CASE p.value \in {"ro", "rw", "rwc", "memory"}
    <3>1. Effect(s, t, p.key, p.value)
      BY <1>2, <2>1, <2>2, ModeEffect
    <3> QED BY <1>2, <2>1, <2>2, <3>1, AcceptableKeys
  <2>3. CASE p.value \notin {"ro", "rw", "rwc", "memory"}
    <3>1. t = Refuse(s)
      BY <2>1, <2>3 DEF Mode
    <3> QED BY <1>1, <1>2, <2>1, <2>3, <3>1, AcceptableKeys
  <2> QED BY <2>2, <2>3
<1>3. CASE p.key = "cache"
  <2>1. t = Cache(s, p.value) /\ p.key \notin SyncKeys
    BY <1>3, Keys DEF ApplyParam
  <2>2. CASE p.value \in {"private", "shared"}
    <3>1. PICK q : Changes(q, s.options, "cache", p.value)
      BY Zenon DEF Changes
    <3>2. t = With(s, q)
      <4>1. t = With(s, SharedCache(s.options, p.value = "shared"))
        BY <2>1, <2>2 DEF Cache
      <4>2. (IF p.value = "shared" THEN "shared" ELSE "private") = p.value
        BY <2>2
      <4> QED BY <3>1, <4>1, <4>2, Zenon DEF SharedCache, Changes
    <3>3. Effect(s, t, p.key, p.value)
      BY <1>3, <3>1, <3>2, FieldEffect
    <3> QED BY <1>3, <2>1, <2>2, <3>3, AcceptableKeys
  <2>3. CASE p.value \notin {"private", "shared"}
    <3>1. t = Refuse(s)
      BY <2>1, <2>3 DEF Cache
    <3> QED BY <1>1, <1>3, <2>1, <2>3, <3>1, AcceptableKeys
  <2> QED BY <2>2, <2>3
<1>4. CASE p.key = "immutable"
  <2>1. /\ t = IF IsBool(p.value) THEN With(s, Immutable(s.options, p.value \in Truth)) ELSE Refuse(s)
        /\ p.key \notin SyncKeys
    BY <1>4, Keys DEF ApplyParam
  <2>2. CASE IsBool(p.value)
    <3>1. PICK m : m = (p.value \in Truth)
      BY Zenon
    <3>2. PICK q : Changes(q, s.options, "immutable", m)
      BY Zenon DEF Changes
    <3>3. t = With(s, q)
      BY <2>1, <2>2, <3>1, <3>2, Zenon DEF Immutable, Changes
    <3>4. Effect(s, t, p.key, p.value)
      BY <1>4, <3>1, <3>2, <3>3, FieldEffect
    <3> QED BY <1>4, <2>1, <2>2, <3>4, AcceptableKeys
  <2>3. CASE ~IsBool(p.value)
    <3>1. t = Refuse(s)
      BY <2>1, <2>3
    <3> QED BY <1>1, <1>4, <2>1, <2>3, <3>1, AcceptableKeys
  <2> QED BY <2>2, <2>3
<1>5. CASE p.key = "vfs"
  <2>1. t = With(s, Vfs(s.options, p.value)) /\ p.key \notin SyncKeys
    BY <1>5, Keys DEF ApplyParam
  <2> QED BY <1>5, <2>1, VfsEffect, AcceptableKeys
<1>6. CASE p.key = "encryption_cipher"
  <2>1. t = [s EXCEPT !.cipher = p.value] /\ p.key \notin SyncKeys
    BY <1>6, Keys DEF ApplyParam
  <2>2. /\ t.cipher = p.value /\ t.hexkey = s.hexkey /\ t.options = s.options
        /\ t.sync = s.sync /\ t.ok = s.ok
    <3>1. Reading(s) /\ t = [s EXCEPT !.cipher = p.value]
      BY <2>1, Zenon
    <3>2. PICK v : v = p.value
      OBVIOUS
    <3>3. t = [s EXCEPT !.cipher = v]
      BY <3>1, <3>2, Zenon
    <3>4. /\ t.cipher = v /\ t.hexkey = s.hexkey /\ t.options = s.options
          /\ t.sync = s.sync /\ t.ok = s.ok
      BY <3>1, <3>3, Zenon DEF Reading
    <3> QED BY <3>2, <3>4, Zenon
  <2>3. Effect(s, t, p.key, p.value)
    BY <1>6, <2>1, <2>2, OptionsKept
  <2> QED BY <1>6, <2>1, <2>2, <2>3, AcceptableKeys
<1>7. CASE p.key = "encryption_hexkey"
  <2>1. t = [s EXCEPT !.hexkey = p.value] /\ p.key \notin SyncKeys
    BY <1>7, Keys DEF ApplyParam
  <2>2. /\ t.hexkey = p.value /\ t.cipher = s.cipher /\ t.options = s.options
        /\ t.sync = s.sync /\ t.ok = s.ok
    <3>1. Reading(s) /\ t = [s EXCEPT !.hexkey = p.value]
      BY <2>1, Zenon
    <3>2. PICK v : v = p.value
      OBVIOUS
    <3>3. t = [s EXCEPT !.hexkey = v]
      BY <3>1, <3>2, Zenon
    <3>4. /\ t.hexkey = v /\ t.cipher = s.cipher /\ t.options = s.options
          /\ t.sync = s.sync /\ t.ok = s.ok
      BY <3>1, <3>3, Zenon DEF Reading
    <3> QED BY <3>2, <3>4, Zenon
  <2>3. Effect(s, t, p.key, p.value)
    BY <1>7, <2>1, <2>2, OptionsKept
  <2> QED BY <1>7, <2>1, <2>2, <2>3, AcceptableKeys
<1>8. CASE p.key = "journal_mode"
  <2>1. /\ t = With(s, IF IsMvcc(p.value) THEN Mvcc(s.options, TRUE)
                       ELSE Pragma(s.options, "journal_mode", p.value))
        /\ p.key \notin SyncKeys
    BY <1>8, Keys DEF ApplyParam
  <2> QED BY <1>8, <2>1, PragmaEffect, AcceptableKeys
<1>9. CASE p.key = "experimental"
  <2>1. t = Experimental(s, p.value) /\ p.key \notin SyncKeys
    BY <1>9, Keys DEF ApplyParam
  <2>2. CASE Elements(p.value) \subseteq DOMAIN FeatureNames
    <3>1. PICK m : m = s.options.features \cup FeaturesOf(p.value)
      BY Zenon
    <3>2. PICK q : Changes(q, s.options, "features", m)
      BY Zenon DEF Changes
    <3>3. t = With(s, q)
      BY <2>1, <2>2, <3>1, <3>2, Zenon DEF Experimental, Changes
    <3>4. Effect(s, t, p.key, p.value)
      BY <1>9, <3>1, <3>2, <3>3, FieldEffect
    <3> QED BY <1>9, <2>1, <2>2, <3>4, AcceptableKeys
  <2>3. CASE ~(Elements(p.value) \subseteq DOMAIN FeatureNames)
    <3>1. t = Refuse(s)
      BY <2>1, <2>3, Zenon DEF Experimental
    <3> QED BY <1>1, <1>9, <2>1, <2>3, <3>1, AcceptableKeys
  <2> QED BY <2>2, <2>3
<1>10. CASE p.key \in SyncKeys
  <2>1. t = SyncParam(s, p.key, p.value)
    BY <1>10 DEF ApplyParam, SyncKeys
  <2>2. CASE /\ p.key = "sync_long_poll_timeout_ms" => p.value \notin NoMillis
             /\ p.key = "sync_bootstrap_if_empty" => IsBool(p.value)
    <3>1. Effect(s, t, p.key, p.value) /\ t.sync = SyncAfter(p.key, p.value, a, b, c, d, e)
      BY <1>10, <2>1, <2>2, SyncEffect
    <3>2. Acceptable(p)
      BY <1>10, <2>2, AcceptableKeys DEF SyncKeys
    <3> QED BY <3>1, <3>2
  <2>3. CASE p.key = "sync_long_poll_timeout_ms" /\ p.value \in NoMillis
    <3>1. t = Refuse(s)
      BY <2>1, <2>3 DEF SyncParam
    <3> QED BY <1>1, <2>3, <3>1, AcceptableKeys
  <2>4. CASE p.key = "sync_bootstrap_if_empty" /\ ~IsBool(p.value)
    <3>1. t = Refuse(s)
      BY <2>1, <2>4 DEF SyncParam
    <3> QED BY <1>1, <2>4, <3>1, AcceptableKeys
  <2> QED BY <2>2, <2>3, <2>4
<1>11. CASE p.key \notin {"mode", "cache", "immutable", "experimental", "vfs", "encryption_cipher",
                          "encryption_hexkey", "journal_mode"} \cup SyncKeys
  <2>1. t = Refuse(s)
    BY <1>11 DEF ApplyParam
  <2> QED BY <1>1, <1>11, <2>1, AcceptableKeys
<1> HIDE DEF Good
<1>12. Good
  BY <1>2, <1>3, <1>4, <1>5, <1>6, <1>7, <1>8, <1>9, <1>10, <1>11 DEF Good
<1> QED BY <1>12 DEF Good

-----------------------------------------------------------------------------
(* What the parameters up to a position say. *)

(* The greatest of some positions, 0 if there are none. *)
Latest(I) == IF I # {} THEN Max(I) ELSE 0

(* The greatest of some positions up to k, from that of those before k. *)
LEMMA LatestIs ==
  ASSUME NEW k \in Nat, k # 0, NEW I, I \subseteq 1 .. k
  PROVE  Latest(I) = IF k \in I THEN k ELSE Latest(I \ {k})
<1>1. CASE k \in I
  <2>1. \E x \in I : \A y \in I : x >= y
    BY <1>1
  <2>2. Max(I) \in I /\ \A y \in I : Max(I) >= y
    BY <2>1, Zenon DEF Max
  <2>3. Max(I) >= k /\ Max(I) \in 1 .. k
    BY <1>1, <2>2
  <2>4. Max(I) = k
    BY <2>3
  <2> QED BY <1>1, <2>4 DEF Latest
<1>2. CASE k \notin I
  <2>1. I \ {k} = I
    BY <1>2
  <2> QED BY <1>2, <2>1
<1> QED BY <1>1, <1>2

(* Positions of parameters among the first k. *)
OfKeys(ps, keys, i, k) == {j \in i + 1 .. k : ps[j].key \in keys}
(* mode=memory, and the other modes. *)
ToMemory(ps, k) == {j \in 1 .. k : ps[j].key = "mode" /\ ps[j].value = "memory"}
Modes(ps, k) == {j \in 1 .. k : ps[j].key = "mode" /\ ps[j].value \in {"ro", "rwc"}}

(* The value of the last parameter of this key from position i + 1 to k. *)
ValueTo(ps, key, i, k, default) ==
  LET n == Latest(OfKeys(ps, {key}, i, k)) IN IF n = 0 THEN default ELSE ps[n].value

(* One more parameter of some keys. *)
LEMMA OfKeysNext ==
  ASSUME NEW ps, NEW k \in Nat, k # 0, NEW i \in 0 .. k - 1, NEW keys
  PROVE  Latest(OfKeys(ps, keys, i, k)) =
           IF ps[k].key \in keys THEN k ELSE Latest(OfKeys(ps, keys, i, k - 1))
<1>1. OfKeys(ps, keys, i, k) \subseteq 1 .. k
  BY DEF OfKeys
<1>2. k \in OfKeys(ps, keys, i, k) <=> ps[k].key \in keys
  BY DEF OfKeys
<1>3. OfKeys(ps, keys, i, k) \ {k} = OfKeys(ps, keys, i, k - 1)
  BY DEF OfKeys
<1> QED BY <1>1, <1>2, <1>3, LatestIs

(* None of them. *)
LEMMA NoKeys == ASSUME NEW ps, NEW k \in Nat, NEW keys PROVE Latest(OfKeys(ps, keys, k, k)) = 0
BY DEF OfKeys, Latest

(* The value with one more parameter. *)
LEMMA ValueNext ==
  ASSUME NEW ps, NEW k \in Nat, k # 0, NEW i \in 0 .. k - 1, NEW key, NEW d
  PROVE  ValueTo(ps, key, i, k, d) =
           IF ps[k].key = key THEN ps[k].value ELSE ValueTo(ps, key, i, k - 1, d)
BY OfKeysNext, k # 0 DEF ValueTo

(* The value without any. *)
LEMMA NoValue ==
  ASSUME NEW ps, NEW k \in Nat, NEW key, NEW d
  PROVE  ValueTo(ps, key, k, k, d) = d
BY NoKeys DEF ValueTo

(* The modes with one more parameter. *)
LEMMA ModesNext ==
  ASSUME NEW ps, NEW k \in Nat, k # 0
  PROVE  /\ Latest(ToMemory(ps, k)) =
              IF ps[k].key = "mode" /\ ps[k].value = "memory" THEN k ELSE Latest(ToMemory(ps, k - 1))
         /\ Latest(Modes(ps, k)) =
              IF ps[k].key = "mode" /\ ps[k].value \in {"ro", "rwc"} THEN k ELSE Latest(Modes(ps, k - 1))
<1>1. ToMemory(ps, k) \subseteq 1 .. k /\ Modes(ps, k) \subseteq 1 .. k
  BY DEF ToMemory, Modes
<1>2. /\ k \in ToMemory(ps, k) <=> ps[k].key = "mode" /\ ps[k].value = "memory"
      /\ k \in Modes(ps, k) <=> ps[k].key = "mode" /\ ps[k].value \in {"ro", "rwc"}
  BY DEF ToMemory, Modes
<1>3. ToMemory(ps, k) \ {k} = ToMemory(ps, k - 1) /\ Modes(ps, k) \ {k} = Modes(ps, k - 1)
  BY DEF ToMemory, Modes
<1> QED BY <1>1, <1>2, <1>3, LatestIs

(* Pragmas are the default ones with another journal mode. *)
PragmasWith(w) ==
  <<[key |-> "auto_vacuum", value |-> "none"], [key |-> "journal_mode", value |-> w],
    [key |-> "foreign_keys", value |-> "ON"]>>

(* A pragma that is there is replaced where it stands. *)
LEMMA PragmaList ==
  ASSUME NEW o, "pragmas" \in DOMAIN o, NEW w, o.pragmas = PragmasWith(w), NEW v
  PROVE  Pragma(o, "journal_mode", v).pragmas = PragmasWith(v)
<1> DEFINE known == {i \in DOMAIN o.pragmas : o.pragmas[i].key = "journal_mode"}
           list == [i \in DOMAIN o.pragmas |->
                      IF i \in known THEN [key |-> "journal_mode", value |-> v] ELSE o.pragmas[i]]
<1>1. known = {2}
  BY DEF PragmasWith
<1>2. Pragma(o, "journal_mode", v) = [o EXCEPT !.pragmas = list]
  <2>1. known # {}
    BY <1>1
  <2> QED BY <2>1, Zenon DEF Pragma
<1>3. list = PragmasWith(v)
  <2> HIDE DEF known
  <2> QED BY <1>1 DEF PragmasWith
<1> HIDE DEF list, known
<1>4. Pragma(o, "journal_mode", v).pragmas = list
  BY <1>2
<1> QED BY <1>3, <1>4

(* Whether such pragmas turn MVCC on. *)
LEMMA MvccIs ==
  ASSUME NEW o, NEW w, o.pragmas = PragmasWith(w)
  PROVE  GetMvcc(o) <=> IsMvcc(w)
<1>1. /\ DOMAIN o.pragmas = 1 .. 3 /\ o.pragmas[1].key # "journal_mode" /\ o.pragmas[3].key # "journal_mode"
      /\ o.pragmas[2].key = "journal_mode" /\ o.pragmas[2].value = w
  BY DEF PragmasWith
<1>2. \A i \in 1 .. 3 : i = 1 \/ i = 2 \/ i = 3
  OBVIOUS
<1>3. 2 \in 1 .. 3
  OBVIOUS
<1> QED BY <1>1, <1>2, <1>3, Zenon DEF GetMvcc

-----------------------------------------------------------------------------
(* The loop agrees with them: what the options and the rest of the state     *)
(* are after k parameters.                                                   *)

MemoryAt(u, k) == u.database = ":memory:" \/ Latest(ToMemory(u.params, k)) # 0
RemoteAt(u, k) == Latest(OfKeys(u.params, {"sync_remote_url"}, 0, k))
FeaturesTo(ps, k) == UNION {FeaturesOf(ps[i].value) : i \in {j \in 1 .. k : ps[j].key = "experimental"}}

AgreePositions(u, k) == Latest(ToMemory(u.params, k)) \in 0 .. k /\ RemoteAt(u, k) \in 0 .. k

AgreeTarget(u, s, k) ==
  /\ s.options.target.kind = "memory" <=> MemoryAt(u, k)
  /\ ~MemoryAt(u, k) => s.options.target = File(u.database)

AgreeMode(u, s, k) ==
  LET mode == Latest(Modes(u.params, k)) IN
  s.options.open_mode = IF mode = 0 THEN "rw" ELSE u.params[mode].value

AgreeCache(u, s, k) ==
  s.options.cache = ValueTo(u.params, "cache", Latest(ToMemory(u.params, k)), k,
                            IF MemoryAt(u, k) THEN "shared" ELSE "private")

AgreeFlags(u, s, k) ==
  /\ s.options.immutable = (ValueTo(u.params, "immutable", 0, k, "0") \in Truth)
  /\ s.options.vfs = ValueTo(u.params, "vfs", 0, k, "none")
  /\ s.options.features = FeaturesTo(u.params, k)
  /\ s.options.encryption = <<>> /\ s.options.sync = NoSync

AgreeJournal(u, s, k) ==
  \E w : /\ s.options.pragmas = PragmasWith(w)
         /\ IsMvcc(w) <=> IsMvcc(ValueTo(u.params, "journal_mode", 0, k, "none"))

AgreeKey(u, s, k) ==
  /\ s.cipher = ValueTo(u.params, "encryption_cipher", 0, k, "none")
  /\ s.hexkey = ValueTo(u.params, "encryption_hexkey", 0, k, "none")

SyncTo(u, k) ==
  SyncOf(ValueTo(u.params, "sync_remote_url", 0, k, ""),
         ValueTo(u.params, "sync_auth_token", RemoteAt(u, k), k, "none"),
         ValueTo(u.params, "sync_client_name", RemoteAt(u, k), k, "none"),
         ValueTo(u.params, "sync_long_poll_timeout_ms", RemoteAt(u, k), k, "none"),
         ValueTo(u.params, "sync_bootstrap_if_empty", RemoteAt(u, k), k, "1") \in Truth)

AgreeSync(u, s, k) ==
  /\ SyncOrDefault(s.sync) = SyncTo(u, k)
  /\ s.sync = NoSync <=> Latest(OfKeys(u.params, SyncKeys, 0, k)) = 0

Agree(u, s, k) ==
  /\ AgreePositions(u, k) /\ AgreeTarget(u, s, k) /\ AgreeMode(u, s, k) /\ AgreeCache(u, s, k)
  /\ AgreeFlags(u, s, k) /\ AgreeJournal(u, s, k) /\ AgreeKey(u, s, k) /\ AgreeSync(u, s, k)

(* The features, the positions and each part of the agreement, with one      *)
(* more parameter.                                                           *)
LEMMA FeaturesNext ==
  ASSUME NEW ps, NEW k \in Nat, k # 0
  PROVE  FeaturesTo(ps, k) = IF ps[k].key = "experimental"
                             THEN FeaturesTo(ps, k - 1) \cup FeaturesOf(ps[k].value)
                             ELSE FeaturesTo(ps, k - 1)
<1> DEFINE J(m) == {j \in 1 .. m : ps[j].key = "experimental"}
<1>1. J(k) = IF ps[k].key = "experimental" THEN J(k - 1) \cup {k} ELSE J(k - 1)
  OBVIOUS
<1>2. \A m : FeaturesTo(ps, m) = UNION {FeaturesOf(ps[i].value) : i \in J(m)}
  BY DEF FeaturesTo
<1> HIDE DEF J
<1>3. CASE ps[k].key = "experimental"
  <2>1. UNION {FeaturesOf(ps[i].value) : i \in J(k - 1) \cup {k}} =
          (UNION {FeaturesOf(ps[i].value) : i \in J(k - 1)}) \cup FeaturesOf(ps[k].value)
    BY Zenon
  <2> QED BY <1>1, <1>2, <1>3, <2>1
<1>4. CASE ps[k].key # "experimental"
  BY <1>1, <1>2, <1>4
<1> QED BY <1>3, <1>4

LEMMA PositionsNext ==
  ASSUME NEW u, NEW k \in Nat, k # 0, AgreePositions(u, k - 1)
  PROVE  AgreePositions(u, k)
<1>1. "sync_remote_url" \in {"sync_remote_url"}
  OBVIOUS
<1>2. 0 \in 0 .. k - 1
  OBVIOUS
<1> QED BY <1>1, <1>2, ModesNext, OfKeysNext DEF AgreePositions, RemoteAt

LEMMA TargetNext ==
  ASSUME NEW u, NEW s, NEW t, NEW k \in Nat, k # 0, AgreeTarget(u, s, k - 1),
         Effect(s, t, u.params[k].key, u.params[k].value)
  PROVE  AgreeTarget(u, t, k)
<1> DEFINE p == u.params[k]
<1>1. /\ t.options.target.kind = IF p.key = "mode" /\ p.value = "memory" THEN "memory" ELSE s.options.target.kind
      /\ (p.key = "mode" /\ p.value = "memory") \/ t.options.target = s.options.target
  BY Zenon DEF Effect
<1>2. Latest(ToMemory(u.params, k)) =
        IF p.key = "mode" /\ p.value = "memory" THEN k ELSE Latest(ToMemory(u.params, k - 1))
  BY ModesNext
<1> HIDE DEF p
<1>3. CASE p.key = "mode" /\ p.value = "memory"
  BY <1>1, <1>2, <1>3 DEF AgreeTarget, MemoryAt
<1>4. CASE ~ (p.key = "mode" /\ p.value = "memory")
  BY <1>1, <1>2, <1>4 DEF AgreeTarget, MemoryAt
<1> QED BY <1>3, <1>4

LEMMA ModeNext ==
  ASSUME NEW u, NEW s, NEW t, NEW k \in Nat, k # 0, AgreeMode(u, s, k - 1),
         Effect(s, t, u.params[k].key, u.params[k].value)
  PROVE  AgreeMode(u, t, k)
<1> DEFINE p == u.params[k]
<1>1. t.options.open_mode = IF p.key = "mode" /\ p.value \in {"ro", "rwc"} THEN p.value ELSE s.options.open_mode
  BY Zenon DEF Effect
<1>2. Latest(Modes(u.params, k)) =
        IF p.key = "mode" /\ p.value \in {"ro", "rwc"} THEN k ELSE Latest(Modes(u.params, k - 1))
  BY ModesNext
<1>3. CASE p.key = "mode" /\ p.value \in {"ro", "rwc"}
  <2>1. t.options.open_mode = p.value /\ Latest(Modes(u.params, k)) = k
    BY <1>1, <1>2, <1>3
  <2> QED BY <2>1 DEF AgreeMode
<1>4. CASE ~ (p.key = "mode" /\ p.value \in {"ro", "rwc"})
  BY <1>1, <1>2, <1>4 DEF AgreeMode
<1> QED BY <1>3, <1>4

LEMMA CacheNext ==
  ASSUME NEW u, NEW s, NEW t, NEW k \in Nat, k # 0, AgreePositions(u, k - 1), AgreeCache(u, s, k - 1),
         Effect(s, t, u.params[k].key, u.params[k].value)
  PROVE  AgreeCache(u, t, k)
<1> DEFINE p == u.params[k]
           m == Latest(ToMemory(u.params, k - 1))
           d == IF MemoryAt(u, k - 1) THEN "shared" ELSE "private"
<1>1. t.options.cache = IF p.key = "mode" /\ p.value = "memory" THEN "shared"
                        ELSE IF p.key = "cache" THEN p.value ELSE s.options.cache
  BY Zenon DEF Effect
<1>2. Latest(ToMemory(u.params, k)) = IF p.key = "mode" /\ p.value = "memory" THEN k ELSE m
  BY ModesNext
<1>3. CASE p.key = "mode" /\ p.value = "memory"
  <2>1. MemoryAt(u, k)
    BY <1>2, <1>3 DEF MemoryAt
  <2>2. ValueTo(u.params, "cache", k, k, "shared") = "shared"
    BY NoValue
  <2> QED BY <1>1, <1>2, <1>3, <2>1, <2>2 DEF AgreeCache
<1>4. CASE ~ (p.key = "mode" /\ p.value = "memory")
  <2>1. MemoryAt(u, k) = MemoryAt(u, k - 1) /\ Latest(ToMemory(u.params, k)) = m
    BY <1>2, <1>4 DEF MemoryAt
  <2>2. m \in 0 .. k - 1
    BY DEF AgreePositions
  <2> HIDE DEF m
  <2>3. ValueTo(u.params, "cache", m, k, d) =
          IF p.key = "cache" THEN p.value ELSE ValueTo(u.params, "cache", m, k - 1, d)
    BY <2>2, ValueNext
  <2>4. s.options.cache = ValueTo(u.params, "cache", m, k - 1, d)
    BY DEF AgreeCache, m
  <2>5. t.options.cache = ValueTo(u.params, "cache", m, k, d)
    BY <1>1, <1>4, <2>3, <2>4
  <2>6. (IF MemoryAt(u, k) THEN "shared" ELSE "private") = d
    BY <2>1
  <2> HIDE DEF d
  <2> QED BY <2>1, <2>5, <2>6 DEF AgreeCache
<1> QED BY <1>3, <1>4

LEMMA FlagsNext ==
  ASSUME NEW u, NEW s, NEW t, NEW k \in Nat, k # 0, AgreeFlags(u, s, k - 1),
         Effect(s, t, u.params[k].key, u.params[k].value)
  PROVE  AgreeFlags(u, t, k)
<1> DEFINE p == u.params[k]
<1>1. /\ t.options.immutable = IF p.key = "immutable" THEN p.value \in Truth ELSE s.options.immutable
      /\ t.options.vfs = IF p.key = "vfs" THEN p.value ELSE s.options.vfs
      /\ t.options.features = IF p.key = "experimental" THEN s.options.features \cup FeaturesOf(p.value)
                              ELSE s.options.features
      /\ t.options.encryption = s.options.encryption /\ t.options.sync = s.options.sync
  BY Zenon DEF Effect
<1>2. 0 \in 0 .. k - 1
  OBVIOUS
<1>3. \A key, d : ValueTo(u.params, key, 0, k, d) =
                    IF p.key = key THEN p.value ELSE ValueTo(u.params, key, 0, k - 1, d)
  BY <1>2, ValueNext
<1>4. FeaturesTo(u.params, k) = IF p.key = "experimental" THEN FeaturesTo(u.params, k - 1) \cup FeaturesOf(p.value)
                                ELSE FeaturesTo(u.params, k - 1)
  BY FeaturesNext
<1>5. /\ s.options.immutable = (ValueTo(u.params, "immutable", 0, k - 1, "0") \in Truth)
      /\ s.options.vfs = ValueTo(u.params, "vfs", 0, k - 1, "none")
      /\ s.options.features = FeaturesTo(u.params, k - 1)
      /\ s.options.encryption = <<>> /\ s.options.sync = NoSync
  BY Zenon DEF AgreeFlags
<1> HIDE DEF p
<1>6. t.options.immutable = (ValueTo(u.params, "immutable", 0, k, "0") \in Truth)
  <2>1. CASE p.key = "immutable"
    BY <1>1, <1>3, <2>1, Zenon
  <2>2. CASE p.key # "immutable"
    <3>1. ValueTo(u.params, "immutable", 0, k, "0") = ValueTo(u.params, "immutable", 0, k - 1, "0")
      BY <1>3, <2>2, Zenon
    <3>2. t.options.immutable = s.options.immutable
      BY <1>1, <2>2, Zenon
    <3> QED BY <1>5, <3>1, <3>2, Zenon
  <2> QED BY <2>1, <2>2
<1>7. t.options.vfs = ValueTo(u.params, "vfs", 0, k, "none")
  <2>1. CASE p.key = "vfs"
    BY <1>1, <1>3, <2>1, Zenon
  <2>2. CASE p.key # "vfs"
    <3>1. ValueTo(u.params, "vfs", 0, k, "none") = ValueTo(u.params, "vfs", 0, k - 1, "none")
      BY <1>3, <2>2, Zenon
    <3>2. t.options.vfs = s.options.vfs
      BY <1>1, <2>2, Zenon
    <3> QED BY <1>5, <3>1, <3>2, Zenon
  <2> QED BY <2>1, <2>2
<1>8. t.options.features = FeaturesTo(u.params, k)
  BY <1>1, <1>4, <1>5
<1> QED BY <1>1, <1>5, <1>6, <1>7, <1>8, Zenon DEF AgreeFlags

LEMMA JournalNext ==
  ASSUME NEW u, NEW s, Reading(s), NEW t, NEW k \in Nat, k # 0, AgreeJournal(u, s, k - 1),
         Effect(s, t, u.params[k].key, u.params[k].value)
  PROVE  AgreeJournal(u, t, k)
<1> DEFINE p == u.params[k]
           v == IF IsMvcc(p.value) THEN "'mvcc'" ELSE p.value
<1>1. t.options.pragmas = IF p.key = "journal_mode" THEN Pragma(s.options, p.key, v).pragmas
                          ELSE s.options.pragmas
  BY Zenon DEF Effect
<1>2. PICK w : /\ s.options.pragmas = PragmasWith(w)
               /\ IsMvcc(w) <=> IsMvcc(ValueTo(u.params, "journal_mode", 0, k - 1, "none"))
  BY Zenon DEF AgreeJournal
<1>3. ValueTo(u.params, "journal_mode", 0, k, "none") =
        IF p.key = "journal_mode" THEN p.value ELSE ValueTo(u.params, "journal_mode", 0, k - 1, "none")
  <2>1. 0 \in 0 .. k - 1
    OBVIOUS
  <2> QED BY <2>1, ValueNext
<1>4. IsMvcc(v) <=> IsMvcc(p.value)
  BY DEF IsMvcc
<1>5. CASE p.key = "journal_mode"
  <2>1. "pragmas" \in DOMAIN s.options
    BY FieldsAre DEF Reading, NameIsState
  <2> HIDE DEF v
  <2>2. t.options.pragmas = PragmasWith(v)
    BY <1>1, <1>2, <1>5, <2>1, PragmaList
  <2> QED BY <1>3, <1>4, <1>5, <2>2, Zenon DEF AgreeJournal
<1>6. CASE p.key # "journal_mode"
  BY <1>1, <1>2, <1>3, <1>6, Zenon DEF AgreeJournal
<1> QED BY <1>5, <1>6

LEMMA KeyNext ==
  ASSUME NEW u, NEW s, NEW t, NEW k \in Nat, k # 0, AgreeKey(u, s, k - 1),
         Effect(s, t, u.params[k].key, u.params[k].value)
  PROVE  AgreeKey(u, t, k)
<1> DEFINE p == u.params[k]
<1>1. /\ t.cipher = IF p.key = "encryption_cipher" THEN p.value ELSE s.cipher
      /\ t.hexkey = IF p.key = "encryption_hexkey" THEN p.value ELSE s.hexkey
  BY Zenon DEF Effect
<1>2. 0 \in 0 .. k - 1
  OBVIOUS
<1>3. \A key, d : ValueTo(u.params, key, 0, k, d) =
                    IF p.key = key THEN p.value ELSE ValueTo(u.params, key, 0, k - 1, d)
  BY <1>2, ValueNext
<1> HIDE DEF p
<1> QED BY <1>1, <1>3, Zenon DEF AgreeKey

LEMMA SyncNext ==
  ASSUME NEW u, NEW s, NEW t, NEW k \in Nat, k # 0, AgreePositions(u, k - 1), AgreeSync(u, s, k - 1),
         Effect(s, t, u.params[k].key, u.params[k].value),
         \A a, b, c, d, e :
           SyncOrDefault(s.sync) = SyncOf(a, b, c, d, e) /\ u.params[k].key \in SyncKeys =>
              t.sync = SyncAfter(u.params[k].key, u.params[k].value, a, b, c, d, e)
  PROVE  AgreeSync(u, t, k)
<1> DEFINE p == u.params[k]
           r == RemoteAt(u, k - 1)
           V(key, i, j, d) == ValueTo(u.params, key, i, j, d)
           a == V("sync_remote_url", 0, k - 1, "")
           b == V("sync_auth_token", r, k - 1, "none")
           c == V("sync_client_name", r, k - 1, "none")
           d == V("sync_long_poll_timeout_ms", r, k - 1, "none")
           e == V("sync_bootstrap_if_empty", r, k - 1, "1") \in Truth
<1>1. 0 \in 0 .. k - 1 /\ r \in 0 .. k - 1
  BY DEF AgreePositions
<1>2. \A key, i, x : i \in 0 .. k - 1 =>
        V(key, i, k, x) = IF p.key = key THEN p.value ELSE V(key, i, k - 1, x)
  BY ValueNext
<1>3. SyncOrDefault(s.sync) = SyncOf(a, b, c, d, e)
  BY Zenon DEF AgreeSync, SyncTo
<1>4. RemoteAt(u, k) = IF p.key = "sync_remote_url" THEN k ELSE r
  BY <1>1, OfKeysNext DEF RemoteAt
<1>5. Latest(OfKeys(u.params, SyncKeys, 0, k)) =
        IF p.key \in SyncKeys THEN k ELSE Latest(OfKeys(u.params, SyncKeys, 0, k - 1))
  BY <1>1, OfKeysNext
<1>6. p.key \in SyncKeys => t.sync = SyncAfter(p.key, p.value, a, b, c, d, e)
  BY <1>3, Zenon
<1>7. p.key \notin SyncKeys => t.sync = s.sync
  BY Zenon DEF Effect
<1>8. \A key, x : V(key, k, k, x) = x
  BY NoValue
<1>9. SyncTo(u, k) # NoSync /\ SyncOrDefault(SyncTo(u, k)) = SyncTo(u, k)
  <2>1. \A x, y, z, w, v : SyncOf(x, y, z, w, v) # NoSync
    BY SyncFields
  <2>2. SyncTo(u, k) # NoSync
    BY <2>1, Zenon DEF SyncTo
  <2> QED BY <2>2, Zenon DEF SyncOrDefault
<1> HIDE DEF V, p, r
<1>10. CASE p.key = "sync_remote_url"
  <2>1. t.sync = SyncOf(p.value, "none", "none", "none", TRUE)
    BY <1>6, <1>10, NewSyncIs, Zenon DEF SyncAfter, SyncKeys
  <2>2. RemoteAt(u, k) = k /\ V("sync_remote_url", 0, k, "") = p.value
    BY <1>1, <1>2, <1>4, <1>10
  <2>3. ("1" \in Truth) = TRUE
    BY DEF Truth
  <2>4. SyncTo(u, k) = SyncOf(p.value, "none", "none", "none", TRUE)
    BY <1>8, <2>2, <2>3, Zenon DEF SyncTo, V
  <2>5. Latest(OfKeys(u.params, SyncKeys, 0, k)) # 0
    BY <1>5, <1>10 DEF SyncKeys
  <2> QED BY <1>9, <2>1, <2>4, <2>5, Zenon DEF AgreeSync
<1>11. CASE p.key \in SyncKeys /\ p.key # "sync_remote_url"
  <2>1. t.sync = SyncOf(a, IF p.key = "sync_auth_token" THEN p.value ELSE b,
                 IF p.key = "sync_client_name" THEN p.value ELSE c,
                 IF p.key = "sync_long_poll_timeout_ms" THEN p.value ELSE d,
                 IF p.key = "sync_bootstrap_if_empty" THEN p.value \in Truth ELSE e)
    BY <1>6, <1>11, Zenon DEF SyncAfter
  <2>2. /\ RemoteAt(u, k) = r
        /\ V("sync_remote_url", 0, k, "") = a
        /\ V("sync_auth_token", r, k, "none") = IF p.key = "sync_auth_token" THEN p.value ELSE b
        /\ V("sync_client_name", r, k, "none") = IF p.key = "sync_client_name" THEN p.value ELSE c
        /\ V("sync_long_poll_timeout_ms", r, k, "none") =
             IF p.key = "sync_long_poll_timeout_ms" THEN p.value ELSE d
        /\ V("sync_bootstrap_if_empty", r, k, "1") =
             IF p.key = "sync_bootstrap_if_empty" THEN p.value ELSE V("sync_bootstrap_if_empty", r, k - 1, "1")
    BY <1>1, <1>2, <1>4, <1>11
  <2>3. (V("sync_bootstrap_if_empty", r, k, "1") \in Truth) =
          IF p.key = "sync_bootstrap_if_empty" THEN p.value \in Truth ELSE e
    BY <2>2, Zenon
  <2>4. SyncTo(u, k) = t.sync
    BY <2>1, <2>2, <2>3, Zenon DEF SyncTo, V
  <2>5. Latest(OfKeys(u.params, SyncKeys, 0, k)) # 0
    BY <1>5, <1>11
  <2> QED BY <1>9, <2>1, <2>4, <2>5, Zenon DEF AgreeSync
<1>12. CASE p.key \notin SyncKeys
  <2>1. t.sync = s.sync
    BY <1>7, <1>12
  <2>2. p.key \notin {"sync_remote_url", "sync_auth_token", "sync_client_name",
                     "sync_long_poll_timeout_ms", "sync_bootstrap_if_empty"}
    BY <1>12 DEF SyncKeys
  <2>3. /\ RemoteAt(u, k) = r
        /\ V("sync_remote_url", 0, k, "") = a
        /\ V("sync_auth_token", r, k, "none") = b
        /\ V("sync_client_name", r, k, "none") = c
        /\ V("sync_long_poll_timeout_ms", r, k, "none") = d
        /\ V("sync_bootstrap_if_empty", r, k, "1") = V("sync_bootstrap_if_empty", r, k - 1, "1")
    BY <1>1, <1>2, <1>4, <2>2
  <2>4. SyncTo(u, k) = SyncTo(u, k - 1)
    BY <2>3, Zenon DEF SyncTo, V, r
  <2>5. Latest(OfKeys(u.params, SyncKeys, 0, k)) = Latest(OfKeys(u.params, SyncKeys, 0, k - 1))
    BY <1>5, <1>12
  <2> QED BY <2>1, <2>4, <2>5, Zenon DEF AgreeSync
<1> QED BY <1>10, <1>11, <1>12

(* The settings a URL starts from. *)
Started(s, d) ==
  /\ s.ok = TRUE /\ s.cipher = "none" /\ s.hexkey = "none" /\ s.sync = NoSync
  /\ s.options.target.kind = IF d = ":memory:" THEN "memory" ELSE "file"
  /\ d = ":memory:" \/ s.options.target = File(d)
  /\ s.options.cache = IF d = ":memory:" THEN "shared" ELSE "private"
  /\ s.options.open_mode = "rw" /\ s.options.immutable = FALSE /\ s.options.vfs = "none"
  /\ s.options.features = {} /\ s.options.encryption = <<>> /\ s.options.sync = NoSync
  /\ s.options.pragmas = DefaultPragmas

(* What filename and in_memory set. *)
LEMMA StartFields ==
  ASSUME NEW d, NEW n, NEW s, s = Parsing(d, n)
  PROVE  Started(s, d)
<1> DEFINE o == IF d = ":memory:" THEN InMemory(Default(n), TRUE, n + 1) ELSE Filename(Default(n), d)
<1>1. s.ok = TRUE /\ s.cipher = "none" /\ s.hexkey = "none" /\ s.sync = NoSync /\ s.options = o
  BY Zenon DEF Parsing
<1>2. CASE d = ":memory:"
  <2>1. o = [Default(n) EXCEPT !.target = Memory(n + 1), !.cache = "shared", !.memory_state = n + 1]
    BY <1>2, Zenon DEF InMemory
  <2>2. PICK m : m = n + 1
    OBVIOUS
  <2>3. o = [Default(n) EXCEPT !.target = Memory(m), !.cache = "shared", !.memory_state = m]
    BY <2>1, <2>2, Zenon
  <2> HIDE DEF o
  <2>4. /\ o.target = Memory(m) /\ o.cache = "shared"
        /\ o.open_mode = "rw" /\ o.immutable = FALSE /\ o.vfs = "none"
        /\ o.features = {} /\ o.encryption = <<>> /\ o.sync = NoSync
        /\ o.pragmas = DefaultPragmas
    BY <2>3, Zenon DEF Default
  <2> QED BY <1>1, <1>2, <2>4, MemoryKind DEF Started
<1>3. CASE d # ":memory:"
  <2>1. o = [Default(n) EXCEPT !.target = File(d), !.cache = "private"]
    BY <1>3, Zenon DEF Filename
  <2> HIDE DEF o
  <2>2. /\ o.target = File(d) /\ o.cache = "private"
        /\ o.open_mode = "rw" /\ o.immutable = FALSE /\ o.vfs = "none"
        /\ o.features = {} /\ o.encryption = <<>> /\ o.sync = NoSync
        /\ o.pragmas = DefaultPragmas
    BY <2>1, Zenon DEF Default
  <2>3. File(d).kind = "file"
    BY Zenon DEF File
  <2> QED BY <1>1, <1>3, <2>2, <2>3 DEF Started
<1> QED BY <1>2, <1>3

(* Before the first parameter, nothing is said. *)
LEMMA AgreeStart ==
  ASSUME NEW u, NEW n, NEW s, s = Parsing(u.database, n)
  PROVE  s.ok /\ Agree(u, s, 0)
<1>s. Started(s, u.database)
  BY StartFields
<1>0. /\ s.ok = TRUE /\ s.cipher = "none" /\ s.hexkey = "none" /\ s.sync = NoSync
      /\ s.options.target.kind = IF u.database = ":memory:" THEN "memory" ELSE "file"
      /\ u.database = ":memory:" \/ s.options.target = File(u.database)
      /\ s.options.cache = IF u.database = ":memory:" THEN "shared" ELSE "private"
      /\ s.options.open_mode = "rw" /\ s.options.immutable = FALSE /\ s.options.vfs = "none"
      /\ s.options.features = {} /\ s.options.encryption = <<>> /\ s.options.sync = NoSync
      /\ s.options.pragmas = DefaultPragmas
  BY <1>s, Zenon DEF Started
<1>1. Latest(ToMemory(u.params, 0)) = 0 /\ Latest(Modes(u.params, 0)) = 0 /\ FeaturesTo(u.params, 0) = {}
  <2>1. 1 .. 0 = {}
    OBVIOUS
  <2>2. ToMemory(u.params, 0) = {} /\ Modes(u.params, 0) = {}
    BY <2>1, Zenon DEF ToMemory, Modes
  <2>3. Latest({}) = 0
    BY Zenon DEF Latest
  <2>4. FeaturesTo(u.params, 0) = {}
    BY <2>1, Zenon DEF FeaturesTo
  <2> QED BY <2>2, <2>3, <2>4
<1>2. \A keys : Latest(OfKeys(u.params, keys, 0, 0)) = 0
  BY NoKeys
<1>3. \A key, d : ValueTo(u.params, key, 0, 0, d) = d
  BY NoValue
<1>4. RemoteAt(u, 0) = 0
  BY <1>2 DEF RemoteAt
<1>5. MemoryAt(u, 0) <=> u.database = ":memory:"
  BY <1>1 DEF MemoryAt
<1>6. AgreePositions(u, 0)
  BY <1>1, <1>4 DEF AgreePositions
<1>7. AgreeTarget(u, s, 0)
  BY <1>0, <1>5 DEF AgreeTarget
<1>8. AgreeMode(u, s, 0)
  BY <1>0, <1>1 DEF AgreeMode
<1>9. AgreeCache(u, s, 0)
  BY <1>0, <1>1, <1>3, <1>5 DEF AgreeCache
<1>10. AgreeFlags(u, s, 0)
  <2>1. ("0" \in Truth) = FALSE
    BY DEF Truth
  <2> QED BY <1>0, <1>1, <1>3, <2>1, Zenon DEF AgreeFlags
<1>11. AgreeJournal(u, s, 0)
  <2>1. s.options.pragmas = PragmasWith("none")
    BY <1>0, Zenon DEF DefaultPragmas, PragmasWith
  <2> QED BY <1>3, <2>1, Zenon DEF AgreeJournal
<1>12. AgreeKey(u, s, 0)
  <2>1. /\ ValueTo(u.params, "encryption_cipher", 0, 0, "none") = "none"
        /\ ValueTo(u.params, "encryption_hexkey", 0, 0, "none") = "none"
    BY <1>3, Zenon
  <2>2. s.cipher = "none" /\ s.hexkey = "none"
    BY <1>0, Zenon
  <2> QED BY <2>1, <2>2, Zenon DEF AgreeKey
<1>13. AgreeSync(u, s, 0)
  <2>1. ("1" \in Truth) = TRUE
    BY DEF Truth
  <2>2. SyncTo(u, 0) = SyncOf("", "none", "none", "none", TRUE)
    BY <1>3, <1>4, <2>1, Zenon DEF SyncTo
  <2>3. SyncOrDefault(s.sync) = SyncTo(u, 0)
    BY <1>0, <2>2, NewSyncIs, Zenon DEF SyncOrDefault
  <2> QED BY <1>0, <1>2, <2>3, Zenon DEF AgreeSync
<1> QED BY <1>0, <1>6, <1>7, <1>8, <1>9, <1>10, <1>11, <1>12, <1>13 DEF Agree

(* The state of the loop after k parameters.                                 *)
Agreed(u, s, k) ==
  /\ Reading(s)
  /\ s.ok <=> \A i \in 1 .. k : Acceptable(u.params[i])
  /\ s.ok => Agree(u, s, k)

(* A round of the loop keeps the agreement, and refuses exactly if the       *)
(* parameter is not acceptable.                                              *)
LEMMA AgreedNext ==
  ASSUME NEW u, NEW k \in Nat, k # 0, NEW s, Agreed(u, s, k - 1), NEW n,
         NEW t, t = ApplyParam(s, u.params[k].key, u.params[k].value, n)
  PROVE  Agreed(u, t, k)
<1>1. Reading(s) /\ Reading(t)
  BY ParamReads DEF Agreed
<1>2. (\A i \in 1 .. k : Acceptable(u.params[i])) <=>
        (\A i \in 1 .. k - 1 : Acceptable(u.params[i])) /\ Acceptable(u.params[k])
  OBVIOUS
<1>3. CASE ~s.ok
  <2>1. t = s
    BY <1>3 DEF ApplyParam
  <2> QED BY <1>1, <1>2, <1>3, <2>1 DEF Agreed
<1>4. CASE s.ok
  <2>1. Agree(u, s, k - 1)
    BY <1>4 DEF Agreed
  <2>2. PICK a, b, c, d, e : SyncOrDefault(s.sync) = SyncOf(a, b, c, d, e)
    BY <2>1, Zenon DEF Agree, AgreeSync, SyncTo
  <2>3. PICK p : p = u.params[k]
    OBVIOUS
  <2>4. t = ApplyParam(s, p.key, p.value, n)
    BY <2>3
  <2>5. CASE ~Acceptable(p)
    <3>1. ~t.ok
      BY <1>1, <1>4, <2>2, <2>4, <2>5, ParamEffect
    <3> QED BY <1>1, <1>2, <2>3, <2>5, <3>1 DEF Agreed
  <2>6. CASE Acceptable(p)
    <3>1. Effect(s, t, p.key, p.value)
      BY <1>1, <1>4, <2>2, <2>4, <2>6, ParamEffect
    <3>2. ASSUME NEW v, NEW w, NEW x, NEW y, NEW z,
                 SyncOrDefault(s.sync) = SyncOf(v, w, x, y, z), p.key \in SyncKeys
          PROVE  t.sync = SyncAfter(p.key, p.value, v, w, x, y, z)
      BY <1>1, <1>4, <2>4, <2>6, <3>2, ParamEffect
    <3>3. AgreePositions(u, k)
      BY <2>1, PositionsNext DEF Agree
    <3>4. AgreeTarget(u, t, k)
      BY <2>1, <2>3, <3>1, TargetNext DEF Agree
    <3>5. AgreeMode(u, t, k)
      BY <2>1, <2>3, <3>1, ModeNext DEF Agree
    <3>6. AgreeCache(u, t, k)
      BY <2>1, <2>3, <3>1, CacheNext DEF Agree
    <3>7. AgreeFlags(u, t, k)
      BY <2>1, <2>3, <3>1, FlagsNext DEF Agree
    <3>8. AgreeJournal(u, t, k)
      BY <1>1, <2>1, <2>3, <3>1, JournalNext DEF Agree
    <3>9. AgreeKey(u, t, k)
      BY <2>1, <2>3, <3>1, KeyNext DEF Agree
    <3>10. AgreeSync(u, t, k)
      BY <2>1, <2>3, <3>1, <3>2, SyncNext DEF Agree
    <3>11. t.ok = s.ok
      BY <3>1 DEF Effect
    <3> QED BY <1>1, <1>2, <1>4, <2>3, <2>6, <3>3, <3>4, <3>5, <3>6, <3>7, <3>8, <3>9, <3>10, <3>11
            DEF Agreed, Agree
  <2> QED BY <2>5, <2>6
<1> QED BY <1>3, <1>4

(* The agreement after any number of rounds, by the least number for which   *)
(* it fails.                                                                 *)
LEMMA LoopAgrees ==
  ASSUME NEW u, Len(u.params) \in Nat, NEW n
  PROVE  Agreed(u, Rounds(u, n)[Len(u.params)], Len(u.params))
<1> DEFINE L == Len(u.params)
           r == Rounds(u, n)
           T == {i \in 0 .. L : ~Agreed(u, r[i], i)}
<1>0. L \in Nat
  OBVIOUS
<1>1. Agreed(u, r[0], 0)
  <2>1. r[0] = Parsing(u.database, n)
    BY RoundsAre
  <2> HIDE DEF r
  <2>2. Reading(r[0]) /\ r[0].ok /\ Agree(u, r[0], 0)
    BY <2>1, ParsingReads, AgreeStart
  <2> QED BY <2>2 DEF Agreed
<1>2. \A i \in 1 .. L : Agreed(u, r[i - 1], i - 1) => Agreed(u, r[i], i)
  <2> SUFFICES ASSUME NEW i \in 1 .. L, Agreed(u, r[i - 1], i - 1) PROVE Agreed(u, r[i], i)
    OBVIOUS
  <2>1. r[i] = ApplyParam(r[i - 1], u.params[i].key, u.params[i].value, n + 2)
    BY RoundsAre
  <2>2. i \in Nat /\ i # 0
    BY <1>0
  <2> HIDE DEF r
  <2> QED BY <2>1, <2>2, AgreedNext
<1> HIDE DEF r, L
<1>3. T = {}
  <2> SUFFICES ASSUME T # {} PROVE FALSE
    OBVIOUS
  <2>1. T \subseteq Nat
    BY <1>0
  <2>2. PICK i \in T : \A j \in T : i <= j
    BY <2>1, LeastNatural
  <2>3. i # 0
    BY <1>1
  <2>4. i - 1 \in 0 .. L /\ i - 1 \notin T /\ i \in 1 .. L
    BY <1>0, <2>2, <2>3
  <2> QED BY <1>2, <2>2, <2>4
<1>4. Agreed(u, r[L], L)
  BY <1>0, <1>3
<1> QED BY <1>4 DEF r, L

-----------------------------------------------------------------------------
(* The meaning of a URL, by positions. *)

(* The last position SelectLastInSeq finds is the greatest. *)
LEMMA Selected ==
  ASSUME NEW ps, Len(ps) \in Nat
  PROVE  /\ \A keys, i : LastIn(ps, keys, i) = Latest(OfKeys(ps, keys, i, Len(ps)))
         /\ \A key, i, d : LastValue(ps, key, i, d) = ValueTo(ps, key, i, Len(ps), d)
         /\ SelectLastInSeq(ps, LAMBDA p : p.key = "mode" /\ p.value = "memory") =
              Latest(ToMemory(ps, Len(ps)))
         /\ SelectLastInSeq(ps, LAMBDA p : p.key = "mode" /\ p.value \in {"ro", "rwc"}) =
              Latest(Modes(ps, Len(ps)))
<1>1. \A keys, i : LastIn(ps, keys, i) = Latest(OfKeys(ps, keys, i, Len(ps)))
  BY Zenon DEF LastIn, SelectLastInSubSeq, Latest, OfKeys
<1>2. \A key, i, d : LastValue(ps, key, i, d) = ValueTo(ps, key, i, Len(ps), d)
  BY <1>1, Zenon DEF LastValue, ValueTo
<1>3. SelectLastInSeq(ps, LAMBDA p : p.key = "mode" /\ p.value = "memory") = Latest(ToMemory(ps, Len(ps)))
  BY Zenon DEF SelectLastInSeq, Latest, ToMemory
<1>4. SelectLastInSeq(ps, LAMBDA p : p.key = "mode" /\ p.value \in {"ro", "rwc"}) = Latest(Modes(ps, Len(ps)))
  BY Zenon DEF SelectLastInSeq, Latest, Modes
<1> QED BY <1>1, <1>2, <1>3, <1>4

(* The settings of a URL, as a record of what its parameters say. *)
LEMMA MeaningIs ==
  ASSUME NEW u, NEW L, L = Len(u.params), L \in Nat, DOMAIN u.params = 1 .. L
  PROVE  Meaning(u) =
    [memory |-> MemoryAt(u, L),
     open_mode |-> IF Latest(Modes(u.params, L)) = 0 THEN "rw" ELSE u.params[Latest(Modes(u.params, L))].value,
     cache |-> ValueTo(u.params, "cache", Latest(ToMemory(u.params, L)), L,
                       IF MemoryAt(u, L) THEN "shared" ELSE "private"),
     immutable |-> ValueTo(u.params, "immutable", 0, L, "0") \in Truth,
     vfs |-> ValueTo(u.params, "vfs", 0, L, "none"),
     encryption |-> <<ValueTo(u.params, "encryption_cipher", 0, L, "none"),
                      ValueTo(u.params, "encryption_hexkey", 0, L, "none")>>,
     features |-> FeaturesTo(u.params, L),
     mvcc |-> IsMvcc(ValueTo(u.params, "journal_mode", 0, L, "none")),
     sync |-> IF Latest(OfKeys(u.params, SyncKeys, 0, L)) = 0 THEN NoSync ELSE SyncTo(u, L)]
<1> DEFINE ps == u.params
           memory == SelectLastInSeq(ps, LAMBDA p : p.key = "mode" /\ p.value = "memory")
           mode == SelectLastInSeq(ps, LAMBDA p : p.key = "mode" /\ p.value \in {"ro", "rwc"})
           remote == LastIn(ps, {"sync_remote_url"}, 0)
           in == u.database = ":memory:" \/ memory # 0
<1>1. Meaning(u) =
     [memory |-> in,
      open_mode |-> IF mode = 0 THEN "rw" ELSE ps[mode].value,
      cache |-> LastValue(ps, "cache", memory, IF in THEN "shared" ELSE "private"),
      immutable |-> LastValue(ps, "immutable", 0, "0") \in Truth,
      vfs |-> LastValue(ps, "vfs", 0, "none"),
      encryption |-> <<LastValue(ps, "encryption_cipher", 0, "none"), LastValue(ps, "encryption_hexkey", 0, "none")>>,
      features |-> UNION {FeaturesOf(ps[i].value) : i \in {j \in DOMAIN ps : ps[j].key = "experimental"}},
      mvcc |-> IsMvcc(LastValue(ps, "journal_mode", 0, "none")),
      sync |-> IF LastIn(ps, SyncKeys, 0) = 0 THEN NoSync
               ELSE SyncOf(LastValue(ps, "sync_remote_url", 0, ""),
                           LastValue(ps, "sync_auth_token", remote, "none"),
                           LastValue(ps, "sync_client_name", remote, "none"),
                           LastValue(ps, "sync_long_poll_timeout_ms", remote, "none"),
                           LastValue(ps, "sync_bootstrap_if_empty", remote, "1") \in Truth)]
  BY Zenon DEF Meaning, SyncOf
<1>2. memory = Latest(ToMemory(ps, L)) /\ mode = Latest(Modes(ps, L))
  BY Selected
<1>3. \A keys, i : LastIn(ps, keys, i) = Latest(OfKeys(ps, keys, i, L))
  BY Selected
<1>4. \A key, i, d : LastValue(ps, key, i, d) = ValueTo(ps, key, i, L, d)
  BY Selected
<1>5. remote = RemoteAt(u, L)
  BY <1>3, Zenon DEF RemoteAt
<1>6. in = MemoryAt(u, L)
  BY <1>2, Zenon DEF MemoryAt
<1>7. UNION {FeaturesOf(ps[i].value) : i \in {j \in DOMAIN ps : ps[j].key = "experimental"}} = FeaturesTo(ps, L)
  BY Zenon DEF FeaturesTo
<1>8. LastIn(ps, SyncKeys, 0) = Latest(OfKeys(ps, SyncKeys, 0, L))
  BY <1>3, Zenon
<1>9. SyncOf(LastValue(ps, "sync_remote_url", 0, ""),
             LastValue(ps, "sync_auth_token", remote, "none"),
             LastValue(ps, "sync_client_name", remote, "none"),
             LastValue(ps, "sync_long_poll_timeout_ms", remote, "none"),
             LastValue(ps, "sync_bootstrap_if_empty", remote, "1") \in Truth) = SyncTo(u, L)
  <2>1. /\ LastValue(ps, "sync_remote_url", 0, "") = ValueTo(ps, "sync_remote_url", 0, L, "")
        /\ LastValue(ps, "sync_auth_token", remote, "none") = ValueTo(ps, "sync_auth_token", RemoteAt(u, L), L, "none")
        /\ LastValue(ps, "sync_client_name", remote, "none") = ValueTo(ps, "sync_client_name", RemoteAt(u, L), L, "none")
        /\ LastValue(ps, "sync_long_poll_timeout_ms", remote, "none")
             = ValueTo(ps, "sync_long_poll_timeout_ms", RemoteAt(u, L), L, "none")
        /\ LastValue(ps, "sync_bootstrap_if_empty", remote, "1")
             = ValueTo(ps, "sync_bootstrap_if_empty", RemoteAt(u, L), L, "1")
    <3> HIDE DEF ps, remote
    <3> QED BY <1>4, <1>5, Zenon
  <2> QED BY <2>1, Zenon DEF SyncTo
<1> DEFINE key == <<LastValue(ps, "encryption_cipher", 0, "none"), LastValue(ps, "encryption_hexkey", 0, "none")>>
           keyTo == <<ValueTo(ps, "encryption_cipher", 0, L, "none"), ValueTo(ps, "encryption_hexkey", 0, L, "none")>>
           open == IF mode = 0 THEN "rw" ELSE ps[mode].value
           openTo == IF Latest(Modes(ps, L)) = 0 THEN "rw" ELSE ps[Latest(Modes(ps, L))].value
           cache == LastValue(ps, "cache", memory, IF in THEN "shared" ELSE "private")
           cacheTo == ValueTo(ps, "cache", Latest(ToMemory(ps, L)), L, IF MemoryAt(u, L) THEN "shared" ELSE "private")
           fixed == LastValue(ps, "immutable", 0, "0") \in Truth
           fixedTo == ValueTo(ps, "immutable", 0, L, "0") \in Truth
           vfs == LastValue(ps, "vfs", 0, "none")
           vfsTo == ValueTo(ps, "vfs", 0, L, "none")
           features == UNION {FeaturesOf(ps[i].value) : i \in {j \in DOMAIN ps : ps[j].key = "experimental"}}
           mvcc == IsMvcc(LastValue(ps, "journal_mode", 0, "none"))
           mvccTo == IsMvcc(ValueTo(ps, "journal_mode", 0, L, "none"))
           sync == IF LastIn(ps, SyncKeys, 0) = 0 THEN NoSync
                   ELSE SyncOf(LastValue(ps, "sync_remote_url", 0, ""),
                               LastValue(ps, "sync_auth_token", remote, "none"),
                               LastValue(ps, "sync_client_name", remote, "none"),
                               LastValue(ps, "sync_long_poll_timeout_ms", remote, "none"),
                               LastValue(ps, "sync_bootstrap_if_empty", remote, "1") \in Truth)
           syncTo == IF Latest(OfKeys(ps, SyncKeys, 0, L)) = 0 THEN NoSync ELSE SyncTo(u, L)
<1>10. open = openTo
  BY <1>2, Zenon
<1>11. cache = cacheTo
  <2>1. PICK d : d = IF in THEN "shared" ELSE "private"
    OBVIOUS
  <2>2. d = IF MemoryAt(u, L) THEN "shared" ELSE "private"
    BY <1>6, <2>1, Zenon
  <2>3. LastValue(ps, "cache", memory, d) = ValueTo(ps, "cache", Latest(ToMemory(ps, L)), L, d)
    BY <1>2, <1>4, Zenon
  <2> QED BY <2>1, <2>2, <2>3, Zenon
<1>12. fixed = fixedTo /\ vfs = vfsTo /\ key = keyTo /\ mvcc = mvccTo
  BY <1>4, Zenon
<1>13. sync = syncTo
  BY <1>8, <1>9, Zenon
<1>14. Meaning(u) =
     [memory |-> in, open_mode |-> open, cache |-> cache, immutable |-> fixed, vfs |-> vfs, encryption |-> key,
      features |-> features, mvcc |-> mvcc, sync |-> sync]
  BY <1>1, Zenon
<1>15. features = FeaturesTo(ps, L)
  BY <1>7, Zenon
<1> HIDE DEF ps, memory, mode, remote, in, key, keyTo, open, openTo, cache, cacheTo, fixed, fixedTo, vfs, vfsTo,
             features, mvcc, mvccTo, sync, syncTo
<1>16. Meaning(u) =
     [memory |-> MemoryAt(u, L), open_mode |-> openTo, cache |-> cacheTo, immutable |-> fixedTo, vfs |-> vfsTo,
      encryption |-> keyTo, features |-> FeaturesTo(ps, L), mvcc |-> mvccTo, sync |-> syncTo]
  BY <1>6, <1>10, <1>11, <1>12, <1>13, <1>14, <1>15, Zenon
<1> QED BY <1>16, Zenon DEF ps, keyTo, openTo, cacheTo, fixedTo, vfsTo, mvccTo, syncTo

(* Sync options that are there. *)
LEMMA SyncToIsSome == ASSUME NEW u, NEW k PROVE SyncTo(u, k) # NoSync
<1>1. \A v, w, x, y, z : SyncOf(v, w, x, y, z) # NoSync
  BY SyncFields
<1> QED BY <1>1, Zenon DEF SyncTo

-----------------------------------------------------------------------------
(* What follows the loop. *)

(* How a state is encrypted, and how it is synced. *)
EncryptedAs(t, s, c, h) ==
  /\ Reading(t) /\ t.sync = s.sync /\ Same(t.options, s.options, {"encryption"})
  /\ t.ok <=> <<c, h>> = <<"none", "none">> \/ ("none" \notin {c, h} /\ ValidEncryption(c, h))
  /\ t.ok => t.options.encryption = IF <<c, h>> = <<"none", "none">> THEN <<>> ELSE <<c, h>>

SyncedAs(t, s) ==
  /\ Reading(t) /\ Same(t.options, s.options, {"sync"})
  /\ t.ok <=> s.ok /\ (s.sync = NoSync \/ s.sync[1].remote_url # "")
  /\ t.ok => t.options.sync = s.sync

(* With both a cipher and a key or neither, the encryption is what they      *)
(* say.                                                                      *)
LEMMA EncryptedIs ==
  ASSUME NEW s, Reading(s), s.ok, s.options.encryption = <<>>, NEW t, t = Encrypted(s),
         NEW c, NEW h, c = s.cipher, h = s.hexkey
  PROVE  EncryptedAs(t, s, c, h)
<1>0. NameIsState(s.options)
  BY DEF Reading
<1>1. CASE c = "none" /\ h = "none"
  <2>1. t = s
    BY <1>1, Zenon DEF Encrypted
  <2> QED BY <1>1, <2>1 DEF Same, EncryptedAs
<1>2. CASE c # "none" /\ h # "none" /\ ValidEncryption(c, h)
  <2>1. PICK q : Changes(q, s.options, "encryption", <<c, h>>)
    BY Zenon DEF Changes
  <2>2. t = With(s, q)
    BY <1>2, <2>1, Zenon DEF Encrypted, EncryptionOptions, Changes
  <2>3. Sets(s, t, "encryption", <<c, h>>)
    BY <2>1, <2>2, SetField, FieldsAre
  <2>4. NameIsState(q)
    BY <1>0, <2>1, OthersKeepName, Zenon DEF Changes, EncryptionOptions
  <2>5. Reading(t)
    <3>1. \A o : NameIsState(o) => Reading(With(s, o))
      BY <1>0, ReadingStays, Zenon
    <3> QED BY <2>2, <2>4, <3>1, Zenon
  <2>6. t.options.encryption = <<c, h>> /\ t.ok = s.ok /\ t.sync = s.sync
        /\ Same(t.options, s.options, {"encryption"})
    BY <2>3 DEF Sets
  <2>7. <<c, h>> # <<>>
    OBVIOUS
  <2>8. "none" \notin {c, h}
    BY <1>2
  <2> QED BY <1>2, <2>5, <2>6, <2>7, <2>8, Zenon DEF EncryptedAs
<1>3. CASE ~ (c = "none" /\ h = "none") /\ ~ (c # "none" /\ h # "none" /\ ValidEncryption(c, h))
  <2>1. t = Refuse(s)
    BY <1>3, Zenon DEF Encrypted
  <2>2. ~t.ok /\ t.options = s.options /\ t.sync = s.sync
    BY <2>1, RefuseIs
  <2>3. Reading(t)
    BY <1>0, <2>1, ReadingStays, Zenon
  <2>4. <<c, h>> # <<"none", "none">> /\ ~ ("none" \notin {c, h} /\ ValidEncryption(c, h))
    BY <1>3
  <2>5. Same(t.options, s.options, {"encryption"})
    BY <2>2 DEF Same
  <2> QED BY <2>2, <2>3, <2>4, <2>5 DEF EncryptedAs
<1> QED BY <1>1, <1>2, <1>3

(* The sync options, with their name or without. *)
LEMMA SyncedIs ==
  ASSUME NEW s, Reading(s), s.options.sync = NoSync, NEW t, t = Synced(s)
  PROVE  SyncedAs(t, s)
<1>0. NameIsState(s.options)
  BY DEF Reading
<1>1. CASE s.sync = NoSync
  <2>1. t = s
    BY <1>1, Zenon DEF Synced
  <2> QED BY <1>1, <2>1 DEF Same, SyncedAs
<1>2. CASE s.sync # NoSync /\ s.sync[1].remote_url = ""
  <2>1. t = Refuse(s)
    BY <1>2, Zenon DEF Synced
  <2>2. ~t.ok /\ t.options = s.options
    BY <2>1, RefuseIs
  <2>3. Reading(t)
    BY <1>0, <2>1, ReadingStays, Zenon
  <2> QED BY <1>2, <2>2, <2>3 DEF Same, SyncedAs
<1>3. CASE s.sync # NoSync /\ s.sync[1].remote_url # ""
  <2>1. PICK q : Changes(q, s.options, "sync", s.sync)
    BY Zenon DEF Changes
  <2>2. t = With(s, q)
    BY <1>3, <2>1, Zenon DEF Synced, WithSyncOptions, Changes
  <2>3. Sets(s, t, "sync", s.sync)
    BY <2>1, <2>2, SetField, FieldsAre
  <2>4. NameIsState(q)
    BY <1>0, <2>1, OthersKeepName, Zenon DEF Changes, WithSyncOptions
  <2>5. Reading(t)
    <3>1. \A o : NameIsState(o) => Reading(With(s, o))
      BY <1>0, ReadingStays, Zenon
    <3> QED BY <2>2, <2>4, <3>1, Zenon
  <2>6. t.options.sync = s.sync /\ t.ok = s.ok /\ Same(t.options, s.options, {"sync"})
    BY <2>3, Zenon DEF Sets
  <2> QED BY <1>3, <2>5, <2>6, Zenon DEF SyncedAs
<1> QED BY <1>1, <1>2, <1>3

(* What a URL is read as agrees with what its parameters say.                *)
Shown(o) ==
  [memory |-> o.target.kind = "memory", open_mode |-> o.open_mode, cache |-> o.cache,
   immutable |-> o.immutable, vfs |-> o.vfs,
   encryption |-> IF o.encryption = <<>> THEN <<"none", "none">> ELSE o.encryption,
   features |-> o.features, mvcc |-> GetMvcc(o), sync |-> o.sync]

(* What Meaning does not tell of the options read.                           *)
ReadFully(u, s) ==
  /\ Reading(s)
  /\ Meaning(u).memory \/ s.options.target = File(u.database)
  /\ s.options.encryption = IF Meaning(u).encryption = <<"none", "none">> THEN <<>> ELSE Meaning(u).encryption

(* A list of parameters is accepted exactly if it is well formed, and then   *)
(* read as what it means.                                                    *)
LEMMA ReadAsMeant ==
  ASSUME NEW u, IsList(u.params), NEW n
  PROVE  LET s == Parse(u, n) IN
         /\ s.ok <=> WellFormed(u)
         /\ s.ok => Meaning(u) = Shown(s.options) /\ ReadFully(u, s)
<1> DEFINE L == Len(u.params)
           r == Rounds(u, n)[L]
           c == ValueTo(u.params, "encryption_cipher", 0, L, "none")
           h == ValueTo(u.params, "encryption_hexkey", 0, L, "none")
           All == \A i \in 1 .. L : Acceptable(u.params[i])
           NoneSync == Latest(OfKeys(u.params, SyncKeys, 0, L)) = 0
           Keyed == <<c, h>> = <<"none", "none">> \/ ("none" \notin {c, h} /\ ValidEncryption(c, h))
           Remote == NoneSync \/ SyncTo(u, L)[1].remote_url # ""
<1>1. L \in Nat /\ DOMAIN u.params = 1 .. L
  BY DEF IsList
<1>2. Agreed(u, r, L)
  BY <1>1, LoopAgrees
<1>3. PICK s : s = Parse(u, n)
  OBVIOUS
<1>4. s = Finish(r)
  BY <1>3, Zenon DEF Parse
<1>m. PICK m : m = Meaning(u)
  OBVIOUS
<1>5. m =
    [memory |-> MemoryAt(u, L),
     open_mode |-> IF Latest(Modes(u.params, L)) = 0 THEN "rw" ELSE u.params[Latest(Modes(u.params, L))].value,
     cache |-> ValueTo(u.params, "cache", Latest(ToMemory(u.params, L)), L,
                       IF MemoryAt(u, L) THEN "shared" ELSE "private"),
     immutable |-> ValueTo(u.params, "immutable", 0, L, "0") \in Truth,
     vfs |-> ValueTo(u.params, "vfs", 0, L, "none"),
     encryption |-> <<c, h>>,
     features |-> FeaturesTo(u.params, L),
     mvcc |-> IsMvcc(ValueTo(u.params, "journal_mode", 0, L, "none")),
     sync |-> IF NoneSync THEN NoSync ELSE SyncTo(u, L)]
  BY <1>1, <1>m, MeaningIs, Zenon
<1>6. m.encryption = <<c, h>> /\ m.sync = IF NoneSync THEN NoSync ELSE SyncTo(u, L)
  BY <1>5, Zenon
<1>7. WellFormed(u) <=> All /\ Keyed /\ Remote
  <2>1. (m.sync = NoSync \/ m.sync[1].remote_url # "") <=> Remote
    <3>1. SyncTo(u, L) # NoSync
      BY SyncToIsSome
    <3> QED BY <1>6, <3>1
  <2>2. m.encryption[1] = c /\ m.encryption[2] = h
    BY <1>6
  <2>3. WellFormed(u) <=> /\ All
                          /\ \/ m.encryption = <<"none", "none">>
                             \/ "none" \notin {c, h} /\ ValidEncryption(c, h)
                          /\ m.sync = NoSync \/ m.sync[1].remote_url # ""
    <3>1. WellFormed(u) <=> /\ \A i \in DOMAIN u.params : Acceptable(u.params[i])
                            /\ \/ m.encryption = <<"none", "none">>
                               \/ /\ "none" \notin {m.encryption[1], m.encryption[2]}
                                  /\ ValidEncryption(m.encryption[1], m.encryption[2])
                            /\ m.sync = NoSync \/ m.sync[1].remote_url # ""
      BY <1>m, Zenon DEF WellFormed
    <3> QED BY <1>1, <2>2, <3>1, Zenon
  <2> HIDE DEF All, Remote, c, h, NoneSync
  <2> QED BY <1>6, <2>1, <2>3, Zenon
<1>8. CASE ~r.ok
  <2>1. s = r
    BY <1>4, <1>8, Zenon DEF Finish
  <2>2. ~All
    BY <1>2, <1>8, Zenon DEF Agreed
  <2> HIDE DEF All, Keyed, Remote
  <2> QED BY <1>3, <1>7, <1>8, <2>1, <2>2
<1>9. CASE r.ok
  <2>1. Reading(r) /\ All /\ Agree(u, r, L)
    BY <1>2, <1>9, Zenon DEF Agreed
  <2>2. PICK e : e = Encrypted(r)
    OBVIOUS
  <2>3. s = Synced(e)
    BY <1>4, <1>9, <2>2, Zenon DEF Finish
  <2>4. r.cipher = c /\ r.hexkey = h
    BY <2>1, Zenon DEF Agree, AgreeKey
  <2>5. r.options.encryption = <<>> /\ r.options.sync = NoSync
    BY <2>1, Zenon DEF Agree, AgreeFlags
  <2>6. r.sync = IF NoneSync THEN NoSync ELSE SyncTo(u, L)
    <3>1. SyncOrDefault(r.sync) = SyncTo(u, L) /\ (r.sync = NoSync <=> NoneSync)
      BY <2>1, Zenon DEF Agree, AgreeSync
    <3> QED BY <3>1, Zenon DEF SyncOrDefault
  <2>7. /\ Reading(e) /\ e.sync = r.sync /\ Same(e.options, r.options, {"encryption"})
        /\ e.ok <=> Keyed
        /\ e.ok => e.options.encryption = IF <<c, h>> = <<"none", "none">> THEN <<>> ELSE <<c, h>>
    <3> HIDE DEF c, h, r, Keyed
    <3>1. EncryptedAs(e, r, c, h)
      BY <1>9, <2>1, <2>2, <2>4, <2>5, EncryptedIs
    <3> QED BY <3>1, Zenon DEF EncryptedAs, Keyed
  <2>8. /\ e.options.target = r.options.target /\ e.options.open_mode = r.options.open_mode
        /\ e.options.cache = r.options.cache /\ e.options.immutable = r.options.immutable
        /\ e.options.vfs = r.options.vfs /\ e.options.features = r.options.features
        /\ e.options.pragmas = r.options.pragmas /\ e.options.sync = r.options.sync
    BY <2>7, SameAre
  <2>9. /\ Same(s.options, e.options, {"sync"})
        /\ s.ok <=> e.ok /\ (e.sync = NoSync \/ e.sync[1].remote_url # "")
        /\ s.ok => s.options.sync = e.sync
        /\ Reading(s)
    <3>1. Reading(e) /\ e.options.sync = NoSync
      BY <2>5, <2>7, <2>8
    <3>2. SyncedAs(s, e)
      BY <2>3, <3>1, SyncedIs
    <3> QED BY <3>2, Zenon DEF SyncedAs
  <2>10. /\ s.options.target = e.options.target /\ s.options.open_mode = e.options.open_mode
         /\ s.options.cache = e.options.cache /\ s.options.immutable = e.options.immutable
         /\ s.options.vfs = e.options.vfs /\ s.options.features = e.options.features
         /\ s.options.pragmas = e.options.pragmas /\ s.options.encryption = e.options.encryption
    <3>1. Same(s.options, e.options, {"sync"})
      BY <2>9
    <3> QED BY <3>1, SameAre
  <2>11. (e.sync = NoSync \/ e.sync[1].remote_url # "") <=> Remote
    <3>1. SyncTo(u, L) # NoSync
      BY SyncToIsSome
    <3> QED BY <2>6, <2>7, <3>1
  <2>12. s.ok <=> WellFormed(u)
    <3> HIDE DEF All, Keyed, Remote
    <3> QED BY <1>7, <2>1, <2>7, <2>9, <2>11
  <2>13. ASSUME s.ok PROVE m = Shown(s.options) /\ ReadFully(u, s)
    <3> DEFINE o == s.options
    <3>1. o.target.kind = "memory" <=> MemoryAt(u, L)
      BY <2>1, <2>8, <2>10, Zenon DEF Agree, AgreeTarget
    <3>2. o.open_mode = IF Latest(Modes(u.params, L)) = 0 THEN "rw" ELSE u.params[Latest(Modes(u.params, L))].value
      BY <2>1, <2>8, <2>10, Zenon DEF Agree, AgreeMode
    <3>3. o.cache = ValueTo(u.params, "cache", Latest(ToMemory(u.params, L)), L,
                       IF MemoryAt(u, L) THEN "shared" ELSE "private")
      BY <2>1, <2>8, <2>10, Zenon DEF Agree, AgreeCache
    <3>4. /\ o.immutable = (ValueTo(u.params, "immutable", 0, L, "0") \in Truth)
          /\ o.vfs = ValueTo(u.params, "vfs", 0, L, "none")
          /\ o.features = FeaturesTo(u.params, L)
      BY <2>1, <2>8, <2>10, Zenon DEF Agree, AgreeFlags
    <3>5. (IF o.encryption = <<>> THEN <<"none", "none">> ELSE o.encryption) = <<c, h>>
      <4>1. o.encryption = IF <<c, h>> = <<"none", "none">> THEN <<>> ELSE <<c, h>>
        BY <2>7, <2>9, <2>10, <2>13, Zenon
      <4>2. <<c, h>> # <<>>
        OBVIOUS
      <4> QED BY <4>1, <4>2, Zenon
    <3>6. GetMvcc(o) <=> IsMvcc(ValueTo(u.params, "journal_mode", 0, L, "none"))
      <4>1. PICK w : /\ r.options.pragmas = PragmasWith(w)
                     /\ IsMvcc(w) <=> IsMvcc(ValueTo(u.params, "journal_mode", 0, L, "none"))
        BY <2>1, Zenon DEF Agree, AgreeJournal
      <4>2. o.pragmas = PragmasWith(w)
        BY <2>8, <2>10, <4>1, Zenon
      <4> QED BY <4>1, <4>2, MvccIs, Zenon
    <3>7. o.sync = IF NoneSync THEN NoSync ELSE SyncTo(u, L)
      BY <2>6, <2>7, <2>9, <2>13, Zenon
    <3> HIDE DEF o, c, h, NoneSync
    <3>8. (o.target.kind = "memory") = MemoryAt(u, L)
      BY <3>1, Zenon DEF MemoryAt
    <3>9. GetMvcc(o) = IsMvcc(ValueTo(u.params, "journal_mode", 0, L, "none"))
      <4>1. GetMvcc(o) \in BOOLEAN /\ \A v : IsMvcc(v) \in BOOLEAN
        BY DEF GetMvcc, IsMvcc
      <4> QED BY <3>6, <4>1
    <3>10. m = Shown(o)
      BY <1>5, <3>2, <3>3, <3>4, <3>5, <3>7, <3>8, <3>9, Zenon DEF Shown
    <3>11. Reading(s)
      BY <2>9
    <3>12. MemoryAt(u, L) \/ o.target = File(u.database)
      BY <2>1, <2>8, <2>10, Zenon DEF Agree, AgreeTarget, o
    <3>13. o.encryption = IF <<c, h>> = <<"none", "none">> THEN <<>> ELSE <<c, h>>
      BY <2>7, <2>9, <2>10, <2>13, Zenon DEF o
    <3>14. m.memory = MemoryAt(u, L)
      BY <1>5, Zenon
    <3> QED BY <1>m, <1>6, <3>10, <3>11, <3>12, <3>13, <3>14, Zenon DEF o, ReadFully
  <2> QED BY <1>3, <1>m, <2>12, <2>13
<1> QED BY <1>8, <1>9

-----------------------------------------------------------------------------
(* The inductive invariant of the options: they keep the name and the state  *)
(* alike, and the URL written last has a list of parameters.                 *)
OptionsInv ==
  /\ DOMAIN opt = Handle
  /\ \A h \in Handle : NameIsState(opt[h])
  /\ {"database", "params"} \subseteq DOMAIN url /\ IsList(url.params)

(* Every builder method keeps the name the one of the state. *)
LEMMA BuiltKeeps ==
  ASSUME NEW o, NameIsState(o), NEW n, NEW p \in Built(o, n)
  PROVE  NameIsState(p)
<1>1. \A v : NameIsState(Default(v)) /\ NameIsState(Filename(o, v))
  BY DefaultKeeps, FilenameKeeps, Zenon
<1>2. \A b : NameIsState(InMemory(o, b, n))
  BY InMemoryKeeps, Zenon
<1>3. \A b, x, y :
         /\ NameIsState(ReadOnly(o, b)) /\ NameIsState(CreateIfMissing(o, b))
         /\ NameIsState(SharedCache(o, b)) /\ NameIsState(Immutable(o, b))
         /\ NameIsState(Vfs(o, x)) /\ NameIsState(CustomIo(o)) /\ NameIsState(ClearCustomIo(o))
         /\ NameIsState(EncryptionOptions(o, x)) /\ NameIsState(WithSyncOptions(o, x))
         /\ NameIsState(ExperimentalFeature(o, x, b))
         /\ NameIsState(Pragma(o, x, y)) /\ NameIsState(Mvcc(o, b))
  BY OthersKeepName, Zenon
<1>4. \/ p \in {Default(n), Vfs(o, "v"), CustomIo(o), ClearCustomIo(o),
               EncryptionOptions(o, <<"c", "ab">>), EncryptionOptions(o, <<>>),
               Pragma(o, "auto_vacuum", "FULL"), Pragma(o, "foreign_keys", "OFF"),
               Pragma(o, "journal_mode", "wal")}
      \/ \E f : p = Filename(o, f)
      \/ \E x : p = WithSyncOptions(o, x)
      \/ \E b : p \in {InMemory(o, b, n), ReadOnly(o, b), CreateIfMissing(o, b), SharedCache(o, b),
                      Immutable(o, b), Mvcc(o, b), ExperimentalFeature(o, "attach", b),
                      ExperimentalFeature(o, "views", b)}
  BY Zenon DEF Built
<1> QED BY <1>1, <1>2, <1>3, <1>4, Zenon

(* The parameters of a written URL are such a list.                          *)
LEMMA Joined ==
  ASSUME NEW s, NEW t, IsList(s), IsList(t)
  PROVE  IsList(s \o t)
<1>1. PICK S, T : s \in Seq(S) /\ t \in Seq(T)
  BY DEF IsList
<1>2. s \in Seq(S \cup T) /\ t \in Seq(S \cup T)
  BY <1>1
<1>3. s \o t \in Seq(S \cup T)
  BY <1>2
<1> QED BY <1>3 DEF IsList

(* An optional parameter is a list. *)
LEMMA WhenList ==
  ASSUME NEW c, NEW k, NEW v
  PROVE  IsList(When(c, k, v))
<1> DEFINE p == [key |-> k, value |-> v]
<1>1. \A x : <<x>> \in Seq({x}) /\ <<>> \in Seq({x})
  OBVIOUS
<1>2. When(c, k, v) = <<p>> \/ When(c, k, v) = <<>>
  BY Zenon DEF When
<1> HIDE DEF p
<1> QED BY <1>1, <1>2 DEF IsList

(* A function on 1 .. k is a sequence. *)
LEMMA FunctionSeq == ASSUME NEW T, NEW k \in Nat, NEW f \in [1 .. k -> T] PROVE f \in Seq(T)
OBVIOUS

(* What a name adds to the parameters leaves them a list. *)
LEMMA AroundList ==
  ASSUME NEW path, NEW ps, IsList(ps)
  PROVE  IsList(Around(path, ps))
<1> DEFINE p == [key |-> "b", value |-> ""]
           q == [ps EXCEPT ![Len(ps)].value = "wrong"]
<1>1. IsList(<<p>> \o ps)
  <2>1. <<p>> \in Seq({p})
    OBVIOUS
  <2>2. IsList(<<p>>)
    BY <2>1 DEF IsList
  <2> QED BY <2>2, Joined
<1>2. IsList(q)
  <2>1. PICK S : ps \in Seq(S)
    BY DEF IsList
  <2> DEFINE r == [ps[Len(ps)] EXCEPT !.value = "wrong"]
  <2>2. q = [ps EXCEPT ![Len(ps)] = r]
    OBVIOUS
  <2> HIDE DEF q, r
  <2>3. Len(ps) \in Nat /\ ps \in [1 .. Len(ps) -> S \cup {r}]
    BY <2>1
  <2>4. PICK k \in Nat : k = Len(ps) /\ ps \in [1 .. k -> S \cup {r}]
    BY <2>3
  <2>5. [ps EXCEPT ![k] = r] \in [1 .. k -> S \cup {r}]
    BY <2>4
  <2>6. q \in Seq(S \cup {r})
    BY <2>2, <2>4, <2>5, FunctionSeq
  <2> QED BY <2>6 DEF IsList
<1> HIDE DEF p, q
<1>3. path = "a?b" => path # "a#b"
  OBVIOUS
<1> QED BY <1>1, <1>2, <1>3, Zenon DEF Around, p, q

(* So are all of them. *)
LEMMA UrlList ==
  ASSUME NEW o
  PROVE  IsList(BuildUrl(o).params)
<1>1. \A c, k, v : IsList(When(c, k, v))
  BY WhenList, Zenon
<1>2. \A s, t : IsList(s) /\ IsList(t) => IsList(s \o t)
  BY Joined, Zenon
<1>3. IsList(<<>>)
  BY DEF IsList
<1> HIDE DEF IsList
<1>4. IsList(SyncParams(o.sync))
  BY <1>1, <1>2, <1>3, Zenon DEF SyncParams
<1>5. IsList(OtherParams(o))
  BY <1>1, <1>2, <1>3, <1>4, Zenon DEF OtherParams
<1>6. PICK ps : ps = When(TRUE, "mode", UrlMode(o)) \o When(TRUE, "cache", o.cache) \o OtherParams(o)
  OBVIOUS
<1>7. IsList(ps)
  BY <1>1, <1>2, <1>5, <1>6, Zenon
<1>8. IsList(Around(UrlPath(o), ps))
  BY <1>7, AroundList
<1> QED BY <1>6, <1>8, Zenon DEF BuildUrl

(* A list has a length. *)
LEMMA ListLength == ASSUME NEW s, IsList(s) PROVE Len(s) \in Nat
BY DEF IsList

(* The empty URL. *)
LEMMA EmptyUrlList ==
  /\ {"database", "params"} \subseteq DOMAIN EmptyUrl /\ IsList(EmptyUrl.params)
<1>1. DOMAIN EmptyUrl = {"database", "params"} /\ EmptyUrl.params = <<>>
  BY Zenon DEF EmptyUrl
<1> QED BY <1>1 DEF IsList

(* Options read from a URL have the name of their state. *)
LEMMA FromUrlKeeps ==
  ASSUME OptionsInv, NEW h \in Handle, FromUrl(h)
  PROVE  OptionsInv'
<1>1. PICK u \in {url} \cup {BuildUrl(opt[g]) : g \in {g \in Handle : HasUrl(opt[g])}} :
        opt' = [opt EXCEPT ![h] = Parse(u, Fresh).options]
  BY Zenon DEF FromUrl
<1>2. Len(u.params) \in Nat
  <2>1. u = url \/ \E o : u = BuildUrl(o)
    BY Zenon
  <2> QED BY <2>1, UrlList, ListLength, Zenon DEF OptionsInv
<1>3. NameIsState(Parse(u, Fresh).options)
  BY <1>2, ParseReads, Zenon DEF Reading
<1>4. url' = EmptyUrl
  BY Zenon DEF FromUrl
<1> QED BY <1>1, <1>3, <1>4, EmptyUrlList DEF OptionsInv

(* A URL that anybody may write has a list of parameters. *)
LEMMA WriteUrlKeeps ==
  ASSUME OptionsInv, WriteUrl
  PROVE  OptionsInv'
<1>1. IsList(url'.params) /\ {"database", "params"} \subseteq DOMAIN url'
  <2>1. CASE \E p : url' = [url EXCEPT !.database = p]
    <3>1. url'.params = url.params /\ DOMAIN url' = DOMAIN url
      BY <2>1, Zenon DEF OptionsInv
    <3> QED BY <3>1 DEF OptionsInv
  <2>2. CASE \E p : url' = [url EXCEPT !.params = Append(@, p)]
    <3>1. PICK p : url' = [url EXCEPT !.params = Append(@, p)]
      BY <2>2
    <3>2. url'.params = Append(url.params, p) /\ DOMAIN url' = DOMAIN url
      BY <3>1, Zenon DEF OptionsInv
    <3>3. PICK S : url.params \in Seq(S)
      BY DEF OptionsInv, IsList
    <3>4. url.params \in Seq(S \cup {p})
      BY <3>3
    <3>5. Append(url.params, p) \in Seq(S \cup {p})
      BY <3>4
    <3> QED BY <3>2, <3>5 DEF OptionsInv, IsList
  <2> QED BY <2>1, <2>2, Zenon DEF WriteUrl
<1>2. opt' = opt
  BY DEF WriteUrl
<1> QED BY <1>1, <1>2 DEF OptionsInv

(* The invariant holds initially, and every step keeps it. *)
LEMMA OptionsStart == OptionsInit => OptionsInv
<1> SUFFICES ASSUME OptionsInit PROVE OptionsInv
  OBVIOUS
<1>1. DOMAIN opt = Handle /\ \A h \in Handle : opt[h] = Default(0)
  BY Zenon DEF OptionsInit
<1> QED BY <1>1, DefaultKeeps, EmptyUrlList, Zenon DEF OptionsInv, OptionsInit

LEMMA OptionsStep ==
  ASSUME OptionsInv, [OptionsNext]_optionVars
  PROVE  OptionsInv'
<1>1. CASE UNCHANGED optionVars
  BY <1>1 DEF OptionsInv, optionVars
<1>2. CASE WriteUrl
  BY <1>2, WriteUrlKeeps
<1>3. ASSUME NEW h \in Handle, BuilderCall(h) PROVE OptionsInv'
  <2>1. PICK o \in Built(opt[h], Fresh) : opt' = [opt EXCEPT ![h] = o]
    BY <1>3, Zenon DEF BuilderCall
  <2>2. NameIsState(o) /\ url' = url
    BY <1>3, <2>1, BuiltKeeps, Zenon DEF OptionsInv, BuilderCall
  <2> QED BY <2>1, <2>2 DEF OptionsInv
<1>4. ASSUME NEW h \in Handle, FromUrl(h) PROVE OptionsInv'
  BY <1>4, FromUrlKeeps
<1>5. ASSUME NEW h \in Handle, FromUrlRefused(h) PROVE OptionsInv'
  BY <1>5, EmptyUrlList DEF OptionsInv, FromUrlRefused
<1>6. ASSUME NEW h \in Handle, NEW g \in Handle, Clone(g, h) PROVE OptionsInv'
  BY <1>6 DEF OptionsInv, Clone
<1> QED BY <1>1, <1>2, <1>3, <1>4, <1>5, <1>6 DEF OptionsNext

(* The name of an in-memory database stands for the database, on every       *)
(* clone, after any builder calls and for options read from a URL of any     *)
(* length (TursoConnectOptions::in_memory, apply_query_params).              *)
THEOREM NamesStandForDatabases == OptionsSpec => []NameIsDatabase
<1>1. OptionsInv => NameIsDatabase
  <2> SUFFICES ASSUME OptionsInv, NEW g \in Handle, NEW h \in Handle,
                      opt[g].target.kind = "memory", opt[h].target.kind = "memory"
               PROVE  opt[g].target = opt[h].target <=> opt[g].memory_state = opt[h].memory_state
    BY Zenon DEF NameIsDatabase
  <2>1. opt[g].target = Memory(opt[g].memory_state) /\ opt[h].target = Memory(opt[h].memory_state)
    BY DEF OptionsInv, NameIsState
  <2>2. \A n : Memory(n).name = n
    BY Zenon DEF Memory
  <2> QED BY <2>1, <2>2
<1> QED BY <1>1, OptionsStart, OptionsStep, PTL DEF OptionsSpec

(* A URL of any length and any parameters is accepted exactly if it is well  *)
(* formed, and read as what it says as a whole (apply_query_params).         *)
THEOREM UrlsReadAsMeant == OptionsSpec => []UrlReadAsMeant
<1>1. OptionsInv => UrlReadAsMeant
  BY ReadAsMeant, Zenon DEF OptionsInv, UrlReadAsMeant, Shown
<1> QED BY <1>1, OptionsStart, OptionsStep, PTL DEF OptionsSpec

(* The greatest of some positions is one of them. *)
LEMMA LatestIn ==
  ASSUME NEW k \in Nat, NEW I, I \subseteq 1 .. k
  PROVE  (I = {} /\ Latest(I) = 0) \/ (Latest(I) \in I /\ \A i \in I : Latest(I) >= i)
<1>1. CASE I = {}
  BY <1>1 DEF Latest
<1>2. CASE I # {}
  <2> DEFINE T == {j \in Nat : k - j \in I}
  <2>1. PICK i \in I : TRUE
    BY <1>2
  <2>2. k - i \in T
    BY <2>1
  <2>3. T \subseteq Nat /\ T # {}
    BY <2>2
  <2>4. PICK j \in T : \A y \in T : j <= y
    <3> HIDE DEF T
    <3> QED BY <2>3, LeastNatural
  <2>5. ASSUME NEW x \in I PROVE k - j >= x
    <3>1. k - x \in T /\ x \in 1 .. k
      BY <2>5
    <3>2. j <= k - x
      BY <2>4, <3>1
    <3>3. j \in Nat
      OBVIOUS
    <3> QED BY <3>1, <3>2, <3>3
  <2>6. k - j \in I
    BY <2>4
  <2>7. \E m \in I : \A x \in I : m >= x
    BY <2>5, <2>6
  <2>8. Max(I) \in I /\ \A x \in I : Max(I) >= x
    BY <2>7, Zenon DEF Max
  <2> QED BY <1>2, <2>8, Zenon DEF Latest
<1> QED BY <1>1, <1>2

(* A parameter's value to position k: the default, or that of one of them. *)
LEMMA ValueToIs ==
  ASSUME NEW ps, NEW k \in Nat, NEW i \in Nat, NEW key, NEW d
  PROVE  \/ ValueTo(ps, key, i, k, d) = d /\ \A n \in i + 1 .. k : ps[n].key # key
         \/ \E n \in i + 1 .. k : ps[n].key = key /\ ValueTo(ps, key, i, k, d) = ps[n].value
<1> DEFINE I == OfKeys(ps, {key}, i, k)
<1>1. I \subseteq 1 .. k /\ I \subseteq i + 1 .. k
  BY DEF OfKeys
<1>2. \A n \in i + 1 .. k : n \in I <=> ps[n].key = key
  BY DEF OfKeys
<1>3. ValueTo(ps, key, i, k, d) = IF Latest(I) = 0 THEN d ELSE ps[Latest(I)].value
  BY Zenon DEF ValueTo
<1> HIDE DEF I
<1>4. CASE I = {} /\ Latest(I) = 0
  BY <1>1, <1>2, <1>3, <1>4
<1>5. CASE Latest(I) \in I
  <2>1. Latest(I) # 0
    BY <1>1, <1>5
  <2> QED BY <1>1, <1>2, <1>3, <1>5, <2>1
<1> QED BY <1>1, <1>4, <1>5, LatestIn

-----------------------------------------------------------------------------
(* The parameters of a URL that is written.                                  *)

(* A parameter, and a list that holds it. *)
Param(key, value) == [key |-> key, value |-> value]
Held(s, x) == \E i \in DOMAIN s : s[i] = x

LEMMA ParamIs == \A k, v : Param(k, v).key = k /\ Param(k, v).value = v
BY DEF Param

(* What a concatenation holds. *)
LEMMA JoinedAt ==
  ASSUME NEW s, NEW t, IsList(s), IsList(t)
  PROVE  /\ Len(s) \in Nat /\ Len(t) \in Nat
         /\ DOMAIN s = 1 .. Len(s) /\ DOMAIN t = 1 .. Len(t)
         /\ DOMAIN (s \o t) = 1 .. Len(s) + Len(t)
         /\ \A i \in 1 .. Len(s) : (s \o t)[i] = s[i]
         /\ \A i \in 1 .. Len(t) : (s \o t)[Len(s) + i] = t[i]
         /\ \A i \in 1 .. Len(s) + Len(t) : i \in 1 .. Len(s) \/ i - Len(s) \in 1 .. Len(t)
<1>1. PICK S, T : s \in Seq(S) /\ t \in Seq(T)
  BY DEF IsList
<1>2. s \in Seq(S \cup T) /\ t \in Seq(S \cup T)
  BY <1>1
<1> QED BY <1>2

LEMMA HeldJoined ==
  ASSUME NEW s, NEW t, IsList(s), IsList(t), NEW x
  PROVE  Held(s \o t, x) <=> Held(s, x) \/ Held(t, x)
<1>0. PICK st : st = s \o t
  OBVIOUS
<1>1. /\ Len(s) \in Nat /\ Len(t) \in Nat
      /\ DOMAIN s = 1 .. Len(s) /\ DOMAIN t = 1 .. Len(t)
      /\ DOMAIN st = 1 .. Len(s) + Len(t)
      /\ \A i \in 1 .. Len(s) : st[i] = s[i]
      /\ \A i \in 1 .. Len(t) : st[Len(s) + i] = t[i]
      /\ \A i \in 1 .. Len(s) + Len(t) : i \in 1 .. Len(s) \/ i - Len(s) \in 1 .. Len(t)
  BY <1>0, JoinedAt
<1>2. ASSUME NEW i \in 1 .. Len(s) + Len(t), st[i] = x PROVE Held(s, x) \/ Held(t, x)
  <2>1. CASE i \in 1 .. Len(s)
    BY <1>1, <1>2, <2>1 DEF Held
  <2>2. CASE i - Len(s) \in 1 .. Len(t)
    <3>1. Len(s) + (i - Len(s)) = i
      BY <1>1
    <3>2. t[i - Len(s)] = x
      BY <1>1, <1>2, <2>2, <3>1
    <3> QED BY <1>1, <2>2, <3>2 DEF Held
  <2> QED BY <1>1, <2>1, <2>2
<1>3. ASSUME NEW i \in 1 .. Len(s), s[i] = x PROVE Held(st, x)
  BY <1>1, <1>3 DEF Held
<1>4. ASSUME NEW i \in 1 .. Len(t), t[i] = x PROVE Held(st, x)
  <2>1. Len(s) + i \in 1 .. Len(s) + Len(t)
    BY <1>1
  <2>2. st[Len(s) + i] = x
    BY <1>1, <1>4
  <2> QED BY <1>1, <2>1, <2>2, Zenon DEF Held
<1>5. Held(st, x) => Held(s, x) \/ Held(t, x)
  BY <1>1, <1>2 DEF Held
<1>6. Held(s, x) \/ Held(t, x) => Held(st, x)
  BY <1>1, <1>3, <1>4 DEF Held
<1> QED BY <1>0, <1>5, <1>6, Zenon

(* What an optional parameter holds. *)
LEMMA HeldWhen ==
  ASSUME NEW c, NEW k, NEW v, NEW x
  PROVE  Held(When(c, k, v), x) <=> c /\ x = Param(k, v)
<1>1. CASE c
  <2>1. When(c, k, v) = <<Param(k, v)>>
    BY <1>1, Zenon DEF When, Param
  <2>2. \A y : Held(<<y>>, x) <=> x = y
    BY DEF Held
  <2> QED BY <1>1, <2>1, <2>2
<1>2. CASE ~c
  <2>1. When(c, k, v) = <<>>
    BY <1>2, Zenon DEF When
  <2>2. ~Held(<<>>, x)
    BY DEF Held
  <2> QED BY <1>2, <2>1, <2>2
<1> QED BY <1>1, <1>2

LEMMA HeldNone == \A x : ~Held(<<>>, x)
BY DEF Held

(* What a list of keys does not hold.                                        *)
Without(s, K) == \A x : Held(s, x) => x.key \notin K

LEMMA WithoutJoined ==
  ASSUME NEW s, NEW t, IsList(s), IsList(t), NEW K, Without(s, K), Without(t, K)
  PROVE  Without(s \o t, K)
<1>1. \A x : Held(s \o t, x) => Held(s, x) \/ Held(t, x)
  BY HeldJoined
<1> QED BY <1>1, Zenon DEF Without

LEMMA WithoutWhen ==
  ASSUME NEW c, NEW k, NEW v, NEW K, k \notin K
  PROVE  Without(When(c, k, v), K)
<1>1. \A x : Held(When(c, k, v), x) => x = Param(k, v)
  BY HeldWhen
<1>2. Param(k, v).key = k
  BY ParamIs
<1> QED BY <1>1, <1>2, Zenon DEF Without

(* The remote URL stands before the other sync parameters.                   *)
OtherSync == SyncKeys \ {"sync_remote_url"}
RemoteFirst(s) ==
  \A i, j \in DOMAIN s : s[i].key = "sync_remote_url" /\ s[j].key \in OtherSync => i < j

(* Lists of one parameter, and concatenations. *)
LEMMA RemoteFirstWhen == ASSUME NEW c, NEW k, NEW v PROVE RemoteFirst(When(c, k, v))
<1>1. CASE c
  <2>1. When(c, k, v) = <<Param(k, v)>>
    BY <1>1, Zenon DEF When, Param
  <2> QED BY <2>1 DEF RemoteFirst, OtherSync
<1>2. CASE ~c
  <2>1. When(c, k, v) = <<>>
    BY <1>2, Zenon DEF When
  <2> QED BY <2>1 DEF RemoteFirst
<1> QED BY <1>1, <1>2

LEMMA RemoteFirstJoined ==
  ASSUME NEW s, NEW t, IsList(s), IsList(t), RemoteFirst(s), RemoteFirst(t),
         Without(s, OtherSync) \/ Without(t, {"sync_remote_url"})
  PROVE  RemoteFirst(s \o t)
<1> DEFINE st == s \o t
<1>1. /\ Len(s) \in Nat /\ Len(t) \in Nat
      /\ DOMAIN s = 1 .. Len(s) /\ DOMAIN t = 1 .. Len(t)
      /\ DOMAIN st = 1 .. Len(s) + Len(t)
      /\ \A i \in 1 .. Len(s) : st[i] = s[i]
      /\ \A i \in 1 .. Len(t) : st[Len(s) + i] = t[i]
      /\ \A i \in 1 .. Len(s) + Len(t) : i \in 1 .. Len(s) \/ i - Len(s) \in 1 .. Len(t)
  BY JoinedAt
<1> HIDE DEF st
<1>2. \A i \in 1 .. Len(s) + Len(t) : i \in 1 .. Len(s) \/ (i - Len(s) \in 1 .. Len(t) /\ st[i] = t[i - Len(s)])
  <2> TAKE i \in 1 .. Len(s) + Len(t)
  <2>1. Len(s) + (i - Len(s)) = i
    BY <1>1
  <2> QED BY <1>1, <2>1
<1>3. ASSUME NEW i \in DOMAIN st, NEW j \in DOMAIN st,
             st[i].key = "sync_remote_url", st[j].key \in OtherSync
      PROVE  i < j
  <2>0. i \in 1 .. Len(s) + Len(t) /\ j \in 1 .. Len(s) + Len(t)
    BY <1>1
  <2>1. CASE i \in 1 .. Len(s) /\ j \in 1 .. Len(s)
    BY <1>1, <1>3, <2>1 DEF RemoteFirst
  <2>2. CASE i \in 1 .. Len(s) /\ j \notin 1 .. Len(s)
    BY <1>1, <2>0, <2>2
  <2>3. CASE i \notin 1 .. Len(s) /\ j \notin 1 .. Len(s)
    <3>1. i - Len(s) \in DOMAIN t /\ j - Len(s) \in DOMAIN t /\ st[i] = t[i - Len(s)] /\ st[j] = t[j - Len(s)]
      BY <1>1, <1>2, <2>0, <2>3
    <3>2. i - Len(s) < j - Len(s)
      BY <1>3, <3>1 DEF RemoteFirst
    <3> QED BY <1>1, <2>0, <3>2
  <2>4. CASE i \notin 1 .. Len(s) /\ j \in 1 .. Len(s)
    <3>1. i - Len(s) \in DOMAIN t /\ st[i] = t[i - Len(s)] /\ j \in DOMAIN s /\ st[j] = s[j]
      BY <1>1, <1>2, <2>0, <2>4
    <3>2. Held(s, st[j]) /\ Held(t, st[i])
      BY <3>1, Zenon DEF Held
    <3> QED BY <1>3, <3>2 DEF Without
  <2> QED BY <2>1, <2>2, <2>3, <2>4
<1> QED BY <1>3 DEF RemoteFirst, st

(* A key held once, and its value.                                           *)
HeldAs(ps, key, c, v) ==
  /\ \A x : Held(ps, x) /\ x.key = key => c /\ x.value = v
  /\ c => \E x : Held(ps, x) /\ x.key = key /\ x.value = v

(* The value of a key that is held as often as it should be. *)
LEMMA ValueHeld ==
  ASSUME NEW ps, NEW L \in Nat, DOMAIN ps = 1 .. L, NEW key, NEW c, NEW v, HeldAs(ps, key, c, v),
         NEW i \in Nat, \A j \in 1 .. L : ps[j].key = key => j > i, NEW d
  PROVE  ValueTo(ps, key, i, L, d) = IF c THEN v ELSE d
<1>1. \A n \in i + 1 .. L : n \in DOMAIN ps
  OBVIOUS
<1>2. CASE ValueTo(ps, key, i, L, d) = d /\ \A n \in i + 1 .. L : ps[n].key # key
  <2>1. ASSUME c PROVE FALSE
    <3>1. PICK x : Held(ps, x) /\ x.key = key
      BY <2>1, Zenon DEF HeldAs
    <3>2. PICK n \in 1 .. L : ps[n] = x
      BY <3>1, Zenon DEF Held
    <3>3. n > i
      BY <3>1, <3>2
    <3>4. n \in i + 1 .. L
      BY <3>3
    <3> QED BY <1>2, <3>1, <3>2, <3>4
  <2> QED BY <1>2, <2>1
<1>3. CASE \E n \in i + 1 .. L : ps[n].key = key /\ ValueTo(ps, key, i, L, d) = ps[n].value
  <2>1. PICK n \in i + 1 .. L : ps[n].key = key /\ ValueTo(ps, key, i, L, d) = ps[n].value
    BY <1>3
  <2>2. Held(ps, ps[n])
    BY <1>1, Zenon DEF Held
  <2>3. c /\ ps[n].value = v
    BY <2>1, <2>2, Zenon DEF HeldAs
  <2> QED BY <2>1, <2>3
<1> QED BY <1>2, <1>3, ValueToIs

(* An optional parameter, as the list it is the value of. *)
LEMMA HeldIf ==
  ASSUME NEW c, NEW k, NEW v, NEW a, a = When(c, k, v)
  PROVE  \A x : Held(a, x) <=> c /\ x = Param(k, v)
<1> TAKE x
<1>1. Held(When(c, k, v), x) <=> c /\ x = Param(k, v)
  BY HeldWhen
<1> QED BY <1>1

(* A parameter that is written unless its setting is absent. *)
LEMMA HeldSome ==
  ASSUME NEW k, NEW v, NEW a, a = When(v # "none", k, v)
  PROVE  \A x : Held(a, x) <=> v # "none" /\ x = Param(k, v)
<1> TAKE x
<1>1. Held(When(v # "none", k, v), x) <=> v # "none" /\ x = Param(k, v)
  BY HeldWhen
<1> QED BY <1>1

(* The same, written in other words than it was set. *)
LEMMA HeldUnless ==
  ASSUME NEW k, NEW t, NEW v, NEW a, a = When(t # "none", k, v)
  PROVE  \A x : Held(a, x) <=> t # "none" /\ x = Param(k, v)
<1> TAKE x
<1>1. Held(When(t # "none", k, v), x) <=> t # "none" /\ x = Param(k, v)
  BY HeldWhen
<1> QED BY <1>1

(* A parameter that is always written. *)
LEMMA HeldAlways == \A k, v, x : Held(When(TRUE, k, v), x) <=> x = Param(k, v)
<1> TAKE k, v, x
<1>1. Held(When(TRUE, k, v), x) <=> TRUE /\ x = Param(k, v)
  BY HeldWhen
<1> QED BY <1>1

(* The sync parameters, and all of them. *)
SyncHolds(s, x) ==
  \/ x = Param("sync_remote_url", s.remote_url)
  \/ s.auth_token # "none" /\ x = Param("sync_auth_token", s.auth_token)
  \/ s.client_name # "none" /\ x = Param("sync_client_name", s.client_name)
  \/ s.long_poll_timeout # "none" /\ x = Param("sync_long_poll_timeout_ms", Millis(s.long_poll_timeout))
  \/ ~s.bootstrap_if_empty /\ x = Param("sync_bootstrap_if_empty", "false")

UrlHolds(o, x) ==
  \/ x = Param("mode", UrlMode(o))
  \/ x = Param("cache", o.cache)
  \/ o.immutable /\ x = Param("immutable", "true")
  \/ o.vfs # "none" /\ x = Param("vfs", o.vfs)
  \/ /\ o.encryption # <<>>
     /\ x = Param("encryption_cipher", o.encryption[1]) \/ x = Param("encryption_hexkey", o.encryption[2])
  \/ o.sync # NoSync /\ SyncHolds(o.sync[1], x)
  \/ o.features # {} /\ x = Param("experimental", FeatureList(o.features))

(* The sync parameters, and all that follow mode and cache: what they hold. *)
LEMMA NoneList == IsList(<<>>)
BY DEF IsList

LEMMA SyncList ==
  ASSUME NEW sync
  PROVE  /\ IsList(SyncParams(sync))
         /\ \A x : Held(SyncParams(sync), x) <=> sync # NoSync /\ SyncHolds(sync[1], x)
         /\ RemoteFirst(SyncParams(sync))
<1>1. CASE sync = NoSync
  <2>1. SyncParams(sync) = <<>>
    BY <1>1, Zenon DEF SyncParams
  <2>2. RemoteFirst(<<>>)
    BY DEF RemoteFirst
  <2> QED BY <1>1, <2>1, <2>2, NoneList, HeldNone, Zenon
<1>2. CASE sync # NoSync
  <2> DEFINE s == sync[1]
  <2>1. PICK a : a = When(TRUE, "sync_remote_url", s.remote_url)
    OBVIOUS
  <2>2. PICK b : b = When(s.auth_token # "none", "sync_auth_token", s.auth_token)
    OBVIOUS
  <2>3. PICK c : c = When(s.client_name # "none", "sync_client_name", s.client_name)
    OBVIOUS
  <2>4. PICK d : d = When(s.long_poll_timeout # "none", "sync_long_poll_timeout_ms", Millis(s.long_poll_timeout))
    OBVIOUS
  <2>5. PICK e : e = When(~s.bootstrap_if_empty, "sync_bootstrap_if_empty", "false")
    OBVIOUS
  <2>6. SyncParams(sync) = a \o b \o c \o d \o e
    BY <1>2, <2>1, <2>2, <2>3, <2>4, <2>5, Zenon DEF SyncParams
  <2>7. IsList(a) /\ IsList(b) /\ IsList(c) /\ IsList(d) /\ IsList(e)
    BY <2>1, <2>2, <2>3, <2>4, <2>5, WhenList, Zenon
  <2>8. RemoteFirst(a) /\ RemoteFirst(b) /\ RemoteFirst(c) /\ RemoteFirst(d) /\ RemoteFirst(e)
    BY <2>1, <2>2, <2>3, <2>4, <2>5, RemoteFirstWhen, Zenon
  <2>9. /\ Without(b, {"sync_remote_url"}) /\ Without(c, {"sync_remote_url"})
        /\ Without(d, {"sync_remote_url"}) /\ Without(e, {"sync_remote_url"})
    <3>1. /\ "sync_auth_token" \notin {"sync_remote_url"} /\ "sync_client_name" \notin {"sync_remote_url"}
          /\ "sync_long_poll_timeout_ms" \notin {"sync_remote_url"}
          /\ "sync_bootstrap_if_empty" \notin {"sync_remote_url"}
      OBVIOUS
    <3> QED BY <2>2, <2>3, <2>4, <2>5, <3>1, WithoutWhen, Zenon
  <2>10. /\ \A x : Held(a, x) <=> x = Param("sync_remote_url", s.remote_url)
         /\ \A x : Held(b, x) <=> s.auth_token # "none" /\ x = Param("sync_auth_token", s.auth_token)
         /\ \A x : Held(c, x) <=> s.client_name # "none" /\ x = Param("sync_client_name", s.client_name)
         /\ \A x : Held(d, x) <=> s.long_poll_timeout # "none"
                                    /\ x = Param("sync_long_poll_timeout_ms", Millis(s.long_poll_timeout))
         /\ \A x : Held(e, x) <=> ~s.bootstrap_if_empty /\ x = Param("sync_bootstrap_if_empty", "false")
    <3>1. \A x : Held(a, x) <=> x = Param("sync_remote_url", s.remote_url)
      BY <2>1, HeldAlways, Zenon
    <3>2. \A x : Held(b, x) <=> s.auth_token # "none" /\ x = Param("sync_auth_token", s.auth_token)
      BY <2>2, HeldSome, Zenon
    <3>3. \A x : Held(c, x) <=> s.client_name # "none" /\ x = Param("sync_client_name", s.client_name)
      BY <2>3, HeldSome, Zenon
    <3>4. \A x : Held(d, x) <=> s.long_poll_timeout # "none"
                                  /\ x = Param("sync_long_poll_timeout_ms", Millis(s.long_poll_timeout))
      <4>1. PICK v : v = Millis(s.long_poll_timeout)
        OBVIOUS
      <4>2. PICK t : t = s.long_poll_timeout
        OBVIOUS
      <4>3. d = When(t # "none", "sync_long_poll_timeout_ms", v)
        BY <2>4, <4>1, <4>2, Zenon
      <4> HIDE DEF s
      <4> QED BY <4>1, <4>2, <4>3, HeldUnless
    <3>5. \A x : Held(e, x) <=> ~s.bootstrap_if_empty /\ x = Param("sync_bootstrap_if_empty", "false")
      BY <2>5, HeldIf, Zenon
    <3> QED BY <3>1, <3>2, <3>3, <3>4, <3>5, Zenon
  <2>11. /\ IsList(a \o b) /\ RemoteFirst(a \o b)
         /\ \A x : Held(a \o b, x) <=> Held(a, x) \/ Held(b, x)
    BY <2>7, <2>8, <2>9, Joined, HeldJoined, RemoteFirstJoined
  <2>12. /\ IsList(a \o b \o c) /\ RemoteFirst(a \o b \o c)
         /\ \A x : Held(a \o b \o c, x) <=> Held(a \o b, x) \/ Held(c, x)
    BY <2>7, <2>8, <2>9, <2>11, Joined, HeldJoined, RemoteFirstJoined
  <2>13. /\ IsList(a \o b \o c \o d) /\ RemoteFirst(a \o b \o c \o d)
         /\ \A x : Held(a \o b \o c \o d, x) <=> Held(a \o b \o c, x) \/ Held(d, x)
    BY <2>7, <2>8, <2>9, <2>12, Joined, HeldJoined, RemoteFirstJoined
  <2>14. /\ IsList(a \o b \o c \o d \o e) /\ RemoteFirst(a \o b \o c \o d \o e)
         /\ \A x : Held(a \o b \o c \o d \o e, x) <=> Held(a \o b \o c \o d, x) \/ Held(e, x)
    BY <2>7, <2>8, <2>9, <2>13, Joined, HeldJoined, RemoteFirstJoined
  <2>15. ASSUME NEW x PROVE Held(SyncParams(sync), x) <=> SyncHolds(s, x)
    <3>1. Held(SyncParams(sync), x) <=> Held(a, x) \/ Held(b, x) \/ Held(c, x) \/ Held(d, x) \/ Held(e, x)
      BY <2>6, <2>11, <2>12, <2>13, <2>14, Zenon
    <3> QED BY <2>10, <3>1, Zenon DEF SyncHolds
  <2> QED BY <1>2, <2>6, <2>14, <2>15
<1> QED BY <1>1, <1>2

LEMMA OtherList ==
  ASSUME NEW o, NEW ps, ps = OtherParams(o)
  PROVE  /\ IsList(ps) /\ RemoteFirst(ps)
         /\ \A x : Held(ps, x) <=>
              \/ o.immutable /\ x = Param("immutable", "true")
              \/ o.vfs # "none" /\ x = Param("vfs", o.vfs)
              \/ /\ o.encryption # <<>>
                 /\ x = Param("encryption_cipher", o.encryption[1]) \/ x = Param("encryption_hexkey", o.encryption[2])
              \/ o.sync # NoSync /\ SyncHolds(o.sync[1], x)
              \/ o.features # {} /\ x = Param("experimental", FeatureList(o.features))
<1>1. PICK a : a = When(o.immutable, "immutable", "true")
  OBVIOUS
<1>2. PICK b : b = When(o.vfs # "none", "vfs", o.vfs)
  OBVIOUS
<1>3. PICK p : p = When(TRUE, "encryption_cipher", o.encryption[1])
  OBVIOUS
<1>4. PICK q : q = When(TRUE, "encryption_hexkey", o.encryption[2])
  OBVIOUS
<1>5. PICK c : c = IF o.encryption = <<>> THEN <<>> ELSE p \o q
  OBVIOUS
<1>6. PICK d : d = SyncParams(o.sync)
  OBVIOUS
<1>7. PICK f : f = When(TRUE, "experimental", FeatureList(o.features))
  OBVIOUS
<1>8. PICK e : e = IF o.features = {} THEN <<>> ELSE f
  OBVIOUS
<1>9. ps = a \o b \o c \o d \o e
  BY <1>1, <1>2, <1>3, <1>4, <1>5, <1>6, <1>7, <1>8, Zenon DEF OtherParams
<1>10. /\ \A x : Held(a, x) <=> o.immutable /\ x = Param("immutable", "true")
       /\ \A x : Held(b, x) <=> o.vfs # "none" /\ x = Param("vfs", o.vfs)
       /\ \A x : Held(p, x) <=> x = Param("encryption_cipher", o.encryption[1])
       /\ \A x : Held(q, x) <=> x = Param("encryption_hexkey", o.encryption[2])
       /\ \A x : Held(f, x) <=> x = Param("experimental", FeatureList(o.features))
  <2>1. \A x : Held(a, x) <=> o.immutable /\ x = Param("immutable", "true")
    BY <1>1, HeldIf, Zenon
  <2>2. \A x : Held(b, x) <=> o.vfs # "none" /\ x = Param("vfs", o.vfs)
    BY <1>2, HeldSome, Zenon
  <2>3. \A x : Held(p, x) <=> x = Param("encryption_cipher", o.encryption[1])
    BY <1>3, HeldAlways, Zenon
  <2>4. \A x : Held(q, x) <=> x = Param("encryption_hexkey", o.encryption[2])
    BY <1>4, HeldAlways, Zenon
  <2>5. \A x : Held(f, x) <=> x = Param("experimental", FeatureList(o.features))
    BY <1>7, HeldAlways, Zenon
  <2> QED BY <2>1, <2>2, <2>3, <2>4, <2>5, Zenon
<1>11. IsList(a) /\ IsList(b) /\ IsList(p) /\ IsList(q) /\ IsList(f)
  BY <1>1, <1>2, <1>3, <1>4, <1>7, WhenList, Zenon
<1>12. RemoteFirst(a) /\ RemoteFirst(b) /\ RemoteFirst(p) /\ RemoteFirst(q) /\ RemoteFirst(f)
  BY <1>1, <1>2, <1>3, <1>4, <1>7, RemoteFirstWhen, Zenon
<1>13. /\ Without(a, OtherSync) /\ Without(b, OtherSync) /\ Without(p, OtherSync)
       /\ Without(q, OtherSync) /\ Without(f, {"sync_remote_url"})
  <2>1. /\ "immutable" \notin OtherSync /\ "vfs" \notin OtherSync /\ "encryption_cipher" \notin OtherSync
        /\ "encryption_hexkey" \notin OtherSync /\ "experimental" \notin {"sync_remote_url"}
    BY DEF OtherSync, SyncKeys
  <2> QED BY <1>1, <1>2, <1>3, <1>4, <1>7, <2>1, WithoutWhen, Zenon
<1>14. IsList(<<>>) /\ RemoteFirst(<<>>) /\ \A K : Without(<<>>, K)
  BY NoneList, HeldNone DEF RemoteFirst, Without
<1>15. /\ IsList(c) /\ RemoteFirst(c) /\ Without(c, OtherSync)
       /\ \A x : Held(c, x) <=> o.encryption # <<>> /\ (Held(p, x) \/ Held(q, x))
  <2>1. CASE o.encryption = <<>>
    BY <1>5, <1>14, <2>1, HeldNone, Zenon
  <2>2. CASE o.encryption # <<>>
    <3>1. IsList(p \o q) /\ RemoteFirst(p \o q) /\ Without(p \o q, OtherSync)
          /\ \A x : Held(p \o q, x) <=> Held(p, x) \/ Held(q, x)
      BY <1>11, <1>12, <1>13, Joined, HeldJoined, RemoteFirstJoined, WithoutJoined
    <3> QED BY <1>5, <2>2, <3>1, Zenon
  <2> QED BY <2>1, <2>2
<1>16. /\ IsList(d) /\ RemoteFirst(d)
       /\ \A x : Held(d, x) <=> o.sync # NoSync /\ SyncHolds(o.sync[1], x)
  BY <1>6, SyncList, Zenon
<1>17. /\ IsList(e) /\ RemoteFirst(e) /\ Without(e, {"sync_remote_url"})
       /\ \A x : Held(e, x) <=> o.features # {} /\ Held(f, x)
  <2>1. CASE o.features = {}
    BY <1>8, <1>14, <2>1, HeldNone, Zenon
  <2>2. CASE o.features # {}
    BY <1>8, <1>11, <1>12, <1>13, <2>2, Zenon
  <2> QED BY <2>1, <2>2
<1>18. /\ IsList(a \o b) /\ RemoteFirst(a \o b) /\ Without(a \o b, OtherSync)
       /\ \A x : Held(a \o b, x) <=> Held(a, x) \/ Held(b, x)
  BY <1>11, <1>12, <1>13, Joined, HeldJoined, RemoteFirstJoined, WithoutJoined
<1>19. /\ IsList(a \o b \o c) /\ RemoteFirst(a \o b \o c) /\ Without(a \o b \o c, OtherSync)
       /\ \A x : Held(a \o b \o c, x) <=> Held(a \o b, x) \/ Held(c, x)
  BY <1>15, <1>18, Joined, HeldJoined, RemoteFirstJoined, WithoutJoined
<1>20. /\ IsList(a \o b \o c \o d) /\ RemoteFirst(a \o b \o c \o d)
       /\ \A x : Held(a \o b \o c \o d, x) <=> Held(a \o b \o c, x) \/ Held(d, x)
  BY <1>16, <1>19, Joined, HeldJoined, RemoteFirstJoined
<1>21. /\ IsList(a \o b \o c \o d \o e) /\ RemoteFirst(a \o b \o c \o d \o e)
       /\ \A x : Held(a \o b \o c \o d \o e, x) <=> Held(a \o b \o c \o d, x) \/ Held(e, x)
  BY <1>17, <1>20, Joined, HeldJoined, RemoteFirstJoined
<1>22. ASSUME NEW x PROVE Held(ps, x) <=>
              \/ o.immutable /\ x = Param("immutable", "true")
              \/ o.vfs # "none" /\ x = Param("vfs", o.vfs)
              \/ /\ o.encryption # <<>>
                 /\ x = Param("encryption_cipher", o.encryption[1]) \/ x = Param("encryption_hexkey", o.encryption[2])
              \/ o.sync # NoSync /\ SyncHolds(o.sync[1], x)
              \/ o.features # {} /\ x = Param("experimental", FeatureList(o.features))
  <2>1. Held(ps, x) <=> Held(a, x) \/ Held(b, x) \/ Held(c, x) \/ Held(d, x) \/ Held(e, x)
    BY <1>9, <1>18, <1>19, <1>20, <1>21, Zenon
  <2> QED BY <1>10, <1>15, <1>16, <1>17, <2>1, Zenon
<1> QED BY <1>9, <1>21, <1>22

(* What the parameters of a written URL hold, and in which order. *)
LEMMA UrlIsHeld ==
  ASSUME NEW o, UrlPath(o) \notin Changed, NEW ps, ps = BuildUrl(o).params
  PROVE  IsList(ps) /\ RemoteFirst(ps) /\ \A x : Held(ps, x) <=> UrlHolds(o, x)
<1>1. PICK a : a = When(TRUE, "mode", UrlMode(o))
  OBVIOUS
<1>2. PICK b : b = When(TRUE, "cache", o.cache)
  OBVIOUS
<1>3. PICK c : c = OtherParams(o)
  OBVIOUS
<1>4. ps = a \o b \o c
  <2>1. UrlPath(o) # "a?b" /\ UrlPath(o) # "a#b"
    BY DEF Changed
  <2>2. \A qs : Around(UrlPath(o), qs) = qs
    BY <2>1, Zenon DEF Around
  <2> QED BY <1>1, <1>2, <1>3, <2>2, Zenon DEF BuildUrl
<1>5. /\ \A x : Held(a, x) <=> x = Param("mode", UrlMode(o))
      /\ \A x : Held(b, x) <=> x = Param("cache", o.cache)
  BY <1>1, <1>2, HeldAlways, Zenon
<1>6. IsList(a) /\ IsList(b) /\ RemoteFirst(a) /\ RemoteFirst(b)
  BY <1>1, <1>2, WhenList, RemoteFirstWhen, Zenon
<1>7. Without(a, OtherSync) /\ Without(b, OtherSync)
  <2>1. "mode" \notin OtherSync /\ "cache" \notin OtherSync
    BY DEF OtherSync, SyncKeys
  <2> QED BY <1>1, <1>2, <2>1, WithoutWhen, Zenon
<1>8. /\ IsList(c) /\ RemoteFirst(c)
      /\ \A x : Held(c, x) <=>
              \/ o.immutable /\ x = Param("immutable", "true")
              \/ o.vfs # "none" /\ x = Param("vfs", o.vfs)
              \/ /\ o.encryption # <<>>
                 /\ x = Param("encryption_cipher", o.encryption[1]) \/ x = Param("encryption_hexkey", o.encryption[2])
              \/ o.sync # NoSync /\ SyncHolds(o.sync[1], x)
              \/ o.features # {} /\ x = Param("experimental", FeatureList(o.features))
  BY <1>3, OtherList, Zenon
<1>9. /\ IsList(a \o b) /\ RemoteFirst(a \o b) /\ Without(a \o b, OtherSync)
      /\ \A x : Held(a \o b, x) <=> Held(a, x) \/ Held(b, x)
  BY <1>6, <1>7, Joined, HeldJoined, RemoteFirstJoined, WithoutJoined
<1>10. /\ IsList(a \o b \o c) /\ RemoteFirst(a \o b \o c)
       /\ \A x : Held(a \o b \o c, x) <=> Held(a \o b, x) \/ Held(c, x)
  BY <1>8, <1>9, Joined, HeldJoined, RemoteFirstJoined
<1>11. ASSUME NEW x PROVE Held(ps, x) <=> UrlHolds(o, x)
  <2>1. Held(ps, x) <=> Held(a, x) \/ Held(b, x) \/ Held(c, x)
    BY <1>4, <1>9, <1>10, Zenon
  <2> QED BY <1>5, <1>8, <2>1, Zenon DEF UrlHolds
<1> QED BY <1>4, <1>10, <1>11

(* Each key of a written URL, and its value.                                 *)
HeldKeys(o, ps) ==
  /\ HeldAs(ps, "mode", TRUE, UrlMode(o)) /\ HeldAs(ps, "cache", TRUE, o.cache)
  /\ HeldAs(ps, "immutable", o.immutable, "true") /\ HeldAs(ps, "vfs", o.vfs # "none", o.vfs)
  /\ HeldAs(ps, "encryption_cipher", o.encryption # <<>>, o.encryption[1])
  /\ HeldAs(ps, "encryption_hexkey", o.encryption # <<>>, o.encryption[2])
  /\ HeldAs(ps, "experimental", o.features # {}, FeatureList(o.features))

HeldSync(sync, ps) ==
  /\ HeldAs(ps, "sync_remote_url", sync # NoSync, sync[1].remote_url)
  /\ HeldAs(ps, "sync_auth_token", sync # NoSync /\ sync[1].auth_token # "none", sync[1].auth_token)
  /\ HeldAs(ps, "sync_client_name", sync # NoSync /\ sync[1].client_name # "none", sync[1].client_name)
  /\ HeldAs(ps, "sync_long_poll_timeout_ms", sync # NoSync /\ sync[1].long_poll_timeout # "none",
            Millis(sync[1].long_poll_timeout))
  /\ HeldAs(ps, "sync_bootstrap_if_empty", sync # NoSync /\ ~sync[1].bootstrap_if_empty, "false")

(* The sync parameters, and all of them, by key. *)
LEMMA SyncHoldsKeys ==
  ASSUME NEW s, NEW x, SyncHolds(s, x)
  PROVE  /\ x.key \in SyncKeys
         /\ x.key = "sync_remote_url" => x.value = s.remote_url
         /\ x.key = "sync_auth_token" => s.auth_token # "none" /\ x.value = s.auth_token
         /\ x.key = "sync_client_name" => s.client_name # "none" /\ x.value = s.client_name
         /\ x.key = "sync_long_poll_timeout_ms" => s.long_poll_timeout # "none" /\ x.value = Millis(s.long_poll_timeout)
         /\ x.key = "sync_bootstrap_if_empty" => ~s.bootstrap_if_empty /\ x.value = "false"
<1>1. CASE x = Param("sync_remote_url", s.remote_url)
  BY <1>1, ParamIs DEF SyncKeys
<1>2. CASE s.auth_token # "none" /\ x = Param("sync_auth_token", s.auth_token)
  BY <1>2, ParamIs DEF SyncKeys
<1>3. CASE s.client_name # "none" /\ x = Param("sync_client_name", s.client_name)
  BY <1>3, ParamIs DEF SyncKeys
<1>4. CASE s.long_poll_timeout # "none" /\ x = Param("sync_long_poll_timeout_ms", Millis(s.long_poll_timeout))
  BY <1>4, ParamIs DEF SyncKeys
<1>5. CASE ~s.bootstrap_if_empty /\ x = Param("sync_bootstrap_if_empty", "false")
  BY <1>5, ParamIs DEF SyncKeys
<1> QED BY <1>1, <1>2, <1>3, <1>4, <1>5, Zenon DEF SyncHolds

LEMMA UrlHoldsKeys ==
  ASSUME NEW o, NEW x, UrlHolds(o, x)
  PROVE  /\ x.key \in {"mode", "cache", "immutable", "vfs", "encryption_cipher", "encryption_hexkey",
                       "experimental"} \cup SyncKeys
         /\ x.key = "mode" => x.value = UrlMode(o)
         /\ x.key = "cache" => x.value = o.cache
         /\ x.key = "immutable" => o.immutable /\ x.value = "true"
         /\ x.key = "vfs" => o.vfs # "none" /\ x.value = o.vfs
         /\ x.key = "encryption_cipher" => o.encryption # <<>> /\ x.value = o.encryption[1]
         /\ x.key = "encryption_hexkey" => o.encryption # <<>> /\ x.value = o.encryption[2]
         /\ x.key = "experimental" => o.features # {} /\ x.value = FeatureList(o.features)
         /\ x.key \in SyncKeys => o.sync # NoSync /\ SyncHolds(o.sync[1], x)
<1>0. SyncKeys = {"sync_remote_url", "sync_auth_token", "sync_client_name",
             "sync_long_poll_timeout_ms", "sync_bootstrap_if_empty"}
  BY DEF SyncKeys
<1>1. CASE x = Param("mode", UrlMode(o))
  BY <1>0, <1>1, ParamIs
<1>2. CASE x = Param("cache", o.cache)
  BY <1>0, <1>2, ParamIs
<1>3. CASE o.immutable /\ x = Param("immutable", "true")
  BY <1>0, <1>3, ParamIs
<1>4. CASE o.vfs # "none" /\ x = Param("vfs", o.vfs)
  BY <1>0, <1>4, ParamIs
<1>5. CASE o.encryption # <<>> /\ x = Param("encryption_cipher", o.encryption[1])
  BY <1>0, <1>5, ParamIs
<1>6. CASE o.encryption # <<>> /\ x = Param("encryption_hexkey", o.encryption[2])
  BY <1>0, <1>6, ParamIs
<1>7. CASE o.sync # NoSync /\ SyncHolds(o.sync[1], x)
  <2>1. x.key \in SyncKeys
    BY <1>7, SyncHoldsKeys
  <2> QED BY <1>0, <1>7, <2>1
<1>8. CASE o.features # {} /\ x = Param("experimental", FeatureList(o.features))
  BY <1>0, <1>8, ParamIs
<1> QED BY <1>1, <1>2, <1>3, <1>4, <1>5, <1>6, <1>7, <1>8, Zenon DEF UrlHolds

(* A parameter that is held exactly under a condition. *)
LEMMA AsHeld ==
  ASSUME NEW ps, NEW key, NEW c, NEW v, \A x : Held(ps, x) => (x.key = key => c /\ x.value = v),
         c => Held(ps, Param(key, v))
  PROVE  HeldAs(ps, key, c, v)
<1>1. Param(key, v).key = key /\ Param(key, v).value = v
  BY ParamIs
<1> QED BY <1>1, Zenon DEF HeldAs

(* The parameters that are not for sync. *)
LEMMA KeysOfUrl ==
  ASSUME NEW o, NEW ps, \A x : Held(ps, x) <=> UrlHolds(o, x)
  PROVE  HeldKeys(o, ps)
<1>1. \A x : Held(ps, x) => /\ x.key = "mode" => x.value = UrlMode(o)
                            /\ x.key = "cache" => x.value = o.cache
                            /\ x.key = "immutable" => o.immutable /\ x.value = "true"
                            /\ x.key = "vfs" => o.vfs # "none" /\ x.value = o.vfs
                            /\ x.key = "encryption_cipher" => o.encryption # <<>> /\ x.value = o.encryption[1]
                            /\ x.key = "encryption_hexkey" => o.encryption # <<>> /\ x.value = o.encryption[2]
                            /\ x.key = "experimental" => o.features # {} /\ x.value = FeatureList(o.features)
  BY UrlHoldsKeys, Zenon
<1>2. /\ Held(ps, Param("mode", UrlMode(o))) /\ Held(ps, Param("cache", o.cache))
      /\ o.immutable => Held(ps, Param("immutable", "true"))
      /\ o.vfs # "none" => Held(ps, Param("vfs", o.vfs))
      /\ o.encryption # <<>> => Held(ps, Param("encryption_cipher", o.encryption[1]))
      /\ o.encryption # <<>> => Held(ps, Param("encryption_hexkey", o.encryption[2]))
      /\ o.features # {} => Held(ps, Param("experimental", FeatureList(o.features)))
  BY Zenon DEF UrlHolds
<1>3. HeldAs(ps, "mode", TRUE, UrlMode(o))
  <2>1. \A x : Held(ps, x) => (x.key = "mode" => TRUE /\ x.value = UrlMode(o))
    BY <1>1, Zenon
  <2>2. TRUE => Held(ps, Param("mode", UrlMode(o)))
    BY <1>2, Zenon
  <2> QED BY <2>1, <2>2, AsHeld, Zenon
<1>4. HeldAs(ps, "cache", TRUE, o.cache)
  <2>1. \A x : Held(ps, x) => (x.key = "cache" => TRUE /\ x.value = o.cache)
    BY <1>1, Zenon
  <2>2. TRUE => Held(ps, Param("cache", o.cache))
    BY <1>2, Zenon
  <2> QED BY <2>1, <2>2, AsHeld, Zenon
<1>5. HeldAs(ps, "immutable", o.immutable, "true")
  <2>1. \A x : Held(ps, x) => (x.key = "immutable" => o.immutable /\ x.value = "true")
    BY <1>1, Zenon
  <2>2. o.immutable => Held(ps, Param("immutable", "true"))
    BY <1>2, Zenon
  <2> QED BY <2>1, <2>2, AsHeld, Zenon
<1>6. HeldAs(ps, "vfs", o.vfs # "none", o.vfs)
  <2>1. \A x : Held(ps, x) => (x.key = "vfs" => o.vfs # "none" /\ x.value = o.vfs)
    BY <1>1, Zenon
  <2>2. o.vfs # "none" => Held(ps, Param("vfs", o.vfs))
    BY <1>2, Zenon
  <2> QED BY <2>1, <2>2, AsHeld, Zenon
<1>7. HeldAs(ps, "encryption_cipher", o.encryption # <<>>, o.encryption[1])
  <2>1. \A x : Held(ps, x) => (x.key = "encryption_cipher" => o.encryption # <<>> /\ x.value = o.encryption[1])
    BY <1>1, Zenon
  <2>2. o.encryption # <<>> => Held(ps, Param("encryption_cipher", o.encryption[1]))
    BY <1>2, Zenon
  <2> QED BY <2>1, <2>2, AsHeld, Zenon
<1>8. HeldAs(ps, "encryption_hexkey", o.encryption # <<>>, o.encryption[2])
  <2>1. \A x : Held(ps, x) => (x.key = "encryption_hexkey" => o.encryption # <<>> /\ x.value = o.encryption[2])
    BY <1>1, Zenon
  <2>2. o.encryption # <<>> => Held(ps, Param("encryption_hexkey", o.encryption[2]))
    BY <1>2, Zenon
  <2> QED BY <2>1, <2>2, AsHeld, Zenon
<1>9. HeldAs(ps, "experimental", o.features # {}, FeatureList(o.features))
  <2>1. \A x : Held(ps, x) => (x.key = "experimental" => o.features # {} /\ x.value = FeatureList(o.features))
    BY <1>1, Zenon
  <2>2. o.features # {} => Held(ps, Param("experimental", FeatureList(o.features)))
    BY <1>2, Zenon
  <2> QED BY <2>1, <2>2, AsHeld, Zenon
<1> QED BY <1>3, <1>4, <1>5, <1>6, <1>7, <1>8, <1>9, Zenon DEF HeldKeys

(* The sync parameters. *)
LEMMA SyncKeysOfUrl ==
  ASSUME NEW o, NEW ps, \A x : Held(ps, x) <=> UrlHolds(o, x)
  PROVE  HeldSync(o.sync, ps)
<1> DEFINE s == o.sync[1]
<1>0. /\ "sync_remote_url" \in SyncKeys /\ "sync_auth_token" \in SyncKeys /\ "sync_client_name" \in SyncKeys
      /\ "sync_long_poll_timeout_ms" \in SyncKeys /\ "sync_bootstrap_if_empty" \in SyncKeys
  BY DEF SyncKeys
<1>1. \A x : Held(ps, x) /\ x.key \in SyncKeys => o.sync # NoSync /\ SyncHolds(s, x)
  BY UrlHoldsKeys, Zenon
<1>2. \A x : SyncHolds(s, x) =>
               /\ x.key = "sync_remote_url" => x.value = s.remote_url
               /\ x.key = "sync_auth_token" => s.auth_token # "none" /\ x.value = s.auth_token
               /\ x.key = "sync_client_name" => s.client_name # "none" /\ x.value = s.client_name
               /\ x.key = "sync_long_poll_timeout_ms" => s.long_poll_timeout # "none" /\ x.value = Millis(s.long_poll_timeout)
               /\ x.key = "sync_bootstrap_if_empty" => ~s.bootstrap_if_empty /\ x.value = "false"
  BY SyncHoldsKeys, Zenon
<1>3. \A x : o.sync # NoSync /\ SyncHolds(s, x) => Held(ps, x)
  BY Zenon DEF UrlHolds
<1>4. /\ SyncHolds(s, Param("sync_remote_url", s.remote_url))
      /\ s.auth_token # "none" => SyncHolds(s, Param("sync_auth_token", s.auth_token))
      /\ s.client_name # "none" => SyncHolds(s, Param("sync_client_name", s.client_name))
      /\ s.long_poll_timeout # "none" => SyncHolds(s, Param("sync_long_poll_timeout_ms", Millis(s.long_poll_timeout)))
      /\ ~s.bootstrap_if_empty => SyncHolds(s, Param("sync_bootstrap_if_empty", "false"))
  BY Zenon DEF SyncHolds
<1>5. HeldAs(ps, "sync_remote_url", o.sync # NoSync, s.remote_url)
  <2>1. \A x : Held(ps, x) => (x.key = "sync_remote_url" => (o.sync # NoSync) /\ x.value = s.remote_url)
    BY <1>0, <1>1, <1>2, Zenon
  <2>2. o.sync # NoSync => Held(ps, Param("sync_remote_url", s.remote_url))
    BY <1>3, <1>4, Zenon
  <2> QED BY <2>1, <2>2, AsHeld, Zenon
<1>6. HeldAs(ps, "sync_auth_token", o.sync # NoSync /\ s.auth_token # "none", s.auth_token)
  <2>1. \A x : Held(ps, x) => (x.key = "sync_auth_token" => (o.sync # NoSync /\ s.auth_token # "none") /\ x.value = s.auth_token)
    BY <1>0, <1>1, <1>2, Zenon
  <2>2. o.sync # NoSync /\ s.auth_token # "none" => Held(ps, Param("sync_auth_token", s.auth_token))
    BY <1>3, <1>4, Zenon
  <2> QED BY <2>1, <2>2, AsHeld, Zenon
<1>7. HeldAs(ps, "sync_client_name", o.sync # NoSync /\ s.client_name # "none", s.client_name)
  <2>1. \A x : Held(ps, x) => (x.key = "sync_client_name" => (o.sync # NoSync /\ s.client_name # "none") /\ x.value = s.client_name)
    BY <1>0, <1>1, <1>2, Zenon
  <2>2. o.sync # NoSync /\ s.client_name # "none" => Held(ps, Param("sync_client_name", s.client_name))
    BY <1>3, <1>4, Zenon
  <2> QED BY <2>1, <2>2, AsHeld, Zenon
<1>8. HeldAs(ps, "sync_long_poll_timeout_ms", o.sync # NoSync /\ s.long_poll_timeout # "none", Millis(s.long_poll_timeout))
  <2>1. \A x : Held(ps, x) => (x.key = "sync_long_poll_timeout_ms" => (o.sync # NoSync /\ s.long_poll_timeout # "none") /\ x.value = Millis(s.long_poll_timeout))
    BY <1>0, <1>1, <1>2, Zenon
  <2>2. o.sync # NoSync /\ s.long_poll_timeout # "none" => Held(ps, Param("sync_long_poll_timeout_ms", Millis(s.long_poll_timeout)))
    BY <1>3, <1>4, Zenon
  <2> QED BY <2>1, <2>2, AsHeld, Zenon
<1>9. HeldAs(ps, "sync_bootstrap_if_empty", o.sync # NoSync /\ ~s.bootstrap_if_empty, "false")
  <2>1. \A x : Held(ps, x) => (x.key = "sync_bootstrap_if_empty" => (o.sync # NoSync /\ ~s.bootstrap_if_empty) /\ x.value = "false")
    BY <1>0, <1>1, <1>2, Zenon
  <2>2. o.sync # NoSync /\ ~s.bootstrap_if_empty => Held(ps, Param("sync_bootstrap_if_empty", "false"))
    BY <1>3, <1>4, Zenon
  <2> QED BY <2>1, <2>2, AsHeld, Zenon
<1> QED BY <1>5, <1>6, <1>7, <1>8, <1>9, Zenon DEF HeldSync

-----------------------------------------------------------------------------
(* The settings options have, whichever way they came about. *)

KeySettings(e) ==
  e = <<>> \/ \E c, h : e = <<c, h>> /\ "none" \notin {c, h} /\ ValidEncryption(c, h)
SyncSettings(sync) ==
  sync = NoSync \/ \E a, b, c, d, e : /\ sync = SyncOf(a, b, c, d, e)
                                      /\ a # "" \/ sync = NewSync("")
                                      /\ d # "wrong" /\ e \in BOOLEAN
Settings(o) ==
  /\ DOMAIN o = Fields /\ (o.target.kind = "memory" \/ o.target = File(o.target.path))
  /\ o.open_mode \in {"rw", "rwc", "ro"} /\ o.cache \in {"private", "shared"} /\ o.immutable \in BOOLEAN
  /\ o.features \subseteq {"attach", "views"} /\ KeySettings(o.encryption) /\ SyncSettings(o.sync)

(* The parameters of a written URL. *)
WrittenList(o, ps, L) ==
  /\ L \in Nat /\ DOMAIN ps = 1 .. L /\ RemoteFirst(ps) /\ \A x : Held(ps, x) <=> UrlHolds(o, x)

(* The parameters of a written URL are such a list. *)
LEMMA UrlIsWritten ==
  ASSUME NEW o, UrlPath(o) \notin Changed, NEW ps, ps = BuildUrl(o).params
  PROVE  WrittenList(o, ps, Len(ps))
<1>1. IsList(ps) /\ RemoteFirst(ps) /\ \A x : Held(ps, x) <=> UrlHolds(o, x)
  BY UrlIsHeld
<1>2. Len(ps) \in Nat /\ DOMAIN ps = 1 .. Len(ps)
  BY <1>1 DEF IsList
<1> QED BY <1>1, <1>2, Zenon DEF WrittenList

-----------------------------------------------------------------------------
(* What a written URL says. *)

(* The value of a parameter that is written once. *)
LEMMA ValueWritten ==
  ASSUME NEW ps, NEW L \in Nat, DOMAIN ps = 1 .. L
  PROVE  \A key, c, v, d : HeldAs(ps, key, c, v) =>
           (c => ValueTo(ps, key, 0, L, d) = v) /\ (~c => ValueTo(ps, key, 0, L, d) = d)
<1> TAKE key, c, v, d
<1>1. \A j \in 1 .. L : ps[j].key = key => j > 0
  OBVIOUS
<1> QED BY <1>1, ValueHeld

(* The mode, the flags, the encryption and the features that a URL was       *)
(* written with.                                                             *)
LEMMA ModesWritten ==
  ASSUME NEW o, NEW ps, NEW L, WrittenList(o, ps, L), o.target.kind # "memory",
         o.open_mode \in {"rw", "rwc", "ro"}
  PROVE  /\ Latest(ToMemory(ps, L)) = 0
         /\ (IF Latest(Modes(ps, L)) = 0 THEN "rw" ELSE ps[Latest(Modes(ps, L))].value) = o.open_mode
<1>1. L \in Nat /\ DOMAIN ps = 1 .. L
  BY DEF WrittenList
<1>2. HeldAs(ps, "mode", TRUE, o.open_mode)
  <2>1. HeldAs(ps, "mode", TRUE, UrlMode(o))
    BY KeysOfUrl, Zenon DEF WrittenList, HeldKeys
  <2> QED BY <2>1, Zenon DEF UrlMode
<1>3. \A i \in 1 .. L : ps[i].key = "mode" => ps[i].value = o.open_mode
  <2> TAKE i \in 1 .. L
  <2>1. Held(ps, ps[i])
    BY <1>1, Zenon DEF Held
  <2> QED BY <1>2, <2>1, Zenon DEF HeldAs
<1>4. PICK n \in 1 .. L : ps[n].key = "mode"
  <2>1. PICK x : Held(ps, x) /\ x.key = "mode"
    BY <1>2, Zenon DEF HeldAs
  <2> QED BY <1>1, <2>1, Zenon DEF Held
<1>5. ToMemory(ps, L) = {}
  BY <1>3 DEF ToMemory
<1>6. Latest({}) = 0
  BY DEF Latest
<1>7. CASE o.open_mode = "rw"
  <2>1. Modes(ps, L) = {}
    BY <1>3, <1>7 DEF Modes
  <2> QED BY <1>5, <1>6, <1>7, <2>1
<1>8. CASE o.open_mode # "rw"
  <2> DEFINE I == Modes(ps, L)
  <2>1. n \in I
    BY <1>3, <1>4, <1>8 DEF Modes
  <2>2. I \subseteq 1 .. L /\ \A i \in I : ps[i].value = o.open_mode
    BY <1>3 DEF Modes
  <2> HIDE DEF I
  <2>3. Latest(I) \in I
    BY <1>1, <2>1, <2>2, LatestIn
  <2>4. Latest(I) # 0
    BY <1>1, <2>2, <2>3
  <2> QED BY <1>5, <1>6, <2>2, <2>3, <2>4 DEF I
<1> QED BY <1>7, <1>8

LEMMA FlagsWritten ==
  ASSUME NEW o, NEW ps, NEW L, WrittenList(o, ps, L), o.immutable \in BOOLEAN, NEW d
  PROVE  /\ ValueTo(ps, "cache", 0, L, d) = o.cache
         /\ (ValueTo(ps, "immutable", 0, L, "0") \in Truth) = o.immutable
         /\ ValueTo(ps, "vfs", 0, L, "none") = o.vfs
<1>1. L \in Nat /\ DOMAIN ps = 1 .. L
  BY DEF WrittenList
<1>2. /\ HeldAs(ps, "cache", TRUE, o.cache) /\ HeldAs(ps, "immutable", o.immutable, "true")
      /\ HeldAs(ps, "vfs", o.vfs # "none", o.vfs)
  BY KeysOfUrl, Zenon DEF WrittenList, HeldKeys
<1>3. ValueTo(ps, "cache", 0, L, d) = o.cache
  <2>1. \A b : HeldAs(ps, "cache", b, o.cache) =>
           /\ b => ValueTo(ps, "cache", 0, L, d) = o.cache
           /\ ~b => ValueTo(ps, "cache", 0, L, d) = d
    BY <1>1, ValueWritten
  <2> QED BY <1>2, <2>1, Zenon
<1>4. ValueTo(ps, "immutable", 0, L, "0") = IF o.immutable THEN "true" ELSE "0"
  <2>1. \A b : HeldAs(ps, "immutable", b, "true") =>
           /\ b => ValueTo(ps, "immutable", 0, L, "0") = "true"
           /\ ~b => ValueTo(ps, "immutable", 0, L, "0") = "0"
    BY <1>1, ValueWritten
  <2> QED BY <1>2, <2>1, Zenon
<1>5. ValueTo(ps, "vfs", 0, L, "none") = IF o.vfs # "none" THEN o.vfs ELSE "none"
  <2>1. \A b : HeldAs(ps, "vfs", b, o.vfs) =>
           /\ b => ValueTo(ps, "vfs", 0, L, "none") = o.vfs
           /\ ~b => ValueTo(ps, "vfs", 0, L, "none") = "none"
    BY <1>1, ValueWritten
  <2> QED BY <1>2, <2>1, Zenon
<1>6. "true" \in Truth /\ "0" \notin Truth
  BY DEF Truth
<1>7. CASE o.immutable
  BY <1>3, <1>4, <1>5, <1>6, <1>7
<1>8. CASE ~o.immutable
  BY <1>3, <1>4, <1>5, <1>6, <1>8
<1> QED BY <1>7, <1>8

LEMMA KeyWritten ==
  ASSUME NEW o, NEW ps, NEW L, WrittenList(o, ps, L), KeySettings(o.encryption)
  PROVE  LET c == ValueTo(ps, "encryption_cipher", 0, L, "none")
             h == ValueTo(ps, "encryption_hexkey", 0, L, "none")
         IN  /\ <<c, h>> = IF o.encryption = <<>> THEN <<"none", "none">> ELSE o.encryption
             /\ <<c, h>> = <<"none", "none">> \/ ("none" \notin {c, h} /\ ValidEncryption(c, h))
             /\ o.encryption = IF <<c, h>> = <<"none", "none">> THEN <<>> ELSE <<c, h>>
<1> DEFINE c == ValueTo(ps, "encryption_cipher", 0, L, "none")
           h == ValueTo(ps, "encryption_hexkey", 0, L, "none")
<1>1. L \in Nat /\ DOMAIN ps = 1 .. L
  BY DEF WrittenList
<1>2. /\ HeldAs(ps, "encryption_cipher", o.encryption # <<>>, o.encryption[1])
      /\ HeldAs(ps, "encryption_hexkey", o.encryption # <<>>, o.encryption[2])
  BY KeysOfUrl, Zenon DEF WrittenList, HeldKeys
<1>3. c = IF o.encryption # <<>> THEN o.encryption[1] ELSE "none"
  <2>1. \A b : HeldAs(ps, "encryption_cipher", b, o.encryption[1]) =>
           /\ b => ValueTo(ps, "encryption_cipher", 0, L, "none") = o.encryption[1]
           /\ ~b => ValueTo(ps, "encryption_cipher", 0, L, "none") = "none"
    BY <1>1, ValueWritten
  <2> QED BY <1>2, <2>1, Zenon
<1>4. h = IF o.encryption # <<>> THEN o.encryption[2] ELSE "none"
  <2>1. \A b : HeldAs(ps, "encryption_hexkey", b, o.encryption[2]) =>
           /\ b => ValueTo(ps, "encryption_hexkey", 0, L, "none") = o.encryption[2]
           /\ ~b => ValueTo(ps, "encryption_hexkey", 0, L, "none") = "none"
    BY <1>1, ValueWritten
  <2> QED BY <1>2, <2>1, Zenon
<1> HIDE DEF c, h
<1>5. CASE o.encryption = <<>>
  BY <1>3, <1>4, <1>5 DEF c, h
<1>6. CASE o.encryption # <<>>
  <2>1. PICK p, q : o.encryption = <<p, q>> /\ "none" \notin {p, q} /\ ValidEncryption(p, q)
    BY <1>6 DEF KeySettings
  <2>2. c = p /\ h = q
    BY <1>3, <1>4, <1>6, <2>1
  <2>3. <<c, h>> # <<"none", "none">>
    BY <2>1, <2>2
  <2> QED BY <1>6, <2>1, <2>2, <2>3, Zenon DEF c, h
<1> QED BY <1>5, <1>6

LEMMA FeatureListIs ==
  ASSUME NEW F, F \subseteq {"attach", "views"}, F # {}
  PROVE  FeatureList(F) \in {"attach", "views", "attach,views"} /\ FeaturesOf(FeatureList(F)) = F
<1>1. /\ FeaturesOf("attach") = {"attach"} /\ FeaturesOf("views") = {"views"}
      /\ FeaturesOf("attach,views") = {"attach", "views"}
  BY DEF FeaturesOf, FeatureNames, Elements
<1>2. F = {"attach"} \/ F = {"views"} \/ F = {"attach", "views"}
  OBVIOUS
<1>3. \E v \in {"attach", "views", "attach,views"} : FeaturesOf(v) = F
  BY <1>1, <1>2
<1> QED BY <1>3, Zenon DEF FeatureList

LEMMA FeaturesWritten ==
  ASSUME NEW o, NEW ps, NEW L, WrittenList(o, ps, L), o.features \subseteq {"attach", "views"}
  PROVE  FeaturesTo(ps, L) = o.features
<1>1. L \in Nat /\ DOMAIN ps = 1 .. L
  BY DEF WrittenList
<1>2. HeldAs(ps, "experimental", o.features # {}, FeatureList(o.features))
  BY KeysOfUrl, Zenon DEF WrittenList, HeldKeys
<1>3. \A i \in 1 .. L : ps[i].key = "experimental" => o.features # {} /\ ps[i].value = FeatureList(o.features)
  <2> TAKE i \in 1 .. L
  <2>1. Held(ps, ps[i])
    BY <1>1, Zenon DEF Held
  <2> QED BY <1>2, <2>1, Zenon DEF HeldAs
<1> DEFINE J == {j \in 1 .. L : ps[j].key = "experimental"}
<1>4. FeaturesTo(ps, L) = UNION {FeaturesOf(ps[i].value) : i \in J}
  BY DEF FeaturesTo
<1>5. CASE o.features = {}
  <2>1. J = {}
    BY <1>3, <1>5
  <2> QED BY <1>4, <1>5, <2>1
<1>6. CASE o.features # {}
  <2>1. FeaturesOf(FeatureList(o.features)) = o.features
    BY <1>6, FeatureListIs
  <2>2. \A i \in J : FeaturesOf(ps[i].value) = o.features
    BY <1>3, <2>1
  <2>3. PICK n : n \in J
    <3>1. PICK x : Held(ps, x) /\ x.key = "experimental"
      BY <1>2, <1>6, Zenon DEF HeldAs
    <3> QED BY <1>1, <3>1, Zenon DEF Held
  <2> HIDE DEF J
  <2> QED BY <1>4, <2>2, <2>3
<1> QED BY <1>5, <1>6

(* The value of a parameter that is always written, whatever its default. *)
LEMMA AlwaysWritten ==
  ASSUME NEW ps, NEW L \in Nat, DOMAIN ps = 1 .. L, NEW key, NEW v, HeldAs(ps, key, TRUE, v), NEW d
  PROVE  ValueTo(ps, key, 0, L, d) = v
<1>1. \A b : HeldAs(ps, key, b, v) =>
               (b => ValueTo(ps, key, 0, L, d) = v) /\ (~b => ValueTo(ps, key, 0, L, d) = d)
  BY ValueWritten
<1> QED BY <1>1, Zenon

(* Sync options with another timeout. *)
LEMMA TimeoutChanged ==
  ASSUME NEW a, NEW b, NEW c, NEW d, NEW e, NEW s, s = SyncOf(a, b, c, d, e), NEW w
  PROVE  <<[s[1] EXCEPT !.long_poll_timeout = w]>> = SyncOf(a, b, c, w, e)
BY DEF SyncOf

(* Sync options, with their timeout in whole milliseconds. *)
LEMMA WholeMillisIs ==
  ASSUME NEW a, NEW b, NEW c, NEW d, NEW e, NEW s, s = SyncOf(a, b, c, d, e)
  PROVE  WholeMillis(s) = SyncOf(a, b, c, Millis(d), e)
<1>1. PICK m : m = Millis(d)
  OBVIOUS
<1>2. s # NoSync /\ s[1].long_poll_timeout = d
  BY SyncFields
<1>3. WholeMillis(s) = <<[s[1] EXCEPT !.long_poll_timeout = m]>>
  BY <1>1, <1>2, Zenon DEF WholeMillis
<1> QED BY <1>1, <1>3, TimeoutChanged

(* They still have a remote URL. *)
LEMMA WholeRemote ==
  ASSUME NEW s, SyncSettings(s), s # NoSync, Sayable(s)
  PROVE  WholeMillis(s)[1].remote_url # ""
<1>1. PICK a, b, c, d, e : s = SyncOf(a, b, c, d, e) /\ (a # "" \/ s = NewSync(""))
  BY Zenon DEF SyncSettings
<1>0. s = SyncOf(a, b, c, d, e)
  BY <1>1
<1>2. WholeMillis(s) = SyncOf(a, b, c, Millis(d), e)
  BY <1>0, WholeMillisIs
<1>3. PICK x : WholeMillis(s) = SyncOf(a, b, c, x, e)
  BY <1>2
<1>4. a # ""
  BY <1>1, Zenon DEF Sayable
<1>5. WholeMillis(s)[1].remote_url = a
  BY <1>3, SyncFields
<1> QED BY <1>4, <1>5

(* The sync options that a URL was written with. *)
LEMMA SyncWritten ==
  ASSUME NEW o, NEW u, NEW L, WrittenList(o, u.params, L), SyncSettings(o.sync)
  PROVE  (IF Latest(OfKeys(u.params, SyncKeys, 0, L)) = 0 THEN NoSync ELSE SyncTo(u, L)) = WholeMillis(o.sync)
<1> DEFINE ps == u.params
           s == o.sync[1]
<1>1. L \in Nat /\ DOMAIN ps = 1 .. L /\ RemoteFirst(ps)
  BY DEF WrittenList
<1>2. HeldSync(o.sync, ps)
  BY SyncKeysOfUrl, Zenon DEF WrittenList
<1>3. \A i \in 1 .. L : ps[i].key \in SyncKeys => o.sync # NoSync
  <2> TAKE i \in 1 .. L
  <2>1. UrlHolds(o, ps[i])
    BY <1>1, Zenon DEF WrittenList, Held
  <2> QED BY <2>1, UrlHoldsKeys, Zenon
<1>4. CASE o.sync = NoSync
  <2>1. OfKeys(ps, SyncKeys, 0, L) = {}
    BY <1>1, <1>3, <1>4 DEF OfKeys
  <2>2. Latest({}) = 0
    BY DEF Latest
  <2>3. WholeMillis(o.sync) = NoSync
    BY <1>4, Zenon DEF WholeMillis
  <2> QED BY <1>4, <2>1, <2>2, <2>3
<1>5. CASE o.sync # NoSync
  <2> DEFINE R == OfKeys(ps, {"sync_remote_url"}, 0, L)
             A == OfKeys(ps, SyncKeys, 0, L)
  <2>1. PICK a, b, c, d, e : o.sync = SyncOf(a, b, c, d, e) /\ e \in BOOLEAN
    BY <1>5 DEF SyncSettings
  <2>2. /\ s.remote_url = a /\ s.auth_token = b /\ s.client_name = c
        /\ s.long_poll_timeout = d /\ s.bootstrap_if_empty = e
    BY <2>1, SyncFields
  <2>3. /\ HeldAs(ps, "sync_remote_url", TRUE, a)
        /\ HeldAs(ps, "sync_auth_token", b # "none", b)
        /\ HeldAs(ps, "sync_client_name", c # "none", c)
        /\ HeldAs(ps, "sync_long_poll_timeout_ms", d # "none", Millis(d))
        /\ HeldAs(ps, "sync_bootstrap_if_empty", ~e, "false")
    <3>1. /\ HeldAs(ps, "sync_remote_url", TRUE, s.remote_url)
          /\ HeldAs(ps, "sync_auth_token", s.auth_token # "none", s.auth_token)
          /\ HeldAs(ps, "sync_client_name", s.client_name # "none", s.client_name)
          /\ HeldAs(ps, "sync_long_poll_timeout_ms", s.long_poll_timeout # "none", Millis(s.long_poll_timeout))
          /\ HeldAs(ps, "sync_bootstrap_if_empty", ~s.bootstrap_if_empty, "false")
      BY <1>2, <1>5, Zenon DEF HeldSync
    <3> HIDE DEF ps, s
    <3> QED BY <2>2, <3>1, Zenon
  <2>4. PICK n \in 1 .. L : ps[n].key = "sync_remote_url"
    <3>1. PICK x : Held(ps, x) /\ x.key = "sync_remote_url"
      BY <2>3, Zenon DEF HeldAs
    <3> QED BY <1>1, <3>1, Zenon DEF Held
  <2>5. /\ R \subseteq 1 .. L /\ A \subseteq 1 .. L /\ n \in R /\ n \in A
        /\ \A i \in R : ps[i].key = "sync_remote_url"
    BY <1>1, <2>4 DEF OfKeys, SyncKeys
  <2>6. RemoteAt(u, L) = Latest(R)
    BY Zenon DEF RemoteAt
  <2> HIDE DEF R, A, ps
  <2>7. Latest(A) # 0 /\ Latest(R) \in R
    <3>1. Latest(A) \in A /\ Latest(R) \in R
      BY <1>1, <2>5, LatestIn
    <3> QED BY <1>1, <2>5, <3>1
  <2> DEFINE r == Latest(R)
  <2>8. r \in Nat /\ \A j \in 1 .. L : ps[j].key \in OtherSync => j > r
    <3>1. r \in 1 .. L /\ ps[r].key = "sync_remote_url"
      BY <2>5, <2>7
    <3> HIDE DEF r
    <3>2. \A j \in 1 .. L : ps[j].key \in OtherSync => r < j
      BY <1>1, <3>1, Zenon DEF RemoteFirst
    <3> QED BY <1>1, <3>1, <3>2
  <2> HIDE DEF r
  <2>9. \A key \in OtherSync : \A x, v, w : HeldAs(ps, key, x, v) =>
          /\ x => ValueTo(ps, key, r, L, w) = v
          /\ ~x => ValueTo(ps, key, r, L, w) = w
    <3> SUFFICES ASSUME NEW key \in OtherSync, NEW x, NEW v, NEW w, HeldAs(ps, key, x, v)
                 PROVE  ValueTo(ps, key, r, L, w) = IF x THEN v ELSE w
      OBVIOUS
    <3>1. \A j \in 1 .. L : ps[j].key = key => j > r
      BY <2>8
    <3> QED BY <1>1, <2>8, <3>1, ValueHeld
  <2>10. /\ "sync_auth_token" \in OtherSync /\ "sync_client_name" \in OtherSync
         /\ "sync_long_poll_timeout_ms" \in OtherSync /\ "sync_bootstrap_if_empty" \in OtherSync
    BY DEF OtherSync, SyncKeys
  <2>11. ValueTo(ps, "sync_remote_url", 0, L, "") = a
    <3>1. L \in Nat /\ DOMAIN ps = 1 .. L
      BY <1>1
    <3> QED BY <2>3, <3>1, AlwaysWritten, Zenon
  <2>12. ValueTo(ps, "sync_auth_token", r, L, "none") = b
    <3>1. \A x : HeldAs(ps, "sync_auth_token", x, b) =>
            /\ x => ValueTo(ps, "sync_auth_token", r, L, "none") = b
            /\ ~x => ValueTo(ps, "sync_auth_token", r, L, "none") = "none"
      BY <2>9, <2>10
    <3> QED BY <2>3, <3>1, Zenon
  <2>13. ValueTo(ps, "sync_client_name", r, L, "none") = c
    <3>1. \A x : HeldAs(ps, "sync_client_name", x, c) =>
            /\ x => ValueTo(ps, "sync_client_name", r, L, "none") = c
            /\ ~x => ValueTo(ps, "sync_client_name", r, L, "none") = "none"
      BY <2>9, <2>10
    <3> QED BY <2>3, <3>1, Zenon
  <2>14. ValueTo(ps, "sync_long_poll_timeout_ms", r, L, "none") = Millis(d)
    <3>0. d = "none" => Millis(d) = "none"
      BY DEF Millis
    <3>1. \A x : HeldAs(ps, "sync_long_poll_timeout_ms", x, Millis(d)) =>
            /\ x => ValueTo(ps, "sync_long_poll_timeout_ms", r, L, "none") = Millis(d)
            /\ ~x => ValueTo(ps, "sync_long_poll_timeout_ms", r, L, "none") = "none"
      BY <2>9, <2>10
    <3> QED BY <2>3, <3>0, <3>1, Zenon
  <2>15. (ValueTo(ps, "sync_bootstrap_if_empty", r, L, "1") \in Truth) = e
    <3>1. \A x : HeldAs(ps, "sync_bootstrap_if_empty", x, "false") =>
            /\ x => ValueTo(ps, "sync_bootstrap_if_empty", r, L, "1") = "false"
            /\ ~x => ValueTo(ps, "sync_bootstrap_if_empty", r, L, "1") = "1"
      BY <2>9, <2>10
    <3>2. /\ ~e => ValueTo(ps, "sync_bootstrap_if_empty", r, L, "1") = "false"
          /\ e => ValueTo(ps, "sync_bootstrap_if_empty", r, L, "1") = "1"
      BY <2>3, <3>1, Zenon
    <3>3. "1" \in Truth /\ "false" \notin Truth
      BY DEF Truth
    <3>4. CASE e
      BY <2>1, <3>2, <3>3, <3>4
    <3>5. CASE ~e
      BY <2>1, <3>2, <3>3, <3>5
    <3> QED BY <3>4, <3>5
  <2>16. SyncTo(u, L) = SyncOf(a, b, c, Millis(d), e)
    BY <2>6, <2>11, <2>12, <2>13, <2>14, <2>15, Zenon DEF SyncTo, r, ps
  <2>17. WholeMillis(o.sync) = SyncOf(a, b, c, Millis(d), e)
    BY <2>1, WholeMillisIs
  <2> QED BY <2>7, <2>16, <2>17, Zenon DEF A, ps
<1> QED BY <1>4, <1>5

(* Every parameter of a written URL has a value it may have. *)
LEMMA AcceptableWritten ==
  ASSUME NEW o, Settings(o), Sayable(o.sync), o.target.kind # "memory", NEW p, UrlHolds(o, p)
  PROVE  Acceptable(p)
<1>1. CASE p.key = "mode"
  <2>1. p.value = UrlMode(o)
    BY <1>1, UrlHoldsKeys, Zenon
  <2>2. UrlMode(o) = o.open_mode
    BY Zenon DEF UrlMode
  <2> QED BY <1>1, <2>1, <2>2, AcceptableKeys DEF Settings
<1>2. CASE p.key = "cache"
  <2>1. p.value = o.cache
    BY <1>2, UrlHoldsKeys, Zenon
  <2> QED BY <1>2, <2>1, AcceptableKeys DEF Settings
<1>3. CASE p.key = "immutable"
  <2>1. p.value = "true"
    BY <1>3, UrlHoldsKeys, Zenon
  <2> QED BY <1>3, <2>1, AcceptableKeys DEF IsBool, Truth
<1>4. CASE p.key = "experimental"
  <2>1. o.features # {} /\ p.value = FeatureList(o.features)
    BY <1>4, UrlHoldsKeys, Zenon
  <2>2. p.value \in {"attach", "views", "attach,views"}
    BY <2>1, FeatureListIs DEF Settings
  <2>3. \A v \in {"attach", "views", "attach,views"} : Elements(v) \subseteq DOMAIN FeatureNames
    BY DEF FeatureNames, Elements
  <2> QED BY <1>4, <2>2, <2>3, AcceptableKeys
<1>5. CASE p.key \in SyncKeys
  <2>1. o.sync # NoSync /\ SyncHolds(o.sync[1], p)
    BY <1>5, UrlHoldsKeys, Zenon
  <2>2. PICK a, b, c, d, e : o.sync = SyncOf(a, b, c, d, e) /\ d # "wrong"
    <3>1. SyncSettings(o.sync)
      BY DEF Settings
    <3> QED BY <2>1, <3>1 DEF SyncSettings
  <2>3. o.sync[1].long_poll_timeout = d
    BY <2>2, SyncFields
  <2>4. p.key = "sync_long_poll_timeout_ms" => p.value \notin NoMillis
    <3>1. p.key = "sync_long_poll_timeout_ms" => p.value = Millis(d)
      BY <2>1, <2>3, SyncHoldsKeys, Zenon
    <3>2. d # "2^64"
      BY <2>1, <2>3, Zenon DEF Sayable
    <3>3. Millis(d) = "1" \/ Millis(d) = d
      BY DEF Millis
    <3>4. "1" \notin NoMillis /\ d \notin NoMillis
      BY <2>2, <3>2 DEF NoMillis
    <3> QED BY <3>1, <3>3, <3>4
  <2>5. p.key = "sync_bootstrap_if_empty" => p.value = "false"
    BY <2>1, SyncHoldsKeys, Zenon
  <2>6. IsBool("false")
    BY DEF IsBool
  <2> QED BY <1>5, <2>4, <2>5, <2>6, AcceptableKeys DEF SyncKeys
<1>6. CASE p.key \in {"vfs", "encryption_cipher", "encryption_hexkey"}
  BY <1>6, AcceptableKeys
<1>7. p.key \in {"mode", "cache", "immutable", "vfs", "encryption_cipher", "encryption_hexkey",
                 "experimental"} \cup SyncKeys
  BY UrlHoldsKeys
<1> QED BY <1>1, <1>2, <1>3, <1>4, <1>5, <1>6, <1>7

(* What a URL carries, said by field. *)
LEMMA CarriedIs ==
  ASSUME NEW o, DOMAIN o = Fields
  PROVE  Carried(o) = [f \in Fields |-> IF f = "memory_state" THEN 0
                                        ELSE IF f = "custom_io" THEN FALSE
                                        ELSE IF f = "pragmas" THEN <<>> ELSE o[f]]
BY DEF Carried, Fields

(* Options whose settings agree carry the same. *)
LEMMA SameCarried ==
  ASSUME NEW o, NEW p, DOMAIN o = Fields, DOMAIN p = Fields,
         p.target = o.target, p.open_mode = o.open_mode, p.cache = o.cache, p.immutable = o.immutable,
         p.vfs = o.vfs, p.encryption = o.encryption, p.sync = o.sync, p.features = o.features
  PROVE  Carried(p) = Carried(o)
<1>1. \A f \in Fields : f \in {"memory_state", "custom_io", "pragmas"} \/ p[f] = o[f]
  BY DEF Fields
<1> QED BY <1>1, CarriedIs

(* The parts of a pair. *)
LEMMA PartsOfPair == \A e, x, y : e = <<x, y>> => e[1] = x /\ e[2] = y
OBVIOUS

(* Options that have a URL are read from it as they were. *)
LEMMA RoundTrip ==
  ASSUME NEW o, Settings(o), HasUrl(o), Sayable(o.sync), o.target.path \notin Changed,
         NEW n, NEW s, s = Parse(BuildUrl(o), n)
  PROVE  s.ok /\ Carried(s.options) = Carried([o EXCEPT !.sync = WholeMillis(@)])
<1>1. PICK u : u = BuildUrl(o)
  OBVIOUS
<1>2. o.target.kind # "memory" /\ o.target = File(o.target.path) /\ o.target.path # ":memory:"
  <2>1. o.target.kind # "memory" /\ o.target.path # ":memory:"
    <3>1. UrlPath(o) # ":memory:"
      BY DEF HasUrl
    <3> QED BY <3>1, Zenon DEF UrlPath
  <2> QED BY <2>1 DEF Settings
<1>3. /\ u.database = o.target.path /\ u.params = BuildUrl(o).params
      /\ IsList(u.params) /\ UrlPath(o) \notin Changed
  <2>1. u.database = Written(UrlPath(o))
    BY <1>1, Zenon DEF BuildUrl
  <2>2. UrlPath(o) = o.target.path
    BY <1>2, Zenon DEF UrlPath
  <2>3. \A path : path \notin Changed => Written(path) = path
    BY DEF Written, Changed
  <2> QED BY <1>1, <2>1, <2>2, <2>3, UrlList, Zenon
<1> DEFINE L == Len(u.params)
           c == ValueTo(u.params, "encryption_cipher", 0, L, "none")
           h == ValueTo(u.params, "encryption_hexkey", 0, L, "none")
           in == MemoryAt(u, L)
<1>4. WrittenList(o, u.params, L)
  BY <1>3, UrlIsWritten
<1>5. /\ L \in Nat /\ DOMAIN u.params = 1 .. L
      /\ \A i \in 1 .. L : UrlHolds(o, u.params[i])
  BY <1>4, Zenon DEF WrittenList, Held
<1>6. /\ Latest(ToMemory(u.params, L)) = 0
      /\ (IF Latest(Modes(u.params, L)) = 0 THEN "rw" ELSE u.params[Latest(Modes(u.params, L))].value) = o.open_mode
  BY <1>2, <1>4, ModesWritten DEF Settings
<1>7. ~in
  BY <1>2, <1>3, <1>6, Zenon DEF MemoryAt
<1>8. /\ \A d : ValueTo(u.params, "cache", 0, L, d) = o.cache
      /\ (ValueTo(u.params, "immutable", 0, L, "0") \in Truth) = o.immutable
      /\ ValueTo(u.params, "vfs", 0, L, "none") = o.vfs
  <2>1. o.immutable \in BOOLEAN
    BY DEF Settings
  <2> HIDE DEF L
  <2> QED BY <1>4, <2>1, FlagsWritten
<1>9. /\ <<c, h>> = IF o.encryption = <<>> THEN <<"none", "none">> ELSE o.encryption
      /\ <<c, h>> = <<"none", "none">> \/ ("none" \notin {c, h} /\ ValidEncryption(c, h))
      /\ o.encryption = IF <<c, h>> = <<"none", "none">> THEN <<>> ELSE <<c, h>>
  BY <1>4, KeyWritten DEF Settings
<1>10. FeaturesTo(u.params, L) = o.features
  BY <1>4, FeaturesWritten DEF Settings
<1>11. (IF Latest(OfKeys(u.params, SyncKeys, 0, L)) = 0 THEN NoSync ELSE SyncTo(u, L)) = WholeMillis(o.sync)
  BY <1>4, SyncWritten DEF Settings
<1>12. PICK m : m = Meaning(u)
  OBVIOUS
<1>13. m =
    [memory |-> in,
     open_mode |-> IF Latest(Modes(u.params, L)) = 0 THEN "rw" ELSE u.params[Latest(Modes(u.params, L))].value,
     cache |-> ValueTo(u.params, "cache", Latest(ToMemory(u.params, L)), L,
                       IF in THEN "shared" ELSE "private"),
     immutable |-> ValueTo(u.params, "immutable", 0, L, "0") \in Truth,
     vfs |-> ValueTo(u.params, "vfs", 0, L, "none"),
     encryption |-> <<c, h>>,
     features |-> FeaturesTo(u.params, L),
     mvcc |-> IsMvcc(ValueTo(u.params, "journal_mode", 0, L, "none")),
     sync |-> IF Latest(OfKeys(u.params, SyncKeys, 0, L)) = 0 THEN NoSync ELSE SyncTo(u, L)]
  BY <1>5, <1>12, MeaningIs, Zenon
<1> HIDE DEF L, in, c, h
<1>14. /\ m.memory = in /\ m.open_mode = o.open_mode /\ m.cache = o.cache /\ m.immutable = o.immutable
       /\ m.vfs = o.vfs /\ m.encryption = <<c, h>> /\ m.features = o.features
       /\ m.sync = WholeMillis(o.sync)
  BY <1>6, <1>8, <1>10, <1>11, <1>13, Zenon
<1>15. WellFormed(u)
  <2>1. \A i \in DOMAIN u.params : Acceptable(u.params[i])
    BY <1>2, <1>5, AcceptableWritten
  <2>2. m.encryption = <<"none", "none">> \/ ("none" \notin {m.encryption[1], m.encryption[2]}
                                             /\ ValidEncryption(m.encryption[1], m.encryption[2]))
    <3>1. m.encryption[1] = c /\ m.encryption[2] = h
      <4>1. m.encryption = <<c, h>>
        BY <1>14
      <4> QED BY <4>1, PartsOfPair, Zenon
    <3>2. CASE <<c, h>> = <<"none", "none">>
      BY <1>14, <3>2
    <3>3. CASE "none" \notin {c, h} /\ ValidEncryption(c, h)
      BY <3>1, <3>3, Zenon
    <3> QED BY <1>9, <3>2, <3>3
  <2>3. m.sync = NoSync \/ m.sync[1].remote_url # ""
    <3>1. SyncSettings(o.sync)
      BY DEF Settings
    <3>2. CASE o.sync # NoSync
      <4>1. WholeMillis(o.sync)[1].remote_url # ""
        BY <3>1, <3>2, WholeRemote
      <4> QED BY <1>14, <4>1
    <3>3. CASE o.sync = NoSync
      BY <1>14, <3>3, Zenon DEF WholeMillis
    <3> QED BY <3>2, <3>3
  <2> QED BY <1>12, <2>1, <2>2, <2>3, Zenon DEF WellFormed
<1>16. s.ok /\ m = Shown(s.options) /\ ReadFully(u, s)
  BY <1>1, <1>3, <1>12, <1>15, ReadAsMeant, Zenon
<1>17. /\ Shown(s.options).open_mode = s.options.open_mode /\ Shown(s.options).cache = s.options.cache
       /\ Shown(s.options).immutable = s.options.immutable /\ Shown(s.options).vfs = s.options.vfs
       /\ Shown(s.options).features = s.options.features /\ Shown(s.options).sync = s.options.sync
  BY Zenon DEF Shown
<1>18. s.options.target = o.target
  BY <1>2, <1>3, <1>7, <1>12, <1>14, <1>16, Zenon DEF ReadFully
<1>19. s.options.encryption = o.encryption
  BY <1>9, <1>12, <1>14, <1>16, Zenon DEF ReadFully
<1>20. DOMAIN s.options = Fields /\ DOMAIN o = Fields
  <2>1. NameIsState(s.options)
    BY <1>16, Zenon DEF ReadFully, Reading
  <2>2. DOMAIN s.options = Fields
    BY <2>1, Zenon DEF NameIsState
  <2>3. DOMAIN o = Fields
    BY DEF Settings
  <2> QED BY <2>2, <2>3
<1>21. Carried(s.options) = Carried([o EXCEPT !.sync = WholeMillis(@)])
  <2>1. PICK w : w = WholeMillis(o.sync)
    OBVIOUS
  <2>2. PICK q : q = [o EXCEPT !.sync = w]
    OBVIOUS
  <2>3. /\ DOMAIN q = Fields /\ q.sync = w
        /\ \A f \in Fields \ {"sync"} : q[f] = o[f]
    BY <1>20, <2>2, FieldsAre
  <2>4. /\ q.target = o.target /\ q.open_mode = o.open_mode /\ q.cache = o.cache
        /\ q.immutable = o.immutable /\ q.vfs = o.vfs /\ q.encryption = o.encryption
        /\ q.features = o.features
    BY <2>3 DEF Fields
  <2>5. /\ s.options.open_mode = o.open_mode /\ s.options.cache = o.cache
        /\ s.options.immutable = o.immutable /\ s.options.vfs = o.vfs
        /\ s.options.features = o.features /\ s.options.sync = w
    BY <1>14, <1>16, <1>17, <2>1, Zenon
  <2>6. /\ s.options.target = q.target /\ s.options.open_mode = q.open_mode
        /\ s.options.cache = q.cache /\ s.options.immutable = q.immutable
        /\ s.options.vfs = q.vfs /\ s.options.encryption = q.encryption
        /\ s.options.sync = q.sync /\ s.options.features = q.features
    BY <1>18, <1>19, <2>3, <2>4, <2>5, Zenon
  <2>7. DOMAIN s.options = Fields
    BY <1>20
  <2> HIDE DEF Fields
  <2>8. Carried(s.options) = Carried(q)
    BY <2>3, <2>6, <2>7, SameCarried
  <2> QED BY <2>1, <2>2, <2>8, Zenon
<1> QED BY <1>16, <1>21

(* The values a setting may have, and Settings said by setting.              *)
May(f, v) ==
  /\ f = "target" => v.kind = "memory" \/ v = File(v.path)
  /\ f = "open_mode" => v \in {"rw", "rwc", "ro"}
  /\ f = "cache" => v \in {"private", "shared"}
  /\ f = "immutable" => v \in BOOLEAN
  /\ f = "features" => v \subseteq {"attach", "views"}
  /\ f = "encryption" => KeySettings(v)
  /\ f = "sync" => SyncSettings(v)

(* Settings, said by setting. *)
LEMMA SettingsByField ==
  ASSUME NEW o
  PROVE  Settings(o) <=> DOMAIN o = Fields /\ \A f \in Fields : May(f, o[f])
<1>1. ASSUME Settings(o), NEW f \in Fields PROVE May(f, o[f])
  BY <1>1, FieldsAre, Zenon DEF Settings, May
<1>2. ASSUME \A f \in Fields : May(f, o[f]), DOMAIN o = Fields PROVE Settings(o)
  <2>1. /\ May("target", o.target) /\ May("open_mode", o.open_mode) /\ May("cache", o.cache)
        /\ May("immutable", o.immutable) /\ May("features", o.features)
        /\ May("encryption", o.encryption) /\ May("sync", o.sync)
    BY <1>2, FieldsAre, Zenon
  <2> QED BY <1>2, <2>1, Zenon DEF Settings, May
<1>3. Settings(o) => DOMAIN o = Fields
  BY DEF Settings
<1> QED BY <1>1, <1>2, <1>3

(* A change of one setting to another that it may have. *)
LEMMA SettingsKept ==
  ASSUME NEW o, Settings(o), NEW p, DOMAIN p = Fields, NEW F, Same(p, o, F),
         \A f \in F : May(f, p[f])
  PROVE  Settings(p)
<1>1. \A f \in Fields : May(f, o[f])
  BY SettingsByField
<1>2. \A f \in Fields : f \in F \/ p[f] = o[f]
  BY Zenon DEF Same
<1> QED BY <1>1, <1>2, SettingsByField, Zenon

LEMMA OneSetting ==
  ASSUME NEW o, Settings(o), NEW f \in Fields, NEW v, May(f, v)
  PROVE  Settings([o EXCEPT ![f] = v])
<1>1. PICK p : p = [o EXCEPT ![f] = v]
  OBVIOUS
<1>2. DOMAIN p = Fields /\ p[f] = v /\ \A g \in Fields \ {f} : p[g] = o[g]
  BY <1>1 DEF Settings
<1>3. Same(p, o, {f}) /\ \A g \in {f} : May(g, p[g])
  <2>1. Same(p, o, {f})
    BY <1>2, Zenon DEF Same
  <2>2. \A g \in {f} : May(g, p[g])
    BY <1>2, Zenon
  <2> QED BY <2>1, <2>2
<1>4. DOMAIN p = Fields
  BY <1>2, Zenon
<1>5. Settings(p)
  BY <1>3, <1>4, SettingsKept
<1> QED BY <1>1, <1>5, Zenon

(* Every builder method leaves such settings. *)
LEMMA DefaultSettings == ASSUME NEW n PROVE Settings(Default(n))
<1>1. PICK o : o = Default(n)
  OBVIOUS
<1>2. /\ DOMAIN o = Fields /\ o.target = Memory(n) /\ o.open_mode = "rw" /\ o.cache = "shared"
      /\ o.immutable = FALSE /\ o.encryption = <<>> /\ o.sync = NoSync /\ o.features = {}
  BY <1>1, Zenon DEF Default, Fields
<1>3. o.target.kind = "memory"
  BY <1>2, MemoryKind
<1> QED BY <1>1, <1>2, <1>3 DEF Settings, KeySettings, SyncSettings

LEMMA FilenameSettings ==
  ASSUME NEW o, Settings(o), NEW f
  PROVE  Settings(Filename(o, f))
<1>1. PICK p : p = Filename(o, f)
  OBVIOUS
<1>2. DOMAIN o = Fields
  BY DEF Settings
<1>3. /\ DOMAIN p = Fields /\ p.target = File(f) /\ p.cache = "private"
      /\ \A g \in Fields \ {"target", "cache"} : p[g] = o[g]
  BY <1>1, <1>2 DEF Filename, Fields
<1>4. File(f).path = f
  BY Zenon DEF File
<1>5. May("target", p.target) /\ May("cache", p.cache)
  BY <1>3, <1>4 DEF May
<1>6. Same(p, o, {"target", "cache"}) /\ \A g \in {"target", "cache"} : May(g, p[g])
  BY <1>3, <1>5 DEF Same
<1> QED BY <1>1, <1>3, <1>6, SettingsKept, Zenon

LEMMA InMemorySettings ==
  ASSUME NEW o, Settings(o), NEW b, NEW n
  PROVE  Settings(InMemory(o, b, n))
<1>1. CASE ~b
  BY <1>1, FilenameSettings, Zenon DEF InMemory
<1>2. CASE b
  <2> DEFINE F == {"target", "cache", "memory_state"}
  <2>1. PICK p : p = [o EXCEPT !.target = Memory(n), !.cache = "shared", !.memory_state = n]
    OBVIOUS
  <2>2. DOMAIN o = Fields
    BY DEF Settings
  <2>3. /\ DOMAIN p = Fields /\ p.target = Memory(n) /\ p.cache = "shared"
        /\ \A g \in Fields \ F : p[g] = o[g]
    BY <2>1, <2>2 DEF Fields
  <2>4. May("target", p.target) /\ May("cache", p.cache) /\ May("memory_state", p.memory_state)
    BY <2>3, MemoryKind DEF May
  <2>5. Same(p, o, F) /\ \A g \in F : May(g, p[g])
    BY <2>3, <2>4 DEF Same
  <2> HIDE DEF F
  <2>6. Settings(p)
    BY <2>3, <2>5, SettingsKept
  <2> QED BY <1>2, <2>1, <2>6, Zenon DEF InMemory
<1> QED BY <1>1, <1>2

LEMMA VfsSettings ==
  ASSUME NEW o, Settings(o), NEW v
  PROVE  Settings(Vfs(o, v)) /\ Settings(CustomIo(o))
<1> DEFINE F == {"vfs", "custom_io"}
<1>1. PICK p, q : p = Vfs(o, v) /\ q = CustomIo(o)
  OBVIOUS
<1>2. DOMAIN o = Fields
  BY DEF Settings
<1>3. /\ DOMAIN p = Fields /\ \A g \in Fields \ F : p[g] = o[g]
      /\ DOMAIN q = Fields /\ \A g \in Fields \ F : q[g] = o[g]
  BY <1>1, <1>2 DEF Fields, Vfs, CustomIo
<1>4. \A x, g : g \in F => May(g, x)
  BY DEF May
<1>5. Same(p, o, F) /\ Same(q, o, F) /\ \A g \in F : May(g, p[g]) /\ May(g, q[g])
  BY <1>3, <1>4, Zenon DEF Same
<1> HIDE DEF F
<1> QED BY <1>1, <1>3, <1>5, SettingsKept, Zenon

LEMMA OtherSettings ==
  ASSUME NEW o, Settings(o), NEW b \in BOOLEAN, NEW k, NEW v
  PROVE  /\ Settings(ReadOnly(o, b)) /\ Settings(CreateIfMissing(o, b)) /\ Settings(SharedCache(o, b))
         /\ Settings(Immutable(o, b)) /\ Settings(ClearCustomIo(o))
         /\ Settings(ExperimentalFeature(o, "attach", b)) /\ Settings(ExperimentalFeature(o, "views", b))
         /\ Settings(Pragma(o, k, v)) /\ Settings(Mvcc(o, b))
<1>1. \A f \in Fields : \A x : May(f, x) => Settings([o EXCEPT ![f] = x])
  BY OneSetting
<1>2. /\ \A x \in {"rw", "rwc", "ro"} : Settings([o EXCEPT !.open_mode = x])
      /\ \A x \in {"private", "shared"} : Settings([o EXCEPT !.cache = x])
      /\ \A x \in BOOLEAN : Settings([o EXCEPT !.immutable = x])
      /\ \A x \in SUBSET {"attach", "views"} : Settings([o EXCEPT !.features = x])
      /\ \A x : Settings([o EXCEPT !.custom_io = x]) /\ Settings([o EXCEPT !.pragmas = x])
  <2>1. /\ \A x \in {"rw", "rwc", "ro"} : May("open_mode", x)
        /\ \A x \in {"private", "shared"} : May("cache", x)
        /\ \A x \in BOOLEAN : May("immutable", x)
        /\ \A x \in SUBSET {"attach", "views"} : May("features", x)
        /\ \A x : May("custom_io", x) /\ May("pragmas", x)
    BY DEF May
  <2> QED BY <1>1, <2>1, FieldsAre, Zenon
<1>3. o.open_mode \in {"rw", "rwc", "ro"} /\ o.features \subseteq {"attach", "views"}
  BY DEF Settings
<1>4. Settings(ReadOnly(o, b))
  <2>1. (IF b THEN "ro" ELSE IF o.open_mode = "ro" THEN "rw" ELSE o.open_mode) \in {"rw", "rwc", "ro"}
    BY <1>3
  <2> QED BY <1>2, <2>1, Zenon DEF ReadOnly
<1>5. Settings(CreateIfMissing(o, b))
  <2>1. (IF b THEN "rwc" ELSE IF o.open_mode = "rwc" THEN "rw" ELSE o.open_mode) \in {"rw", "rwc", "ro"}
    BY <1>3
  <2> QED BY <1>2, <2>1, Zenon DEF CreateIfMissing
<1>6. Settings(SharedCache(o, b))
  <2>1. (IF b THEN "shared" ELSE "private") \in {"private", "shared"}
    OBVIOUS
  <2> QED BY <1>2, <2>1, Zenon DEF SharedCache
<1>7. Settings(Immutable(o, b)) /\ Settings(ClearCustomIo(o))
  BY <1>2, Zenon DEF Immutable, ClearCustomIo
<1>8. \A f \in {"attach", "views"} : Settings(ExperimentalFeature(o, f, b))
  <2> TAKE f \in {"attach", "views"}
  <2>1. (IF b THEN o.features \cup {f} ELSE o.features \ {f}) \in SUBSET {"attach", "views"}
    BY <1>3
  <2> QED BY <1>2, <2>1, Zenon DEF ExperimentalFeature
<1>9. \A x, y : Settings(Pragma(o, x, y))
  BY <1>2, Zenon DEF Pragma
<1>10. Settings(Mvcc(o, b))
  BY <1>9, Zenon DEF Mvcc
<1>11. "attach" \in {"attach", "views"} /\ "views" \in {"attach", "views"}
  OBVIOUS
<1> QED BY <1>4, <1>5, <1>6, <1>7, <1>8, <1>9, <1>10, <1>11, Zenon

LEMMA GivenSettings ==
  ASSUME NEW o, Settings(o), NEW x, NEW y
  PROVE  /\ KeySettings(x) => Settings(EncryptionOptions(o, x))
         /\ SyncSettings(y) => Settings(WithSyncOptions(o, y))
<1>1. \A f \in Fields : \A v : May(f, v) => Settings([o EXCEPT ![f] = v])
  BY OneSetting
<1>2. (KeySettings(x) => May("encryption", x)) /\ (SyncSettings(y) => May("sync", y))
  BY DEF May
<1> QED BY <1>1, <1>2, FieldsAre, Zenon DEF EncryptionOptions, WithSyncOptions

LEMMA GivenSyncs == \A s \in Syncs : SyncSettings(s)
<1>1. SyncSettings(NoSync)
  BY DEF SyncSettings
<1>2. \A v : SyncSettings(NewSync(v))
  <2> TAKE v
  <2>1. NewSync(v) = SyncOf(v, "none", "none", "none", TRUE)
    BY NewSyncIs
  <2>2. v # "" \/ NewSync(v) = NewSync("")
    OBVIOUS
  <2>3. "none" # "wrong" /\ TRUE \in BOOLEAN
    OBVIOUS
  <2> QED BY <2>1, <2>2, <2>3, Zenon DEF SyncSettings
<1>3. <<[NewSync("u")[1] EXCEPT !.auth_token = "t", !.bootstrap_if_empty = FALSE]>> =
        SyncOf("u", "t", "none", "none", FALSE)
  <2>1. NewSync("u")[1] = [remote_url |-> "u", auth_token |-> "none", client_name |-> "none",
                           long_poll_timeout |-> "none", bootstrap_if_empty |-> TRUE]
    BY DEF NewSync
  <2>2. PICK r : r = NewSync("u")[1]
    OBVIOUS
  <2>3. DOMAIN r = {"remote_url", "auth_token", "client_name", "long_poll_timeout", "bootstrap_if_empty"}
    BY <2>1, <2>2
  <2>4. r.remote_url = "u" /\ r.client_name = "none" /\ r.long_poll_timeout = "none"
    BY <2>1, <2>2
  <2>5. [r EXCEPT !.auth_token = "t", !.bootstrap_if_empty = FALSE] =
        [remote_url |-> "u", auth_token |-> "t", client_name |-> "none",
         long_poll_timeout |-> "none", bootstrap_if_empty |-> FALSE]
    <3> DEFINE D == {"remote_url", "auth_token", "client_name", "long_poll_timeout", "bootstrap_if_empty"}
    <3>1. PICK q : q = [r EXCEPT !.auth_token = "t", !.bootstrap_if_empty = FALSE]
      OBVIOUS
    <3>2. PICK t : t = [remote_url |-> "u", auth_token |-> "t", client_name |-> "none",
                        long_poll_timeout |-> "none", bootstrap_if_empty |-> FALSE]
      OBVIOUS
    <3>3. q = [f \in D |-> q[f]]
      BY <2>3, <3>1
    <3>4. t = [f \in D |-> t[f]]
      BY <3>2
    <3>5. \A f \in D : q[f] = t[f]
      <4>1. q.bootstrap_if_empty = FALSE /\ t.bootstrap_if_empty = FALSE
        BY <2>3, <3>1, <3>2, Zenon
      <4>2. q.remote_url = r.remote_url /\ q.auth_token = "t" /\ q.client_name = r.client_name
            /\ q.long_poll_timeout = r.long_poll_timeout
        BY <2>3, <3>1, Zenon
      <4>3. t.remote_url = "u" /\ t.auth_token = "t" /\ t.client_name = "none" /\ t.long_poll_timeout = "none"
        BY <3>2, Zenon
      <4> QED BY <2>4, <4>1, <4>2, <4>3, Zenon
    <3> QED BY <3>1, <3>2, <3>3, <3>4, <3>5
  <2> QED BY <2>2, <2>5, Zenon DEF SyncOf
<1>4. SyncSettings(SyncOf("u", "t", "none", "none", FALSE))
  <2>1. "none" # "wrong" /\ "u" # "" /\ FALSE \in BOOLEAN
    OBVIOUS
  <2> QED BY <2>1, Zenon DEF SyncSettings
<1>5. \A t \in {"1.5", "2^64"} : SyncSettings(<<[NewSync("u")[1] EXCEPT !.long_poll_timeout = t]>>)
  <2> SUFFICES ASSUME NEW t, t # "wrong" PROVE SyncSettings(<<[NewSync("u")[1] EXCEPT !.long_poll_timeout = t]>>)
    OBVIOUS
  <2>1. PICK u, n, e : u = "u" /\ n = "none" /\ e = TRUE
    OBVIOUS
  <2>2. PICK y : y = NewSync("u") /\ y = SyncOf(u, n, n, n, e)
    BY <2>1, NewSyncIs
  <2>3. <<[y[1] EXCEPT !.long_poll_timeout = t]>> = SyncOf(u, n, n, t, e)
    BY <2>2, TimeoutChanged
  <2>4. "u" # "" /\ TRUE \in BOOLEAN
    OBVIOUS
  <2> QED BY <2>1, <2>2, <2>3, <2>4, Zenon DEF SyncSettings
<1> QED BY <1>1, <1>2, <1>3, <1>4, <1>5, Zenon DEF Syncs

LEMMA BuiltSettings ==
  ASSUME NEW o, Settings(o), NEW n, NEW p \in Built(o, n)
  PROVE  Settings(p)
<1>1. \A v : Settings(Default(v)) /\ Settings(Filename(o, v))
  BY DefaultSettings, FilenameSettings, Zenon
<1>2. \A b : Settings(InMemory(o, b, n))
  BY InMemorySettings, Zenon
<1>3. /\ \A x : Settings(Vfs(o, x)) /\ Settings(CustomIo(o))
      /\ \A x, y : Settings(Pragma(o, x, y))
      /\ Settings(ClearCustomIo(o))
  BY VfsSettings, OtherSettings, Zenon
<1>4. \A b \in BOOLEAN :
         /\ Settings(ReadOnly(o, b)) /\ Settings(CreateIfMissing(o, b)) /\ Settings(SharedCache(o, b))
         /\ Settings(Immutable(o, b)) /\ Settings(Mvcc(o, b))
         /\ Settings(ExperimentalFeature(o, "attach", b)) /\ Settings(ExperimentalFeature(o, "views", b))
  BY OtherSettings, Zenon
<1>5. Settings(EncryptionOptions(o, <<"c", "ab">>)) /\ Settings(EncryptionOptions(o, <<>>))
  <2>1. KeySettings(<<"c", "ab">>) /\ KeySettings(<<>>)
    <3>1. "none" \notin {"c", "ab"} /\ ValidEncryption("c", "ab")
      BY DEF ValidEncryption
    <3> QED BY <3>1, Zenon DEF KeySettings
  <2> QED BY <2>1, GivenSettings, Zenon
<1>6. \A s \in Syncs : Settings(WithSyncOptions(o, s))
  BY GivenSyncs, GivenSettings, Zenon
<1>7. \/ p \in {Default(n), Vfs(o, "v"), CustomIo(o), ClearCustomIo(o),
               EncryptionOptions(o, <<"c", "ab">>), EncryptionOptions(o, <<>>),
               Pragma(o, "auto_vacuum", "FULL"), Pragma(o, "foreign_keys", "OFF"),
               Pragma(o, "journal_mode", "wal")}
      \/ \E f : p = Filename(o, f)
      \/ \E x \in Syncs : p = WithSyncOptions(o, x)
      \/ \E b \in BOOLEAN : p \in {InMemory(o, b, n), ReadOnly(o, b), CreateIfMissing(o, b), SharedCache(o, b),
                      Immutable(o, b), Mvcc(o, b), ExperimentalFeature(o, "attach", b),
                      ExperimentalFeature(o, "views", b)}
  BY Zenon DEF Built
<1> QED BY <1>1, <1>2, <1>3, <1>4, <1>5, <1>6, <1>7, Zenon

(* Where the value of a parameter comes from. *)
LEMMA ValueAmong ==
  ASSUME NEW ps, NEW k \in Nat, NEW i \in Nat, NEW key, NEW S, NEW d \in S,
         \A j \in 1 .. k : ps[j].key = key => ps[j].value \in S
  PROVE  ValueTo(ps, key, i, k, d) \in S
<1>1. \A j \in i + 1 .. k : j \in 1 .. k
  OBVIOUS
<1>2. PICK v : v = ValueTo(ps, key, i, k, d)
  OBVIOUS
<1>3. v = d \/ \E n \in i + 1 .. k : ps[n].key = key /\ v = ps[n].value
  BY <1>2, ValueToIs
<1> QED BY <1>1, <1>2, <1>3, Zenon

LEMMA ValueNever ==
  ASSUME NEW ps, NEW k \in Nat, NEW i \in Nat, NEW key, NEW x, NEW d, d # x,
         \A j \in 1 .. k : ps[j].key = key => ps[j].value # x
  PROVE  ValueTo(ps, key, i, k, d) # x
<1>1. \A j \in i + 1 .. k : j \in 1 .. k
  OBVIOUS
<1>2. PICK v : v = ValueTo(ps, key, i, k, d)
  OBVIOUS
<1>3. v = d \/ \E n \in i + 1 .. k : ps[n].key = key /\ v = ps[n].value
  BY <1>2, ValueToIs
<1> QED BY <1>1, <1>2, <1>3, Zenon

(* The features of a parameter. *)
LEMMA NamedFeatures ==
  \A v : Elements(v) \subseteq DOMAIN FeatureNames => FeaturesOf(v) \subseteq {"attach", "views"}
<1>1. DOMAIN FeatureNames = {"attach", "views", "materialized_views"}
  BY DEF FeatureNames
<1>2. \A f \in DOMAIN FeatureNames : FeatureNames[f] \subseteq {"attach", "views"}
  BY DEF FeatureNames
<1> QED BY <1>2 DEF FeaturesOf

(* The encryption and the sync options of a well-formed URL. *)
LEMMA KeyRead ==
  ASSUME NEW u, WellFormed(u), NEW m, m = Meaning(u), NEW c, NEW h, m.encryption = <<c, h>>,
         NEW e, e = IF m.encryption = <<"none", "none">> THEN <<>> ELSE m.encryption
  PROVE  KeySettings(e)
<1>1. m.encryption[1] = c /\ m.encryption[2] = h
  BY PartsOfPair, Zenon
<1>2. m.encryption = <<"none", "none">> \/ ("none" \notin {c, h} /\ ValidEncryption(c, h))
  BY <1>1, Zenon DEF WellFormed
<1> QED BY <1>2, Zenon DEF KeySettings

LEMMA SyncRead ==
  ASSUME NEW u, WellFormed(u), NEW m, m = Meaning(u), NEW a, NEW b, NEW c, NEW d, NEW e \in BOOLEAN,
         d # "wrong", m.sync = NoSync \/ m.sync = SyncOf(a, b, c, d, e)
  PROVE  SyncSettings(m.sync)
<1>1. PICK s : s = m.sync
  OBVIOUS
<1>2. s = NoSync \/ s[1].remote_url # ""
  BY <1>1, Zenon DEF WellFormed
<1>3. s = SyncOf(a, b, c, d, e) => s[1].remote_url = a
  BY SyncFields
<1> QED BY <1>1, <1>2, <1>3, Zenon DEF SyncSettings

(* What a URL is read as has such settings. *)
LEMMA ParsedSettings ==
  ASSUME NEW u, IsList(u.params), NEW n, NEW s, s = Parse(u, n), s.ok
  PROVE  Settings(s.options)
<1> DEFINE L == Len(u.params)
           ps == u.params
           c == ValueTo(ps, "encryption_cipher", 0, L, "none")
           h == ValueTo(ps, "encryption_hexkey", 0, L, "none")
<1>1. L \in Nat /\ DOMAIN ps = 1 .. L
  BY DEF IsList
<1>2. WellFormed(u) /\ Meaning(u) = Shown(s.options) /\ ReadFully(u, s)
  BY ReadAsMeant, Zenon
<1>3. PICK m : m = Meaning(u)
  OBVIOUS
<1>4. \A i \in 1 .. L : Acceptable(ps[i])
  BY <1>1, <1>2, Zenon DEF WellFormed
<1>5. m =
    [memory |-> MemoryAt(u, L),
     open_mode |-> IF Latest(Modes(ps, L)) = 0 THEN "rw" ELSE ps[Latest(Modes(ps, L))].value,
     cache |-> ValueTo(ps, "cache", Latest(ToMemory(ps, L)), L,
                       IF MemoryAt(u, L) THEN "shared" ELSE "private"),
     immutable |-> ValueTo(ps, "immutable", 0, L, "0") \in Truth,
     vfs |-> ValueTo(ps, "vfs", 0, L, "none"),
     encryption |-> <<c, h>>,
     features |-> FeaturesTo(ps, L),
     mvcc |-> IsMvcc(ValueTo(ps, "journal_mode", 0, L, "none")),
     sync |-> IF Latest(OfKeys(ps, SyncKeys, 0, L)) = 0 THEN NoSync ELSE SyncTo(u, L)]
  BY <1>1, <1>3, MeaningIs, Zenon
<1>6. m.open_mode \in {"rw", "rwc", "ro"}
  <2> DEFINE I == Modes(ps, L)
  <2>1. m.open_mode = IF Latest(I) = 0 THEN "rw" ELSE ps[Latest(I)].value
    BY <1>5, Zenon
  <2>2. I \subseteq 1 .. L /\ \A i \in I : ps[i].value \in {"ro", "rwc"}
    BY DEF Modes
  <2> HIDE DEF I
  <2> QED BY <1>1, <2>1, <2>2, LatestIn
<1>7. m.cache \in {"private", "shared"}
  <2>1. Latest(ToMemory(ps, L)) \in Nat
    <3>1. ToMemory(ps, L) \subseteq 1 .. L
      BY DEF ToMemory
    <3> QED BY <1>1, <3>1, LatestIn
  <2>2. PICK i, d : /\ i \in Nat /\ d \in {"private", "shared"}
                    /\ m.cache = ValueTo(ps, "cache", i, L, d)
    BY <1>5, <2>1, Zenon
  <2>3. \A j \in 1 .. L : ps[j].key = "cache" => ps[j].value \in {"private", "shared"}
    BY <1>4, AcceptableKeys
  <2>4. ValueTo(ps, "cache", i, L, d) \in {"private", "shared"}
    <3> HIDE DEF L, ps
    <3> QED BY <1>1, <2>2, <2>3, ValueAmong
  <2> QED BY <2>2, <2>4
<1>8. m.immutable \in BOOLEAN
  <2>1. m.immutable = (ValueTo(ps, "immutable", 0, L, "0") \in Truth)
    BY <1>5, Zenon
  <2> QED BY <2>1
<1>9. m.features \subseteq {"attach", "views"}
  <2>1. m.features = UNION {FeaturesOf(ps[i].value) : i \in {j \in 1 .. L : ps[j].key = "experimental"}}
    BY <1>5, Zenon DEF FeaturesTo
  <2>2. ASSUME NEW j \in 1 .. L, ps[j].key = "experimental"
        PROVE  FeaturesOf(ps[j].value) \subseteq {"attach", "views"}
    <3>1. Elements(ps[j].value) \subseteq DOMAIN FeatureNames
      BY <1>4, <2>2, AcceptableKeys
    <3> QED BY <3>1, NamedFeatures
  <2> QED BY <2>1, <2>2
<1>10. KeySettings(s.options.encryption)
  <2>1. m.encryption = <<c, h>>
    BY <1>5, Zenon
  <2>2. s.options.encryption = IF m.encryption = <<"none", "none">> THEN <<>> ELSE m.encryption
    BY <1>2, <1>3, Zenon DEF ReadFully
  <2> HIDE DEF c, h
  <2> QED BY <1>2, <1>3, <2>1, <2>2, KeyRead
<1>11. SyncSettings(m.sync)
  <2>1. PICK a, b, x, d, e : /\ SyncTo(u, L) = SyncOf(a, b, x, d, e)
                             /\ d = ValueTo(ps, "sync_long_poll_timeout_ms", RemoteAt(u, L), L, "none")
                             /\ e = (ValueTo(ps, "sync_bootstrap_if_empty", RemoteAt(u, L), L, "1") \in Truth)
    BY Zenon DEF SyncTo
  <2>2. m.sync = NoSync \/ m.sync = SyncOf(a, b, x, d, e)
    BY <1>5, <2>1, Zenon
  <2>5. RemoteAt(u, L) \in Nat
    <3>1. OfKeys(ps, {"sync_remote_url"}, 0, L) \subseteq 1 .. L
      BY DEF OfKeys
    <3> QED BY <1>1, <3>1, LatestIn DEF RemoteAt
  <2>6. d # "wrong"
    <3>1. \A j \in 1 .. L : ps[j].key = "sync_long_poll_timeout_ms" => ps[j].value # "wrong"
      BY <1>4, AcceptableKeys DEF NoMillis
    <3>2. ValueTo(ps, "sync_long_poll_timeout_ms", RemoteAt(u, L), L, "none") # "wrong"
      <4> HIDE DEF L, ps
      <4> QED BY <1>1, <2>5, <3>1, ValueNever
    <3> QED BY <2>1, <3>2
  <2>7. e \in BOOLEAN
    BY <2>1
  <2> QED BY <1>2, <1>3, <2>2, <2>6, <2>7, SyncRead
<1>12. /\ m.open_mode = s.options.open_mode /\ m.cache = s.options.cache
       /\ m.immutable = s.options.immutable /\ m.features = s.options.features
       /\ m.sync = s.options.sync
  <2>1. /\ Shown(s.options).open_mode = s.options.open_mode /\ Shown(s.options).cache = s.options.cache
        /\ Shown(s.options).immutable = s.options.immutable
        /\ Shown(s.options).features = s.options.features /\ Shown(s.options).sync = s.options.sync
    BY Zenon DEF Shown
  <2> QED BY <1>2, <1>3, <2>1
<1>13. DOMAIN s.options = Fields
  BY <1>2 DEF ReadFully, Reading, NameIsState
<1>14. s.options.target.kind = "memory" \/ s.options.target = File(s.options.target.path)
  <2>1. Meaning(u).memory => s.options.target.kind = "memory"
    <3>1. Shown(s.options).memory = (s.options.target.kind = "memory")
      BY Zenon DEF Shown
    <3> QED BY <1>2, <3>1, Zenon
  <2>2. \A f : File(f).path = f
    BY Zenon DEF File
  <2> QED BY <1>2, <2>1, <2>2, Zenon DEF ReadFully
<1> HIDE DEF L, ps, c, h
<1> QED BY <1>6, <1>7, <1>8, <1>9, <1>10, <1>11, <1>12, <1>13, <1>14, Zenon DEF Settings

-----------------------------------------------------------------------------
(* The invariant of the round trip.                                          *)
SettingsInv == OptionsInv /\ \A h \in Handle : Settings(opt[h])

(* Every step keeps the settings such. *)
LEMMA SettingsStep ==
  ASSUME SettingsInv, [OptionsNext]_optionVars
  PROVE  SettingsInv'
<1>0. OptionsInv /\ OptionsInv' /\ DOMAIN opt = Handle
  BY OptionsStep DEF SettingsInv, OptionsInv
<1>1. CASE UNCHANGED optionVars
  BY <1>0, <1>1 DEF SettingsInv, optionVars
<1>2. CASE WriteUrl
  BY <1>0, <1>2 DEF SettingsInv, WriteUrl
<1>3. ASSUME NEW h \in Handle, BuilderCall(h) PROVE SettingsInv'
  <2>1. PICK o \in Built(opt[h], Fresh) : opt' = [opt EXCEPT ![h] = o]
    BY <1>3, Zenon DEF BuilderCall
  <2>2. Settings(o)
    BY <2>1, BuiltSettings, Zenon DEF SettingsInv
  <2> QED BY <1>0, <2>1, <2>2 DEF SettingsInv
<1>4. ASSUME NEW h \in Handle, FromUrl(h) PROVE SettingsInv'
  <2>1. PICK u \in {url} \cup {BuildUrl(opt[g]) : g \in {g \in Handle : HasUrl(opt[g])}} :
          Parse(u, Fresh).ok /\ opt' = [opt EXCEPT ![h] = Parse(u, Fresh).options]
    BY <1>4, Zenon DEF FromUrl
  <2>2. IsList(u.params)
    <3>1. u = url \/ \E o : u = BuildUrl(o)
      BY <2>1, Zenon
    <3> QED BY <1>0, <3>1, UrlList, Zenon DEF OptionsInv
  <2>3. Settings(Parse(u, Fresh).options)
    BY <2>1, <2>2, ParsedSettings, Zenon
  <2> QED BY <1>0, <2>1, <2>3 DEF SettingsInv
<1>5. ASSUME NEW h \in Handle, FromUrlRefused(h) PROVE SettingsInv'
  BY <1>0, <1>5 DEF SettingsInv, FromUrlRefused
<1>6. ASSUME NEW h \in Handle, NEW g \in Handle, Clone(g, h) PROVE SettingsInv'
  BY <1>0, <1>6 DEF SettingsInv, Clone
<1> QED BY <1>1, <1>2, <1>3, <1>4, <1>5, <1>6 DEF OptionsNext

(* Options written to a URL (build_url) are read back from it (from_str)     *)
(* as the same options, for any files, URLs and builder calls.               *)
THEOREM UrlsRoundTrip == OptionsSpec => []UrlRoundTrip
<1>1. OptionsInit => SettingsInv
  <2> SUFFICES ASSUME OptionsInit PROVE SettingsInv
    OBVIOUS
  <2>1. DOMAIN opt = Handle /\ \A h \in Handle : opt[h] = Default(0)
    BY Zenon DEF OptionsInit
  <2> QED BY <2>1, OptionsStart, DefaultSettings, Zenon DEF SettingsInv
<1>2. SettingsInv => UrlRoundTrip
  BY RoundTrip, Zenon DEF SettingsInv, UrlRoundTrip
<1> QED BY <1>1, <1>2, SettingsStep, PTL DEF OptionsSpec

=============================================================================
