------------------------- MODULE DatabaseFilesProofs ------------------------
(* Machine-checked proofs about creating and dropping databases, for any     *)
(* number of tasks and of lives.                                             *)
EXTENDS DatabaseFiles, TLAPS

-----------------------------------------------------------------------------
(* The inductive invariant.                                                  *)

(* What a drop has gone past is gone, or belongs to a database that was      *)
(* opened while a drop ran.                                                  *)
Reached ==
  \A t \in Task : pc[t] = "drop" =>
    \A i \in 1 .. Len(KnownFiles) : i < next[t] => life[KnownFiles[i]] \in {0} \cup met

(* Who must not create the file has seen it, and lost it only to a drop.     *)
SawTheFile ==
  \A t \in Task : pc[t] = "open" /\ ~create[t] /\ ~Exists => t \in dropped

FilesInv ==
  /\ TypeOK /\ create \in [Task -> BOOLEAN]
  /\ Reached /\ SawTheFile
  /\ OneLife /\ MissingIsClean /\ HalfDroppedIsHidden

(* The list names every file, the main file first (lifecycle.rs).            *)
LEMMA KnownFilesAre ==
  /\ Len(KnownFiles) = 7
  /\ KnownFiles[1] = "main"
  /\ \A i \in 1 .. 7 : KnownFiles[i] \in Files
  /\ \A f \in Files : \E i \in 1 .. 7 : KnownFiles[i] = f
<1>1. Len(KnownFiles) = 7 /\ KnownFiles[1] = "main"
  BY DEF KnownFiles
<1>2. \A i \in 1 .. 7 : i = 1 \/ i = 2 \/ i = 3 \/ i = 4 \/ i = 5 \/ i = 6 \/ i = 7
  OBVIOUS
<1>3. \A i \in 1 .. 7 : KnownFiles[i] \in Files
  BY <1>2 DEF KnownFiles, Files
<1>4. \A f \in Files : \E i \in 1 .. 7 : KnownFiles[i] = f
  <2> SUFFICES ASSUME NEW f \in Files PROVE \E i \in 1 .. 7 : KnownFiles[i] = f
    OBVIOUS
  <2>1. /\ KnownFiles[1] = "main" /\ KnownFiles[2] = "-wal" /\ KnownFiles[3] = "-shm"
        /\ KnownFiles[4] = "-wal-tshm" /\ KnownFiles[5] = "-wal-revert"
        /\ KnownFiles[6] = "-info" /\ KnownFiles[7] = "-changes"
    BY DEF KnownFiles
  <2> QED
    BY <2>1 DEF Files
<1> QED
  BY <1>1, <1>3, <1>4

LEMMA FilesInit == Init => FilesInv
<1> SUFFICES ASSUME Init PROVE FilesInv
  OBVIOUS
<1>1. TypeOK /\ create \in [Task -> BOOLEAN]
  BY KnownFilesAre, DatabaseFilesAssumption DEF Init, TypeOK
<1>2. ~Exists /\ Lives = {}
  BY DEF Init, Exists, Lives, Files
<1> QED
  BY <1>1, <1>2 DEF Init, FilesInv, Reached, SawTheFile, OneLife, MissingIsClean,
                    HalfDroppedIsHidden

(* Calls that start, and an open that breaks off: no file changes, and no    *)
(* drop starts or ends.                                                      *)
LEMMA OthersKeep ==
  ASSUME FilesInv, NEW t \in Task,
         Connect(t) \/ NotFound(t) \/ CreateDatabase(t) \/ OpenBreaksOff(t)
  PROVE  FilesInv'
<1> USE DEF FilesInv
<1>1. /\ life' = life /\ lives' = lives /\ met' = met /\ begun' = begun /\ left' = left
      /\ create' \in [Task -> BOOLEAN]
      /\ TypeOK'
  <2>1. /\ life' = life /\ lives' = lives /\ met' = met /\ begun' = begun /\ left' = left
    BY DEF Connect, NotFound, CreateDatabase, OpenBreaksOff, vars, task, traces
  <2>2. create' \in [Task -> BOOLEAN] /\ dropped' \subseteq dropped
    BY DEF Connect, NotFound, CreateDatabase, OpenBreaksOff, Return, vars, task
  <2>3. CASE Connect(t)
    BY <2>1, <2>2, <2>3, KnownFilesAre DEF Connect, Go, TypeOK
  <2>4. CASE NotFound(t)
    BY <2>1, <2>2, <2>4, KnownFilesAre DEF NotFound, TypeOK, vars, task
  <2>5. CASE CreateDatabase(t)
    BY <2>1, <2>2, <2>5, KnownFilesAre DEF CreateDatabase, Go, TypeOK
  <2>6. CASE OpenBreaksOff(t)
    BY <2>1, <2>2, <2>6, KnownFilesAre DEF OpenBreaksOff, Return, Go, TypeOK
  <2> QED
    BY <2>1, <2>2, <2>3, <2>4, <2>5, <2>6
<1>2. \A u \in Task : pc'[u] = "drop" <=> pc[u] = "drop"
  BY DEF Connect, NotFound, CreateDatabase, OpenBreaksOff, Return, Go, TypeOK, vars, task
<1>3. \A u \in Task : pc[u] = "drop" => next'[u] = next[u]
  BY DEF Connect, NotFound, CreateDatabase, OpenBreaksOff, Return, Go, TypeOK, vars, task
<1>4. Exists' = Exists /\ Lives' = Lives /\ Dropping' = Dropping
  BY <1>1, <1>2 DEF Exists, Lives, Dropping
<1>5. Reached'
  BY <1>1, <1>2, <1>3 DEF Reached
<1>6. SawTheFile'
  BY <1>4 DEF SawTheFile, Connect, NotFound, CreateDatabase, OpenBreaksOff, Return, Go, MayOpen,
     TypeOK, vars, task
<1> QED
  BY <1>1, <1>4, <1>5, <1>6 DEF OneLife, MissingIsClean, HalfDroppedIsHidden, Exists

LEMMA OpenKeeps ==
  ASSUME FilesInv, NEW t \in Task, Open(t)
  PROVE  FilesInv'
<1> USE DEF FilesInv
<1> DEFINE mine == IF Exists THEN life["main"] ELSE lives + 1
<1>1. PICK wanted \in SUBSET Files :
        life' = [f \in Files |->
                   IF f = "main" \/ (f \in wanted /\ life[f] = 0) THEN mine ELSE life[f]]
  BY DEF Open, Files
<1>2. /\ lives' = IF Exists THEN lives ELSE mine
      /\ met' = IF Dropping THEN met \cup {mine} \cup Lives ELSE met
      /\ begun' = begun /\ left' = left
  BY DEF Open
<1>3. /\ "main" \in Files /\ mine \in Nat \ {0} /\ mine <= lives'
      /\ lives' >= lives /\ lives' \in 0 .. MaxLives /\ life'["main"] = mine
  BY <1>1, <1>2, DatabaseFilesAssumption DEF Open, Exists, TypeOK, Files
<1>4. life' \in [Files -> 0 .. lives']
  BY <1>1, <1>3 DEF TypeOK
<1>5. Lives \subseteq 0 .. lives
  BY DEF Lives, TypeOK
<1>6. TypeOK' /\ create' \in [Task -> BOOLEAN]
  <2>0. lives \in Nat /\ 0 .. lives \subseteq 0 .. lives' /\ mine \in 0 .. lives'
    BY <1>3, DatabaseFilesAssumption DEF TypeOK
  <2>1. begun' \cup left' \cup met' \subseteq 0 .. lives'
    <3>1. begun \cup left \cup met \subseteq 0 .. lives
      BY DEF TypeOK
    <3> HIDE DEF mine
    <3>2. met' \subseteq met \cup {mine} \cup Lives
      BY <1>2
    <3> QED
      BY <3>1, <3>2, <2>0, <1>2, <1>5
  <2> QED
    BY <1>3, <1>4, <2>1, KnownFilesAre DEF Open, Return, Go, TypeOK
<1>7. /\ \A u \in Task : pc'[u] = "drop" <=> pc[u] = "drop"
      /\ \A u \in Task : pc[u] = "drop" => next'[u] = next[u]
  BY DEF Open, Return, Go, TypeOK
<1>8. Reached'
  BY <1>1, <1>2, <1>3, <1>7, KnownFilesAre DEF Reached, Dropping
<1>9. Exists'
  BY <1>3 DEF Exists
<1>10. OneLife'
  <2> SUFFICES ASSUME NEW f \in Sidecars
               PROVE  life'[f] \in {0, mine} \cup left \cup met'
    BY <1>2, <1>3 DEF OneLife
  <2>1. f \in Files /\ (life'[f] = mine \/ life'[f] = life[f])
    BY <1>1 DEF Sidecars
  <2>2. CASE Exists
    BY <1>2, <2>1, <2>2 DEF OneLife
  <2>3. CASE ~Exists
    BY <1>2, <2>1, <2>3 DEF MissingIsClean, Lives
  <2> QED
    BY <2>2, <2>3
<1>11. HalfDroppedIsHidden'
  BY <1>2, <1>3, <1>9 DEF HalfDroppedIsHidden, TypeOK, Exists
<1>12. SawTheFile' /\ MissingIsClean'
  BY <1>9 DEF SawTheFile, MissingIsClean
<1> QED
  BY <1>6, <1>8, <1>10, <1>11, <1>12

LEMMA RemoveKeeps ==
  ASSUME FilesInv, NEW t \in Task, RemoveFile(t)
  PROVE  FilesInv'
<1> USE DEF FilesInv
<1> DEFINE file == KnownFiles[next[t]]
<1>1. file \in Files /\ next[t] \in 1 .. 7 /\ pc[t] = "drop"
  BY KnownFilesAre DEF RemoveFile, Removing, TypeOK
<1>2. /\ life' = [life EXCEPT ![file] = 0] /\ next' = [next EXCEPT ![t] = @ + 1]
      /\ begun' = begun \cup {life[file]}
      /\ lives' = lives /\ pc' = pc /\ create' = create /\ left' = left /\ met' = met
  BY DEF RemoveFile
<1>3. \A f \in Files : life'[f] = IF f = file THEN 0 ELSE life[f]
  BY <1>2 DEF TypeOK
<1>4. TypeOK'
  <2>1. dropped' \subseteq Task
    BY DEF RemoveFile, Checked, TypeOK
  <2> QED
    BY <1>1, <1>2, <2>1, KnownFilesAre DEF TypeOK
<1>5. Reached'
  BY <1>1, <1>2, <1>3, KnownFilesAre DEF Reached, TypeOK
<1>6. "main" \in Files /\ (Exists' => Exists /\ file # "main" /\ life'["main"] = life["main"])
  BY <1>1, <1>3 DEF Exists, Files
<1>7. OneLife'
  BY <1>2, <1>3, <1>6 DEF OneLife, Sidecars
<1>8. MissingIsClean'
  BY <1>1, <1>2 DEF MissingIsClean, Dropping
<1>9. HalfDroppedIsHidden'
  <2> SUFFICES ASSUME Exists' PROVE life["main"] \notin begun' \ met
    BY <1>2, <1>6 DEF HalfDroppedIsHidden
  <2>1. life["main"] # 0 /\ next[t] # 1
    BY <1>6, KnownFilesAre DEF Exists
  <2>2. life["main"] \in met
    BY <1>1, <2>1, KnownFilesAre DEF Reached, TypeOK
  <2> QED
    BY <2>2
<1>10. SawTheFile'
  <2>1. ~Exists' /\ Exists => file = "main"
    BY <1>3, <1>6 DEF Exists
  <2>2. file = "main" => dropped' = dropped \cup Checked
    BY DEF RemoveFile
  <2>3. dropped \subseteq dropped'
    BY DEF RemoveFile
  <2> QED
    BY <1>2, <2>1, <2>2, <2>3 DEF SawTheFile, Checked
<1> QED
  BY <1>2, <1>4, <1>5, <1>7, <1>8, <1>9, <1>10

LEMMA DropStartsKeep ==
  ASSUME FilesInv, NEW t \in Task, DropDatabase(t)
  PROVE  FilesInv'
<1> USE DEF FilesInv
<1>1. /\ life' = life /\ lives' = lives /\ next' = next /\ create' = create /\ dropped' = dropped
      /\ begun' = begun /\ left' = left /\ met' = met
      /\ pc' = [pc EXCEPT ![t] = "drop"] /\ next[t] = 1
  BY DEF DropDatabase, Go, traces, TypeOK
<1>2. TypeOK'
  BY <1>1 DEF TypeOK
<1>3. Dropping' /\ Exists' = Exists
  BY <1>1 DEF Dropping, Exists, TypeOK
<1> QED
  BY <1>1, <1>2, <1>3 DEF Reached, SawTheFile, OneLife, MissingIsClean, HalfDroppedIsHidden, TypeOK

LEMMA DropEndsKeep ==
  ASSUME FilesInv, NEW t \in Task, DropDone(t) \/ DropBreaksOff(t)
  PROVE  FilesInv'
<1> USE DEF FilesInv
<1>1. /\ life' = life /\ lives' = lives /\ begun' = begun /\ met' = met
      /\ left' = left \/ left' = left \cup Lives
      /\ pc' = [pc EXCEPT ![t] = "idle"] /\ next' = [next EXCEPT ![t] = 1]
      /\ create' = [create EXCEPT ![t] = FALSE] /\ dropped' = dropped \ {t}
  BY DEF DropDone, DropBreaksOff, Return, Go, traces
<1>2. Lives' = Lives /\ Exists' = Exists /\ Lives \subseteq 0 .. lives
  BY <1>1 DEF Lives, Exists, TypeOK
<1>3. TypeOK' /\ create' \in [Task -> BOOLEAN]
  <2>1. begun' \cup left' \cup met' \subseteq 0 .. lives'
    BY <1>1, <1>2 DEF TypeOK
  <2> QED
    BY <1>1, <2>1, KnownFilesAre DEF TypeOK
<1>4. Reached' /\ SawTheFile' /\ OneLife' /\ HalfDroppedIsHidden'
  BY <1>1, <1>2 DEF Reached, SawTheFile, OneLife, HalfDroppedIsHidden, TypeOK
<1>5. Lives \subseteq left' \cup met
  <2>1. CASE DropBreaksOff(t)
    BY <2>1 DEF DropBreaksOff
  <2>2. CASE DropDone(t)
    <3>1. \A i \in 1 .. 7 : i < next[t]
      BY <2>2, KnownFilesAre DEF DropDone, TypeOK
    <3>2. \A f \in Files : life[f] \in {0} \cup met
      BY <2>2, <3>1, KnownFilesAre DEF DropDone, Reached
    <3> QED
      BY <3>2 DEF Lives
  <2> QED
    BY <2>1, <2>2
<1>6. MissingIsClean'
  BY <1>1, <1>2, <1>5 DEF MissingIsClean
<1> QED
  BY <1>3, <1>4, <1>6

LEMMA FilesStep == FilesInv /\ [Next]_vars => FilesInv'
<1> SUFFICES ASSUME FilesInv, [Next]_vars PROVE FilesInv'
  OBVIOUS
<1>1. CASE UNCHANGED vars
  BY <1>1 DEF vars, task, traces, FilesInv, TypeOK, Reached, SawTheFile, OneLife, MissingIsClean,
     HalfDroppedIsHidden, Exists, Lives, Dropping
<1>2. CASE Next
  BY <1>2, OthersKeep, OpenKeeps, RemoveKeeps, DropStartsKeep, DropEndsKeep DEF Next
<1> QED
  BY <1>1, <1>2

(* Type correctness of DatabaseFiles.                                        *)
THEOREM TypeCorrect == Spec => []TypeOK
<1>1. FilesInv => TypeOK
  BY DEF FilesInv
<1> QED
  BY FilesInit, FilesStep, <1>1, PTL DEF Spec

(* Sidecars of a dropped database beside a new one only come from a drop     *)
(* that broke off, or met an open.                                           *)
THEOREM OneLifeAlways == Spec => []OneLife
<1>1. FilesInv => OneLife
  BY DEF FilesInv
<1> QED
  BY FilesInit, FilesStep, <1>1, PTL DEF Spec

(* What database_exists calls missing has left nothing, likewise.            *)
THEOREM MissingIsCleanAlways == Spec => []MissingIsClean
<1>1. FilesInv => MissingIsClean
  BY DEF FilesInv
<1> QED
  BY FilesInit, FilesStep, <1>1, PTL DEF Spec

(* A database whose sidecars are being removed cannot be opened any more.    *)
THEOREM HalfDroppedIsHiddenAlways == Spec => []HalfDroppedIsHidden
<1>1. FilesInv => HalfDroppedIsHidden
  BY DEF FilesInv
<1> QED
  BY FilesInit, FilesStep, <1>1, PTL DEF Spec

(* A drop that returned Ok left nothing but what was opened meanwhile.       *)
THEOREM DroppedIsGoneAlways == Spec => DroppedIsGone
<1>1. FilesInv /\ [Next]_vars =>
        [\A t \in Task : next[t] > Len(KnownFiles) /\ pc'[t] = "idle" => Lives \subseteq met]_vars
  <2> SUFFICES ASSUME FilesInv, NEW t \in Task, next[t] > Len(KnownFiles)
               PROVE  Lives \subseteq met
    OBVIOUS
  <2>1. pc[t] = "drop" /\ \A i \in 1 .. 7 : i < next[t]
    BY KnownFilesAre DEF FilesInv, TypeOK
  <2>2. \A f \in Files : life[f] \in {0} \cup met
    BY <2>1, KnownFilesAre DEF FilesInv, Reached
  <2> QED
    BY <2>2 DEF Lives
<1> QED
  BY FilesInit, FilesStep, <1>1, PTL DEF Spec, DroppedIsGone

(* Only a connect that may create the file, or lost it to a drop, does.      *)
THEOREM NoFileUnlessAskedAlways == Spec => NoFileUnlessAsked
<1> DEFINE Asked == \A t \in Task :
             pc[t] = "open" /\ pc'[t] = "idle" /\ lives' > lives => create[t] \/ t \in dropped
<1>1. FilesInv /\ [Next]_vars => [Asked]_vars
  <2> SUFFICES ASSUME FilesInv, Next, NEW t \in Task, pc[t] = "open", pc'[t] = "idle", lives' > lives,
                      ~create[t]
               PROVE  t \in dropped
    BY DEF vars
  <2>1. PICK u \in Task : Connect(u) \/ NotFound(u) \/ CreateDatabase(u) \/ Open(u)
                          \/ OpenBreaksOff(u) \/ DropDatabase(u) \/ RemoveFile(u)
                          \/ DropBreaksOff(u) \/ DropDone(u)
    BY DEF Next
  <2>2. lives \in Nat /\ lives' # lives
    BY DatabaseFilesAssumption DEF FilesInv, TypeOK
  <2>3. lives' = lives \/ Open(u)
    BY <2>1 DEF Connect, NotFound, CreateDatabase, OpenBreaksOff, DropDatabase, RemoveFile,
       DropBreaksOff, DropDone, vars
  <2>4. Open(u) /\ ~Exists
    BY <2>2, <2>3 DEF Open
  <2> QED
    BY <2>4 DEF FilesInv, SawTheFile
<1> QED
  BY FilesInit, FilesStep, <1>1, PTL DEF Spec, NoFileUnlessAsked
=============================================================================
