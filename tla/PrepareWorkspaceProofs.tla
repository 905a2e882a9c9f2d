----------------------- MODULE PrepareWorkspaceProofs -----------------------
(* Machine-checked proofs about PrepareWorkspace, for any number of          *)
(* processes, ways to give them process ids, runs, failed calls and kills.   *)
EXTENDS PrepareWorkspace, WellFoundedInduction, TLAPS

USE PrepareAssumption DEF Finished

-----------------------------------------------------------------------------
(* unique_sibling.                                                           *)

LEMMA LeastNatural ==
  ASSUME NEW T, T \subseteq Nat, T # {}
  PROVE  \E x \in T : \A y \in T : x <= y
<1> DEFINE R == OpToRel(<, Nat)
<1>1. IsWellFoundedOn(R, Nat)
  BY NatLessThanWellFounded
<1>2. \A x \in Nat, y \in Nat : x < y => <<x, y>> \in R
  BY DEF OpToRel
<1> HIDE DEF R
<1>3. PICK x \in T : \A y \in T : ~ (<<y, x>> \in R)
  BY <1>1, WFMin
<1>4. ASSUME NEW y \in T PROVE x <= y
  <2>1. ~ (<<y, x>> \in R) /\ x \in Nat /\ y \in Nat
    BY <1>3
  <2>2. ~ (y < x)
    BY <1>2, <2>1, Zenon
  <2> QED BY <2>1, <2>2
<1> QED BY <1>4

(* The candidate it returns is a name of the process and stands for nothing. *)
LEMMA SiblingIsFree ==
  ASSUME TypeOK, NEW p \in Proc, NEW role \in {"tmp", "old"}, HasSibling(p, role)
  PROVE  /\ UniqueSibling(p, role) \in Names
         /\ UniqueSibling(p, role).role = role
         /\ UniqueSibling(p, role).pid = pid[p]
         /\ ~Exists(UniqueSibling(p, role))
<1> DEFINE Candidate(n) == [role |-> role, pid |-> pid[p], attempt |-> n]
           Free == {i \in 0 .. MaxAttempt : ~Exists(Candidate(i))}
           First(i) == /\ ~Exists(Candidate(i))
                       /\ \A j \in 0 .. i - 1 : Exists(Candidate(j))
           n == CHOOSE i \in 0 .. MaxAttempt : First(i)
<1>1. Free \subseteq Nat /\ Free # {}
  BY DEF HasSibling
<1>2. PICK i \in Free : \A j \in Free : i <= j
  BY <1>1, LeastNatural
<1>3. \A j \in 0 .. i - 1 : Exists(Candidate(j))
  <2> TAKE j \in 0 .. i - 1
  <2>1. j \in 0 .. MaxAttempt /\ ~(i <= j)
    BY <1>1
  <2> QED BY <1>2, <2>1
<1>4. i \in 0 .. MaxAttempt /\ First(i)
  BY <1>3
<1> HIDE DEF First
<1>5. n \in 0 .. MaxAttempt /\ First(n)
  BY <1>4, Zenon
<1>6. UniqueSibling(p, role) = Candidate(n)
  BY DEF UniqueSibling, First
<1> HIDE DEF n
<1>7. Candidate(n) \in Names
  <2>1. pid \in Pids /\ pid \in [Proc -> Nat]
    BY DEF TypeOK
  <2>2. pid[p] \in UNION {{pidOf[q] : q \in Proc} : pidOf \in Pids}
    BY <2>1
  <2> QED BY <1>5, <2>2 DEF Names
<1> QED BY <1>5, <1>6, <1>7 DEF First

-----------------------------------------------------------------------------
(* The inductive invariant.                                                  *)

(* From create on, until its directory is installed or given up. *)
Staged(p) ==
  pc[p] \in {"check", "cleanup", "commit", "look", "aside", "install", "restore"}

(* Between create and the end of a run. *)
Working(p) == Staged(p) \/ pc[p] = "remove"

(* What a process knows of its staging directory, and, if no other process   *)
(* has its id, of its backup.                                                *)
OwnNames(p) ==
  /\ Staged(p) => staging[p].role = "tmp" /\ Exists(staging[p])
  /\ pc[p] \in {"commit", "look", "aside", "install", "restore"} => Complete(fs[staging[p]])
  /\ Working(p) => backup[p].role = "old" /\ backup[p].pid = pid[p]
  /\ pc[p] = "aside" => had[p]

OwnBackup(p) ==
  /\ pc[p] \in {"check", "cleanup", "commit", "look", "aside"} => ~Exists(backup[p])
  /\ pc[p] = "install" /\ had[p] => Complete(fs[backup[p]])
  /\ pc[p] \in {"restore", "remove"} => Complete(fs[backup[p]])

Owned(p) == OwnNames(p) /\ (OwnPids => OwnBackup(p))

(* No two runs stage in the same directory, whatever their process ids. *)
StagingsApart ==
  \A p, q \in Proc : p # q /\ Staged(p) /\ Staged(q) => staging[p] # staging[q]

(* Nothing runs where the offline directory is a file. *)
FileStopsAll == fs[Final].kind = "file" => \A p \in Proc : pc[p] = "idle"

(* Without failures nothing is ever half removed. *)
BackupsWhole ==
  errors + kills = 0 => \A n \in Names : n.role = "old" => fs[n].kind \in {"none"} \cup Finished

(* Complete metadata that no process is about to remove. *)
Safe(n) ==
  /\ n.role # "tmp" /\ Complete(fs[n])
  /\ \A p \in Proc : pc[p] = "remove" => backup[p] # n

(* Whoever removes the old metadata leaves other metadata. *)
Replaced == OwnPids /\ (\E p \in Proc : pc[p] = "remove") => \E n \in Names : Safe(n)

(* Metadata is in place or a process is about to put it there. *)
InPlace ==
  \/ Complete(fs[Final])
  \/ \E p \in Proc : (pc[p] = "install" /\ had[p]) \/ (pc[p] = "restore" /\ errors > 0)

Undisturbed == kills = 0 /\ errors <= (IF OwnPids THEN 1 ELSE 0)

Published == Kept \/ \E p \in Proc : result[p] = "ok" \/ pc[p] = "remove"

Returns == Undisturbed /\ Published => InPlace

IInv ==
  /\ TypeOK
  /\ \A p \in Proc : Owned(p)
  /\ StagingsApart
  /\ FileStopsAll
  /\ FinalNeverPartial
  /\ BackupsWhole
  /\ Replaced
  /\ Returns

-----------------------------------------------------------------------------
(* The directory after a call.                                               *)

Disk == [Names -> [kind : Kinds, run : 0 .. MaxRuns]]

LEMMA FinalIsName == Final \in Names /\ Final.role = "final"
BY DEF Final, Names

LEMMA RenameIs ==
  ASSUME fs \in Disk, NEW a \in Names, NEW b \in Names, a # b, fs' = Rename(a, b)
  PROVE  /\ fs' \in Disk /\ fs'[b] = fs[a] /\ fs'[a].kind = "none"
         /\ \A n \in Names \ {a, b} : fs'[n] = fs[n]
<1>1. None \in [kind : Kinds, run : 0 .. MaxRuns] /\ None.kind = "none"
  BY DEF None, Kinds
<1> QED BY <1>1 DEF Rename, Disk

LEMMA RemovedIs ==
  ASSUME fs \in Disk, NEW a \in Names, fs' = Removed(a)
  PROVE  /\ fs' \in Disk /\ fs'[a].kind = "none"
         /\ \A n \in Names \ {a} : fs'[n] = fs[n]
<1>1. None \in [kind : Kinds, run : 0 .. MaxRuns] /\ None.kind = "none"
  BY DEF None, Kinds
<1> QED BY <1>1 DEF Removed, Disk

LEMMA HalfRemovedIs ==
  ASSUME fs \in Disk, NEW a \in Names, fs' = HalfRemoved(a)
  PROVE  /\ fs' \in Disk
         /\ fs'[a].kind = IF fs[a].kind \in {"some", "whole"} THEN "part" ELSE fs[a].kind
         /\ \A n \in Names \ {a} : fs'[n] = fs[n]
<1>1. fs[a] \in [kind : Kinds, run : 0 .. MaxRuns] /\ "part" \in Kinds
  BY DEF Disk, Kinds
<1>2. CASE fs[a].kind \in {"part", "some", "whole"}
  <2>1. fs' = [fs EXCEPT ![a] = [fs[a] EXCEPT !.kind = "part"]]
    BY <1>2 DEF HalfRemoved, Disk
  <2> QED BY <1>1, <1>2, <2>1 DEF Disk
<1>3. CASE fs[a].kind \notin {"part", "some", "whole"}
  BY <1>3 DEF HalfRemoved
<1> QED BY <1>2, <1>3

LEMMA DirIs ==
  ASSUME fs \in Disk, NEW a \in Names, NEW kind \in Kinds, NEW r \in 0 .. MaxRuns,
         fs' = [fs EXCEPT ![a] = Dir(kind, r)]
  PROVE  /\ fs' \in Disk /\ fs'[a].kind = kind
         /\ \A n \in Names \ {a} : fs'[n] = fs[n]
BY DEF Disk, Dir

-----------------------------------------------------------------------------
(* What a step of one process leaves of the invariant.                       *)

(* Process p moves; it may touch the offline directory, its backup and, as   *)
(* long as it has one, its staging directory.                                *)
Touches(p) ==
  \A n \in Names : \/ fs'[n] = fs[n]
                   \/ n = Final
                   \/ Working(p) /\ n = backup[p]
                   \/ Staged(p) /\ n = staging[p]

OthersStay(p) ==
  /\ pid' = pid
  /\ \A q \in Proc \ {p} :
       pc'[q] = pc[q] /\ staging'[q] = staging[q] /\ backup'[q] = backup[q] /\ had'[q] = had[q]

LEMMA OthersOwn ==
  ASSUME IInv, NEW p \in Proc, Touches(p), OthersStay(p)
  PROVE  \A q \in Proc \ {p} : Owned(q)'
<1> SUFFICES ASSUME NEW q \in Proc, q # p PROVE Owned(q)'
  OBVIOUS
<1>1. Owned(p) /\ Owned(q) /\ staging \in [Proc -> Names] /\ backup \in [Proc -> Names]
  BY DEF IInv, TypeOK
<1>2. /\ pc'[q] = pc[q] /\ staging'[q] = staging[q] /\ backup'[q] = backup[q]
      /\ had'[q] = had[q] /\ pid' = pid
  BY DEF OthersStay
<1>3. Staged(q) => fs'[staging[q]] = fs[staging[q]]
  <2> SUFFICES ASSUME Staged(q) PROVE fs'[staging[q]] = fs[staging[q]]
    OBVIOUS
  <2>1. staging[q] \in Names /\ staging[q].role = "tmp"
    BY <1>1 DEF Owned, OwnNames
  <2>2. staging[q] # Final
    BY <2>1, FinalIsName
  <2>3. Working(p) => staging[q] # backup[p]
    BY <1>1, <2>1 DEF Owned, OwnNames
  <2>4. Staged(p) => staging[q] # staging[p]
    BY DEF IInv, StagingsApart
  <2> QED BY <2>1, <2>2, <2>3, <2>4 DEF Touches
<1>4. OwnPids /\ Working(q) => fs'[backup[q]] = fs[backup[q]]
  <2> SUFFICES ASSUME OwnPids, Working(q) PROVE fs'[backup[q]] = fs[backup[q]]
    OBVIOUS
  <2>1. backup[q] \in Names /\ backup[q].role = "old" /\ backup[q].pid = pid[q]
    BY <1>1 DEF Owned, OwnNames
  <2>2. backup[q] # Final
    BY <2>1, FinalIsName
  <2>3. Working(p) => backup[q] # backup[p]
    BY <1>1, <2>1 DEF Owned, OwnNames, OwnPids
  <2>4. Staged(p) => backup[q] # staging[p]
    BY <1>1, <2>1 DEF Owned, OwnNames
  <2> QED BY <2>1, <2>2, <2>3, <2>4 DEF Touches
<1>5. OwnPids' = OwnPids
  BY <1>2 DEF OwnPids
<1>6. OwnNames(q)'
  BY <1>1, <1>2, <1>3 DEF Owned, OwnNames, Staged, Working, Exists, Complete
<1>7. OwnPids => OwnBackup(q)'
  BY <1>1, <1>2, <1>4 DEF Owned, OwnBackup, Staged, Working, Exists, Complete
<1> QED BY <1>5, <1>6, <1>7 DEF Owned

LEMMA ApartStay ==
  ASSUME IInv, NEW p \in Proc, OthersStay(p), staging'[p] = staging[p], Staged(p)' => Staged(p)
  PROVE  StagingsApart'
BY DEF IInv, StagingsApart, OthersStay, Staged

(* The step installs nothing. *)
LEMMA ReplacedStays ==
  ASSUME IInv, NEW p \in Proc, OthersStay(p), backup'[p] = backup[p],
         pc'[p] = "remove" => pc[p] = "remove",
         \A n \in Names : OwnPids /\ Safe(n) => Complete(fs'[n])
  PROVE  Replaced'
<1> SUFFICES ASSUME OwnPids', NEW q \in Proc, pc'[q] = "remove"
             PROVE  \E n \in Names : Safe(n)'
  BY DEF Replaced
<1>1. OwnPids /\ pc[q] = "remove"
  BY DEF OthersStay, OwnPids
<1>2. PICK n \in Names : Safe(n)
  BY <1>1 DEF IInv, Replaced
<1>3. Complete(fs[n])'
  BY <1>1, <1>2 DEF Complete
<1>4. \A w \in Proc : pc'[w] = "remove" => backup'[w] # n
  BY <1>2 DEF Safe, OthersStay
<1> QED BY <1>2, <1>3, <1>4 DEF Safe

(* Neither the offline directory nor what is to be moved there is touched.   *)
LEMMA ReturnsStays ==
  ASSUME IInv, NEW p \in Proc, OthersStay(p),
         fs'[Final] = fs[Final], Kept' => Kept,
         \A q \in Proc \ {p} : result'[q] = result[q],
         result'[p] = "ok" => result[p] = "ok" \/ pc[p] = "remove",
         pc'[p] = "remove" => pc[p] = "remove",
         pc[p] \notin {"install", "restore"},
         errors' \in Nat, kills' \in Nat, errors' >= errors, kills' >= kills
  PROVE  Returns'
<1> SUFFICES ASSUME Undisturbed', Published' PROVE InPlace'
  BY DEF Returns
<1>1. errors \in Nat /\ kills \in Nat
  BY DEF IInv, TypeOK
<1>2. Undisturbed
  <2>1. OwnPids' = OwnPids
    BY DEF OthersStay, OwnPids
  <2> QED BY <1>1, <2>1 DEF Undisturbed
<1>3. Published
  BY DEF Published, OthersStay
<1>4. InPlace
  BY <1>2, <1>3 DEF IInv, Returns
<1> QED BY <1>1, <1>4 DEF InPlace, OthersStay, Complete

-----------------------------------------------------------------------------
(* One lemma for each action.                                                *)

LEMMA Facts ==
  ASSUME IInv
  PROVE  /\ TypeOK /\ fs \in Disk
         /\ pc \in [Proc -> {"idle", "create", "check", "cleanup", "commit", "look",
                             "aside", "install", "restore", "remove"}]
         /\ run \in [Proc -> 0 .. MaxRuns]
         /\ staging \in [Proc -> Names] /\ backup \in [Proc -> Names]
         /\ had \in [Proc -> BOOLEAN]
         /\ result \in [Proc -> {"none", "ok", "err", "killed"}]
         /\ runs \in Nat /\ errors \in Nat /\ kills \in Nat
         /\ runs <= MaxRuns /\ errors <= MaxErrors /\ kills <= MaxKills
         /\ \A n \in Names \ {Final} : fs[n].kind # "file"
         /\ \A p \in Proc : Owned(p)
BY DEF IInv, TypeOK, Disk

LEMMA StartKeeps ==
  ASSUME IInv, NEW p \in Proc, Start(p) \/ RefusePath(p), UNCHANGED pid
  PROVE  IInv'
<1>1. /\ pc[p] = "idle" /\ runs < MaxRuns /\ runs' = runs + 1
      /\ run' = [run EXCEPT ![p] = runs + 1]
      /\ UNCHANGED <<fs, staging, backup, had, errors, kills, pid>>
      /\ \/ pc' = pc /\ result' = [result EXCEPT ![p] = "err"]
         \/ /\ fs[Final].kind # "file"
            /\ pc' = [pc EXCEPT ![p] = "create"] /\ result' = result
  BY Facts DEF Start, RefusePath, Return, Goto, Stay
<1>2. /\ pc'[p] \in {"idle", "create"}
      /\ pc'[p] = "create" => fs[Final].kind # "file"
      /\ \A q \in Proc \ {p} : pc'[q] = pc[q] /\ result'[q] = result[q]
      /\ result'[p] = "ok" => result[p] = "ok"
  BY <1>1, Facts
<1>3. OthersStay(p) /\ Touches(p)
  BY <1>1, <1>2 DEF OthersStay, Touches
<1>4. TypeOK'
  <2>1. run' \in [Proc -> 0 .. MaxRuns] /\ runs' \in 0 .. MaxRuns
    BY <1>1, Facts
  <2>2. /\ pc' \in [Proc -> {"idle", "create", "check", "cleanup", "commit", "look",
                             "aside", "install", "restore", "remove"}]
        /\ result' \in [Proc -> {"none", "ok", "err", "killed"}]
    BY <1>1, Facts
  <2> QED BY <1>1, <2>1, <2>2 DEF IInv, TypeOK
<1>5. Owned(p)'
  BY <1>2 DEF Owned, OwnNames, OwnBackup, Staged, Working
<1>6. StagingsApart'
  BY <1>1, <1>2, <1>3, ApartStay DEF Staged
<1>7. FileStopsAll'
  BY <1>1, <1>2 DEF IInv, FileStopsAll
<1>8. FinalNeverPartial' /\ BackupsWhole'
  BY <1>1 DEF IInv, FinalNeverPartial, BackupsWhole, OwnPids
<1>9. Replaced'
  BY <1>1, <1>2, <1>3, ReplacedStays DEF Safe
<1>10. Returns'
  <2>1. Kept' = Kept /\ pc[p] \notin {"install", "restore"} /\ pc'[p] # "remove"
    BY <1>1, <1>2 DEF Kept, Complete
  <2> QED BY <1>1, <1>2, <1>3, <2>1, ReturnsStays, Facts
<1> QED BY <1>3, <1>4, <1>5, <1>6, <1>7, <1>8, <1>9, <1>10, OthersOwn DEF IInv

LEMMA CreateKeeps ==
  ASSUME IInv, NEW p \in Proc, Create(p), UNCHANGED pid
  PROVE  IInv'
<1> DEFINE new == UniqueSibling(p, "tmp")
           old == UniqueSibling(p, "old")
<1>1. /\ pc[p] = "create"
      /\ fs' = [fs EXCEPT ![new] = Dir("fresh", run[p])]
      /\ staging' = [staging EXCEPT ![p] = new] /\ backup' = [backup EXCEPT ![p] = old]
      /\ pc' = [pc EXCEPT ![p] = "check"]
      /\ UNCHANGED <<result, run, had, runs, errors, kills, pid>>
  BY DEF Create, Goto, Stay, counters
<1>2. /\ new \in Names /\ new.role = "tmp" /\ ~Exists(new)
      /\ old \in Names /\ old.role = "old" /\ old.pid = pid[p] /\ ~Exists(old)
  BY Facts, SiblingIsFree DEF Create
<1> HIDE DEF new, old
<1>3. /\ fs' \in Disk /\ fs'[new].kind = "fresh"
      /\ \A n \in Names \ {new} : fs'[n] = fs[n]
  BY <1>1, <1>2, Facts, DirIs DEF Kinds
<1>4. /\ pc'[p] = "check" /\ staging'[p] = new /\ backup'[p] = old
      /\ \A q \in Proc \ {p} : pc'[q] = pc[q] /\ staging'[q] = staging[q] /\ backup'[q] = backup[q]
  BY <1>1, Facts
<1>5. new # Final /\ new # old /\ fs'[Final] = fs[Final] /\ fs'[old] = fs[old]
  BY <1>2, <1>3, FinalIsName
<1>6. OthersStay(p)
  BY <1>1, <1>4 DEF OthersStay
<1>7. TypeOK'
  BY <1>1, <1>2, <1>3, Facts DEF TypeOK, Disk
<1>8. Owned(p)'
  BY <1>1, <1>2, <1>3, <1>4, <1>5
     DEF Owned, OwnNames, OwnBackup, Staged, Working, Exists
<1>9. \A q \in Proc \ {p} :
        /\ Owned(q) /\ Staged(q) => staging[q] # new
        /\ Owned(q) /\ Working(q) => backup[q] # new
  BY <1>2 DEF Owned, OwnNames
<1>10. \A q \in Proc \ {p} : Owned(q)'
  <2> SUFFICES ASSUME NEW q \in Proc \ {p} PROVE Owned(q)'
    OBVIOUS
  <2>1. Owned(q) /\ staging[q] \in Names /\ backup[q] \in Names
    BY Facts
  <2>2. OwnPids' = OwnPids
    BY <1>1 DEF OwnPids
  <2>3. OwnNames(q)'
    BY <1>1, <1>3, <1>4, <1>9, <2>1 DEF Owned, OwnNames, Staged, Working, Exists, Complete
  <2>4. OwnPids => OwnBackup(q)'
    BY <1>1, <1>3, <1>4, <1>9, <2>1 DEF Owned, OwnBackup, Staged, Working, Exists, Complete
  <2> QED BY <2>2, <2>3, <2>4 DEF Owned
<1>11. StagingsApart'
  BY <1>4, <1>9, Facts DEF IInv, StagingsApart, Staged
<1>12. FileStopsAll'
  BY <1>1, <1>4, <1>5 DEF IInv, FileStopsAll
<1>13. FinalNeverPartial' /\ BackupsWhole'
  BY <1>1, <1>2, <1>3, <1>5 DEF IInv, FinalNeverPartial, BackupsWhole, OwnPids
<1>14. Replaced'
  <2> SUFFICES ASSUME OwnPids', NEW q \in Proc, pc'[q] = "remove"
               PROVE  \E n \in Names : Safe(n)'
    BY DEF Replaced
  <2>1. OwnPids /\ pc[q] = "remove"
    BY <1>1, <1>4 DEF OwnPids
  <2>2. PICK n \in Names : Safe(n)
    BY <2>1 DEF IInv, Replaced
  <2>3. n # new
    BY <1>2, <2>2 DEF Safe
  <2>4. Safe(n)'
    BY <1>3, <1>4, <2>2, <2>3 DEF Safe, Complete
  <2> QED BY <2>4
<1>15. Returns'
  <2>1. Kept' => Kept
    BY <1>2, <1>3 DEF Kept, Complete
  <2> QED BY <1>1, <1>4, <1>5, <1>6, <2>1, Facts, ReturnsStays
<1> QED BY <1>7, <1>8, <1>10, <1>11, <1>12, <1>13, <1>14, <1>15 DEF IInv

(* What is left to show for a process past the checks of create. *)
LEMMA MoveKeeps ==
  ASSUME IInv, NEW p \in Proc, pc[p] # "idle", OthersStay(p), Touches(p),
         staging'[p] = staging[p], Staged(p)' => Staged(p),
         TypeOK', Owned(p)', fs'[Final].kind # "file",
         FinalNeverPartial', BackupsWhole', Replaced', Returns'
  PROVE  IInv'
<1>1. FileStopsAll'
  BY DEF FileStopsAll
<1> QED BY <1>1, OthersOwn, ApartStay DEF IInv

LEMMA FailuresGrow ==
  ASSUME IInv, TypeOK', errors' >= errors, kills' >= kills
  PROVE  /\ errors' \in Nat /\ kills' \in Nat
         /\ errors' + kills' = 0 => errors + kills = 0
<1>1. /\ errors' \in Nat /\ kills' \in Nat /\ errors \in Nat /\ kills \in Nat
  BY DEF IInv, TypeOK
<1>2. \A a, b, c, d \in Nat : c >= a /\ d >= b /\ c + d = 0 => a + b = 0
  OBVIOUS
<1> QED BY <1>1, <1>2, Zenon

(* A step that touches the own staging directory at most. *)
LEMMA StagingKeeps ==
  ASSUME IInv, NEW p \in Proc, OthersStay(p),
         pc[p] \notin {"idle", "install", "restore"}, pc'[p] # "remove",
         staging'[p] = staging[p], backup'[p] = backup[p], Staged(p)' => Staged(p),
         \A n \in Names : fs'[n] = fs[n] \/ (Staged(p) /\ n = staging[p]),
         \A q \in Proc \ {p} : result'[q] = result[q],
         result'[p] = "ok" => result[p] = "ok",
         errors' >= errors, kills' >= kills,
         TypeOK', Owned(p)'
  PROVE  IInv'
<1>1. Touches(p)
  BY DEF Touches
<1>2. Staged(p) => staging[p].role = "tmp"
  BY Facts DEF Owned, OwnNames
<1>3. fs'[Final] = fs[Final]
  BY <1>2, FinalIsName
<1>4. fs[Final].kind # "file"
  BY DEF IInv, FileStopsAll
<1>5. /\ errors' \in Nat /\ kills' \in Nat /\ OwnPids' = OwnPids
      /\ errors' + kills' = 0 => errors + kills = 0
  BY FailuresGrow DEF OthersStay, OwnPids
<1>6. FinalNeverPartial'
  BY <1>3, <1>5 DEF IInv, FinalNeverPartial
<1>7. BackupsWhole'
  BY <1>2, <1>5 DEF IInv, BackupsWhole
<1>8. Replaced'
  BY <1>2, ReplacedStays DEF Safe
<1>9. Kept' => Kept
  BY <1>2 DEF Kept, Complete
<1>10. Returns'
  BY <1>3, <1>5, <1>9, ReturnsStays
<1> QED BY <1>1, <1>3, <1>4, <1>6, <1>7, <1>8, <1>10, MoveKeeps

(* A step that removes the backup, some of it, or nothing. *)
LEMMA RemovalKeeps ==
  ASSUME IInv, NEW p \in Proc, OthersStay(p),
         pc[p] \in {"commit", "remove"}, pc'[p] \in {"look", "idle"},
         pc'[p] = "look" => pc[p] = "commit",
         staging'[p] = staging[p], backup'[p] = backup[p],
         \A n \in Names \ {backup[p]} : fs'[n] = fs[n],
         \/ fs'[backup[p]].kind = "none"
         \/ fs'[backup[p]] = fs[backup[p]]
         \/ /\ fs'[backup[p]].kind = IF fs[backup[p]].kind \in {"some", "whole"} THEN "part"
                                     ELSE fs[backup[p]].kind
            /\ errors' + kills' # 0,
         \A q \in Proc \ {p} : result'[q] = result[q],
         result'[p] = "ok" => result[p] = "ok" \/ pc[p] = "remove",
         errors' >= errors, kills' >= kills,
         TypeOK', Owned(p)'
  PROVE  IInv'
<1>1. /\ backup[p] \in Names /\ backup[p].role = "old" /\ Owned(p) /\ Working(p)
      /\ Staged(p)' => Staged(p)
  <2>1. Owned(p) /\ backup[p] \in Names
    BY Facts
  <2>2. Working(p) /\ (Staged(p)' => Staged(p))
    BY DEF Staged, Working
  <2> QED BY <2>1, <2>2 DEF Owned, OwnNames
<1>2. fs'[Final] = fs[Final] /\ Touches(p)
  BY <1>1, FinalIsName DEF Touches
<1>3. fs[Final].kind # "file"
  BY DEF IInv, FileStopsAll
<1>4. OwnPids' = OwnPids
  BY DEF OthersStay, OwnPids
<1>5. /\ errors' \in Nat /\ kills' \in Nat
      /\ errors' + kills' = 0 => errors + kills = 0
  BY FailuresGrow
<1>6. FinalNeverPartial'
  BY <1>2, <1>4, <1>5 DEF IInv, FinalNeverPartial
<1>7. BackupsWhole'
  BY <1>5 DEF IInv, BackupsWhole
<1>8. Replaced'
  <2>1. ASSUME NEW n \in Names, OwnPids, Safe(n) PROVE Complete(fs'[n])
    <3>1. n # backup[p]
      BY <1>1, <2>1 DEF Safe, Owned, OwnBackup, Exists, Complete
    <3> QED BY <2>1, <3>1 DEF Safe
  <2> QED BY <2>1, ReplacedStays
<1>9. Kept' => Kept
  BY <1>1 DEF Kept, Complete
<1>10. Returns'
  BY <1>2, <1>5, <1>9, ReturnsStays
<1> QED BY <1>1, <1>2, <1>3, <1>6, <1>7, <1>8, <1>10, MoveKeeps

(* The updates every action is made of. *)
LEMMA Moved ==
  ASSUME IInv, NEW p \in Proc, NEW l, Goto(p, l)
  PROVE  pc'[p] = l /\ \A q \in Proc \ {p} : pc'[q] = pc[q]
BY Facts DEF Goto

LEMMA Returned ==
  ASSUME IInv, NEW p \in Proc, NEW r, Return(p, r)
  PROVE  /\ pc'[p] = "idle" /\ result'[p] = r
         /\ \A q \in Proc \ {p} : pc'[q] = pc[q] /\ result'[q] = result[q]
BY Facts DEF Return, Goto

LEMMA Idle ==
  ASSUME NEW p \in Proc, pc'[p] = "idle"
  PROVE  Owned(p)' /\ ~Staged(p)'
BY DEF Owned, OwnNames, OwnBackup, Staged, Working

LEMMA CreateFailsKeeps ==
  ASSUME IInv, NEW p \in Proc, CreateFails(p), UNCHANGED pid
  PROVE  IInv'
<1>1. /\ pc[p] = "create" /\ Return(p, "err")
      /\ UNCHANGED <<fs, run, staging, backup, had, runs, kills, pid>>
      /\ (errors' = errors \/ (errors < MaxErrors /\ errors' = errors + 1))
  BY DEF CreateFails, Fail, workspace
<1>2. /\ pc'[p] = "idle" /\ result'[p] = "err"
      /\ \A q \in Proc \ {p} : pc'[q] = pc[q] /\ result'[q] = result[q]
  BY <1>1, Returned
<1>3. OthersStay(p)
  BY <1>1, <1>2 DEF OthersStay
<1>4. errors' >= errors /\ kills' >= kills /\ errors' \in 0 .. MaxErrors
  BY <1>1, Facts
<1>5. TypeOK'
  BY <1>1, <1>4, Facts DEF TypeOK, Return, Goto
<1> QED BY <1>1, <1>2, <1>3, <1>4, <1>5, Idle, StagingKeeps

LEMMA CargoKeeps ==
  ASSUME IInv, NEW p \in Proc, Cargo(p), UNCHANGED pid
  PROVE  IInv'
<1>1. /\ pc[p] = "check" /\ UNCHANGED <<run, staging, backup, had, runs, errors, kills, pid>>
      /\ \/ /\ pc' = pc /\ result' = result
            /\ fs' = [fs EXCEPT ![staging[p]] = Dir("part", run[p])]
         \/ /\ pc' = [pc EXCEPT ![p] = "commit"] /\ result' = result
            /\ \E kind \in Finished : fs' = [fs EXCEPT ![staging[p]] = Dir(kind, run[p])]
         \/ pc' = [pc EXCEPT ![p] = "cleanup"] /\ result' = result /\ fs' = fs
         \/ /\ pc' = [pc EXCEPT ![p] = "idle"] /\ result' = [result EXCEPT ![p] = "err"]
            /\ fs' = fs
  BY DEF Cargo, CargoWrites, CargoSucceeds, CargoFails, CargoMissing, Goto, Return, Stay,
         workspace, counters
<1>2. /\ Owned(p) /\ Staged(p) /\ staging[p] \in Names /\ run[p] \in 0 .. MaxRuns
      /\ staging[p].role = "tmp" /\ backup[p].role = "old"
  <2>1. Owned(p) /\ staging[p] \in Names /\ run[p] \in 0 .. MaxRuns
    BY Facts
  <2>2. Staged(p)
    BY <1>1 DEF Staged
  <2> QED BY <2>1, <2>2 DEF Owned, OwnNames, Working
<1>3. /\ fs' \in Disk /\ \A n \in Names : fs'[n] = fs[n] \/ n = staging[p]
      /\ fs'[staging[p]].kind = fs[staging[p]].kind \/ fs'[staging[p]].kind \in {"part"} \cup Finished
      /\ pc'[p] = "commit" => fs'[staging[p]].kind \in Finished
  <2>1. CASE fs' = fs /\ pc'[p] # "commit"
    BY <1>1, <2>1, Facts
  <2>2. CASE pc' = pc /\ fs' = [fs EXCEPT ![staging[p]] = Dir("part", run[p])]
    <3>1. "part" \in Kinds /\ run[p] \in 0 .. MaxRuns /\ staging[p] \in Names
      BY Facts DEF Kinds
    <3>2. fs' \in Disk /\ fs'[staging[p]].kind = "part"
          /\ \A n \in Names \ {staging[p]} : fs'[n] = fs[n]
      BY <2>2, <3>1, Facts, DirIs
    <3> QED BY <1>1, <1>2, <2>2, <3>2
  <2>3. CASE /\ pc' = [pc EXCEPT ![p] = "commit"]
             /\ \E kind \in Finished : fs' = [fs EXCEPT ![staging[p]] = Dir(kind, run[p])]
    <3>1. PICK kind \in Finished : fs' = [fs EXCEPT ![staging[p]] = Dir(kind, run[p])]
      BY <2>3
    <3>2. kind \in Kinds
      BY DEF Kinds
    <3>3. fs \in Disk
      BY Facts
    <3>4. /\ fs' \in Disk /\ fs'[staging[p]].kind = kind
          /\ \A n \in Names \ {staging[p]} : fs'[n] = fs[n]
      BY <1>2, <3>1, <3>2, <3>3, DirIs
    <3> QED BY <3>1, <3>4
  <2> QED BY <1>1, <2>1, <2>2, <2>3, Facts
<1>4. /\ pc'[p] \in {"check", "commit", "cleanup", "idle"}
      /\ \A q \in Proc \ {p} : pc'[q] = pc[q] /\ result'[q] = result[q]
      /\ result'[p] = "ok" => result[p] = "ok"
  BY <1>1, Facts
<1>5. OthersStay(p)
  BY <1>1, <1>4 DEF OthersStay
<1>6. TypeOK'
  <2>1. \A n \in Names \ {Final} : fs'[n].kind # "file"
    BY <1>3, Facts
  <2>2. /\ pc' \in [Proc -> {"idle", "create", "check", "cleanup", "commit", "look",
                             "aside", "install", "restore", "remove"}]
        /\ result' \in [Proc -> {"none", "ok", "err", "killed"}]
    BY <1>1, Facts
  <2> QED BY <1>1, <1>3, <2>1, <2>2, Facts DEF TypeOK, Disk
<1>7. Owned(p)'
  <2>1. OwnPids' = OwnPids
    BY <1>1 DEF OwnPids
  <2>2. backup[p] # staging[p] /\ backup[p] \in Names
    BY <1>2, Facts
  <2>3. OwnNames(p)'
    BY <1>1, <1>2, <1>3, <1>4, Facts DEF Owned, OwnNames, Staged, Working, Exists, Complete
  <2>4. OwnPids => OwnBackup(p)'
    BY <1>1, <1>2, <1>3, <1>4, <2>2 DEF Owned, OwnBackup, Exists, Complete
  <2> QED BY <2>1, <2>3, <2>4 DEF Owned
<1>8. errors' >= errors /\ kills' >= kills
  BY <1>1, Facts
<1> QED BY <1>1, <1>2, <1>3, <1>4, <1>5, <1>6, <1>7, <1>8, StagingKeeps

LEMMA CleanupKeeps ==
  ASSUME IInv, NEW p \in Proc, Cleanup(p), UNCHANGED pid
  PROVE  IInv'
<1>1. /\ pc[p] = "cleanup" /\ Return(p, "err")
      /\ UNCHANGED <<run, staging, backup, had, runs, kills, pid>>
      /\ fs' = Removed(staging[p]) \/ fs' = HalfRemoved(staging[p])
      /\ (errors' = errors \/ (errors < MaxErrors /\ errors' = errors + 1))
  BY DEF Cleanup, Fail, workspace
<1>2. /\ pc'[p] = "idle" /\ result'[p] = "err"
      /\ \A q \in Proc \ {p} : pc'[q] = pc[q] /\ result'[q] = result[q]
  BY <1>1, Returned
<1>3. OthersStay(p)
  BY <1>1, <1>2 DEF OthersStay
<1>4. errors' >= errors /\ kills' >= kills /\ errors' \in 0 .. MaxErrors
  BY <1>1, Facts
<1>5. staging[p] \in Names /\ Staged(p) /\ staging[p] # Final
  <2>1. Owned(p) /\ staging[p] \in Names
    BY Facts
  <2>2. Staged(p)
    BY <1>1 DEF Staged
  <2> QED BY <2>1, <2>2, FinalIsName DEF Owned, OwnNames
<1>6. /\ fs' \in Disk /\ fs'[staging[p]].kind # "file"
      /\ \A n \in Names \ {staging[p]} : fs'[n] = fs[n]
  BY <1>1, <1>5, Facts, RemovedIs, HalfRemovedIs
<1>7. TypeOK'
  <2>1. \A n \in Names \ {Final} : fs'[n].kind # "file"
    BY <1>6, Facts
  <2> QED BY <1>1, <1>4, <1>6, <2>1, Facts DEF TypeOK, Disk, Return, Goto
<1> QED BY <1>1, <1>2, <1>3, <1>4, <1>5, <1>6, <1>7, Idle, StagingKeeps

LEMMA ReadyKeeps ==
  ASSUME IInv, NEW p \in Proc, NoStaleBackup(p) \/ LookForExisting(p), UNCHANGED pid
  PROVE  IInv'
<1>1. /\ pc[p] \in {"commit", "look"} /\ pc'[p] \in {"look", "aside", "install"}
      /\ UNCHANGED <<fs, run, staging, backup, result, runs, errors, kills, pid>>
      /\ \A q \in Proc \ {p} : pc'[q] = pc[q] /\ had'[q] = had[q]
      /\ had' \in [Proc -> BOOLEAN]
      /\ pc' \in [Proc -> {"idle", "create", "check", "cleanup", "commit", "look",
                           "aside", "install", "restore", "remove"}]
      /\ pc'[p] = "aside" => had'[p]
      /\ pc'[p] = "install" => ~had'[p]
  <2>1. pc \in [Proc -> {"idle", "create", "check", "cleanup", "commit", "look",
                          "aside", "install", "restore", "remove"}]
        /\ had \in [Proc -> BOOLEAN]
    BY Facts
  <2>2. CASE NoStaleBackup(p)
    <3>1. /\ pc[p] = "commit" /\ pc' = [pc EXCEPT ![p] = "look"]
          /\ UNCHANGED <<fs, run, staging, backup, had, result, runs, errors, kills, pid>>
      BY <2>2 DEF NoStaleBackup, Goto, Stay, workspace, counters
    <3> QED BY <2>1, <3>1
  <2>3. CASE LookForExisting(p)
    <3>1. PICK b \in BOOLEAN :
            /\ pc[p] = "look" /\ pc' = [pc EXCEPT ![p] = IF b THEN "aside" ELSE "install"]
            /\ had' = [had EXCEPT ![p] = b]
            /\ UNCHANGED <<fs, run, staging, backup, result, runs, errors, kills, pid>>
      BY <2>3 DEF LookForExisting, Goto, Stay, counters, Exists
    <3> QED BY <2>1, <3>1
  <2> QED BY <2>2, <2>3
<1>2. OthersStay(p)
  BY <1>1 DEF OthersStay
<1>3. TypeOK'
  BY <1>1, Facts DEF TypeOK
<1>4. Owned(p)'
  <2>1. Owned(p) /\ OwnPids' = OwnPids
    BY <1>1, Facts DEF OwnPids
  <2> QED BY <1>1, <2>1 DEF Owned, OwnNames, OwnBackup, Staged, Working, Exists, Complete
<1>5. errors' >= errors /\ kills' >= kills /\ Staged(p)
  BY <1>1, Facts DEF Staged
<1> QED BY <1>1, <1>2, <1>3, <1>4, <1>5, StagingKeeps

LEMMA RemoveStaleBackupKeeps ==
  ASSUME IInv, NEW p \in Proc, RemoveStaleBackup(p), UNCHANGED pid
  PROVE  IInv'
<1>1. /\ pc[p] = "commit" /\ Exists(backup[p])
      /\ UNCHANGED <<run, staging, backup, had, runs, kills, pid>>
      /\ \/ /\ fs' = Removed(backup[p]) /\ pc' = [pc EXCEPT ![p] = "look"]
            /\ UNCHANGED <<result, errors>>
         \/ /\ fs' = HalfRemoved(backup[p]) /\ errors < MaxErrors /\ errors' = errors + 1
            /\ pc' = [pc EXCEPT ![p] = "idle"] /\ result' = [result EXCEPT ![p] = "err"]
  BY DEF RemoveStaleBackup, Fail, Return, Goto, Stay, workspace
<1>2. backup[p] \in Names /\ backup[p] # Final /\ Owned(p) /\ backup[p].role = "old"
  <2>1. Owned(p) /\ backup[p] \in Names
    BY Facts
  <2> QED BY <1>1, <2>1, FinalIsName DEF Owned, OwnNames, Working, Staged
<1>3. /\ fs' \in Disk /\ \A n \in Names \ {backup[p]} : fs'[n] = fs[n]
      /\ \/ fs'[backup[p]].kind = "none"
         \/ /\ fs'[backup[p]].kind = IF fs[backup[p]].kind \in {"some", "whole"} THEN "part"
                                     ELSE fs[backup[p]].kind
            /\ errors' + kills' # 0
  BY <1>1, <1>2, Facts, RemovedIs, HalfRemovedIs
<1>4. /\ pc'[p] \in {"look", "idle"} /\ (pc'[p] = "look" => fs'[backup[p]].kind = "none")
      /\ \A q \in Proc \ {p} : pc'[q] = pc[q] /\ result'[q] = result[q]
      /\ result'[p] = "ok" => result[p] = "ok"
  BY <1>1, <1>2, Facts, RemovedIs
<1>5. OthersStay(p)
  BY <1>1, <1>4 DEF OthersStay
<1>6. errors' >= errors /\ kills' >= kills /\ errors' \in 0 .. MaxErrors
  BY <1>1, Facts
<1>7. TypeOK'
  <2>1. \A n \in Names \ {Final} : fs'[n].kind # "file"
    BY <1>2, <1>3, Facts
  <2> QED BY <1>1, <1>3, <1>6, <2>1, Facts DEF TypeOK, Disk
<1>8. Owned(p)'
  <2>1. OwnPids' = OwnPids
    BY <1>1 DEF OwnPids
  <2>2. staging[p] \in Names /\ staging[p] # backup[p]
    BY <1>1, <1>2, Facts DEF Owned, OwnNames, Staged
  <2> QED BY <1>1, <1>2, <1>3, <1>4, <2>1, <2>2
          DEF Owned, OwnNames, OwnBackup, Staged, Working, Exists, Complete
<1> QED BY <1>1, <1>2, <1>3, <1>4, <1>5, <1>6, <1>7, <1>8, RemovalKeeps

LEMMA RemoveBackupKeeps ==
  ASSUME IInv, NEW p \in Proc, RemoveBackup(p), UNCHANGED pid
  PROVE  IInv'
<1>1. /\ pc[p] = "remove" /\ pc' = [pc EXCEPT ![p] = "idle"]
      /\ UNCHANGED <<run, staging, backup, had, runs, kills, pid>>
      /\ \E r \in {"ok", "err"} : result' = [result EXCEPT ![p] = r]
      /\ \/ fs' = Removed(backup[p]) /\ errors' = errors
         \/ fs' = HalfRemoved(backup[p]) /\ errors < MaxErrors /\ errors' = errors + 1
         \/ fs' = fs /\ errors' = errors
  BY DEF RemoveBackup, Fail, Return, Goto, workspace
<1>2. backup[p] \in Names /\ backup[p] # Final
  <2>1. Owned(p) /\ backup[p] \in Names
    BY Facts
  <2> QED BY <1>1, <2>1, FinalIsName DEF Owned, OwnNames, Working, Staged
<1>3. /\ fs' \in Disk /\ \A n \in Names \ {backup[p]} : fs'[n] = fs[n]
      /\ \/ fs'[backup[p]].kind = "none"
         \/ fs'[backup[p]] = fs[backup[p]]
         \/ /\ fs'[backup[p]].kind = IF fs[backup[p]].kind \in {"some", "whole"} THEN "part"
                                     ELSE fs[backup[p]].kind
            /\ errors' + kills' # 0
  BY <1>1, <1>2, Facts, RemovedIs, HalfRemovedIs
<1>4. /\ pc'[p] = "idle"
      /\ \A q \in Proc \ {p} : pc'[q] = pc[q] /\ result'[q] = result[q]
  BY <1>1, Facts
<1>5. OthersStay(p)
  BY <1>1, <1>4 DEF OthersStay
<1>6. errors' >= errors /\ kills' >= kills /\ errors' \in 0 .. MaxErrors
  BY <1>1, Facts
<1>7. TypeOK'
  <2>1. \A n \in Names \ {Final} : fs'[n].kind # "file"
    BY <1>2, <1>3, Facts
  <2> QED BY <1>1, <1>3, <1>6, <2>1, Facts DEF TypeOK, Disk
<1> QED BY <1>1, <1>2, <1>3, <1>4, <1>5, <1>6, <1>7, Idle, RemovalKeeps

(* The steps of commit that move a directory.                                *)
LEMMA SetAsideKeeps ==
  ASSUME IInv, NEW p \in Proc, SetAside(p), UNCHANGED pid
  PROVE  IInv'
<1>0. /\ pc[p] = "aside" /\ UNCHANGED <<run, staging, backup, had, runs, kills, pid>>
      /\ Owned(p) /\ Staged(p) /\ Working(p) /\ backup[p] \in Names /\ staging[p] \in Names
      /\ staging[p].role = "tmp" /\ backup[p].role = "old" /\ had[p]
  <2>1. pc[p] = "aside" /\ UNCHANGED <<run, staging, backup, had, runs, kills, pid>>
    BY DEF SetAside, workspace
  <2>2. Owned(p) /\ backup[p] \in Names /\ staging[p] \in Names
    BY Facts
  <2>3. Staged(p) /\ Working(p)
    BY <2>1 DEF Staged, Working
  <2> QED BY <2>1, <2>2, <2>3 DEF Owned, OwnNames
<1>1. CASE /\ Return(p, "err") /\ UNCHANGED fs
           /\ (errors' = errors \/ (errors < MaxErrors /\ errors' = errors + 1))
  <2>1. /\ pc'[p] = "idle" /\ result'[p] = "err"
        /\ \A q \in Proc \ {p} : pc'[q] = pc[q] /\ result'[q] = result[q]
    BY <1>1, Returned
  <2>2. OthersStay(p)
    BY <1>0, <2>1 DEF OthersStay
  <2>3. errors' >= errors /\ kills' >= kills /\ errors' \in 0 .. MaxErrors
    BY <1>0, <1>1, Facts
  <2>4. TypeOK'
    BY <1>0, <1>1, <2>3, Facts DEF TypeOK, Return, Goto
  <2> QED BY <1>0, <1>1, <2>1, <2>2, <2>3, <2>4, Idle, StagingKeeps
<1>2. CASE /\ CanRename(Final, backup[p]) /\ fs' = Rename(Final, backup[p])
           /\ Goto(p, "install") /\ Stay /\ UNCHANGED errors
  <2>1. backup[p] # Final /\ backup[p] # staging[p] /\ Final # staging[p] /\ Final \in Names
    BY <1>0, FinalIsName
  <2>2. /\ fs' \in Disk /\ fs'[backup[p]] = fs[Final] /\ fs'[Final].kind = "none"
        /\ \A n \in Names \ {Final, backup[p]} : fs'[n] = fs[n]
    BY <1>0, <1>2, <2>1, Facts, RenameIs
  <2>3. /\ pc'[p] = "install" /\ \A q \in Proc \ {p} : pc'[q] = pc[q]
        /\ result' = result /\ errors' = errors
    BY <1>2, Moved DEF Stay
  <2>4. fs[Final].kind \notin {"file", "none"} /\ fs[Final].kind \in Kinds
    BY <1>0, <1>2, <2>1, Facts DEF IInv, FileStopsAll, CanRename, Exists, Disk
  <2>5. OwnPids \/ errors + kills = 0 => Complete(fs[Final])
    BY <2>4 DEF IInv, FinalNeverPartial, Complete, Kinds
  <2>6. OthersStay(p) /\ Touches(p)
    BY <1>0, <2>2, <2>3 DEF OthersStay, Touches
  <2>7. TypeOK'
    <3>1. \A n \in Names \ {Final} : fs'[n].kind # "file"
      BY <2>2, <2>4, Facts
    <3> QED BY <1>0, <1>2, <2>2, <2>3, <3>1, Facts DEF TypeOK, Disk, Goto
  <2>8. Owned(p)'
    <3>1. OwnPids' = OwnPids
      BY <1>0 DEF OwnPids
    <3> QED BY <1>0, <2>1, <2>2, <2>3, <2>5, <3>1
            DEF Owned, OwnNames, OwnBackup, Staged, Working, Exists, Complete
  <2>9. FinalNeverPartial' /\ fs'[Final].kind # "file"
    BY <2>2 DEF FinalNeverPartial
  <2>10. BackupsWhole'
    BY <1>0, <2>2, <2>3, <2>5 DEF IInv, BackupsWhole, Complete
  <2>11. Replaced'
    <3> SUFFICES ASSUME OwnPids', NEW q \in Proc, pc'[q] = "remove"
                 PROVE  \E n \in Names : Safe(n)'
      BY DEF Replaced
    <3>1. OwnPids
      BY <1>0 DEF OwnPids
    <3>2. ASSUME NEW w \in Proc, pc'[w] = "remove" PROVE backup'[w] # backup[p]
      <4>1. w # p /\ pc[w] = "remove"
        BY <2>3, <3>2
      <4>2. Owned(w) /\ Working(w)
        BY <4>1, Facts DEF Working
      <4> QED BY <1>0, <3>1, <4>1, <4>2 DEF Owned, OwnNames, OwnPids
    <3>3. Safe(backup[p])'
      BY <1>0, <2>2, <2>5, <3>1, <3>2 DEF Safe, Complete
    <3> QED BY <1>0, <3>3
  <2>12. Returns'
    BY <1>0, <2>3 DEF Returns, InPlace
  <2>13. Staged(p)' => Staged(p)
    BY <1>0
  <2> QED BY <1>0, <2>6, <2>7, <2>8, <2>9, <2>10, <2>11, <2>12, <2>13, MoveKeeps
<1> QED BY <1>1, <1>2 DEF SetAside, Fail

(* A process at a rename: its directory and its backup. *)
LEMMA RenamerFacts ==
  ASSUME IInv, NEW p \in Proc, pc[p] \in {"install", "restore"}
  PROVE  /\ Owned(p) /\ Staged(p) /\ Working(p)
         /\ backup[p] \in Names /\ backup[p].role = "old" /\ backup[p] # Final
         /\ staging[p] \in Names /\ staging[p].role = "tmp" /\ staging[p] # Final
         /\ Complete(fs[staging[p]]) /\ Exists(staging[p])
         /\ fs[Final].kind # "file" /\ fs[Final].kind \in Kinds
<1>1. Owned(p) /\ backup[p] \in Names /\ staging[p] \in Names /\ fs \in Disk
  BY Facts
<1>2. Staged(p) /\ Working(p)
  BY DEF Staged, Working
<1>3. /\ staging[p].role = "tmp" /\ Exists(staging[p]) /\ Complete(fs[staging[p]])
      /\ backup[p].role = "old"
  BY <1>1, <1>2 DEF Owned, OwnNames
<1>4. fs[Final].kind # "file" /\ fs[Final].kind \in Kinds
  BY <1>1, FinalIsName DEF IInv, FileStopsAll, Disk
<1> QED BY <1>1, <1>2, <1>3, <1>4, FinalIsName

(* Where nothing can be renamed to, complete metadata is in place. *)
LEMMA InTheWay ==
  ASSUME IInv, NEW p \in Proc, pc[p] \in {"install", "restore"},
         NEW n \in Names, Exists(n), ~CanRename(n, Final), OwnPids \/ errors + kills = 0
  PROVE  Complete(fs[Final])
<1>1. fs[Final].kind \in Kinds /\ fs[Final].kind \notin {"file", "none", "fresh", "bare"}
  BY RenamerFacts DEF CanRename
<1>2. fs[Final].kind \notin {"part", "fresh"}
  BY DEF IInv, FinalNeverPartial
<1> QED BY <1>1, <1>2 DEF Complete, Kinds

(* Nobody removes the offline directory. *)
LEMMA FinalIsSafe ==
  ASSUME IInv, NEW p \in Proc, OthersStay(p), pc'[p] = "remove" => pc[p] = "install",
         backup'[p] = backup[p], Complete(fs'[Final])
  PROVE  Safe(Final)'
<1>1. ASSUME NEW w \in Proc, pc'[w] = "remove" PROVE backup'[w] # Final
  <2>1. Owned(w) /\ backup'[w] = backup[w]
    BY Facts DEF OthersStay
  <2>2. Working(w)
    BY <1>1 DEF OthersStay, Working, Staged
  <2> QED BY <2>1, <2>2, FinalIsName DEF Owned, OwnNames
<1>2. Complete(fs[Final])'
  BY DEF Complete
<1> QED BY <1>1, <1>2, FinalIsName DEF Safe, Final

LEMMA InstallKeeps ==
  ASSUME IInv, NEW p \in Proc, Install(p), UNCHANGED pid
  PROVE  IInv'
<1>1. /\ pc[p] = "install" /\ fs' = Rename(staging[p], Final)
      /\ UNCHANGED <<run, staging, backup, had, runs, errors, kills, pid>>
      /\ \/ had[p] /\ pc' = [pc EXCEPT ![p] = "remove"] /\ result' = result
         \/ pc' = [pc EXCEPT ![p] = "idle"] /\ result' = [result EXCEPT ![p] = "ok"]
  BY DEF Install, Return, Goto, Stay, workspace, counters
<1>2. /\ fs' \in Disk /\ fs'[Final] = fs[staging[p]] /\ fs'[staging[p]].kind = "none"
      /\ \A n \in Names \ {staging[p], Final} : fs'[n] = fs[n]
  BY <1>1, RenamerFacts, RenameIs, FinalIsName, Facts
<1>3. /\ pc'[p] \in {"remove", "idle"} /\ (pc'[p] = "remove" => had[p])
      /\ \A q \in Proc \ {p} : pc'[q] = pc[q]
  BY <1>1, Facts
<1>4. OthersStay(p) /\ Touches(p)
  BY <1>1, <1>2, <1>3, RenamerFacts DEF OthersStay, Touches
<1>5. Complete(fs'[Final])
  BY <1>1, <1>2, RenamerFacts
<1>6. TypeOK'
  <2>1. \A n \in Names \ {Final} : fs'[n].kind # "file"
    BY <1>2, Facts
  <2> QED BY <1>1, <1>2, <2>1, Facts DEF TypeOK, Disk
<1>7. Owned(p)'
  <2>1. Owned(p) /\ backup[p].role = "old" /\ backup[p] \in Names \ {staging[p], Final}
    BY <1>1, RenamerFacts
  <2>2. OwnPids' = OwnPids
    BY <1>1 DEF OwnPids
  <2>3. fs'[backup[p]] = fs[backup[p]] /\ Working(p)
    BY <1>1, <1>2, <2>1 DEF Working, Staged
  <2> QED BY <1>1, <1>3, <2>1, <2>2, <2>3 DEF Owned, OwnNames, OwnBackup, Staged, Working, Complete
<1>8. FinalNeverPartial' /\ fs'[Final].kind # "file"
  BY <1>5 DEF FinalNeverPartial, Complete
<1>9. BackupsWhole'
  <2>1. staging[p].role = "tmp" /\ Final.role = "final"
    BY <1>1, RenamerFacts, FinalIsName
  <2> QED BY <1>1, <1>2, <2>1 DEF IInv, BackupsWhole
<1>10. Replaced'
  BY <1>1, <1>3, <1>4, <1>5, FinalIsSafe, FinalIsName DEF Replaced
<1>11. Returns'
  BY <1>5 DEF Returns, InPlace, Complete
<1>12. Staged(p)' => Staged(p)
  BY <1>1 DEF Staged
<1> QED BY <1>1, <1>4, <1>6, <1>7, <1>8, <1>9, <1>10, <1>11, <1>12, MoveKeeps

(* A step of a process at a rename that leaves the directory as it is. *)
LEMMA NotRenamedKeeps ==
  ASSUME IInv, NEW p \in Proc, pc[p] # "idle", OthersStay(p), fs' = fs,
         staging'[p] = staging[p], backup'[p] = backup[p], Staged(p)' => Staged(p),
         pc'[p] # "remove", errors' >= errors, kills' >= kills,
         TypeOK', Owned(p)', Returns'
  PROVE  IInv'
<1>1. /\ errors' \in Nat /\ kills' \in Nat /\ OwnPids' = OwnPids
      /\ errors' + kills' = 0 => errors + kills = 0
  BY FailuresGrow DEF OthersStay, OwnPids
<1>2. FinalNeverPartial' /\ BackupsWhole'
  BY <1>1 DEF IInv, FinalNeverPartial, BackupsWhole
<1>3. Replaced'
  BY ReplacedStays DEF Safe
<1>4. fs'[Final].kind # "file"
  BY DEF IInv, FileStopsAll
<1>5. Touches(p)
  BY DEF Touches
<1> QED BY <1>2, <1>3, <1>4, <1>5, MoveKeeps

(* If metadata was in place or about to be, it still is, but for p. *)
LEMMA NotRenamedReturns ==
  ASSUME IInv, NEW p \in Proc, OthersStay(p), fs' = fs,
         \A q \in Proc \ {p} : result'[q] = result[q],
         result'[p] = "ok" => result[p] = "ok", pc'[p] # "remove",
         errors' \in Nat, kills' = kills, errors' >= errors,
         Undisturbed', Published'
  PROVE  /\ Undisturbed /\ (OwnPids \/ errors + kills = 0)
         /\ \/ InPlace'
            \/ pc[p] = "install" /\ had[p]
            \/ pc[p] = "restore" /\ errors > 0
<1>1. errors \in Nat /\ kills \in Nat
  BY Facts
<1>2. Undisturbed /\ (OwnPids \/ errors + kills = 0)
  <2>1. OwnPids' = OwnPids
    BY DEF OthersStay, OwnPids
  <2> QED BY <1>1, <2>1 DEF Undisturbed
<1>3. Published
  BY DEF Published, OthersStay, Kept, Complete
<1>4. InPlace
  BY <1>2, <1>3 DEF IInv, Returns
<1>5. errors > 0 => errors' > 0
  BY <1>1
<1>6. CASE Complete(fs[Final])
  BY <1>2, <1>6 DEF InPlace, Complete
<1>7. CASE \E q \in Proc : (pc[q] = "install" /\ had[q]) \/ (pc[q] = "restore" /\ errors > 0)
  <2>1. PICK q \in Proc : (pc[q] = "install" /\ had[q]) \/ (pc[q] = "restore" /\ errors > 0)
    BY <1>7
  <2>2. CASE q = p
    BY <1>2, <2>1, <2>2
  <2>3. CASE q # p
    <3>1. pc'[q] = pc[q] /\ had'[q] = had[q]
      BY <2>3 DEF OthersStay
    <3> QED BY <1>2, <1>5, <2>1, <3>1 DEF InPlace
  <2> QED BY <2>2, <2>3
<1> QED BY <1>4, <1>6, <1>7 DEF InPlace

LEMMA InstallFailsKeeps ==
  ASSUME IInv, NEW p \in Proc, InstallFails(p), UNCHANGED pid
  PROVE  IInv'
<1>1. /\ pc[p] = "install" /\ UNCHANGED <<fs, run, staging, backup, had, runs, kills, pid>>
      /\ \/ errors < MaxErrors /\ errors' = errors + 1
         \/ errors' = errors /\ ~CanRename(staging[p], Final)
      /\ \/ had[p] /\ pc' = [pc EXCEPT ![p] = "restore"] /\ result' = result
         \/ /\ ~had[p] /\ pc' = [pc EXCEPT ![p] = "idle"]
            /\ result' = [result EXCEPT ![p] = "err"]
  BY DEF InstallFails, Fail, Return, Goto, Stay, workspace
<1>2. /\ pc'[p] \in {"restore", "idle"} /\ (pc'[p] = "restore" <=> had[p])
      /\ \A q \in Proc \ {p} : pc'[q] = pc[q] /\ result'[q] = result[q]
      /\ result'[p] = "ok" => result[p] = "ok"
  BY <1>1, Facts
<1>3. OthersStay(p)
  BY <1>1, <1>2 DEF OthersStay
<1>4. errors' >= errors /\ kills' >= kills /\ errors' \in 0 .. MaxErrors
  BY <1>1, Facts
<1>5. TypeOK'
  BY <1>1, <1>4, Facts DEF TypeOK
<1>6. Owned(p)'
  <2>1. Owned(p) /\ OwnPids' = OwnPids
    BY <1>1, Facts DEF OwnPids
  <2> QED BY <1>1, <1>2, <2>1 DEF Owned, OwnNames, OwnBackup, Staged, Working, Exists, Complete
<1>7. Returns'
  <2> SUFFICES ASSUME Undisturbed', Published' PROVE InPlace'
    BY DEF Returns
  <2>1. /\ OwnPids \/ errors + kills = 0
        /\ InPlace' \/ had[p]
    <3>1. fs' = fs /\ kills' = kills /\ errors' \in Nat /\ pc'[p] # "remove"
      BY <1>1, <1>2, <1>4
    <3> QED BY <1>1, <1>2, <1>3, <1>4, <3>1, NotRenamedReturns
  <2>2. CASE had[p] /\ ~CanRename(staging[p], Final)
    BY <1>1, <2>1, <2>2, InTheWay, RenamerFacts DEF InPlace, Complete
  <2>3. CASE had[p] /\ errors' = errors + 1
    <3>1. errors' > 0 /\ pc'[p] = "restore"
      BY <1>2, <2>3, Facts
    <3> QED BY <3>1 DEF InPlace
  <2> QED BY <1>1, <2>1, <2>2, <2>3
<1>8. Staged(p)' => Staged(p)
  BY <1>1 DEF Staged
<1> QED BY <1>1, <1>2, <1>3, <1>4, <1>5, <1>6, <1>7, <1>8, NotRenamedKeeps

LEMMA RestoreKeeps ==
  ASSUME IInv, NEW p \in Proc, Restore(p), UNCHANGED pid
  PROVE  IInv'
<1>1. /\ pc[p] = "restore" /\ Return(p, "err")
      /\ UNCHANGED <<run, staging, backup, had, runs, kills, pid>>
  BY DEF Restore, workspace
<1>2. /\ pc'[p] = "idle" /\ result'[p] = "err" /\ Owned(p)' /\ (Staged(p)' => Staged(p))
      /\ \A q \in Proc \ {p} : pc'[q] = pc[q] /\ result'[q] = result[q]
  BY <1>1, Returned, Idle
<1>3. OthersStay(p) /\ OwnPids' = OwnPids
  BY <1>1, <1>2 DEF OthersStay, OwnPids
<1>4. OwnPids => Complete(fs[backup[p]])
  BY <1>1, RenamerFacts DEF Owned, OwnBackup
<1>5. CASE CanRename(backup[p], Final) /\ fs' = Rename(backup[p], Final) /\ errors' = errors
  <2>1. /\ fs' \in Disk /\ fs'[Final] = fs[backup[p]] /\ fs'[backup[p]].kind = "none"
        /\ \A n \in Names \ {backup[p], Final} : fs'[n] = fs[n]
    BY <1>1, <1>5, RenamerFacts, RenameIs, FinalIsName, Facts
  <2>2. OwnPids \/ errors + kills = 0 => Complete(fs'[Final])
    BY <1>1, <1>4, <1>5, <2>1, RenamerFacts
       DEF IInv, BackupsWhole, CanRename, Exists, Complete
  <2>3. fs'[Final].kind # "file"
    BY <1>1, <2>1, RenamerFacts, Facts
  <2>4. Touches(p)
    BY <1>1, <2>1, RenamerFacts DEF Touches
  <2>5. TypeOK'
    <3>1. \A n \in Names \ {Final} : fs'[n].kind # "file"
      BY <2>1, Facts
    <3> QED BY <1>1, <1>5, <2>1, <3>1, Facts DEF TypeOK, Disk, Return, Goto
  <2>6. FinalNeverPartial' /\ BackupsWhole'
    <3>1. Final.role = "final"
      BY FinalIsName
    <3> QED BY <1>1, <1>3, <1>5, <2>1, <2>2, <3>1
            DEF IInv, FinalNeverPartial, BackupsWhole, Complete
  <2>7. Replaced'
    BY <1>1, <1>2, <1>3, <2>2, FinalIsSafe, FinalIsName DEF Replaced
  <2>8. Returns'
    <3> SUFFICES ASSUME Undisturbed' PROVE Complete(fs'[Final])
      BY DEF Returns, InPlace, Complete
    <3>1. errors \in Nat /\ kills \in Nat /\ errors' = errors /\ kills' = kills
      BY <1>1, <1>5, Facts
    <3>2. OwnPids \/ errors + kills = 0
      BY <1>3, <3>1 DEF Undisturbed
    <3> QED BY <2>2, <3>2
  <2> QED BY <1>1, <1>2, <1>3, <2>3, <2>4, <2>5, <2>6, <2>7, <2>8, MoveKeeps
<1>6. CASE /\ fs' = fs
           /\ \/ errors < MaxErrors /\ errors' = errors + 1
              \/ errors' = errors /\ ~CanRename(backup[p], Final)
  <2>1. errors' >= errors /\ kills' >= kills /\ errors' \in 0 .. MaxErrors
        /\ errors \in Nat /\ kills \in Nat
    BY <1>1, <1>6, Facts
  <2>2. TypeOK'
    BY <1>1, <1>6, <2>1, Facts DEF TypeOK, Return, Goto
  <2>3. Returns'
    <3> SUFFICES ASSUME Undisturbed', Published' PROVE InPlace'
      BY DEF Returns
    <3>1. /\ OwnPids \/ errors + kills = 0
          /\ Undisturbed
          /\ InPlace' \/ errors > 0
      BY <1>1, <1>2, <1>3, <1>6, <2>1, NotRenamedReturns
    <3>2. CASE errors > 0
      <4>1. OwnPids /\ errors = 1 /\ errors' = errors
        BY <1>3, <1>6, <2>1, <3>1, <3>2 DEF Undisturbed
      <4>2. Complete(fs[Final])
        BY <1>1, <1>4, <1>6, <2>1, <4>1, InTheWay, RenamerFacts DEF Exists, Complete
      <4> QED BY <1>6, <4>2 DEF InPlace, Complete
    <3> QED BY <3>1, <3>2
  <2> QED BY <1>1, <1>2, <1>3, <1>6, <2>1, <2>2, <2>3, NotRenamedKeeps
<1> QED BY <1>5, <1>6 DEF Restore, Fail

LEMMA CrashKeeps ==
  ASSUME IInv, NEW p \in Proc, Crash(p), UNCHANGED pid
  PROVE  IInv'
<1>1. /\ pc[p] # "idle" /\ Return(p, "killed")
      /\ kills < MaxKills /\ kills' = kills + 1
      /\ UNCHANGED <<run, staging, backup, had, runs, errors, pid>>
      /\ \/ fs' = fs
         \/ pc[p] = "cleanup" /\ fs' = HalfRemoved(staging[p])
         \/ pc[p] \in {"commit", "remove"} /\ fs' = HalfRemoved(backup[p])
  BY DEF Crash, workspace
<1>2. /\ pc'[p] = "idle" /\ result'[p] = "killed" /\ Owned(p)' /\ (Staged(p)' => Staged(p))
      /\ \A q \in Proc \ {p} : pc'[q] = pc[q] /\ result'[q] = result[q]
  BY <1>1, Returned, Idle
<1>3. OthersStay(p)
  BY <1>1, <1>2 DEF OthersStay
<1>4. errors' >= errors /\ kills' >= kills /\ kills' \in 0 .. MaxKills /\ errors' + kills' # 0
  BY <1>1, Facts
<1>5. /\ pc' \in [Proc -> {"idle", "create", "check", "cleanup", "commit", "look",
                           "aside", "install", "restore", "remove"}]
      /\ result' \in [Proc -> {"none", "ok", "err", "killed"}]
  BY <1>1, Facts DEF Return, Goto
<1>6. CASE fs' = fs
  <2>1. TypeOK'
    BY <1>1, <1>4, <1>5, <1>6, Facts DEF TypeOK
  <2>2. Returns'
    BY <1>1, Facts DEF Returns, Undisturbed
  <2> QED BY <1>1, <1>2, <1>3, <1>4, <1>6, <2>1, <2>2, NotRenamedKeeps
<1>7. ASSUME NEW a \in Names, a # Final, fs' = HalfRemoved(a)
      PROVE  /\ TypeOK' /\ \A n \in Names \ {a} : fs'[n] = fs[n]
             /\ fs'[a].kind = IF fs[a].kind \in {"some", "whole"} THEN "part" ELSE fs[a].kind
  <2>1. /\ fs' \in Disk /\ \A n \in Names \ {a} : fs'[n] = fs[n]
        /\ fs'[a].kind = IF fs[a].kind \in {"some", "whole"} THEN "part" ELSE fs[a].kind
    BY <1>7, Facts, HalfRemovedIs
  <2>2. \A n \in Names \ {Final} : fs'[n].kind # "file"
    BY <1>7, <2>1, Facts
  <2> QED BY <1>1, <1>4, <1>5, <2>1, <2>2, Facts DEF TypeOK, Disk
<1>8. CASE pc[p] = "cleanup" /\ fs' = HalfRemoved(staging[p])
  <2>1. Staged(p) /\ Owned(p) /\ staging[p] \in Names
    BY <1>8, Facts DEF Staged
  <2>2. staging[p] # Final
    BY <2>1, FinalIsName DEF Owned, OwnNames
  <2>3. TypeOK' /\ \A n \in Names \ {staging[p]} : fs'[n] = fs[n]
    BY <1>7, <1>8, <2>1, <2>2
  <2> QED BY <1>1, <1>2, <1>3, <1>4, <1>8, <2>1, <2>3, StagingKeeps
<1>9. CASE pc[p] \in {"commit", "remove"} /\ fs' = HalfRemoved(backup[p])
  <2>1. Working(p) /\ Owned(p) /\ backup[p] \in Names
    BY <1>9, Facts DEF Staged, Working
  <2>2. backup[p] # Final
    BY <2>1, FinalIsName DEF Owned, OwnNames
  <2>3. /\ TypeOK' /\ \A n \in Names \ {backup[p]} : fs'[n] = fs[n]
        /\ fs'[backup[p]].kind = IF fs[backup[p]].kind \in {"some", "whole"} THEN "part"
                                 ELSE fs[backup[p]].kind
    BY <1>7, <1>9, <2>1, <2>2
  <2> QED BY <1>1, <1>2, <1>3, <1>4, <1>9, <2>3, RemovalKeeps
<1> QED BY <1>1, <1>6, <1>8, <1>9

-----------------------------------------------------------------------------
(* The invariant, and what follows from it.                                  *)

LEMMA InitInv ==
  ASSUME Init PROVE IInv
<1>1. /\ pc = [p \in Proc |-> "idle"] /\ result = [p \in Proc |-> "none"]
      /\ errors = 0 /\ kills = 0
      /\ \A n \in Names \ {Final} : fs[n] = None
      /\ fs[Final] \in {None, Dir("file", 0)} \cup {Dir(kind, 0) : kind \in Finished}
  BY FinalIsName DEF Init
<1>2. TypeOK
  <2>1. /\ None \in [kind : Kinds, run : 0 .. MaxRuns]
        /\ Dir("file", 0) \in [kind : Kinds, run : 0 .. MaxRuns]
        /\ \A kind \in Finished : Dir(kind, 0) \in [kind : Kinds, run : 0 .. MaxRuns]
        /\ None.kind = "none" /\ MaxRuns \in Nat
    BY DEF None, Dir, Kinds
  <2>2. fs \in [Names -> [kind : Kinds, run : 0 .. MaxRuns]]
    BY <2>1 DEF Init
  <2> QED BY <1>1, <2>1, <2>2, FinalIsName DEF Init, TypeOK
<1>3. \A p \in Proc : pc[p] = "idle" /\ result[p] = "none"
  BY <1>1
<1>4. (\A p \in Proc : Owned(p)) /\ StagingsApart /\ FileStopsAll /\ Replaced
  BY <1>3 DEF Owned, OwnNames, OwnBackup, Staged, Working, StagingsApart, FileStopsAll, Replaced
<1>5. FinalNeverPartial
  BY <1>1 DEF FinalNeverPartial, None, Dir
<1>6. \A n \in Names : n.role = "old" => n # Final
  BY FinalIsName
<1>7. BackupsWhole
  BY <1>1, <1>6 DEF BackupsWhole, None
<1>8. Returns
  BY <1>1, <1>3 DEF Returns, Published, InPlace, Kept, Complete, None
<1> QED BY <1>2, <1>4, <1>5, <1>7, <1>8 DEF IInv

LEMMA NextKeeps ==
  ASSUME IInv, [Next]_vars
  PROVE  IInv'
<1>1. ASSUME UNCHANGED vars PROVE IInv'
  BY <1>1 DEF vars, workspace, counters, IInv, TypeOK, Owned, OwnNames, OwnBackup, Staged, Working,
              StagingsApart, FileStopsAll, FinalNeverPartial, BackupsWhole, Replaced, Safe, Returns,
              Undisturbed, Published, InPlace, Kept, OwnPids, Exists, Complete
<1>2. ASSUME Next PROVE IInv'
  <2>1. PICK p \in Proc :
          \/ Start(p) \/ RefusePath(p) \/ Create(p) \/ CreateFails(p)
          \/ Cargo(p) \/ Cleanup(p) \/ Commit(p) \/ Crash(p)
    BY <1>2 DEF Next
  <2>2. UNCHANGED pid
    BY <1>2 DEF Next
  <2>3. CASE Start(p) \/ RefusePath(p)
    BY <2>2, <2>3, StartKeeps
  <2>4. CASE Create(p)
    BY <2>2, <2>4, CreateKeeps
  <2>5. CASE CreateFails(p)
    BY <2>2, <2>5, CreateFailsKeeps
  <2>6. CASE Cargo(p)
    BY <2>2, <2>6, CargoKeeps
  <2>7. CASE Cleanup(p)
    BY <2>2, <2>7, CleanupKeeps
  <2>8. CASE Commit(p)
    BY <2>2, <2>8, RemoveStaleBackupKeeps, ReadyKeeps, SetAsideKeeps, InstallKeeps,
       InstallFailsKeeps, RestoreKeeps, RemoveBackupKeeps DEF Commit
  <2>9. CASE Crash(p)
    BY <2>2, <2>9, CrashKeeps
  <2> QED BY <2>1, <2>3, <2>4, <2>5, <2>6, <2>7, <2>8, <2>9
<1> QED BY <1>1, <1>2

THEOREM Invariant == Spec => []IInv
BY InitInv, NextKeeps, PTL DEF Spec

(* Every directory name stands for what a run put there, whatever is killed  *)
(* or fails (the type invariant of the model of prepare).                    *)
THEOREM TypeCorrect == Spec => []TypeOK
<1>1. IInv => TypeOK
  BY DEF IInv
<1> QED BY <1>1, Invariant, PTL

(* No process ever finds the offline directory half written or half removed  *)
(* (PrepareWorkspace::commit), for any number of processes, failures and     *)
(* kills, if no two have the same process id or none fails or is killed.     *)
THEOREM FinalStaysWhole == Spec => []FinalNeverPartial
<1>1. IInv => FinalNeverPartial
  BY DEF IInv
<1> QED BY <1>1, Invariant, PTL

(* When all runs are over, metadata that was there once or that a run said   *)
(* it wrote is in place, if at most one call failed and none was killed (the *)
(* rollback of PrepareWorkspace::commit).                                    *)
THEOREM MetadataIsBack == Spec => []InPlaceWhenIdle
<1>1. ASSUME IInv PROVE InPlaceWhenIdle
  <2> SUFFICES ASSUME Undisturbed, \A p \in Proc : pc[p] = "idle",
                      Kept \/ \E p \in Proc : result[p] = "ok"
               PROVE  Complete(fs[Final])
    BY DEF InPlaceWhenIdle, Undisturbed
  <2>1. InPlace
    BY <1>1 DEF IInv, Returns, Published
  <2> QED BY <2>1 DEF InPlace
<1> QED BY <1>1, Invariant, PTL

-----------------------------------------------------------------------------
(* Some complete metadata always remains.                                    *)

(* A step that touches staging directories at most. *)
LEMMA StagingLeavesSome ==
  ASSUME Kept, \A n \in Names : fs'[n] = fs[n] \/ n.role = "tmp"
  PROVE  Kept'
BY DEF Kept, Complete

(* A backup is removed when there is other metadata, or when it is not one. *)
LEMMA RemovalLeavesSome ==
  ASSUME IInv, OwnPids, Kept, NEW p \in Proc, pc[p] \in {"commit", "remove"},
         \A n \in Names \ {backup[p]} : fs'[n] = fs[n]
  PROVE  Kept'
<1>1. CASE pc[p] = "commit"
  <2>1. ~Exists(backup[p])
    BY <1>1, Facts DEF Owned, OwnBackup
  <2> QED BY <2>1 DEF Kept, Exists, Complete
<1>2. CASE pc[p] = "remove"
  <2>1. PICK n \in Names : Safe(n)
    BY <1>2 DEF IInv, Replaced
  <2>2. n # backup[p] /\ n.role # "tmp" /\ Complete(fs[n])
    BY <1>2, <2>1 DEF Safe
  <2> QED BY <2>2 DEF Kept, Complete
<1> QED BY <1>1, <1>2

LEMMA KeptStep ==
  ASSUME IInv, OwnPids, Kept, [Next]_vars
  PROVE  Kept'
<1>1. ASSUME UNCHANGED fs PROVE Kept'
  BY <1>1 DEF Kept, Complete
<1>2. ASSUME Next PROVE Kept'
  <2>1. PICK p \in Proc :
          \/ Start(p) \/ RefusePath(p) \/ Create(p) \/ CreateFails(p)
          \/ Cargo(p) \/ Cleanup(p) \/ Commit(p) \/ Crash(p)
    BY <1>2 DEF Next
  <2>2. CASE Start(p) \/ RefusePath(p) \/ CreateFails(p) \/ NoStaleBackup(p)
             \/ LookForExisting(p) \/ InstallFails(p)
    BY <1>1, <2>2
       DEF Start, RefusePath, CreateFails, NoStaleBackup, LookForExisting, InstallFails
  <2>3. CASE Create(p)
    <3>1. /\ fs' = [fs EXCEPT ![UniqueSibling(p, "tmp")] = Dir("fresh", run[p])]
          /\ UniqueSibling(p, "tmp").role = "tmp"
      BY <2>3, Facts, SiblingIsFree DEF Create
    <3> QED BY <3>1, Facts, StagingLeavesSome DEF Disk
  <2>4. CASE Cargo(p) \/ Cleanup(p) \/ (pc[p] = "cleanup" /\ fs' = HalfRemoved(staging[p]))
    <3>1. \A n \in Names : fs'[n] = fs[n] \/ n = staging[p]
      BY <2>4, Facts
         DEF Cargo, CargoWrites, CargoSucceeds, CargoFails, CargoMissing, Cleanup, Removed,
             HalfRemoved, Disk
    <3>2. Staged(p)
      BY <2>4 DEF Staged, Cargo, CargoWrites, CargoSucceeds, CargoFails, CargoMissing, Cleanup
    <3>3. staging[p].role = "tmp"
      BY <3>2, Facts DEF Owned, OwnNames
    <3> QED BY <3>1, <3>3, StagingLeavesSome
  <2>5. CASE RemoveStaleBackup(p) \/ RemoveBackup(p)
             \/ (pc[p] \in {"commit", "remove"} /\ fs' = HalfRemoved(backup[p]))
    <3>1. \A n \in Names \ {backup[p]} : fs'[n] = fs[n]
      BY <2>5, Facts DEF RemoveStaleBackup, RemoveBackup, Removed, HalfRemoved, Disk
    <3>2. pc[p] \in {"commit", "remove"}
      BY <2>5 DEF RemoveStaleBackup, RemoveBackup
    <3> QED BY <3>1, <3>2, RemovalLeavesSome
  <2>6. CASE SetAside(p)
    <3>1. CASE fs' = Rename(Final, backup[p])
      <4>1. backup[p] \in Names /\ Owned(p) /\ Working(p) /\ pc[p] = "aside"
        BY <2>6, Facts DEF SetAside, Working, Staged
      <4>2. backup[p].role = "old" /\ ~Exists(backup[p]) /\ backup[p] # Final
        BY <4>1, FinalIsName DEF Owned, OwnNames, OwnBackup
      <4>3. /\ fs'[backup[p]] = fs[Final]
            /\ \A n \in Names \ {Final, backup[p]} : fs'[n] = fs[n]
        BY <3>1, <4>1, <4>2, FinalIsName, Facts, RenameIs
      <4>4. PICK n \in Names : n.role # "tmp" /\ Complete(fs[n])
        BY DEF Kept
      <4>5. n # backup[p]
        BY <4>2, <4>4 DEF Exists, Complete
      <4>6. CASE n = Final
        BY <4>1, <4>2, <4>3, <4>4, <4>6 DEF Kept, Complete
      <4>7. CASE n # Final
        BY <4>3, <4>4, <4>5, <4>7 DEF Kept, Complete
      <4> QED BY <4>6, <4>7
    <3> QED BY <1>1, <2>6, <3>1 DEF SetAside
  <2>7. ASSUME NEW a \in Names, a # Final, Complete(fs[a]), fs' = Rename(a, Final)
        PROVE  Kept'
    <3>1. fs'[Final] = fs[a]
      BY <2>7, FinalIsName, Facts, RenameIs
    <3> QED BY <2>7, <3>1, FinalIsName DEF Kept, Complete
  <2>8. CASE Install(p)
    <3>1. pc[p] = "install" /\ fs' = Rename(staging[p], Final)
      BY <2>8 DEF Install
    <3> QED BY <2>7, <3>1, RenamerFacts
  <2>9. CASE Restore(p)
    <3>1. pc[p] = "restore" /\ (fs' = fs \/ fs' = Rename(backup[p], Final))
      BY <2>9 DEF Restore
    <3>2. Complete(fs[backup[p]])
      BY <3>1, Facts DEF Owned, OwnBackup
    <3> QED BY <1>1, <2>7, <3>1, <3>2, RenamerFacts
  <2>10. CASE Crash(p)
    <3>1. \/ fs' = fs
          \/ pc[p] = "cleanup" /\ fs' = HalfRemoved(staging[p])
          \/ pc[p] \in {"commit", "remove"} /\ fs' = HalfRemoved(backup[p])
      BY <2>10 DEF Crash
    <3> QED BY <1>1, <2>4, <2>5, <3>1
  <2> QED BY <2>1, <2>2, <2>3, <2>4, <2>5, <2>6, <2>8, <2>9, <2>10 DEF Commit
<1> QED BY <1>1, <1>2 DEF vars

(* Once there is complete metadata, some remains in place or set aside,      *)
(* whenever a process is killed and whatever call fails (unique_sibling and  *)
(* the order of the steps of PrepareWorkspace::commit).                      *)
THEOREM SomeMetadataSurvives == Spec => MetadataSurvives
<1>1. ASSUME IInv, [Next]_vars PROVE [OwnPids /\ Kept => Kept']_vars
  BY <1>1, KeptStep
<1> QED BY <1>1, Invariant, PTL DEF Spec, MetadataSurvives
=============================================================================
