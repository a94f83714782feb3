-------------------------- MODULE RestoreTxProofs --------------------------
(***************************************************************************)
(* Proofs about RestoreTx, for every list of roots, every number of        *)
(* restores and every placement of storage errors, crashes and losses of   *)
(* power.                                                                  *)
(***************************************************************************)
EXTENDS RestoreTx, TLAPS

LEMMA NothingType == Nothing \in [Roots -> Content]
  BY DEF Nothing, Content

LEMMA TreeType ==
  ASSUME NEW v \in Versions
  PROVE  Tree(v) \in [Roots -> Content]
  BY DEF Tree, Content

\* The next root is one of the list.
LEMMA NextRootType ==
  ASSUME root \in Roots, NEW again, NEW last, NextRoot(again, last)
  PROVE  root' \in Roots /\ (pc' = again \/ pc' = last)
  BY Bounds DEF NextRoot, Roots, Goto

-----------------------------------------------------------------------------
(* Type correctness *)

LEMMA TypeInit == Init => TypeOK
  <1> SUFFICES ASSUME Init PROVE TypeOK
    OBVIOUS
  <1>1. 0 \in Versions /\ 1 \in Roots
    BY Bounds DEF Versions, Roots
  <1>2. Tree(0) \in [Roots -> Content] /\ Nothing \in [Roots -> Content]
    BY <1>1, TreeType, NothingType
  <1>3. disk \in Disk
    BY <1>2 DEF Init, Disk
  <1>4. holds \in [Versions -> SUBSET Roots]
    BY DEF Init
  <1>5. held \in SUBSET Disk /\ loaded \in [Roots -> Content]
    BY <1>2, <1>3 DEF Init
  <1>6. faults \in 0 .. MaxFaults /\ crashes \in 0 .. MaxCrashes /\ target \in Versions
    BY <1>1, Bounds DEF Init
  <1>7. reply \in [Versions -> {"none", "done", "failed", "stopped"}]
    BY DEF Init
  <1>8. stopped \in BOOLEAN /\ root \in Roots
    BY <1>1 DEF Init
  <1> QED BY <1>3, <1>4, <1>5, <1>6, <1>7, <1>8 DEF Init, TypeOK

\* A written disk is a disk.
LEMMA WriteType ==
  ASSUME TypeOK, NEW d \in Disk, Write(d)
  PROVE  disk' \in Disk /\ held' \in SUBSET Disk
  BY DEF Write, TypeOK

LEMMA SyncType ==
  ASSUME TypeOK, Sync
  PROVE  disk' \in Disk /\ held' \in SUBSET Disk
  BY DEF Sync, TypeOK

LEMMA TypeHandler ==
  TypeOK /\ (Upload \/ Acquire \/ GiveUp \/ Return \/ DropStage \/ Shutdown) => TypeOK'
  <1> SUFFICES ASSUME TypeOK, Upload \/ Acquire \/ GiveUp \/ Return \/ DropStage \/ Shutdown
               PROVE  TypeOK'
    OBVIOUS
  <1> USE DEF TypeOK, progress, history, Goto
  <1>1. CASE Upload
    <2>1. target + 1 \in Versions
      BY <1>1, Bounds DEF Upload, Versions
    <2>2. [disk EXCEPT !.stage = target + 1] \in Disk
      BY <2>1 DEF Disk
    <2> QED BY <1>1, <2>1, <2>2, WriteType DEF Upload
  <1>2. CASE Acquire
    BY <1>2 DEF Acquire, ActivateSteps
  <1>3. CASE GiveUp
    BY <1>3 DEF GiveUp
  <1>4. CASE Return
    <2>1. stopped' \in BOOLEAN
      BY <1>4 DEF Return, Disk
    <2> QED BY <1>4, <2>1 DEF Return
  <1>5. CASE DropStage
    <2>1. [disk EXCEPT !.stage = Absent] \in Disk
      BY DEF Disk
    <2> QED BY <1>5, <2>1, WriteType DEF DropStage
  <1>6. CASE Shutdown
    BY <1>6 DEF Shutdown
  <1> QED BY <1>1, <1>2, <1>3, <1>4, <1>5, <1>6

LEMMA TypeActivate == TypeOK /\ Activate => TypeOK'
  <1> SUFFICES ASSUME TypeOK, Activate PROVE TypeOK'
    OBVIOUS
  <1> USE DEF TypeOK, quiet, history, Goto, ActivateSteps, RecoverSteps
  <1>0. Nothing \in [Roots -> Content] /\ 1 \in Roots
    BY NothingType, Bounds DEF Roots
  <1>1. CASE MakeTx
    <2>1. [disk EXCEPT !.tx = TRUE] \in Disk
      BY DEF Disk
    <2> QED BY <1>1, <2>1, WriteType DEF MakeTx
  <1>2. CASE MoveStage
    <2>1. Tree(disk.stage) \in [Roots -> Content]
      <3>1. disk.stage \in Content
        BY DEF Disk, Content
      <3> QED BY <3>1 DEF Tree, Content
    <2>2. [disk EXCEPT !.new = Tree(disk.stage), !.stage = Absent] \in Disk
      BY <2>1 DEF Disk
    <2> QED BY <1>2, <2>2, WriteType DEF MoveStage
  <1>3. CASE SyncStage \/ SyncOld
    BY <1>3, SyncType DEF SyncStage, SyncOld
  <1>4. CASE Abort
    <2>1. [disk EXCEPT !.tx = FALSE, !.old = Nothing, !.new = Nothing] \in Disk
      BY <1>0 DEF Disk
    <2> QED BY <1>4, <2>1, WriteType DEF Abort
  <1>5. CASE Prepare
    <2>1. [disk EXCEPT !.journal = "prepared",
                       !.present = {r \in Roots : disk.live[r] # Absent}] \in Disk
      BY DEF Disk
    <2> QED BY <1>5, <2>1, WriteType DEF Prepare
  <1>6. CASE SyncPrepare
    BY <1>0, <1>6, SyncType DEF SyncPrepare
  <1>7. CASE MoveOld
    <2>1. [disk EXCEPT !.old[root] = disk.live[root], !.live[root] = Absent] \in Disk
      BY DEF Disk, Content
    <2> QED BY <1>7, <2>1, WriteType DEF MoveOld
  <1>8. CASE MoveNew
    <2>1. [disk EXCEPT !.live[root] = disk.new[root], !.new[root] = Absent] \in Disk
      BY DEF Disk, Content
    <2> QED BY <1>8, <2>1, WriteType, NextRootType DEF MoveNew
  <1>9. CASE SyncNew
    BY <1>9, SyncType, NextRootType DEF SyncNew
  <1>10. CASE Commit
    <2>1. [disk EXCEPT !.journal = "committed"] \in Disk
      BY DEF Disk
    <2> QED BY <1>10, <2>1, WriteType DEF Commit
  <1>11. CASE SyncCommit
    BY <1>11, SyncType DEF SyncCommit
  <1> QED
    BY <1>1, <1>2, <1>3, <1>4, <1>5, <1>6, <1>7, <1>8, <1>9, <1>10, <1>11 DEF Activate

LEMMA TypeRecover ==
  TypeOK /\ (Recover \/ ClearPart \/ \E r \in Roots : EmptyPart(r)) => TypeOK'
  <1> SUFFICES ASSUME TypeOK, Recover \/ ClearPart \/ \E r \in Roots : EmptyPart(r)
               PROVE  TypeOK'
    OBVIOUS
  <1> USE DEF TypeOK, quiet, history, Goto, RecoverSteps
  <1>0. Nothing \in [Roots -> Content] /\ 1 \in Roots
    BY NothingType, Bounds DEF Roots
  <1>1. CASE ReadJournal
    <2>1. disk.journal \in {"none", "prepared", "committed"}
      BY DEF Disk
    <2> QED BY <1>0, <1>1, <2>1 DEF ReadJournal
  <1>2. CASE SkipRoot
    BY <1>2, NextRootType DEF SkipRoot
  <1>3. CASE ClearPart
    <2>1. [disk EXCEPT !.live[root] = Partial] \in Disk
      BY DEF Disk, Content
    <2> QED BY <1>3, <2>1, WriteType DEF ClearPart
  <1>4. CASE ClearRoot
    <2>1. [disk EXCEPT !.live[root] = Absent] \in Disk
      BY DEF Disk, Content
    <2> QED BY <1>4, <2>1, WriteType DEF ClearRoot
  <1>5. CASE SyncClear
    BY <1>5, SyncType, NextRootType DEF SyncClear
  <1>6. CASE PutBack
    <2>1. [disk EXCEPT !.live[root] = disk.old[root], !.old[root] = Absent] \in Disk
      BY DEF Disk, Content
    <2> QED BY <1>6, <2>1, WriteType DEF PutBack
  <1>7. CASE SyncPutBack
    BY <1>7, SyncType, NextRootType DEF SyncPutBack
  <1>8. CASE Settle \/ SyncForget
    BY <1>8, SyncType DEF Settle, SyncForget
  <1>9. CASE Forget
    <2>1. [disk EXCEPT !.journal = "none", !.present = {}] \in Disk
      BY DEF Disk
    <2> QED BY <1>9, <2>1, WriteType DEF Forget
  <1>10. CASE \E r \in Roots : EmptyPart(r)
    <2> PICK r \in Roots : EmptyPart(r)
      BY <1>10
    <2>1. [disk EXCEPT !.old[r] = Absent, !.new[r] = Absent] \in Disk
      BY DEF Disk, Content
    <2> QED BY <2>1, WriteType DEF EmptyPart
  <1>11. CASE Empty
    <2>1. [disk EXCEPT !.tx = FALSE, !.old = Nothing, !.new = Nothing] \in Disk
      BY <1>0 DEF Disk
    <2> QED BY <1>11, <2>1, WriteType DEF Empty
  <1>12. CASE Unstage
    <2>1. [disk EXCEPT !.stage = Absent] \in Disk
      BY DEF Disk
    <2> QED BY <1>12, <2>1, WriteType DEF Unstage
  <1>13. CASE LastSync
    <2>1. disk.live \in [Roots -> Content]
      BY DEF Disk
    <2> QED BY <1>13, <2>1, SyncType DEF LastSync
  <1> QED
    BY <1>1, <1>2, <1>3, <1>4, <1>5, <1>6, <1>7, <1>8, <1>9, <1>10, <1>11, <1>12, <1>13
       DEF Recover

LEMMA TypeNext == TypeOK /\ [Next]_vars => TypeOK'
  <1> SUFFICES ASSUME TypeOK, [Next]_vars PROVE TypeOK'
    OBVIOUS
  <1>1. CASE Upload \/ GiveUp \/ Acquire \/ Return \/ DropStage \/ Shutdown
    BY <1>1, TypeHandler
  <1>2. CASE Activate
    BY <1>2, TypeActivate
  <1>3. CASE Recover \/ ClearPart \/ \E r \in Roots : EmptyPart(r)
    BY <1>3, TypeRecover
  <1> USE DEF TypeOK, progress, history, Goto
  <1>4. CASE StorageError
    <2>1. faults' \in 0 .. MaxFaults
      BY <1>4, Bounds DEF StorageError
    <2>2. pc' \in {"abort", "read", "return", "down"}
      BY <1>4 DEF StorageError, FailTo, ActivateSteps
    <2>3. caller' \in {"startup", "rollback", "cleanup"}
      BY <1>4 DEF StorageError
    <2> QED BY <1>4, <2>1, <2>2, <2>3 DEF StorageError, RecoverSteps
  <1>5. CASE StageStays
    <2>1. faults' \in 0 .. MaxFaults
      BY <1>5, Bounds DEF StageStays
    <2> QED BY <1>5, <2>1 DEF StageStays
  <1>6. CASE Crash
    <2>1. crashes' \in 0 .. MaxCrashes
      BY <1>6, Bounds DEF Crash
    <2> QED BY <1>6, <2>1 DEF Crash
  <1>7. CASE Restart
    BY <1>7 DEF Restart, RecoverSteps
  <1>8. CASE UNCHANGED vars
    BY <1>8 DEF vars
  <1> QED BY <1>1, <1>2, <1>3, <1>4, <1>5, <1>6, <1>7, <1>8 DEF Next, Step

-----------------------------------------------------------------------------
(* Versions and the disks that recover to them *)

LEMMA Numbers == Versions \subseteq Nat /\ Absent \notin Versions /\ Partial \notin Versions
  BY Bounds, Markers DEF Versions

\* A tree shows its version.
LEMMA TreeUnique ==
  ASSUME TypeOK, NEW v \in Versions, NEW w \in Versions, holds[v] # {}, Tree(v) = Tree(w)
  PROVE  v = w
  <1>1. PICK r \in Roots : r \in holds[v]
    BY DEF TypeOK
  <1>2. Tree(v)[r] = v /\ Tree(w)[r] \in {w, Absent}
    BY <1>1 DEF Tree
  <1> QED BY <1>2, Numbers

\* A disk recovers to one version only.
LEMMA ResolveUnique ==
  ASSUME TypeOK, NEW d \in Disk, NEW v \in Versions, NEW w \in Versions, holds[v] # {},
         Resolves(d, v), Resolves(d, w)
  PROVE  v = w
  <1>1. CASE d.journal = "prepared"
    <2>1. PICK r \in Roots : r \in holds[v]
      BY DEF TypeOK
    <2>2. r \in holds[w]
      BY <1>1, <2>1 DEF Resolves
    <2> QED BY <1>1, <2>1, <2>2 DEF Resolves
  <1>2. CASE d.journal # "prepared"
    BY <1>2, TreeUnique DEF Resolves
  <1> QED BY <1>1, <1>2

\* The version served is acceptable only together with those after it.
LEMMA AcceptableKept ==
  ASSUME NEW v \in Versions, UNCHANGED <<holds, target, history>>, Acceptable(v)
  PROVE  Acceptable(v)'
  BY DEF Acceptable, Tree, history

\* A step after which the disk recovers to the version it would have recovered to
\* before, and that answers no request, keeps what the disk is bound to.
LEMMA Keeps ==
  ASSUME IInv, TypeOK', UNCHANGED <<holds, target, history>>,
         disk' \in held', held' \subseteq held \cup {disk'},
         \A v \in Versions : Resolves(disk, v) => Resolves(disk, v)',
         disk'.tx \/ (disk'.journal = "none" /\ disk'.old = Nothing),
         Uncommitted' => Uncommitted, Committed' => Committed, pc' # "syncCommit",
         pc' = "idle" \/ (pc' = "dropStage" /\ ~ stopped') =>
           pc = "idle" \/ (pc = "dropStage" /\ ~ stopped),
         Layout', Answered'
  PROVE  IInv'
  <1>1. /\ (\A v \in Versions : holds[v] # {})'
        /\ disk \in held /\ AlwaysRecoverable /\ NoDebris /\ Bound
    BY DEF IInv
  <1>2. \A v \in Versions : HeldAt(v) => HeldAt(v)'
    <2> SUFFICES ASSUME NEW v \in Versions, HeldAt(v) PROVE HeldAt(v)'
      OBVIOUS
    <2>1. Acceptable(v)'
      BY AcceptableKept DEF HeldAt
    <2>2. \A d \in held : Resolves(d, v) => Resolves(d, v)'
      BY DEF Resolves, Tree
    <2>3. Resolves(disk, v)'
      BY <1>1 DEF HeldAt
    <2> QED BY <2>1, <2>2, <2>3 DEF HeldAt, Resolves, Tree
  <1>3. AlwaysRecoverable'
    <2> SUFFICES ASSUME NEW d \in held'
                 PROVE  \E v \in Versions : (Acceptable(v) /\ Resolves(d, v))'
      BY DEF AlwaysRecoverable
    <2>1. CASE d \in held
      <3>1. PICK v \in Versions : Acceptable(v) /\ Resolves(d, v)
        BY <1>1, <2>1 DEF AlwaysRecoverable
      <3> QED BY <3>1, AcceptableKept DEF Resolves, Tree
    <2>2. CASE d = disk'
      <3>1. PICK v \in Versions : Acceptable(v) /\ Resolves(disk, v)
        BY <1>1 DEF AlwaysRecoverable
      <3> QED BY <3>1, <2>2, AcceptableKept
    <2> QED BY <2>1, <2>2
  <1>4. NoDebris'
    BY <1>1 DEF NoDebris, Nothing
  <1>5. Bound'
    <2>1. \A b \in Versions : loaded = Tree(b) => loaded' = Tree(b)'
      BY DEF Tree, history
    <2>2. target \in Versions /\ target' = target
      BY DEF IInv, TypeOK
    <2> QED BY <1>1, <1>2, <2>1, <2>2 DEF Bound
  <1> QED BY <1>1, <1>3, <1>4, <1>5 DEF IInv

-----------------------------------------------------------------------------
(* The steps of recoverRestore *)

\* Within recoverRestore nothing is answered and nothing is committed.
LEMMA Within ==
  ASSUME IInv, pc \in RecoverSteps, pc' \in RecoverSteps, UNCHANGED <<quiet, outcome>>
  PROVE  /\ Answered'
         /\ Uncommitted' => Uncommitted
         /\ Committed' => Committed
         /\ pc' \notin {"syncCommit", "idle", "dropStage"}
         /\ UNCHANGED <<holds, target, history>>
  BY DEF IInv, Answered, quiet, history, Uncommitted, Committed, Recovering, RecoverSteps,
         ActivateSteps

\* A step inside recoverRestore keeps the invariant when the disk still recovers to
\* the same version and stands where the next step expects it.
LEMMA KeepsWithin ==
  ASSUME IInv, TypeOK', pc \in RecoverSteps, pc' \in RecoverSteps,
         UNCHANGED <<quiet, outcome>>,
         disk' \in held', held' \subseteq held \cup {disk'},
         \A v \in Versions : Resolves(disk, v) => Resolves(disk, v)',
         disk'.tx \/ (disk'.journal = "none" /\ disk'.old = Nothing),
         Layout'
  PROVE  IInv'
  BY Within, Keeps

\* The same for a step that changes nothing on the disk, synced or not.
LEMMA SameDisk ==
  ASSUME IInv, UNCHANGED <<holds, disk>>
  PROVE  /\ \A v \in Versions : Resolves(disk, v) => Resolves(disk, v)'
         /\ disk'.tx \/ (disk'.journal = "none" /\ disk'.old = Nothing)
         /\ Sync \/ UNCHANGED held => disk' \in held' /\ held' \subseteq held \cup {disk'}
  <1>1. disk \in held /\ NoDebris
    BY DEF IInv
  <1> QED BY <1>1 DEF Resolves, Tree, NoDebris, Sync

\* Before the prepared journal is forgotten, the roots are back in place.
LEMMA RolledBackTree ==
  ASSUME TypeOK, NEW v \in Versions, Resolves(disk, v),
         disk.journal = "prepared" => RolledBack(NumRoots + 1)
  PROVE  disk.live = Tree(v)
  <1>1. CASE disk.journal # "prepared"
    BY <1>1 DEF Resolves
  <1>2. CASE disk.journal = "prepared"
    <2>1. \A r \in Roots : r < NumRoots + 1
      BY Bounds DEF Roots
    <2>2. \A r \in Roots : disk.live[r] = IF r \in holds[v] THEN v ELSE Absent
      BY <1>2, <2>1 DEF RolledBack, Resolves
    <2>3. disk.live \in [Roots -> Content]
      BY DEF TypeOK, Disk
    <2> QED BY <2>2, <2>3 DEF Tree
  <1> QED BY <1>1, <1>2

\* The loop over the roots goes on or ends.
LEMMA NextRolledBack ==
  ASSUME TypeOK, RolledBack(root + 1), disk' = disk, NextRoot("clear", "settle")
  PROVE  /\ pc' = "clear" => RolledBack(root)'
         /\ pc' = "settle" => RolledBack(NumRoots + 1)'
         /\ pc' \in {"clear", "settle"}
  <1>1. CASE root < NumRoots
    BY <1>1 DEF NextRoot, RolledBack, Goto
  <1>2. CASE ~ (root < NumRoots)
    <2>1. root = NumRoots
      BY <1>2, Bounds DEF TypeOK, Roots
    <2> QED BY <1>2, <2>1 DEF NextRoot, RolledBack, Goto
  <1> QED BY <1>1, <1>2

LEMMA InvRecover ==
  ASSUME IInv, TypeOK', Recover \/ ClearPart \/ \E r \in Roots : EmptyPart(r) /\ pc = "empty",
         ~ LastSync
  PROVE  IInv'
  <1>0. TypeOK /\ disk \in held /\ disk \in Disk /\ NoDebris /\ Layout /\ root \in Roots
    BY DEF IInv, TypeOK
  <1>a. \A r \in Roots : r < root + 1 <=> r < root \/ r = root
    BY <1>0, Bounds DEF Roots
  <1> USE DEF Goto, RecoverSteps
  <1>1. CASE ReadJournal
    <2>1. UNCHANGED <<quiet, outcome, disk, held>> /\ root' = 1
          /\ pc = "read" /\ pc' \in {"empty", "clear", "settle"}
          /\ (pc' = "empty" => disk.journal = "none")
          /\ (pc' = "clear" => disk.journal = "prepared")
          /\ (pc' = "settle" => disk.journal = "committed")
      BY <1>0, <1>1 DEF ReadJournal, Disk
    <2>2. \A r \in Roots : ~ (r < 1)
      BY Bounds DEF Roots
    <2>3. Layout'
      BY <2>1, <2>2 DEF Layout, ActivateSteps, RolledBack
    <2>4. UNCHANGED holds
      BY <2>1 DEF quiet
    <2> QED BY <2>1, <2>3, <2>4, SameDisk, KeepsWithin
  <1>2. CASE SkipRoot
    <2>1. UNCHANGED <<quiet, outcome, disk, held>> /\ pc = "clear" /\ ~ MustClear
          /\ NextRoot("clear", "settle")
      BY <1>2 DEF SkipRoot
    <2>2. RolledBack(root + 1)
      BY <1>0, <1>a, <2>1 DEF Layout, MustClear, RolledBack
    <2>3. Layout'
      BY <1>0, <2>1, <2>2, NextRolledBack DEF Layout, ActivateSteps
    <2>4. UNCHANGED holds /\ pc' \in {"clear", "settle"}
      BY <1>0, <2>1, <2>2, NextRolledBack DEF quiet
    <2> QED BY <2>1, <2>3, <2>4, SameDisk, KeepsWithin
  <1>3. CASE ClearPart \/ ClearRoot
    <2>1. PICK x \in {Partial, Absent} :
            /\ disk' = [disk EXCEPT !.live[root] = x] /\ held' = held \cup {disk'}
            /\ pc = "clear" /\ MustClear
            /\ pc' = IF x = Partial THEN "clear" ELSE "syncClear"
            /\ UNCHANGED <<quiet, outcome, root>>
      BY <1>3, Markers DEF ClearPart, ClearRoot, Write
    <2>2. /\ disk'.live = [disk.live EXCEPT ![root] = x]
          /\ disk'.old = disk.old /\ disk'.journal = disk.journal /\ disk'.tx = disk.tx
          /\ disk'.present = disk.present
          /\ disk.live \in [Roots -> Content]
      BY <1>0, <2>1 DEF Disk
    <2>3. disk.journal = "prepared" /\ RolledBack(root)
      BY <1>0, <2>1 DEF Layout, RolledBack
    <2>4. \A v \in Versions : Resolves(disk, v) => Resolves(disk, v)'
      BY <2>1, <2>2, <2>3 DEF Resolves, MustClear, quiet
    <2>5. \A r \in Roots : r < root => r # root
      BY <1>0, Bounds DEF Roots
    <2>6. RolledBack(root)' /\ (x = Absent => disk'.live[root'] = Absent)
      BY <1>0, <2>1, <2>2, <2>3, <2>5 DEF RolledBack
    <2>7. Layout'
      BY <2>1, <2>6, Markers DEF Layout, ActivateSteps
    <2>8. disk'.tx
      BY <1>0, <2>2, <2>3 DEF NoDebris
    <2>9. pc' \in RecoverSteps
      BY <2>1
    <2> QED BY <2>1, <2>4, <2>7, <2>8, <2>9, KeepsWithin
  <1>4. CASE SyncClear
    <2>1. Sync /\ UNCHANGED <<quiet, outcome, disk>> /\ pc = "syncClear"
      BY <1>4 DEF SyncClear, Sync
    <2>2. RolledBack(root) /\ disk.live[root] = Absent
      BY <1>0, <2>1 DEF Layout
    <2>3. UNCHANGED holds
      BY <2>1 DEF quiet
    <2>4. CASE disk.old[root] # Absent
      <3>1. pc' = "putBack" /\ root' = root
        BY <1>4, <2>4 DEF SyncClear
      <3>2. Layout'
        BY <2>1, <2>2, <2>4, <3>1 DEF Layout, ActivateSteps, RolledBack
      <3> QED BY <2>1, <2>3, <3>1, <3>2, SameDisk, KeepsWithin
    <2>5. CASE disk.old[root] = Absent
      <3>1. NextRoot("clear", "settle")
        BY <1>4, <2>5 DEF SyncClear
      <3>2. RolledBack(root + 1)
        BY <1>a, <2>2, <2>5 DEF RolledBack
      <3>3. Layout' /\ pc' \in {"clear", "settle"}
        BY <1>0, <2>1, <3>1, <3>2, NextRolledBack DEF Layout, ActivateSteps
      <3> QED BY <2>1, <2>3, <3>3, SameDisk, KeepsWithin
    <2> QED BY <2>4, <2>5
  <1>5. CASE PutBack
    <2>1. /\ disk' = [disk EXCEPT !.live[root] = disk.old[root], !.old[root] = Absent]
          /\ held' = held \cup {disk'} /\ pc = "putBack" /\ pc' = "syncPutBack"
          /\ UNCHANGED <<quiet, outcome, root>>
      BY <1>5 DEF PutBack, Write
    <2>2. /\ disk'.live = [disk.live EXCEPT ![root] = disk.old[root]]
          /\ disk'.old = [disk.old EXCEPT ![root] = Absent]
          /\ disk'.journal = disk.journal /\ disk'.tx = disk.tx
          /\ disk'.present = disk.present
          /\ disk.live \in [Roots -> Content] /\ disk.old \in [Roots -> Content]
      BY <1>0, <2>1 DEF Disk
    <2>3. disk.journal = "prepared" /\ RolledBack(root) /\ disk.old[root] # Absent
      BY <1>0, <2>1 DEF Layout, RolledBack
    <2>4. \A v \in Versions : Resolves(disk, v) => Resolves(disk, v)'
      BY <1>0, <2>1, <2>2, <2>3 DEF Resolves, quiet
    <2>5. root \in disk.present
      <3>1. PICK v \in Versions : Resolves(disk, v)
        BY DEF IInv, AlwaysRecoverable
      <3> QED BY <1>0, <2>3, <3>1 DEF Resolves
    <2>6. RolledBack(root + 1)'
      BY <1>0, <1>a, <2>1, <2>2, <2>3, <2>5 DEF RolledBack
    <2>7. Layout'
      BY <2>1, <2>6 DEF Layout, ActivateSteps
    <2>8. disk'.tx
      BY <1>0, <2>2, <2>3 DEF NoDebris
    <2> QED BY <2>1, <2>4, <2>7, <2>8, KeepsWithin
  <1>6. CASE SyncPutBack
    <2>1. Sync /\ UNCHANGED <<quiet, outcome, disk>> /\ pc = "syncPutBack"
          /\ NextRoot("clear", "settle")
      BY <1>6 DEF SyncPutBack, Sync
    <2>2. RolledBack(root + 1)
      BY <1>0, <2>1 DEF Layout
    <2>3. UNCHANGED holds
      BY <2>1 DEF quiet
    <2>4. Layout' /\ pc' \in {"clear", "settle"}
      BY <1>0, <2>1, <2>2, NextRolledBack DEF Layout, ActivateSteps
    <2> QED BY <2>1, <2>3, <2>4, SameDisk, KeepsWithin
  <1>7. CASE Settle
    <2>1. Sync /\ UNCHANGED <<quiet, outcome, disk, root>> /\ pc = "settle" /\ pc' = "forget"
      BY <1>7 DEF Settle, Sync
    <2>2. Layout'
      BY <1>0, <2>1 DEF Layout, ActivateSteps, RolledBack
    <2>3. UNCHANGED holds
      BY <2>1 DEF quiet
    <2> QED BY <2>1, <2>2, <2>3, SameDisk, KeepsWithin
  <1>8. CASE Forget
    <2>1. /\ disk' = [disk EXCEPT !.journal = "none", !.present = {}]
          /\ held' = held \cup {disk'} /\ pc = "forget" /\ pc' = "syncForget"
          /\ UNCHANGED <<quiet, outcome, root>>
      BY <1>8 DEF Forget, Write
    <2>2. disk'.live = disk.live /\ disk'.old = disk.old /\ disk'.journal = "none"
          /\ disk'.tx = disk.tx
      BY <1>0, <2>1 DEF Disk
    <2>3. disk.journal = "prepared" => RolledBack(NumRoots + 1)
      BY <1>0, <2>1 DEF Layout
    <2>4. \A v \in Versions : Resolves(disk, v) => Resolves(disk, v)'
      BY <1>0, <2>1, <2>2, <2>3, RolledBackTree DEF Resolves, Tree, quiet
    <2>5. Layout'
      BY <2>1, <2>2 DEF Layout, ActivateSteps
    <2>6. disk'.tx \/ (disk'.journal = "none" /\ disk'.old = Nothing)
      BY <1>0, <2>2 DEF NoDebris
    <2> QED BY <2>1, <2>4, <2>5, <2>6, KeepsWithin
  <1>9. CASE SyncForget
    <2>1. Sync /\ UNCHANGED <<quiet, outcome, disk, root>>
          /\ pc = "syncForget" /\ pc' = "empty"
      BY <1>9 DEF SyncForget, Sync
    <2>2. Layout'
      BY <1>0, <2>1 DEF Layout, ActivateSteps
    <2>3. UNCHANGED holds
      BY <2>1 DEF quiet
    <2> QED BY <2>1, <2>2, <2>3, SameDisk, KeepsWithin
  <1>10. CASE (\E r \in Roots : EmptyPart(r)) /\ pc = "empty"
    <2> PICK r \in Roots : EmptyPart(r)
      BY <1>10
    <2>1. /\ disk' = [disk EXCEPT !.old[r] = Absent, !.new[r] = Absent]
          /\ held' = held \cup {disk'} /\ pc = "empty" /\ pc' = "empty"
          /\ UNCHANGED <<quiet, outcome, root>>
      BY <1>10 DEF EmptyPart, Write
    <2>2. /\ disk'.live = disk.live /\ disk'.journal = disk.journal /\ disk'.tx = disk.tx
          /\ disk'.old = [disk.old EXCEPT ![r] = Absent]
          /\ disk.old \in [Roots -> Content]
      BY <1>0, <2>1 DEF Disk
    <2>3. disk.journal = "none"
      BY <1>0, <2>1 DEF Layout
    <2>4. \A v \in Versions : Resolves(disk, v) => Resolves(disk, v)'
      BY <2>1, <2>2, <2>3 DEF Resolves, Tree, quiet
    <2>5. Layout'
      BY <2>1, <2>2, <2>3 DEF Layout, ActivateSteps
    <2>6. disk'.tx \/ (disk'.journal = "none" /\ disk'.old = Nothing)
      BY <1>0, <2>2, <2>3 DEF NoDebris, Nothing
    <2> QED BY <2>1, <2>4, <2>5, <2>6, KeepsWithin
  <1>11. CASE Empty
    <2>1. /\ disk' = [disk EXCEPT !.tx = FALSE, !.old = Nothing, !.new = Nothing]
          /\ held' = held \cup {disk'} /\ pc = "empty" /\ pc' = "unstage"
          /\ UNCHANGED <<quiet, outcome, root>>
      BY <1>11 DEF Empty, Write
    <2>2. disk'.live = disk.live /\ disk'.journal = disk.journal /\ disk'.old = Nothing
          /\ ~ disk'.tx
      BY <1>0, <2>1 DEF Disk
    <2>3. disk.journal = "none"
      BY <1>0, <2>1 DEF Layout
    <2>4. \A v \in Versions : Resolves(disk, v) => Resolves(disk, v)'
      BY <2>1, <2>2, <2>3 DEF Resolves, Tree, quiet
    <2>5. Layout'
      BY <2>1, <2>2, <2>3 DEF Layout, ActivateSteps
    <2> QED BY <2>1, <2>2, <2>3, <2>4, <2>5, KeepsWithin
  <1>12. CASE Unstage
    <2>1. /\ disk' = [disk EXCEPT !.stage = Absent]
          /\ held' = held \cup {disk'} /\ pc = "unstage" /\ pc' = "lastSync"
          /\ UNCHANGED <<quiet, outcome, root>>
      BY <1>12 DEF Unstage, Write
    <2>2. disk'.live = disk.live /\ disk'.journal = disk.journal /\ disk'.old = disk.old
          /\ disk'.tx = disk.tx
      BY <1>0, <2>1 DEF Disk
    <2>3. disk.journal = "none" /\ ~ disk.tx
      BY <1>0, <2>1 DEF Layout
    <2>4. \A v \in Versions : Resolves(disk, v) => Resolves(disk, v)'
      BY <2>1, <2>2, <2>3 DEF Resolves, Tree, quiet
    <2>5. Layout'
      BY <2>1, <2>2, <2>3 DEF Layout, ActivateSteps
    <2>6. disk'.tx \/ (disk'.journal = "none" /\ disk'.old = Nothing)
      BY <1>0, <2>2, <2>3 DEF NoDebris
    <2> QED BY <2>1, <2>4, <2>5, <2>6, KeepsWithin
  <1> QED
    BY <1>1, <1>2, <1>3, <1>4, <1>5, <1>6, <1>7, <1>8, <1>9, <1>10, <1>11, <1>12
       DEF Recover

-----------------------------------------------------------------------------
(* The steps of activateBackup *)

\* Before the commit, a step that leaves the disk bound to the same version and where
\* the next step expects it keeps the invariant.
LEMMA KeepsActivate ==
  ASSUME IInv, TypeOK', UNCHANGED <<quiet, outcome>>,
         pc \in (ActivateSteps \ {"syncCommit"}) \cup {"abort"},
         pc' \in (ActivateSteps \ {"syncCommit"}) \cup {"abort", "return"},
         disk' \in held', held' \subseteq held \cup {disk'},
         \A v \in Versions : Resolves(disk, v) => Resolves(disk, v)',
         disk'.tx \/ (disk'.journal = "none" /\ disk'.old = Nothing),
         Layout'
  PROVE  IInv'
  <1>1. UNCHANGED <<holds, target, reply>> /\ outcome = "error" /\ outcome' = "error"
    BY DEF quiet, history, IInv, Answered
  <1>2. Uncommitted /\ reply[target] = "none" /\ \A v \in Versions : v > target => reply[v] = "none"
    BY DEF Uncommitted, IInv, Answered
  <1>3. ~ Recovering' /\ ~ Committed'
    BY <1>1 DEF Committed, Recovering, ActivateSteps, RecoverSteps
  <1>4. Answered'
    BY <1>1, <1>2, <1>3 DEF Answered
  <1>5. pc' \notin {"syncCommit", "idle", "dropStage"}
    BY DEF ActivateSteps
  <1>6. UNCHANGED <<holds, target, history>>
    BY DEF quiet
  <1> QED BY <1>2, <1>3, <1>4, <1>5, <1>6, Keeps

\* The loop over the roots goes on or ends.
LEMMA NextSwapped ==
  ASSUME TypeOK, Swapped(root + 1), UNCHANGED <<holds, disk, target>>,
         NextRoot("moveOld", "commit")
  PROVE  /\ pc' = "moveOld" => Swapped(root)'
         /\ pc' = "commit" => Swapped(NumRoots + 1)'
         /\ pc' \in {"moveOld", "commit"}
  <1>1. CASE root < NumRoots
    BY <1>1 DEF NextRoot, Swapped, Goto, Tree
  <1>2. CASE ~ (root < NumRoots)
    <2>1. root = NumRoots
      BY <1>2, Bounds DEF TypeOK, Roots
    <2> QED BY <1>2, <2>1 DEF NextRoot, Swapped, Goto, Tree
  <1> QED BY <1>1, <1>2

LEMMA InvActivate ==
  ASSUME IInv, TypeOK',
         Activate \/ \E r \in Roots : EmptyPart(r) /\ pc = "abort",
         ~ Commit, ~ SyncCommit
  PROVE  IInv'
  <1>0. /\ TypeOK /\ disk \in held /\ disk \in Disk /\ NoDebris /\ Layout
        /\ root \in Roots /\ target \in Versions
    BY DEF IInv, TypeOK
  <1>a. \A r \in Roots : (r < root + 1 <=> r < root \/ r = root) /\ (r >= root + 1 <=> r > root)
                         /\ (r >= root <=> r > root \/ r = root) /\ r >= 1 /\ ~ (r < 1)
                         /\ (r < root \/ r > root => r # root)
    BY <1>0, Bounds DEF Roots
  <1> USE DEF Goto, ActivateSteps
  <1>1. CASE MakeTx
    <2>1. /\ disk' = [disk EXCEPT !.tx = TRUE] /\ held' = held \cup {disk'}
          /\ pc = "mktx" /\ pc' = "moveStage" /\ UNCHANGED <<quiet, outcome, root>>
          /\ ~ disk.tx
      BY <1>0, <1>1 DEF MakeTx, Write, Layout
    <2>2. /\ disk'.live = disk.live /\ disk'.journal = disk.journal /\ disk'.tx
          /\ disk'.old = disk.old /\ disk'.stage = disk.stage
      BY <1>0, <2>1 DEF Disk
    <2>3. disk.journal = "none" /\ disk.old = Nothing
      BY <1>0, <2>1 DEF NoDebris
    <2>4. \A v \in Versions : Resolves(disk, v) => Resolves(disk, v)'
      BY <2>1, <2>2, <2>3 DEF Resolves, Tree, quiet
    <2>5. Layout'
      BY <1>0, <2>1, <2>2, <2>3 DEF Layout, quiet
    <2> QED BY <2>1, <2>2, <2>4, <2>5, KeepsActivate
  <1>2. CASE MoveStage
    <2>1. /\ disk' = [disk EXCEPT !.new = Tree(disk.stage), !.stage = Absent]
          /\ held' = held \cup {disk'}
          /\ pc = "moveStage" /\ pc' = "syncStage" /\ UNCHANGED <<quiet, outcome, root>>
      BY <1>2 DEF MoveStage, Write
    <2>2. /\ disk'.live = disk.live /\ disk'.journal = disk.journal /\ disk'.tx = disk.tx
          /\ disk'.old = disk.old /\ disk'.new = Tree(disk.stage)
      BY <1>0, <2>1 DEF Disk
    <2>3. disk.journal = "none" /\ disk.old = Nothing /\ disk.stage = target /\ disk.tx
      BY <1>0, <2>1 DEF Layout
    <2>4. \A v \in Versions : Resolves(disk, v) => Resolves(disk, v)'
      BY <2>1, <2>2, <2>3 DEF Resolves, Tree, quiet
    <2>5. Layout'
      BY <2>1, <2>2, <2>3 DEF Layout, quiet, Tree
    <2> QED BY <2>1, <2>2, <2>3, <2>4, <2>5, KeepsActivate
  <1>3. CASE SyncStage \/ SyncOld
    <2>1. Sync /\ UNCHANGED <<quiet, outcome, disk, root>>
          /\ \/ pc = "syncStage" /\ pc' = "prepare"
             \/ pc = "syncOld" /\ pc' = "moveNew"
      BY <1>3 DEF SyncStage, SyncOld, Sync
    <2>2. UNCHANGED <<holds, target>>
      BY <2>1 DEF quiet
    <2>3. Layout'
      BY <1>0, <2>1, <2>2 DEF Layout, Aside, Tree
    <2> QED BY <2>1, <2>2, <2>3, SameDisk, KeepsActivate
  <1>4. CASE Abort
    <2>1. /\ disk' = [disk EXCEPT !.tx = FALSE, !.old = Nothing, !.new = Nothing]
          /\ held' = held \cup {disk'}
          /\ pc = "abort" /\ pc' = "return" /\ UNCHANGED <<quiet, outcome, root>>
      BY <1>4 DEF Abort, Write
    <2>2. disk'.live = disk.live /\ disk'.journal = disk.journal /\ disk'.old = Nothing
      BY <1>0, <2>1 DEF Disk
    <2>3. disk.journal = "none"
      BY <1>0, <2>1 DEF Layout
    <2>4. \A v \in Versions : Resolves(disk, v) => Resolves(disk, v)'
      BY <2>1, <2>2, <2>3 DEF Resolves, Tree, quiet
    <2>5. Layout'
      BY <2>1 DEF Layout
    <2> QED BY <2>1, <2>2, <2>3, <2>4, <2>5, KeepsActivate
  <1>5. CASE (\E r \in Roots : EmptyPart(r)) /\ pc = "abort"
    <2> PICK r \in Roots : EmptyPart(r)
      BY <1>5
    <2>1. /\ disk' = [disk EXCEPT !.old[r] = Absent, !.new[r] = Absent]
          /\ held' = held \cup {disk'} /\ pc = "abort" /\ pc' = "abort"
          /\ UNCHANGED <<quiet, outcome, root>>
      BY <1>5 DEF EmptyPart, Write
    <2>2. /\ disk'.live = disk.live /\ disk'.journal = disk.journal /\ disk'.tx = disk.tx
          /\ disk'.old = [disk.old EXCEPT ![r] = Absent]
          /\ disk.old \in [Roots -> Content]
      BY <1>0, <2>1 DEF Disk
    <2>3. disk.journal = "none"
      BY <1>0, <2>1 DEF Layout
    <2>4. \A v \in Versions : Resolves(disk, v) => Resolves(disk, v)'
      BY <2>1, <2>2, <2>3 DEF Resolves, Tree, quiet
    <2>5. Layout'
      BY <2>1, <2>2, <2>3 DEF Layout
    <2>6. disk'.tx \/ (disk'.journal = "none" /\ disk'.old = Nothing)
      BY <1>0, <2>2, <2>3 DEF NoDebris, Nothing
    <2> QED BY <2>1, <2>4, <2>5, <2>6, KeepsActivate
  <1>6. CASE Prepare
    <2>1. /\ disk' = [disk EXCEPT !.journal = "prepared",
                                  !.present = {r \in Roots : disk.live[r] # Absent}]
          /\ held' = held \cup {disk'}
          /\ pc = "prepare" /\ pc' = "syncPrepare" /\ UNCHANGED <<quiet, outcome, root>>
      BY <1>6 DEF Prepare, Write
    <2>2. /\ disk'.live = disk.live /\ disk'.journal = "prepared" /\ disk'.tx = disk.tx
          /\ disk'.old = disk.old /\ disk'.new = disk.new
          /\ disk'.present = {r \in Roots : disk.live[r] # Absent}
      BY <1>0, <2>1 DEF Disk
    <2>3. /\ disk.journal = "none" /\ disk.old = Nothing /\ disk.new = Tree(target)
          /\ disk.tx
      BY <1>0, <2>1 DEF Layout
    <2>4. UNCHANGED <<holds, target>>
      BY <2>1 DEF quiet
    <2>5. \A v \in Versions : Resolves(disk, v) => Resolves(disk, v)'
      <3> SUFFICES ASSUME NEW v \in Versions, Resolves(disk, v) PROVE Resolves(disk, v)'
        OBVIOUS
      <3>1. disk.live = Tree(v)
        BY <2>3 DEF Resolves
      <3>2. \A r \in Roots : disk.live[r] = IF r \in holds[v] THEN v ELSE Absent
        BY <3>1 DEF Tree
      <3>3. holds[v] \subseteq Roots /\ v # Absent
        BY <1>0, Numbers DEF TypeOK
      <3>4. disk'.present = holds[v]
        BY <2>2, <3>2, <3>3
      <3> QED BY <2>2, <2>3, <2>4, <3>2, <3>4 DEF Resolves, Nothing
    <2>6. Swapped(1)'
      BY <1>a, <2>2, <2>3, <2>4 DEF Swapped, Nothing, Tree
    <2>7. Layout'
      BY <2>1, <2>2, <2>3, <2>6 DEF Layout
    <2> QED BY <2>1, <2>2, <2>3, <2>5, <2>7, KeepsActivate
  <1>7. CASE SyncPrepare
    <2>1. Sync /\ UNCHANGED <<quiet, outcome, disk>> /\ root' = 1
          /\ pc = "syncPrepare" /\ pc' = "moveOld"
      BY <1>7 DEF SyncPrepare, Sync
    <2>2. UNCHANGED <<holds, target>>
      BY <2>1 DEF quiet
    <2>3. Swapped(root)'
      BY <1>0, <2>1, <2>2 DEF Layout, Swapped, Tree
    <2>4. Layout'
      BY <1>0, <2>1, <2>3 DEF Layout
    <2> QED BY <2>1, <2>2, <2>4, SameDisk, KeepsActivate
  <1>8. CASE MoveOld
    <2>1. pc = "moveOld" /\ UNCHANGED <<quiet, outcome, root, holds, target>>
      BY <1>8 DEF MoveOld, quiet
    <2>2. Swapped(root) /\ disk.journal = "prepared" /\ disk.tx
      BY <1>0, <2>1 DEF Layout, Swapped
    <2>3. CASE root \in disk.present
      <3>1. /\ disk' = [disk EXCEPT !.old[root] = disk.live[root], !.live[root] = Absent]
            /\ held' = held \cup {disk'} /\ pc' = "syncOld"
        BY <1>8, <2>3 DEF MoveOld, Write
      <3>2. /\ disk'.live = [disk.live EXCEPT ![root] = Absent]
            /\ disk'.old = [disk.old EXCEPT ![root] = disk.live[root]]
            /\ disk'.journal = disk.journal /\ disk'.tx = disk.tx
            /\ disk'.present = disk.present /\ disk'.new = disk.new
            /\ disk.live \in [Roots -> Content] /\ disk.old \in [Roots -> Content]
        BY <1>0, <3>1 DEF Disk
      <3>3. disk.old[root] = Absent
        BY <1>0, <1>a, <2>2 DEF Swapped
      <3>4. \A v \in Versions : Resolves(disk, v) => Resolves(disk, v)'
        BY <1>0, <2>1, <2>2, <2>3, <3>2, <3>3, Numbers DEF Resolves
      <3>5. disk.live[root] # Absent
        <4>1. PICK v \in Versions : Resolves(disk, v)
          BY DEF IInv, AlwaysRecoverable
        <4> QED BY <1>0, <2>2, <2>3, <3>3, <4>1, Numbers DEF Resolves
      <3>6. Aside'
        BY <1>0, <1>a, <2>1, <2>2, <3>2, <3>5 DEF Aside, Swapped, Tree
      <3>7. Layout'
        BY <2>2, <3>1, <3>2, <3>6 DEF Layout
      <3> QED BY <2>1, <2>2, <3>1, <3>2, <3>4, <3>7, KeepsActivate
    <2>4. CASE root \notin disk.present
      <3>1. UNCHANGED <<disk, held>> /\ pc' = "moveNew"
        BY <1>8, <2>4 DEF MoveOld
      <3>2. Aside'
        BY <1>0, <1>a, <2>1, <2>2, <2>4, <3>1 DEF Aside, Swapped, Tree
      <3>3. Layout'
        BY <2>2, <3>1, <3>2 DEF Layout
      <3> QED BY <2>1, <3>1, <3>3, SameDisk, KeepsActivate
    <2> QED BY <2>3, <2>4
  <1>9. CASE MoveNew
    <2>1. pc = "moveNew" /\ UNCHANGED <<quiet, outcome, holds, target>>
      BY <1>9 DEF MoveNew, quiet
    <2>2. Aside /\ disk.journal = "prepared" /\ disk.tx
      BY <1>0, <2>1 DEF Layout, Aside
    <2>3. disk.new[root] = Tree(target)[root]
      BY <1>0, <1>a, <2>2 DEF Aside
    <2>4. CASE disk.new[root] # Absent
      <3>1. /\ disk' = [disk EXCEPT !.live[root] = disk.new[root], !.new[root] = Absent]
            /\ held' = held \cup {disk'} /\ pc' = "syncNew" /\ root' = root
        BY <1>9, <2>4 DEF MoveNew, Write
      <3>2. /\ disk'.live = [disk.live EXCEPT ![root] = disk.new[root]]
            /\ disk'.new = [disk.new EXCEPT ![root] = Absent]
            /\ disk'.journal = disk.journal /\ disk'.tx = disk.tx
            /\ disk'.present = disk.present /\ disk'.old = disk.old
            /\ disk.live \in [Roots -> Content] /\ disk.new \in [Roots -> Content]
        BY <1>0, <3>1 DEF Disk
      <3>3. \A v \in Versions : Resolves(disk, v) => Resolves(disk, v)'
        BY <1>0, <2>1, <2>2, <3>2 DEF Resolves, Aside
      <3>4. Swapped(root + 1)'
        BY <1>0, <1>a, <2>1, <2>2, <2>3, <3>1, <3>2 DEF Aside, Swapped, Tree
      <3>5. Layout'
        BY <2>2, <3>1, <3>2, <3>4 DEF Layout
      <3> QED BY <2>1, <2>2, <3>1, <3>2, <3>3, <3>5, KeepsActivate
    <2>5. CASE disk.new[root] = Absent
      <3>1. UNCHANGED <<disk, held>> /\ NextRoot("moveOld", "commit")
        BY <1>9, <2>5 DEF MoveNew
      <3>2. Swapped(root + 1)
        BY <1>0, <1>a, <2>2, <2>3, <2>5 DEF Aside, Swapped
      <3>3. Layout' /\ pc' \in {"moveOld", "commit"}
        BY <1>0, <2>1, <2>2, <3>1, <3>2, NextSwapped DEF Layout
      <3> QED BY <2>1, <3>1, <3>3, SameDisk, KeepsActivate
    <2> QED BY <2>4, <2>5
  <1>10. CASE SyncNew
    <2>1. Sync /\ UNCHANGED <<quiet, outcome, disk, holds, target>> /\ pc = "syncNew"
          /\ NextRoot("moveOld", "commit")
      BY <1>10 DEF SyncNew, Sync, quiet
    <2>2. Layout' /\ pc' \in {"moveOld", "commit"}
      BY <1>0, <2>1, NextSwapped DEF Layout
    <2> QED BY <2>1, <2>2, SameDisk, KeepsActivate
  <1> QED
    BY <1>1, <1>2, <1>3, <1>4, <1>5, <1>6, <1>7, <1>8, <1>9, <1>10 DEF Activate

-----------------------------------------------------------------------------
(* The commit of a restore, the end of a recovery, and the process around them *)

\* What a version needs to be acceptable does not depend on where the process is.
LEMMA NewestAcceptable ==
  ASSUME IInv, Uncommitted
  PROVE  Acceptable(target)
  <1>1. /\ TypeOK /\ target \in Versions /\ reply[target] = "none"
        /\ \A v \in Versions : holds[v] # {}
        /\ \A v \in Versions : v > target => reply[v] = "none"
    BY DEF IInv, TypeOK, Answered
  <1>2. PICK b \in Versions : b < target /\ loaded = Tree(b)
    BY DEF IInv, Bound
  <1>3. \A w \in Versions : reply[w] = "done" => w <= target
    BY <1>1, Numbers
  <1>4. \A w \in Versions : loaded = Tree(w) => w <= target
    <2>1. \A w \in Versions : loaded = Tree(w) => w = b
      BY <1>1, <1>2, TreeUnique
    <2> QED BY <1>1, <1>2, <2>1, Numbers
  <1> QED BY <1>1, <1>3, <1>4, Numbers DEF Acceptable

LEMMA InvCommit == IInv /\ TypeOK' /\ Commit => IInv'
  <1> SUFFICES ASSUME IInv, TypeOK', Commit PROVE IInv'
    OBVIOUS
  <1>1. /\ TypeOK /\ disk \in held /\ disk \in Disk /\ NoDebris /\ AlwaysRecoverable
        /\ target \in Versions
    BY DEF IInv, TypeOK
  <1>2. /\ disk' = [disk EXCEPT !.journal = "committed"] /\ held' = held \cup {disk'}
        /\ pc = "commit" /\ pc' = "syncCommit" /\ UNCHANGED <<quiet, outcome, root>>
    BY DEF Commit, Goto, Write
  <1>3. UNCHANGED <<holds, target, history>>
    BY <1>2 DEF quiet
  <1>4. /\ disk'.live = disk.live /\ disk'.journal = "committed" /\ disk'.tx = disk.tx
        /\ disk.live \in [Roots -> Content]
    BY <1>1, <1>2 DEF Disk
  <1>5. disk.tx /\ Swapped(NumRoots + 1)
    BY <1>2 DEF IInv, Layout, ActivateSteps
  <1>6. disk'.live = Tree(target)
    <2>1. \A r \in Roots : r < NumRoots + 1
      BY Bounds DEF Roots
    <2> QED BY <1>4, <1>5, <2>1 DEF Swapped, Tree
  <1>7. Uncommitted
    BY <1>2 DEF Uncommitted, ActivateSteps
  <1>8. Acceptable(target)' /\ Resolves(disk, target)'
    BY <1>1, <1>3, <1>4, <1>6, <1>7, NewestAcceptable, AcceptableKept DEF Resolves, Tree
  <1>9. AlwaysRecoverable'
    <2> SUFFICES ASSUME NEW d \in held'
                 PROVE  \E v \in Versions : (Acceptable(v) /\ Resolves(d, v))'
      BY <1>2 DEF AlwaysRecoverable
    <2>1. CASE d \in held
      <3>1. PICK v \in Versions : Acceptable(v) /\ Resolves(d, v)
        BY <1>1, <2>1 DEF AlwaysRecoverable
      <3> QED BY <1>3, <3>1, AcceptableKept DEF Resolves, Tree
    <2>2. CASE d = disk'
      BY <1>1, <1>3, <1>8, <2>2
    <2> QED BY <1>2, <2>1, <2>2
  <1>10. NoDebris'
    BY <1>1, <1>2, <1>4, <1>5 DEF NoDebris, Nothing
  <1>11. ~ Uncommitted' /\ ~ Committed' /\ ~ Recovering'
    BY <1>2 DEF Uncommitted, Committed, Recovering, ActivateSteps, RecoverSteps
  <1>12. Bound'
    BY <1>2, <1>8, <1>11 DEF Bound
  <1>13. Layout'
    BY <1>2, <1>4, <1>5 DEF Layout
  <1>14. Answered'
    BY <1>2, <1>3, <1>7, <1>11 DEF IInv, Answered, history, ActivateSteps
  <1> QED
    BY <1>1, <1>2, <1>3, <1>9, <1>10, <1>12, <1>13, <1>14 DEF IInv

LEMMA InvSyncCommit == IInv /\ TypeOK' /\ SyncCommit => IInv'
  <1> SUFFICES ASSUME IInv, TypeOK', SyncCommit PROVE IInv'
    OBVIOUS
  <1>1. /\ disk \in held /\ NoDebris /\ target \in Versions
    BY DEF IInv, TypeOK
  <1>2. /\ disk' = disk /\ held' = {disk} /\ pc = "syncCommit" /\ pc' = "read"
        /\ caller' = "cleanup" /\ outcome' = "success"
        /\ UNCHANGED <<holds, target, history>>
    BY DEF SyncCommit, Goto, Sync
  <1>3. Acceptable(target) /\ Resolves(disk, target)
    BY <1>2 DEF IInv, Bound
  <1>4. Acceptable(target)' /\ Resolves(disk, target)'
    BY <1>1, <1>2, <1>3, AcceptableKept DEF Resolves, Tree
  <1>5. HeldAt(target)' /\ AlwaysRecoverable' /\ NoDebris'
    BY <1>1, <1>2, <1>4 DEF HeldAt, AlwaysRecoverable, NoDebris, Nothing
  <1>6. ~ Uncommitted'
    BY <1>2 DEF Uncommitted, ActivateSteps
  <1>7. Bound'
    BY <1>2, <1>5, <1>6 DEF Bound
  <1>8. Layout'
    BY <1>2 DEF Layout, ActivateSteps
  <1>9. Answered'
    BY <1>2 DEF IInv, Answered, history, ActivateSteps
  <1> QED BY <1>1, <1>2, <1>5, <1>7, <1>8, <1>9 DEF IInv

LEMMA InvLastSync == IInv /\ TypeOK' /\ LastSync => IInv'
  <1> SUFFICES ASSUME IInv, TypeOK', LastSync PROVE IInv'
    OBVIOUS
  <1>1. /\ TypeOK /\ disk \in held /\ disk \in Disk /\ NoDebris /\ target \in Versions
        /\ AlwaysRecoverable /\ \A v \in Versions : holds[v] # {}
    BY DEF IInv, TypeOK
  <1>2. /\ disk' = disk /\ held' = {disk} /\ pc = "lastSync"
        /\ UNCHANGED <<holds, caller, target, outcome, stopped, reply>>
    BY DEF LastSync, Sync
  <1>3. ~ disk.tx /\ disk.journal = "none" /\ Recovering
    BY <1>2 DEF IInv, Layout, Recovering, RecoverSteps
  <1>4. CASE caller = "startup"
    <2>1. pc' = "idle" /\ loaded' = disk.live
      BY <1>4 DEF LastSync, Goto
    <2>2. PICK v \in Versions : Acceptable(v) /\ Resolves(disk, v)
      BY <1>1 DEF AlwaysRecoverable
    <2>3. disk.live = Tree(v)
      BY <1>3, <2>2 DEF Resolves
    <2>4. Acceptable(v)'
      <3>1. \A w \in Versions : loaded' = Tree(w)' => w = v
        BY <1>1, <1>2, <2>1, <2>3, TreeUnique DEF Tree
      <3> QED BY <1>2, <2>2, <3>1, Numbers DEF Acceptable
    <2>5. HeldAt(v)' /\ loaded' = Tree(v)'
      BY <1>2, <2>1, <2>2, <2>3, <2>4 DEF HeldAt, Resolves, Tree
    <2>6. AlwaysRecoverable' /\ NoDebris'
      BY <1>1, <1>2, <2>5 DEF AlwaysRecoverable, HeldAt, NoDebris, Nothing
    <2>7. ~ Uncommitted' /\ ~ Committed' /\ ~ Recovering'
      BY <2>1 DEF Uncommitted, Committed, Recovering, ActivateSteps, RecoverSteps
    <2>8. Bound'
      BY <2>1, <2>5, <2>7 DEF Bound
    <2>9. Layout'
      BY <1>2, <1>3, <2>1 DEF Layout, ActivateSteps
    <2>10. Answered'
      BY <1>2, <2>1, <2>7 DEF IInv, Answered, ActivateSteps
    <2> QED BY <1>1, <1>2, <2>6, <2>8, <2>9, <2>10 DEF IInv
  <1>5. CASE caller # "startup"
    <2>1. pc' = "return" /\ UNCHANGED <<holds, target, history>>
      BY <1>2, <1>5 DEF LastSync, Goto, history
    <2>2. caller \in {"rollback", "cleanup"}
      BY <1>1, <1>5 DEF TypeOK
    <2>3. Uncommitted' => Uncommitted
      BY <1>2, <1>3, <2>1, <2>2
         DEF Uncommitted, Committed, Recovering, ActivateSteps, RecoverSteps, IInv, Answered
    <2>4. Committed' => Committed
      BY <1>2, <1>3, <2>1, <2>2
         DEF Uncommitted, Committed, Recovering, ActivateSteps, RecoverSteps, IInv, Answered
    <2>5. Layout'
      BY <2>1 DEF Layout, ActivateSteps
    <2>6. Answered'
      BY <1>2, <1>3, <2>1, <2>2, <2>3, <2>4
         DEF IInv, Answered, Uncommitted, Committed, Recovering, ActivateSteps, RecoverSteps
    <2>7. Sync
      BY <1>2 DEF Sync
    <2> QED BY <1>2, <2>1, <2>3, <2>4, <2>5, <2>6, <2>7, SameDisk, Keeps
  <1> QED BY <1>4, <1>5

-----------------------------------------------------------------------------
(* The steps of the handler and of the process *)

LEMMA InvUpload == IInv /\ TypeOK' /\ Upload => IInv'
  <1> SUFFICES ASSUME IInv, TypeOK', Upload PROVE IInv'
    OBVIOUS
  <1>1. /\ disk \in held /\ disk \in Disk /\ NoDebris /\ target \in Versions
        /\ target + 1 \in Versions /\ target < target + 1
    BY Bounds DEF IInv, TypeOK, Upload, Versions
  <1>2. /\ disk' = [disk EXCEPT !.stage = target + 1] /\ held' = held \cup {disk'}
        /\ pc = "idle" /\ pc' = "staged" /\ target' = target + 1
        /\ UNCHANGED <<holds, loaded, reply>>
    BY DEF Upload, Goto, Write, history
  <1>3. /\ disk'.live = disk.live /\ disk'.journal = disk.journal /\ disk'.tx = disk.tx
        /\ disk'.old = disk.old /\ disk'.stage = target + 1
    BY <1>1, <1>2 DEF Disk
  <1>4. ~ disk.tx /\ disk.journal = "none" /\ disk.old = Nothing
    BY <1>1, <1>2 DEF IInv, Layout, NoDebris
  <1>5. PICK b \in Versions : loaded = Tree(b) /\ HeldAt(b)
    BY <1>2 DEF IInv, Bound
  <1>6. Acceptable(b)' /\ b < target'
    BY <1>1, <1>2, <1>5, Numbers DEF HeldAt, Acceptable, Tree
  <1>7. \A d \in held' : Resolves(d, b)'
    BY <1>1, <1>2, <1>3, <1>4, <1>5 DEF HeldAt, Resolves, Tree
  <1>8. HeldAt(b)' /\ AlwaysRecoverable'
    BY <1>2, <1>6, <1>7 DEF HeldAt, AlwaysRecoverable
  <1>9. NoDebris'
    BY <1>1, <1>2, <1>3, <1>4 DEF NoDebris, Nothing
  <1>10. ~ Committed'
    BY <1>2 DEF Committed, Recovering, RecoverSteps
  <1>11. Bound'
    <2>1. loaded' = Tree(b)'
      BY <1>2, <1>5 DEF Tree
    <2> QED BY <1>2, <1>6, <1>8, <1>10, <2>1 DEF Bound
  <1>12. Layout'
    BY <1>2, <1>3, <1>4 DEF Layout, ActivateSteps
  <1>13. Answered'
    <2>1. \A v \in Versions : v > target => reply[v] = "none"
      BY DEF IInv, Answered
    <2>2. \A v \in Versions : v > target' => v > target
      BY <1>1, <1>2, Numbers
    <2>3. ~ Recovering' /\ pc' \notin ActivateSteps \cup {"abort"}
      BY <1>2 DEF Recovering, ActivateSteps, RecoverSteps
    <2> QED BY <1>1, <1>2, <2>1, <2>2, <2>3, Numbers DEF Answered
  <1> QED
    BY <1>2, <1>8, <1>9, <1>11, <1>12, <1>13 DEF IInv

\* The restore has been answered as failed and its transaction is gone: the version
\* served before it is served on.
LEMMA Refused ==
  ASSUME IInv, TypeOK', Uncommitted, ~ disk.tx, pc' = "dropStage",
         reply' = [reply EXCEPT ![target] = "failed"],
         UNCHANGED <<holds, disk, held, progress, loaded>>
  PROVE  IInv'
  <1>1. /\ disk \in held /\ NoDebris /\ target \in Versions /\ target' = target
        /\ reply \in [Versions -> {"none", "done", "failed", "stopped"}]
    BY DEF IInv, TypeOK, progress
  <1>2. PICK b \in Versions : b < target /\ loaded = Tree(b) /\ HeldAt(b)
    BY DEF IInv, Bound
  <1>3. Acceptable(b)'
    BY <1>1, <1>2, Numbers DEF HeldAt, Acceptable, Tree
  <1>4. HeldAt(b)' /\ AlwaysRecoverable' /\ loaded' = Tree(b)'
    BY <1>1, <1>2, <1>3 DEF HeldAt, AlwaysRecoverable, Resolves, Tree
  <1>5. NoDebris'
    BY <1>1 DEF NoDebris, Nothing
  <1>6. ~ Uncommitted' /\ ~ Committed' /\ ~ Recovering'
    BY DEF Uncommitted, Committed, Recovering, ActivateSteps, RecoverSteps
  <1>7. Bound'
    BY <1>4, <1>6 DEF Bound
  <1>8. Layout'
    BY DEF Layout, ActivateSteps
  <1>9. Answered'
    <2>1. \A v \in Versions : v > target => v # target
      BY <1>1, Numbers
    <2> QED BY <1>1, <1>6, <2>1 DEF IInv, Answered, ActivateSteps
  <1> QED BY <1>1, <1>4, <1>5, <1>7, <1>8, <1>9 DEF IInv

LEMMA InvReturn == IInv /\ TypeOK' /\ Return => IInv'
  <1> SUFFICES ASSUME IInv, TypeOK', Return PROVE IInv'
    OBVIOUS
  <1>1. /\ disk \in held /\ NoDebris /\ target \in Versions
        /\ reply \in [Versions -> {"none", "done", "failed", "stopped"}]
        /\ outcome \in {"success", "error"} /\ AlwaysRecoverable
        /\ \A v \in Versions : v > target => reply[v] = "none"
    BY DEF IInv, TypeOK, Answered
  <1>2. /\ pc = "return" /\ pc' = "dropStage" /\ target' = target
        /\ UNCHANGED <<holds, disk, held, progress, loaded>>
        /\ reply[target] = "none"
    BY DEF Return, Goto, progress, IInv, Answered
  <1>3. CASE outcome = "error" /\ ~ disk.tx
    <2>1. Uncommitted /\ reply' = [reply EXCEPT ![target] = "failed"]
      BY <1>2, <1>3 DEF Uncommitted, Return
    <2> QED BY <1>2, <1>3, <2>1, Refused
  <1>4. CASE outcome = "success" \/ disk.tx
    <2>1. stopped' /\ reply' = [reply EXCEPT ![target] =
                                  IF outcome = "success" THEN "done" ELSE "stopped"]
      BY <1>4 DEF Return
    <2>2. AlwaysRecoverable'
      <3>1. CASE outcome = "success"
        <4>1. HeldAt(target)
          BY <1>2, <3>1 DEF Committed, IInv, Bound
        <4>2. PICK t \in Versions : t = target /\ HeldAt(t)
          BY <1>1, <4>1
        <4>3. Acceptable(t)'
          BY <1>1, <1>2, <2>1, <3>1, <4>2, Numbers DEF HeldAt, Acceptable, Tree
        <4>4. \A d \in held' \cup {disk'} : Resolves(d, t)'
          BY <1>1, <1>2, <4>2 DEF HeldAt, Resolves, Tree
        <4>5. \A d \in held' \cup {disk'} :
                \E v \in Versions : (Acceptable(v) /\ Resolves(d, v))'
          BY <4>3, <4>4
        <4> QED BY <4>5 DEF AlwaysRecoverable
      <3>2. CASE outcome # "success"
        <4>1. \A v \in Versions : Acceptable(v) => Acceptable(v)'
          BY <1>1, <1>2, <2>1, <3>2 DEF Acceptable, Tree
        <4>2. \A d \in held' \cup {disk'} :
                \E v \in Versions : (Acceptable(v) /\ Resolves(d, v))'
          <5> SUFFICES ASSUME NEW d \in held \cup {disk}
                       PROVE  \E v \in Versions : (Acceptable(v) /\ Resolves(d, v))'
            BY <1>2
          <5>1. PICK v \in Versions : Acceptable(v) /\ Resolves(d, v)
            BY <1>1 DEF AlwaysRecoverable
          <5> QED BY <1>2, <4>1, <5>1 DEF Resolves, Tree
        <4> QED BY <4>2 DEF AlwaysRecoverable
      <3> QED BY <3>1, <3>2
    <2>3. NoDebris'
      BY <1>1, <1>2 DEF NoDebris, Nothing
    <2>4. ~ Uncommitted' /\ ~ Committed' /\ ~ Recovering'
      BY <1>2 DEF Uncommitted, Committed, Recovering, ActivateSteps, RecoverSteps
    <2>5. Bound'
      BY <1>2, <2>1, <2>4 DEF Bound
    <2>6. Layout'
      BY <1>2, <2>1 DEF Layout, ActivateSteps
    <2>7. Answered'
      <3>1. \A v \in Versions : v > target => v # target
        BY <1>1, Numbers
      <3> QED BY <1>1, <1>2, <2>1, <2>4, <3>1 DEF Answered, ActivateSteps
    <2> QED BY <1>1, <1>2, <2>2, <2>3, <2>5, <2>6, <2>7 DEF IInv
  <1> QED BY <1>1, <1>3, <1>4

LEMMA InvCrash == IInv /\ TypeOK' /\ Crash => IInv'
  <1> SUFFICES ASSUME IInv, TypeOK', Crash PROVE IInv'
    OBVIOUS
  <1>1. NoDebris /\ AlwaysRecoverable
    BY DEF IInv
  <1>2. PICK d \in held : disk' = d /\ held' = {d}
    BY DEF Crash
  <1>3. pc' = "down" /\ UNCHANGED <<holds, target, reply, history>>
    BY DEF Crash, Goto, progress, history
  <1>4. AlwaysRecoverable'
    <2>1. PICK v \in Versions : Acceptable(v) /\ Resolves(d, v)
      BY <1>1, <1>2 DEF AlwaysRecoverable
    <2>2. Acceptable(v)' /\ Resolves(d, v)'
      BY <1>3, <2>1, AcceptableKept DEF Resolves, Tree
    <2> QED BY <1>2, <2>2 DEF AlwaysRecoverable
  <1>5. NoDebris'
    BY <1>1, <1>2 DEF NoDebris, Nothing
  <1>6. ~ Uncommitted' /\ ~ Committed' /\ ~ Recovering'
    BY <1>3 DEF Uncommitted, Committed, Recovering, ActivateSteps, RecoverSteps
  <1>7. Bound' /\ Layout'
    BY <1>3, <1>6 DEF Bound, Layout, ActivateSteps
  <1>8. Answered'
    BY <1>3, <1>6 DEF IInv, Answered, ActivateSteps
  <1> QED BY <1>2, <1>3, <1>4, <1>5, <1>7, <1>8 DEF IInv

\* A step that leaves the data directory alone and answers nothing.
LEMMA KeepsDisk ==
  ASSUME IInv, TypeOK', UNCHANGED <<holds, disk, held, target, history>>,
         Uncommitted' => Uncommitted, Committed' => Committed, pc' # "syncCommit",
         pc' = "idle" \/ (pc' = "dropStage" /\ ~ stopped') =>
           pc = "idle" \/ (pc = "dropStage" /\ ~ stopped),
         Layout', Answered'
  PROVE  IInv'
  BY SameDisk, Keeps

LEMMA InvError == IInv /\ TypeOK' /\ StorageError => IInv'
  <1> SUFFICES ASSUME IInv, TypeOK', StorageError PROVE IInv'
    OBVIOUS
  <1>1. /\ pc \in ActivateSteps \cup RecoverSteps \cup {"abort"} /\ pc' = FailTo
        /\ UNCHANGED <<holds, disk, held, target, outcome, history>>
        /\ caller' = IF pc \in {"moveOld", "syncOld", "moveNew", "syncNew"} THEN "rollback"
                     ELSE caller
    BY DEF StorageError, Goto
  <1>2. Layout /\ Answered /\ caller \in {"startup", "rollback", "cleanup"}
    BY DEF IInv, TypeOK
  <1>3. /\ pc' \in {"abort", "read", "return", "down"}
        /\ pc' = "abort" => pc \in {"moveStage", "syncStage"}
        /\ pc' = "read" => pc \in {"moveOld", "syncOld", "moveNew", "syncNew"}
        /\ pc' = "return" =>
             \/ pc \in {"mktx", "prepare", "syncPrepare", "commit", "syncCommit", "abort"}
             \/ pc \in RecoverSteps /\ caller # "startup"
    BY <1>1 DEF FailTo, ActivateSteps, RecoverSteps
  <1> USE DEF Uncommitted, Committed, Recovering, ActivateSteps, RecoverSteps
  <1>4. Uncommitted' => Uncommitted
    BY <1>1, <1>2, <1>3 DEF Layout, Answered
  <1>5. Committed' => Committed
    BY <1>1, <1>2, <1>3 DEF Answered
  <1>6. Layout'
    BY <1>1, <1>2, <1>3 DEF Layout
  <1>7. Answered'
    BY <1>1, <1>2, <1>3, <1>4, <1>5 DEF Answered, history
  <1> QED BY <1>1, <1>3, <1>4, <1>5, <1>6, <1>7, KeepsDisk

LEMMA InvProcess ==
  ASSUME IInv, TypeOK',
         Acquire \/ GiveUp \/ DropStage \/ StageStays \/ Shutdown \/ Restart
  PROVE  IInv'
  <1>0. Layout /\ Answered /\ disk \in held /\ disk \in Disk /\ NoDebris
    BY DEF IInv, TypeOK
  <1> USE DEF Uncommitted, Committed, Recovering, ActivateSteps, RecoverSteps, Goto
  <1>1. CASE Acquire
    <2>1. /\ pc = "staged" /\ pc' = "mktx" /\ outcome' = "error"
          /\ UNCHANGED <<holds, disk, held, target, stopped, history>>
      BY <1>1 DEF Acquire
    <2>2. Layout'
      BY <1>0, <2>1 DEF Layout
    <2>3. Answered'
      BY <1>0, <2>1 DEF Answered, history
    <2> QED BY <2>1, <2>2, <2>3, KeepsDisk
  <1>2. CASE GiveUp
    <2>1. Uncommitted /\ ~ disk.tx
      BY <1>0, <1>2 DEF GiveUp, Layout
    <2> QED BY <1>2, <2>1, Refused DEF GiveUp
  <1>3. CASE DropStage
    <2>1. /\ disk' = [disk EXCEPT !.stage = Absent] /\ held' = held \cup {disk'}
          /\ pc = "dropStage" /\ pc' = IF stopped THEN "stopping" ELSE "idle"
          /\ UNCHANGED <<holds, caller, target, outcome, stopped, history>>
      BY <1>3 DEF DropStage, Write, progress
    <2>2. disk'.live = disk.live /\ disk'.journal = disk.journal /\ disk'.old = disk.old
          /\ disk'.tx = disk.tx /\ disk'.present = disk.present
      BY <1>0, <2>1 DEF Disk
    <2>3. \A v \in Versions : Resolves(disk, v) => Resolves(disk, v)'
      BY <2>1, <2>2 DEF Resolves, Tree
    <2>4. Layout'
      BY <1>0, <2>1, <2>2 DEF Layout
    <2>5. Answered'
      BY <1>0, <2>1 DEF Answered, history
    <2>6. disk'.tx \/ (disk'.journal = "none" /\ disk'.old = Nothing)
      BY <1>0, <2>2 DEF NoDebris
    <2> QED BY <2>1, <2>3, <2>4, <2>5, <2>6, Keeps
  <1>4. CASE StageStays
    <2>1. /\ pc = "dropStage" /\ pc' = IF stopped THEN "stopping" ELSE "idle"
          /\ UNCHANGED <<holds, disk, held, target, stopped, history>>
      BY <1>4 DEF StageStays, progress
    <2>2. Layout'
      BY <1>0, <2>1 DEF Layout
    <2>3. Answered'
      BY <1>0, <2>1 DEF Answered, history
    <2> QED BY <2>1, <2>2, <2>3, KeepsDisk
  <1>5. CASE Shutdown
    <2>1. /\ pc' = "down" /\ UNCHANGED <<holds, disk, held, target, history>>
      BY <1>5 DEF Shutdown, progress
    <2>2. Layout'
      BY <2>1 DEF Layout
    <2>3. Answered'
      BY <1>0, <2>1 DEF Answered, history
    <2> QED BY <2>1, <2>2, <2>3, KeepsDisk
  <1>6. CASE Restart
    <2>1. /\ pc' = "read" /\ caller' = "startup"
          /\ UNCHANGED <<holds, disk, held, target, history>>
      BY <1>6 DEF Restart
    <2>2. Layout'
      BY <2>1 DEF Layout
    <2>3. Answered'
      BY <1>0, <2>1 DEF Answered, history
    <2> QED BY <2>1, <2>2, <2>3, KeepsDisk
  <1> QED BY <1>1, <1>2, <1>3, <1>4, <1>5, <1>6

-----------------------------------------------------------------------------
(* The theorems *)

LEMMA InvInit == Init => IInv
  <1> SUFFICES ASSUME Init PROVE IInv
    OBVIOUS
  <1>1. TypeOK /\ 0 \in Versions
    BY TypeInit, Bounds DEF Versions
  <1>2. /\ disk.live = Tree(0) /\ disk.old = Nothing /\ ~ disk.tx /\ disk.journal = "none"
        /\ held = {disk} /\ pc = "idle" /\ loaded = Tree(0) /\ target = 0
        /\ \A v \in Versions : reply[v] = "none"
    BY DEF Init
  <1>a. \A v \in Versions : holds[v] # {}
    BY DEF Init
  <1>3. Acceptable(0)
    <2>1. \A w \in Versions : loaded = Tree(w) => w = 0
      BY <1>1, <1>2, <1>a, TreeUnique
    <2> QED BY <1>1, <1>2, <2>1 DEF Acceptable
  <1>4. HeldAt(0) /\ AlwaysRecoverable /\ NoDebris
    BY <1>1, <1>2, <1>3 DEF HeldAt, AlwaysRecoverable, NoDebris, Resolves
  <1>5. ~ Uncommitted /\ ~ Committed /\ ~ Recovering
    BY <1>2 DEF Uncommitted, Committed, Recovering, ActivateSteps, RecoverSteps
  <1>6. Bound
    BY <1>1, <1>2, <1>4, <1>5 DEF Bound
  <1>7. Layout /\ Answered
    BY <1>2, <1>5 DEF Layout, Answered, ActivateSteps
  <1> QED BY <1>1, <1>2, <1>a, <1>4, <1>6, <1>7 DEF IInv

LEMMA InvNext == IInv /\ [Next]_vars => IInv'
  <1> SUFFICES ASSUME IInv, [Next]_vars PROVE IInv'
    OBVIOUS
  <1>0. TypeOK'
    BY TypeNext DEF IInv
  <1>1. CASE Activate
    BY <1>0, <1>1, InvActivate, InvCommit, InvSyncCommit
  <1>2. CASE Recover \/ ClearPart
    BY <1>0, <1>2, InvRecover, InvLastSync
  <1>3. CASE \E r \in Roots : EmptyPart(r)
    <2>1. pc \in {"empty", "abort"}
      BY <1>3 DEF EmptyPart
    <2>2. ~ LastSync /\ ~ Commit /\ ~ SyncCommit
      BY <2>1 DEF LastSync, Commit, SyncCommit
    <2> QED BY <1>0, <1>3, <2>1, <2>2, InvRecover, InvActivate
  <1>4. CASE Upload \/ Return \/ Crash \/ StorageError
    BY <1>0, <1>4, InvUpload, InvReturn, InvCrash, InvError
  <1>5. CASE Acquire \/ GiveUp \/ DropStage \/ StageStays \/ Shutdown \/ Restart
    BY <1>0, <1>5, InvProcess
  <1>6. CASE UNCHANGED vars
    <2>1. UNCHANGED <<holds, disk, held, pc, caller, root, target, outcome, stopped, history>>
      BY <1>6 DEF vars, progress
    <2> USE DEF Uncommitted, Committed, Recovering
    <2>2. Layout'
      BY <2>1 DEF IInv, Layout, Swapped, Aside, RolledBack, Tree, Nothing
    <2>3. Answered'
      BY <2>1 DEF IInv, Answered, history
    <2>4. pc' = "syncCommit" => Acceptable(target)' /\ Resolves(disk, target)'
      BY <2>1 DEF IInv, Bound, Acceptable, Resolves, Tree, history
    <2>5. Bound' /\ AlwaysRecoverable' /\ NoDebris'
      BY <2>1 DEF IInv, Bound, HeldAt, Acceptable, Resolves, Tree, history, AlwaysRecoverable,
                  NoDebris, Nothing
    <2> QED BY <1>0, <2>1, <2>2, <2>3, <2>5 DEF IInv
  <1> QED BY <1>1, <1>2, <1>3, <1>4, <1>5, <1>6 DEF Next, Step

\* The inductive invariant holds throughout: every prefix of activateBackup and
\* recoverRestore, however it is interrupted, leaves the disk bound to one version.
THEOREM Invariant == Spec => []IInv
  <1> QED BY InvInit, InvNext, PTL DEF Spec

\* The variables keep their types; with it, root never leaves backupRoots.
THEOREM TypeCorrect == Spec => []TypeOK
  <1>1. IInv => TypeOK
    BY DEF IInv
  <1> QED BY <1>1, Invariant, PTL

\* A crash or a loss of power at any step of a restore or of its recovery leaves a
\* disk that recoverRestore turns into one whole version.
THEOREM RestoresAreAtomic == Spec => []AlwaysRecoverable
  <1>1. IInv => AlwaysRecoverable
    BY DEF IInv
  <1> QED BY <1>1, Invariant, PTL

\* While the instance is served, the disk is bound to the version it was loaded from.
LEMMA ServingBound ==
  ASSUME IInv, Serving
  PROVE  /\ \E b \in Versions : loaded = Tree(b) /\ HeldAt(b)
         /\ ~ disk.tx /\ disk.journal = "none" /\ disk \in held
  <1>1. pc \in {"idle", "staged"} \/ (pc = "dropStage" /\ ~ stopped)
    BY DEF Serving
  <1>2. ~ disk.tx /\ disk.journal = "none" /\ disk \in held
    BY <1>1 DEF IInv, Layout, NoDebris
  <1>3. \E b \in Versions : loaded = Tree(b) /\ HeldAt(b)
    BY <1>1 DEF IInv, Bound, Uncommitted
  <1> QED BY <1>2, <1>3

\* What is served is one version, whole, and not one reported as failed.
THEOREM ServedIsWhole == Spec => []ServedWhole
  <1>1. IInv => ServedWhole
    BY ServingBound DEF ServedWhole, HeldAt, Resolves
  <1> QED BY <1>1, Invariant, PTL

\* A restore stops the process before its old state in memory meets the new files.
THEOREM ServedIsLoaded == Spec => []ServesWhatItLoaded
  <1>1. IInv => ServesWhatItLoaded
    BY ServingBound DEF ServesWhatItLoaded, HeldAt, Resolves
  <1> QED BY <1>1, Invariant, PTL

\* No transaction is left behind while the instance is served.
THEOREM ServedIsSettled == Spec => []NothingPending
  <1>1. IInv => NothingPending
    BY ServingBound DEF NothingPending
  <1> QED BY <1>1, Invariant, PTL

\* The three together.
THEOREM ServedIsSound == Spec => []ServedSoundly
  <1> QED BY ServedIsWhole, ServedIsLoaded, ServedIsSettled, PTL DEF ServedSoundly

\* Startups never bring an older version back than the one that was served before:
\* the only step that loads a tree is the end of main's recovery, from a disk bound
\* to an acceptable version.
THEOREM ServedGoesForward == Spec => ServedForward
  <1>1. IInv /\ [Next]_vars =>
          [\A v, w \in Versions : loaded = Tree(v) /\ loaded' = Tree(w) => v <= w]_vars
    <2> SUFFICES ASSUME IInv, [Next]_vars, NEW v \in Versions, NEW w \in Versions,
                        loaded = Tree(v), loaded' = Tree(w)
                 PROVE  v <= w
      OBVIOUS
    <2>1. TypeOK /\ holds[v] # {} /\ holds[w] # {}
      BY DEF IInv
    <2>2. CASE loaded' = loaded
      <3>1. v = w
        BY <2>1, <2>2, TreeUnique
      <3> QED BY <3>1, Numbers
    <2>3. CASE loaded' # loaded
      <3>1. LastSync /\ loaded' = disk.live /\ pc = "lastSync"
        BY <2>3 DEF Next, Step, Activate, Recover, vars, history, quiet, Upload, Acquire, GiveUp,
           Return, DropStage, MakeTx, MoveStage, SyncStage, Abort, Prepare, SyncPrepare,
           MoveOld, SyncOld, MoveNew, SyncNew, Commit, SyncCommit, ReadJournal, SkipRoot,
           ClearPart, ClearRoot, SyncClear, PutBack, SyncPutBack, Settle, Forget, SyncForget,
           EmptyPart, Empty, Unstage, LastSync, StorageError, StageStays, Shutdown, Crash,
           Restart
      <3>2. disk.journal = "none"
        BY <3>1 DEF IInv, Layout
      <3>3. PICK u \in Versions : Acceptable(u) /\ Resolves(disk, u)
        BY DEF IInv, AlwaysRecoverable
      <3>4. Tree(u) = Tree(w)
        BY <3>1, <3>2, <3>3 DEF Resolves
      <3>5. u = w
        BY <2>1, <3>4, TreeUnique
      <3> QED BY <3>3, <3>5 DEF Acceptable
    <2> QED BY <2>2, <2>3
  <1> QED BY <1>1, Invariant, PTL DEF Spec, ServedForward
=============================================================================
