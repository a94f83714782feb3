----------------------------- MODULE RestoreTx -----------------------------
(***************************************************************************)
(* Replacing the whole instance by a backup: activateBackup and            *)
(* recoverRestore (restore.go), called by handleRestore (backup_http.go)   *)
(* under the exclusive side of the operation barrier, and by main() before *)
(* the store is opened.                                                    *)
(*                                                                         *)
(* The data directory holds a fixed list of roots (backupRoots).  A        *)
(* restore moves every root aside into .restore/old and the staged one     *)
(* from .restore/new into its place, one rename at a time, between two     *)
(* writes of .restore/journal.json: prepared (roll back) and committed     *)
(* (roll forward).                                                         *)
(*                                                                         *)
(* Every rename, write and removal is one step and the directory fsync     *)
(* that settles it another.  A step may fail before it, or in the fsync    *)
(* after it, when its effect is visible already.  "held" is the set of     *)
(* contents of the disk that a loss of power may leave: the last synced    *)
(* one and those since.                                                    *)
(***************************************************************************)
EXTENDS Naturals

CONSTANTS
  NumRoots,         \* len(backupRoots)
  MaxRestores,      \* bound: restores that are attempted
  Absent, Partial,  \* a root that is not there, one that is partly removed
  MaxCrashes, MaxFaults  \* bounds

Roots == 1 .. NumRoots
Versions == 0 .. MaxRestores   \* 0 is the instance at first, v the v-th upload
Content == Versions \cup {Absent, Partial}

ASSUME Bounds ==
  NumRoots \in Nat \ {0} /\ MaxRestores \in Nat /\ MaxCrashes \in Nat /\ MaxFaults \in Nat
ASSUME Markers == Absent \notin Nat /\ Partial \notin Nat /\ Absent # Partial

VARIABLES
  holds,    \* the roots each version has
  disk,     \* the data directory
  held,     \* what a loss of power may leave of it
  pc,       \* where the process is: down, serving, or in a step under the lock
  caller,   \* who called recoverRestore
  root,     \* the root the current loop is at
  target,   \* the version that was uploaded last
  outcome,  \* what activateBackup is about to return
  stopped,  \* Store.stopped
  loaded,   \* the tree the running process started from
  reply,    \* history: how each restore was answered
  faults, crashes

progress == <<caller, root, target, outcome>>
history == <<loaded, reply>>
vars == <<holds, disk, held, pc, progress, stopped, history, faults, crashes>>

Nothing == [r \in Roots |-> Absent]
Tree(v) == [r \in Roots |-> IF r \in holds[v] THEN v ELSE Absent]

Disk == [live : [Roots -> Content],      \* the roots in the data directory
         old : [Roots -> Content],       \* .restore/old
         new : [Roots -> Content],       \* .restore/new
         tx : BOOLEAN,                   \* .restore exists
         journal : {"none", "prepared", "committed"},
         present : SUBSET Roots,         \* restoreJournal.Present
         stage : Versions \cup {Absent}] \* .backup-stage-*

ActivateSteps == {"mktx", "moveStage", "syncStage", "prepare", "syncPrepare", "moveOld",
                  "syncOld", "moveNew", "syncNew", "commit", "syncCommit"}
RecoverSteps == {"read", "clear", "syncClear", "putBack", "syncPutBack", "settle",
                 "forget", "syncForget", "empty", "unstage", "lastSync"}

TypeOK ==
  /\ holds \in [Versions -> SUBSET Roots]
  /\ disk \in Disk /\ held \in SUBSET Disk
  /\ pc \in {"down", "idle", "staged", "abort", "return", "dropStage", "stopping"}
              \cup ActivateSteps \cup RecoverSteps
  /\ caller \in {"startup", "rollback", "cleanup"}
  /\ root \in Roots
  /\ target \in Versions
  /\ outcome \in {"success", "error"}
  /\ stopped \in BOOLEAN
  /\ loaded \in [Roots -> Content]
  /\ reply \in [Versions -> {"none", "done", "failed", "stopped"}]
  /\ faults \in 0 .. MaxFaults /\ crashes \in 0 .. MaxCrashes

\* A running instance; auth/device.key is in every instance and every staged backup.
Init ==
  /\ holds \in [Versions -> (SUBSET Roots) \ {{}}]
  /\ disk = [live |-> Tree(0), old |-> Nothing, new |-> Nothing, tx |-> FALSE,
             journal |-> "none", present |-> {}, stage |-> Absent]
  /\ held = {disk}
  /\ pc = "idle" /\ caller = "startup" /\ root = 1 /\ target = 0 /\ outcome = "error"
  /\ stopped = FALSE
  /\ loaded = Tree(0)
  /\ reply = [v \in Versions |-> "none"]
  /\ faults = 0 /\ crashes = 0

Goto(label) == pc' = label

\* A change of the data directory, and the fsync that settles it.
Write(d) == disk' = d /\ held' = held \cup {d}
\* Mutant of Sync: the directory is not synced.
NoSync == UNCHANGED <<disk, held>>
Sync == held' = {disk} /\ UNCHANGED disk

----------------------------------------------------------------------------
(* handleRestore and backupExclusive *)

\* stageBackup: a validated archive is unpacked beside the live roots.
Upload ==
  /\ pc = "idle" /\ target < MaxRestores
  /\ target' = target + 1
  /\ Write([disk EXCEPT !.stage = target + 1])
  /\ Goto("staged")
  /\ UNCHANGED <<holds, caller, root, outcome, stopped, history, faults, crashes>>

\* The barrier is acquired: from here to "return" nothing else is served.
Acquire ==
  /\ pc = "staged"
  /\ outcome' = "error"
  /\ Goto("mktx")
  /\ UNCHANGED <<holds, disk, held, caller, root, target, stopped, history, faults, crashes>>

\* The wait for it ends, or the client goes away.
GiveUp ==
  /\ pc = "staged"
  /\ reply' = [reply EXCEPT ![target] = "failed"]
  /\ Goto("dropStage")
  /\ UNCHANGED <<holds, disk, held, progress, stopped, loaded, faults, crashes>>

\* Mutant of Return: the process goes on serving after a restore it reports as done.
ReturnRunning ==
  /\ pc = "return"
  /\ stopped' = (outcome = "error" /\ disk.tx)
  /\ reply' = [reply EXCEPT ![target] =
                 IF outcome = "success" THEN "done" ELSE IF disk.tx THEN "stopped" ELSE "failed"]
  /\ Goto("dropStage")
  /\ UNCHANGED <<holds, disk, held, progress, loaded, faults, crashes>>

\* A restore that is done or unresolved stops the process.
Return ==
  /\ pc = "return"
  /\ stopped' = (outcome = "success" \/ disk.tx)
  /\ reply' = [reply EXCEPT ![target] =
                 IF outcome = "success" THEN "done" ELSE IF disk.tx THEN "stopped" ELSE "failed"]
  /\ Goto("dropStage")
  /\ UNCHANGED <<holds, disk, held, progress, loaded, faults, crashes>>

\* The deferred removal of the staging directory.
DropStage ==
  /\ pc = "dropStage"
  /\ Write([disk EXCEPT !.stage = Absent])
  /\ Goto(IF stopped THEN "stopping" ELSE "idle")
  /\ UNCHANGED <<holds, progress, stopped, history, faults, crashes>>

----------------------------------------------------------------------------
(* activateBackup *)

quiet == <<holds, caller, target, stopped, history, faults, crashes>>

\* Fails if an unresolved transaction is there.
MakeTx ==
  /\ pc = "mktx"
  /\ IF disk.tx THEN UNCHANGED <<disk, held>> /\ Goto("return")
                ELSE Write([disk EXCEPT !.tx = TRUE]) /\ Goto("moveStage")
  /\ UNCHANGED <<quiet, root, outcome>>

MoveStage ==
  /\ pc = "moveStage"
  /\ Write([disk EXCEPT !.new = Tree(disk.stage), !.stage = Absent])
  /\ Goto("syncStage")
  /\ UNCHANGED <<quiet, root, outcome>>

SyncStage ==
  /\ pc = "syncStage" /\ Sync /\ Goto("prepare") /\ UNCHANGED <<quiet, root, outcome>>

\* The deferred removal of .restore when the journal was not reached.
Abort ==
  /\ pc = "abort"
  /\ Write([disk EXCEPT !.tx = FALSE, !.old = Nothing, !.new = Nothing])
  /\ Goto("return")
  /\ UNCHANGED <<quiet, root, outcome>>

Prepare ==
  /\ pc = "prepare"
  /\ Write([disk EXCEPT !.journal = "prepared",
                        !.present = {r \in Roots : disk.live[r] # Absent}])
  /\ Goto("syncPrepare")
  /\ UNCHANGED <<quiet, root, outcome>>

SyncPrepare ==
  /\ pc = "syncPrepare" /\ Sync /\ Goto("moveOld")
  /\ root' = 1
  /\ UNCHANGED <<quiet, outcome>>

MoveOld ==
  /\ pc = "moveOld"
  /\ IF root \in disk.present
     THEN /\ Write([disk EXCEPT !.old[root] = disk.live[root], !.live[root] = Absent])
          /\ Goto("syncOld")
     ELSE UNCHANGED <<disk, held>> /\ Goto("moveNew")
  /\ UNCHANGED <<quiet, root, outcome>>

SyncOld ==
  /\ pc = "syncOld" /\ Sync /\ Goto("moveNew") /\ UNCHANGED <<quiet, root, outcome>>

\* The loop over backupRoots goes on at step again, or ends at step last.
NextRoot(again, last) ==
  IF root < NumRoots THEN root' = root + 1 /\ Goto(again) ELSE UNCHANGED root /\ Goto(last)

MoveNew ==
  /\ pc = "moveNew"
  /\ IF disk.new[root] # Absent
     THEN /\ Write([disk EXCEPT !.live[root] = disk.new[root], !.new[root] = Absent])
          /\ Goto("syncNew") /\ UNCHANGED root
     ELSE UNCHANGED <<disk, held>> /\ NextRoot("moveOld", "commit")
  /\ UNCHANGED <<quiet, outcome>>

SyncNew ==
  /\ pc = "syncNew" /\ Sync /\ NextRoot("moveOld", "commit") /\ UNCHANGED <<quiet, outcome>>

Commit ==
  /\ pc = "commit"
  /\ Write([disk EXCEPT !.journal = "committed"])
  /\ Goto("syncCommit")
  /\ UNCHANGED <<quiet, root, outcome>>

\* The commit is durable; whatever the cleanup does, the restore succeeded.
SyncCommit ==
  /\ pc = "syncCommit" /\ Sync /\ Goto("read")
  /\ caller' = "cleanup" /\ outcome' = "success"
  /\ UNCHANGED <<holds, root, target, stopped, history, faults, crashes>>

----------------------------------------------------------------------------
(* recoverRestore: from a failed activation, from the cleanup, from main *)

\* Mutant of ReadJournal: a committed transaction is refused.
ReadJournalPrepared ==
  /\ pc = "read"
  /\ Goto(CASE disk.journal = "none" -> "empty"
            [] disk.journal = "prepared" -> "clear"
            [] disk.journal = "committed" -> IF caller = "startup" THEN "down" ELSE "return")
  /\ root' = 1
  /\ UNCHANGED <<quiet, disk, held, outcome>>

ReadJournal ==
  /\ pc = "read"
  /\ Goto(CASE disk.journal = "none" -> "empty"
            [] disk.journal = "prepared" -> "clear"
            [] disk.journal = "committed" -> "settle")
  /\ root' = 1
  /\ UNCHANGED <<quiet, disk, held, outcome>>

\* Mutant of MustClear: a root that was not there before the restore is left alone.
MustClearMoved == disk.old[root] # Absent

\* The restore may have put something in this root's place.
MustClear == disk.old[root] # Absent \/ root \notin disk.present

SkipRoot ==
  /\ pc = "clear" /\ ~ MustClear
  /\ NextRoot("clear", "settle")
  /\ UNCHANGED <<quiet, disk, held, outcome>>

\* RemoveAll of a root that is a directory is not atomic.
ClearPart ==
  /\ pc = "clear" /\ MustClear /\ disk.live[root] \in Versions
  /\ Write([disk EXCEPT !.live[root] = Partial])
  /\ UNCHANGED <<quiet, pc, root, outcome>>

ClearRoot ==
  /\ pc = "clear" /\ MustClear
  /\ Write([disk EXCEPT !.live[root] = Absent])
  /\ Goto("syncClear")
  /\ UNCHANGED <<quiet, root, outcome>>

SyncClear ==
  /\ pc = "syncClear" /\ Sync
  /\ IF disk.old[root] # Absent THEN Goto("putBack") /\ UNCHANGED root
                                ELSE NextRoot("clear", "settle")
  /\ UNCHANGED <<quiet, outcome>>

PutBack ==
  /\ pc = "putBack"
  /\ Write([disk EXCEPT !.live[root] = disk.old[root], !.old[root] = Absent])
  /\ Goto("syncPutBack")
  /\ UNCHANGED <<quiet, root, outcome>>

SyncPutBack ==
  /\ pc = "syncPutBack" /\ Sync /\ NextRoot("clear", "settle") /\ UNCHANGED <<quiet, outcome>>

Settle ==
  /\ pc = "settle" /\ Sync /\ Goto("forget") /\ UNCHANGED <<quiet, root, outcome>>

Forget ==
  /\ pc = "forget"
  /\ Write([disk EXCEPT !.journal = "none", !.present = {}])
  /\ Goto("syncForget")
  /\ UNCHANGED <<quiet, root, outcome>>

SyncForget ==
  /\ pc = "syncForget" /\ Sync /\ Goto("empty") /\ UNCHANGED <<quiet, root, outcome>>

\* RemoveAll of .restore, in pieces.
EmptyPart(r) ==
  /\ pc \in {"empty", "abort"} /\ (disk.old[r] # Absent \/ disk.new[r] # Absent)
  /\ Write([disk EXCEPT !.old[r] = Absent, !.new[r] = Absent])
  /\ UNCHANGED <<quiet, pc, root, outcome>>

Empty ==
  /\ pc = "empty"
  /\ Write([disk EXCEPT !.tx = FALSE, !.old = Nothing, !.new = Nothing])
  /\ Goto("unstage")
  /\ UNCHANGED <<quiet, root, outcome>>

Unstage ==
  /\ pc = "unstage"
  /\ Write([disk EXCEPT !.stage = Absent])
  /\ Goto("lastSync")
  /\ UNCHANGED <<quiet, root, outcome>>

\* main opens the store; activateBackup returns.
LastSync ==
  /\ pc = "lastSync" /\ Sync
  /\ IF caller = "startup" THEN Goto("idle") /\ loaded' = disk.live
                           ELSE Goto("return") /\ UNCHANGED loaded
  /\ UNCHANGED <<holds, caller, root, target, outcome, stopped, reply, faults, crashes>>

----------------------------------------------------------------------------
(* Failures and the process around it *)

\* Where an error takes the handler: before the journal .restore is removed; in the
\* swaps the restore is rolled back; around the two journal writes it stays as it is
\* for the startup to resolve.  main refuses to start.
FailTo ==
  CASE pc \in {"moveStage", "syncStage"} -> "abort"
    [] pc \in {"moveOld", "syncOld", "moveNew", "syncNew"} -> "read"
    [] pc \in {"mktx", "prepare", "syncPrepare", "commit", "syncCommit", "abort"} -> "return"
    [] pc \in RecoverSteps -> IF caller = "startup" THEN "down" ELSE "return"

StorageError ==
  /\ faults < MaxFaults
  /\ pc \in ActivateSteps \cup RecoverSteps \cup {"abort"}
  /\ Goto(FailTo)
  /\ caller' = IF pc \in {"moveOld", "syncOld", "moveNew", "syncNew"} THEN "rollback"
               ELSE caller
  /\ faults' = faults + 1
  /\ UNCHANGED <<holds, disk, held, root, target, outcome, stopped, history, crashes>>

\* The staging directory cannot be removed; the error is ignored.
StageStays ==
  /\ faults < MaxFaults
  /\ pc = "dropStage"
  /\ Goto(IF stopped THEN "stopping" ELSE "idle")
  /\ faults' = faults + 1
  /\ UNCHANGED <<holds, disk, held, progress, stopped, history, crashes>>

\* main, told by the restart channel.
Shutdown ==
  /\ pc = "stopping"
  /\ Goto("down") /\ stopped' = FALSE
  /\ UNCHANGED <<holds, disk, held, progress, history, faults, crashes>>

\* The process dies or the machine loses power.
Crash ==
  /\ pc # "down" /\ crashes < MaxCrashes
  /\ \E d \in held : disk' = d /\ held' = {d}
  /\ crashes' = crashes + 1
  /\ Goto("down") /\ stopped' = FALSE
  /\ UNCHANGED <<holds, progress, history, faults>>

\* main: recoverRestore runs before anything else is opened.
Restart ==
  /\ pc = "down"
  /\ Goto("read") /\ caller' = "startup"
  /\ UNCHANGED <<holds, disk, held, root, target, outcome, stopped, history, faults, crashes>>

----------------------------------------------------------------------------
(* Properties *)

\* Requests are answered from the store and from what startup loaded.
Serving == pc \in {"idle", "staged", "dropStage"} /\ ~ stopped

\* A version that may still be the instance's: not one whose restore was reported
\* to have failed, nor one older than a restore reported as done or than the one
\* the process last served.
Acceptable(v) ==
  /\ v <= target /\ reply[v] # "failed"
  /\ \A w \in Versions : reply[w] = "done" \/ loaded = Tree(w) => w <= v

\* Recovering disk d ends with version v, whole.
Resolves(d, v) ==
  IF d.journal = "prepared"
  THEN /\ d.present = holds[v]
       /\ \A r \in Roots :
            IF d.old[r] # Absent THEN d.old[r] = v /\ r \in holds[v]
                                 ELSE r \in holds[v] => d.live[r] = v
  ELSE d.live = Tree(v)

\* Whatever step a loss of power interrupts, what it leaves recovers to one whole,
\* acceptable version (restore.go:12-15).
AlwaysRecoverable ==
  \A d \in held \cup {disk} : \E v \in Versions : Acceptable(v) /\ Resolves(d, v)

\* The instance that is served is one version, whole: never a mix of two, a root
\* that is partly removed, or a restore that was reported as failed (BACKUP.md:150-160).
ServedWhole == Serving => \E v \in Versions : Acceptable(v) /\ disk.live = Tree(v)

\* The process only ever serves the files it was started from: after a restore it
\* stops before its in-memory users, keys and HTTPS identity meet new files.
ServesWhatItLoaded == Serving => disk.live = loaded

\* While the instance is served there is no unresolved transaction, so that a
\* restore can always begin.
NothingPending == Serving => ~ disk.tx /\ disk.journal = "none"

\* What is served is whole, is what the process was started from, and leaves nothing
\* to resolve (activateBackup's returns, handleRestore, main's recoverRestore).
ServedSoundly == ServedWhole /\ ServesWhatItLoaded /\ NothingPending

\* The served version never goes back, not even over a restore whose outcome was
\* uncertain and several restarts.
ServedForward ==
  [][\A v, w \in Versions : loaded = Tree(v) /\ loaded' = Tree(w) => v <= w]_vars

\* A stopped or crashed instance serves again.
ServesAgain == pc = "down" ~> Serving

----------------------------------------------------------------------------
(* The inductive invariant behind these properties (RestoreTxProofs). *)

Recovering == pc \in RecoverSteps

\* A restore is under way and has not committed.
Uncommitted ==
  \/ pc \in (ActivateSteps \ {"syncCommit"}) \cup {"abort", "staged"}
  \/ Recovering /\ caller = "rollback"
  \/ pc = "return" /\ outcome = "error" /\ ~ disk.tx

Committed ==
  \/ Recovering /\ caller = "cleanup"
  \/ pc = "return" /\ outcome = "success"

\* Everything a loss of power may leave recovers to version v.
HeldAt(v) == Acceptable(v) /\ \A d \in held : Resolves(d, v)

\* Where the disk stands in the loop that swaps the roots: those before i are the
\* target's, those from i on are untouched and their replacements are waiting.
Swapped(i) ==
  /\ disk.journal = "prepared"
  /\ \A r \in Roots :
       /\ r < i => disk.live[r] = Tree(target)[r]
       /\ r >= i => /\ disk.new[r] = Tree(target)[r] /\ disk.old[r] = Absent
                    /\ r \notin disk.present => disk.live[r] = Absent

\* The root the loop is at has been moved aside.
Aside ==
  /\ disk.journal = "prepared"
  /\ \A r \in Roots :
       /\ r < root => disk.live[r] = Tree(target)[r]
       /\ r >= root => disk.new[r] = Tree(target)[r]
       /\ r > root => disk.old[r] = Absent /\ (r \notin disk.present => disk.live[r] = Absent)
  /\ disk.live[root] = Absent /\ (root \in disk.present => disk.old[root] # Absent)

\* The roots before i are back where they were.
RolledBack(i) ==
  /\ disk.journal = "prepared"
  /\ \A r \in Roots : r < i =>
       disk.old[r] = Absent /\ (r \notin disk.present => disk.live[r] = Absent)

Layout ==
  /\ pc \in {"idle", "staged", "mktx", "unstage", "lastSync"} => ~ disk.tx
  /\ pc = "dropStage" /\ ~ stopped => ~ disk.tx
  /\ pc \in ActivateSteps \ {"mktx"} => disk.tx
  /\ pc \in {"staged", "mktx", "moveStage"} => disk.stage = target
  /\ pc \in {"moveStage", "syncStage", "prepare"} => disk.old = Nothing
  /\ pc \in {"moveStage", "syncStage", "prepare", "abort", "syncForget", "empty", "unstage",
             "lastSync"} => disk.journal = "none"
  /\ pc \in {"syncStage", "prepare"} => disk.new = Tree(target)
  /\ pc = "syncPrepare" => Swapped(1)
  /\ pc = "moveOld" => Swapped(root)
  /\ pc \in {"syncOld", "moveNew"} => Aside
  /\ pc = "syncNew" => Swapped(root + 1)
  /\ pc = "commit" => Swapped(NumRoots + 1)
  /\ pc = "syncCommit" => disk.journal = "committed"
  /\ pc \in {"clear", "syncClear", "putBack"} => RolledBack(root)
  /\ pc = "syncClear" => disk.live[root] = Absent
  /\ pc = "putBack" => disk.old[root] # Absent
  /\ pc = "syncPutBack" => RolledBack(root + 1)
  /\ pc \in {"settle", "forget"} /\ disk.journal = "prepared" => RolledBack(NumRoots + 1)

Answered ==
  /\ \A v \in Versions : v > target => reply[v] = "none"
  /\ Uncommitted \/ Committed \/ pc \in {"syncCommit", "return"} => reply[target] = "none"
  /\ pc \in ActivateSteps \cup {"abort"} => outcome = "error"
  /\ Recovering /\ caller = "rollback" => outcome = "error"
  /\ Recovering /\ caller = "cleanup" => outcome = "success"

\* Nothing is in .restore before it is made.
NoDebris == \A d \in held : ~ d.tx => d.journal = "none" /\ d.old = Nothing

\* The version that the disk is bound to, step by step.
Bound ==
  /\ Uncommitted => \E b \in Versions : b < target /\ loaded = Tree(b) /\ HeldAt(b)
  /\ pc = "idle" \/ (pc = "dropStage" /\ ~ stopped) =>
       \E b \in Versions : loaded = Tree(b) /\ HeldAt(b)
  /\ pc = "syncCommit" => Acceptable(target) /\ Resolves(disk, target)
  /\ Committed => HeldAt(target)

IInv ==
  /\ TypeOK
  /\ \A v \in Versions : holds[v] # {}
  /\ disk \in held
  /\ AlwaysRecoverable /\ NoDebris /\ Bound
  /\ Layout /\ Answered

----------------------------------------------------------------------------
Activate ==
  \/ MakeTx \/ MoveStage \/ SyncStage \/ Abort \/ Prepare \/ SyncPrepare
  \/ MoveOld \/ SyncOld \/ MoveNew \/ SyncNew \/ Commit \/ SyncCommit

Recover ==
  \/ ReadJournal \/ SkipRoot \/ ClearRoot \/ SyncClear \/ PutBack \/ SyncPutBack
  \/ Settle \/ Forget \/ SyncForget \/ Empty \/ Unstage \/ LastSync

\* The steps that the handler or main takes on its own.
Step == Acquire \/ Return \/ DropStage \/ Activate \/ Recover \/ Shutdown

Next ==
  \/ Step \/ Upload \/ GiveUp \/ ClearPart \/ (\E r \in Roots : EmptyPart(r))
  \/ StorageError \/ StageStays \/ Crash \/ Restart

Spec == Init /\ [][Next]_vars

\* The handler and main run on, and a supervisor restarts the process
\* (compose.yaml, restart: unless-stopped).
FairSpec == Spec /\ WF_vars(Step) /\ WF_vars(Restart)
=============================================================================
