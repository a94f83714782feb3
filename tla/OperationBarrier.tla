------------------------- MODULE OperationBarrier -------------------------
(***************************************************************************)
(* The operation barrier around every HTTP request (backup_http.go): a     *)
(* request holds a read lease for as long as its handler runs; a backup or *)
(* a restore gives its lease back and polls for the exclusive side; a      *)
(* restore stops the instance and asks main() to shut down.                *)
(*                                                                         *)
(* An element of Requests is a connection: it carries one request after    *)
(* another, each with a kind and a user.  Those in ScepRequests come in at *)
(* the SCEP-only listener.  A SCEP request to the GUI listener passes the  *)
(* barrier a second time, finds the lease in its context and goes through. *)
(*                                                                         *)
(* What a handler changes on disk it changes in two writes ("files", then  *)
(* "index"), each of which adds a mark of the request or takes it back: the*)
(* data is whole when both agree.  activateBackup is one step here; the    *)
(* steps it is made of are in RestoreTx.                                   *)
(***************************************************************************)
EXTENDS Naturals

CONSTANTS
  Requests,      \* connections
  ScepRequests,  \* those to the SCEP-only listener
  Users,         \* names of accounts
  AuthEnabled,   \* Auth.enabled
  None

ASSUME Parameters ==
  /\ ScepRequests \subseteq Requests
  /\ AuthEnabled \in BOOLEAN
  /\ None \notin Requests /\ None \notin Users

VARIABLES
  pc,        \* where each request is
  request,   \* its kind and its user
  leases,    \* operationsMu: the requests that hold a read lease
  writer,    \* operationsMu: the request that holds the exclusive side
  backupMu,  \* the request that holds Server.backupMu
  expired,   \* the waiting requests whose context has ended
  stopped,   \* Store.stopped
  restart,   \* Server.restart is closed
  main,      \* where main() is
  late,      \* the context of the shutdown has ended
  admins,    \* the accounts with the admin role (users.json)
  files, index,  \* the two halves of what handlers write
  copy       \* the snapshot of the backup that is running

locks == <<leases, writer, backupMu>>
process == <<restart, main, late>>
data == <<admins, files, index>>
vars == <<pc, request, locks, expired, stopped, process, data, copy>>

Kinds == {"ordinary", "setup", "accounts", "backup", "restore"}
Restricted == {"accounts", "backup", "restore"}  \* for administrators
NoRequest == [kind |-> "none", user |-> None]
NoCopy == [files |-> {}, index |-> {}]

Maintains(r) == request[r].kind \in {"backup", "restore"}
Running == main # "exited"

\* A handler of these runs on live data under its lease.
Handling == {"authenticate", "handler", "halfway", "prepare"}
\* These hold the exclusive side.
Exclusive == {"locked", "body", "copying"}

Init ==
  /\ pc = [r \in Requests |-> "idle"]
  /\ request = [r \in Requests |-> NoRequest]
  /\ leases = {} /\ writer = None /\ backupMu = None
  /\ expired = {} /\ stopped = FALSE
  /\ restart = FALSE /\ main = "serving" /\ late = FALSE
  /\ admins \in SUBSET Users
  /\ files = {} /\ index = {} /\ copy = NoCopy

Goto(r, where) == pc' = [pc EXCEPT ![r] = where]

\* The handler returns: the deferred release and Unlock run.
Return(r) ==
  /\ Goto(r, "idle")
  /\ request' = [request EXCEPT ![r] = NoRequest]
  /\ leases' = leases \ {r}
  /\ backupMu' = IF backupMu = r THEN None ELSE backupMu
  /\ expired' = expired \ {r}

----------------------------------------------------------------------------
(* operations and Auth.Middleware                                          *)

\* A listener accepts a request.  The SCEP-only listener closes when the
\* shutdown begins, the other one after the first is drained.  Who sends the others
\* does not matter.
Arrive(r) ==
  /\ pc[r] = "idle"
  /\ main \in IF r \in ScepRequests THEN {"serving"} ELSE {"serving", "closingScep"}
  /\ \E k \in IF r \in ScepRequests THEN {"ordinary"} ELSE Kinds, u \in Users \cup {None} :
       /\ k \notin Restricted => u = None
       /\ request' = [request EXCEPT ![r] = [kind |-> k, user |-> u]]
  /\ Goto(r, "arrived")
  /\ UNCHANGED <<locks, expired, stopped, process, data, copy>>

\* Mutant of Lease: an exclusive Lock that is waited for keeps new readers out.
LeaseBehindWriter(r) ==
  /\ Running /\ pc[r] = "arrived"
  /\ IF writer = None /\ \A q \in Requests : pc[q] # "waiting"
     THEN Goto(r, "leased") /\ leases' = leases \cup {r}
     ELSE Goto(r, "blocked") /\ UNCHANGED leases
  /\ UNCHANGED <<request, writer, backupMu, expired, stopped, process, data, copy>>

\* RLock: only a writer that holds the lock makes a reader wait, since TryLock
\* never announces one.
Lease(r) ==
  /\ Running /\ pc[r] = "arrived"
  /\ IF writer = None
     THEN Goto(r, "leased") /\ leases' = leases \cup {r}
     ELSE Goto(r, "blocked") /\ UNCHANGED leases
  /\ UNCHANGED <<request, writer, backupMu, expired, stopped, process, data, copy>>

\* Mutant of CheckStopped: the flag is not looked at.
CheckNothing(r) ==
  /\ Running /\ pc[r] = "leased"
  /\ Goto(r, "authenticate")
  /\ UNCHANGED <<request, locks, expired, stopped, process, data, copy>>

\* Mutant of CheckStopped: the barrier surrounds the check and not the handler.
CheckAndRelease(r) ==
  /\ Running /\ pc[r] = "leased"
  /\ IF stopped
     THEN Return(r)
     ELSE /\ Goto(r, "authenticate") /\ leases' = leases \ {r}
          /\ UNCHANGED <<request, backupMu, expired>>
  /\ UNCHANGED <<writer, stopped, process, data, copy>>

\* The flag is read under the lease.
CheckStopped(r) ==
  /\ Running /\ pc[r] = "leased"
  /\ IF stopped
     THEN Return(r)
     ELSE Goto(r, "authenticate") /\ UNCHANGED <<request, leases, backupMu, expired>>
  /\ UNCHANGED <<writer, stopped, process, data, copy>>

\* The first account is made without logging in, all else that changes users
\* or the whole instance needs an administrator.  (Without one there are no users.)
Allowed(r) ==
  /\ request[r].kind = "setup" => admins = {}
  /\ request[r].kind \in Restricted => ~ AuthEnabled \/ request[r].user \in admins

\* Middleware, and the first checks of the handler: HasUsers for the setup, isAdmin
\* and backupMu.TryLock for maintenance.
Authenticate(r) ==
  /\ Running /\ pc[r] = "authenticate"
  /\ Allowed(r)
  /\ Maintains(r) => backupMu = None
  /\ Goto(r, IF Maintains(r) THEN "prepare" ELSE "handler")
  /\ backupMu' = IF Maintains(r) THEN r ELSE backupMu
  /\ UNCHANGED <<request, leases, writer, expired, stopped, process, data, copy>>

\* A handler answers: refused (401, 403, 409), rejected (400), or done.
Reply(r) ==
  /\ Running /\ pc[r] \in Handling \ {"halfway"}
  /\ Return(r)
  /\ UNCHANGED <<writer, stopped, process, data, copy>>

----------------------------------------------------------------------------
(* Ordinary handlers                                                       *)

Toggle(S, r) == IF r \in S THEN S \ {r} ELSE S \cup {r}

\* Anything written in two places: SaveCert and AddRecord, the journal and the index.
WriteFiles(r) ==
  /\ Running /\ pc[r] = "handler" /\ request[r].kind = "ordinary"
  /\ files' = Toggle(files, r)
  /\ Goto(r, "halfway")
  /\ UNCHANGED <<request, locks, expired, stopped, process, admins, index, copy>>

WriteIndex(r) ==
  /\ Running /\ pc[r] = "halfway"
  /\ index' = Toggle(index, r)
  /\ Goto(r, "handler")
  /\ UNCHANGED <<request, locks, expired, stopped, process, admins, files, copy>>

AddUser(r) ==
  /\ Running /\ pc[r] = "handler" /\ request[r].kind \in {"setup", "accounts"}
  /\ \E u \in Users : admins' = admins \cup {u}
  /\ UNCHANGED <<pc, request, locks, expired, stopped, process, files, index, copy>>

\* DeleteUser spares the last administrator.  A demotion is a deletion and an AddUser
\* as viewer.
DeleteUser(r) ==
  /\ Running /\ pc[r] = "handler" /\ request[r].kind = "accounts"
  /\ \E u \in admins : admins' = admins \ {u}
  /\ admins' # {}
  /\ UNCHANGED <<pc, request, locks, expired, stopped, process, files, index, copy>>

----------------------------------------------------------------------------
(* backupExclusive                                                         *)

\* The form is valid, for a restore the upload is staged: the lease is given back.
Release(r) ==
  /\ Running /\ pc[r] = "prepare"
  /\ Goto(r, "waiting")
  /\ leases' = leases \ {r}
  /\ UNCHANGED <<request, writer, backupMu, expired, stopped, process, data, copy>>

\* The client disconnects or the wait limit passes.
Expire(r) ==
  /\ Running /\ pc[r] \in {"prepare", "waiting", "locked"} /\ r \notin expired
  /\ expired' = expired \cup {r}
  /\ UNCHANGED <<pc, request, locks, stopped, process, data, copy>>

GiveUp(r) ==
  /\ Running /\ pc[r] = "waiting" /\ r \in expired
  /\ Goto(r, "answer")
  /\ UNCHANGED <<request, locks, expired, stopped, process, data, copy>>

\* Mutant of TryLock: maintenance excludes maintenance only.
TryLockAmongReaders(r) ==
  /\ Running /\ pc[r] = "waiting"
  /\ writer = None
  /\ writer' = r
  /\ Goto(r, "locked")
  /\ UNCHANGED <<request, leases, backupMu, expired, stopped, process, data, copy>>

\* A poll that succeeds.  One that fails changes nothing.  The context may end
\* between its check and the poll.
TryLock(r) ==
  /\ Running /\ pc[r] = "waiting"
  /\ writer = None /\ leases = {}
  /\ writer' = r
  /\ Goto(r, "locked")
  /\ UNCHANGED <<request, leases, backupMu, expired, stopped, process, data, copy>>

\* Unlock lets every reader in that waited meanwhile.
Unlock(r, where) ==
  /\ writer' = None
  /\ pc' = [q \in Requests |-> IF q = r THEN where
                               ELSE IF pc[q] = "blocked" THEN "leased" ELSE pc[q]]
  /\ leases' = leases \cup {q \in Requests : pc[q] = "blocked"}

\* Mutant of Permitted: the role found by the middleware is trusted.
PermittedOnce(r) == r \notin expired /\ ~ stopped

\* Everything that was checked before the wait is checked again.
Permitted(r) ==
  /\ r \notin expired
  /\ ~ stopped
  /\ AuthEnabled => request[r].user \in admins

Proceed(r) ==
  /\ Running /\ pc[r] = "locked" /\ Permitted(r)
  /\ Goto(r, "body")
  /\ UNCHANGED <<request, locks, expired, stopped, process, data, copy>>

\* Mutant of Decline: an early return before the deferred Unlock.
DeclineLocked(r) ==
  /\ Running /\ pc[r] = "locked" /\ ~ Permitted(r)
  /\ Goto(r, "answer")
  /\ UNCHANGED <<request, locks, expired, stopped, process, data, copy>>

Decline(r) ==
  /\ Running /\ pc[r] = "locked" /\ ~ Permitted(r)
  /\ Unlock(r, "answer")
  /\ UNCHANGED <<request, backupMu, expired, stopped, process, data, copy>>

\* snapshotBackup copies one root after the other.
CopyFiles(r) ==
  /\ Running /\ pc[r] = "body" /\ request[r].kind = "backup"
  /\ copy' = [copy EXCEPT !.files = files]
  /\ Goto(r, "copying")
  /\ UNCHANGED <<request, locks, expired, stopped, process, data>>

CopyIndex(r) ==
  /\ Running /\ pc[r] = "copying"
  /\ copy' = [copy EXCEPT !.index = index]
  /\ Unlock(r, "answer")
  /\ UNCHANGED <<request, backupMu, expired, stopped, process, data>>

\* reconcileSCEP, LoadTemplates or a read fails.
CopyFails(r) ==
  /\ Running /\ pc[r] \in {"body", "copying"} /\ request[r].kind = "backup"
  /\ copy' = NoCopy
  /\ Unlock(r, "answer")
  /\ UNCHANGED <<request, backupMu, expired, stopped, process, data>>

\* Mutant of Activate: only a restore that succeeds asks for the restart.
ActivateQuietly(r) ==
  /\ Running /\ pc[r] = "body" /\ request[r].kind = "restore"
  /\ files' \in {{}, files} /\ index' \in {{}, index}
  /\ admins' \in SUBSET Users
  /\ stopped' = TRUE
  /\ Unlock(r, IF files' = {} /\ index' = {} THEN "restarting" ELSE "answer")
  /\ UNCHANGED <<request, backupMu, expired, process, copy>>

\* activateBackup replaces everything, or leaves a transaction that is not
\* resolved (or cannot be examined), with the roots in any mixture ...
Activate(r) ==
  /\ Running /\ pc[r] = "body" /\ request[r].kind = "restore"
  /\ files' \in {{}, files} /\ index' \in {{}, index}
  /\ admins' \in SUBSET Users
  /\ stopped' = TRUE
  /\ Unlock(r, "restarting")
  /\ UNCHANGED <<request, backupMu, expired, process, copy>>

\* ... or has taken everything back.
RollBack(r) ==
  /\ Running /\ pc[r] = "body" /\ request[r].kind = "restore"
  /\ Unlock(r, "answer")
  /\ UNCHANGED <<request, backupMu, expired, stopped, process, data, copy>>

\* The maintenance handler returns, its deferred calls in reverse order: restartOnce
\* after a restore that stopped the instance, then backupMu.
Answer(r) ==
  /\ Running /\ pc[r] \in {"answer", "restarting"}
  /\ restart' = (restart \/ pc[r] = "restarting")
  /\ Return(r)
  /\ copy' = NoCopy
  /\ UNCHANGED <<writer, stopped, main, late, data>>

----------------------------------------------------------------------------
(* main()                                                                  *)

\* SIGTERM, or the closed channel: the SCEP-only listener closes first.
Shutdown ==
  /\ main = "serving"
  /\ main' = "closingScep"
  /\ UNCHANGED <<pc, request, locks, expired, stopped, restart, late, data, copy>>

\* One context of five seconds for both listeners.
ShutdownTimeout ==
  /\ main \in {"closingScep", "closingGui"} /\ ~ late
  /\ late' = TRUE
  /\ UNCHANGED <<pc, request, locks, expired, stopped, restart, main, data, copy>>

ScepDrained ==
  /\ main = "closingScep"
  /\ late \/ \A r \in ScepRequests : pc[r] = "idle"
  /\ main' = "closingGui"
  /\ UNCHANGED <<pc, request, locks, expired, stopped, restart, late, data, copy>>

\* main returns and takes every goroutine with it.
Exit ==
  /\ main = "closingGui"
  /\ late \/ \A r \in Requests \ ScepRequests : pc[r] = "idle"
  /\ main' = "exited"
  /\ UNCHANGED <<pc, request, locks, expired, stopped, restart, late, data, copy>>

\* Nothing runs any more.
Terminated == main = "exited" /\ UNCHANGED vars

----------------------------------------------------------------------------
Enter(r) == Arrive(r) \/ Lease(r) \/ CheckStopped(r) \/ Authenticate(r) \/ Reply(r)

Handle(r) == WriteFiles(r) \/ WriteIndex(r) \/ AddUser(r) \/ DeleteUser(r)

Maintain(r) ==
  \/ GiveUp(r) \/ TryLock(r) \/ Proceed(r) \/ Decline(r)
  \/ CopyFiles(r) \/ CopyIndex(r) \/ CopyFails(r) \/ Activate(r) \/ RollBack(r)
  \/ Answer(r)

Main == Shutdown \/ ShutdownTimeout \/ ScepDrained \/ Exit

Next ==
  \/ \E r \in Requests : Enter(r) \/ Handle(r) \/ Release(r) \/ Expire(r) \/ Maintain(r)
  \/ Main
  \/ Terminated

Spec == Init /\ [][Next]_vars

\* What a goroutine does without waiting for anybody but the exclusive side: a
\* reader takes its lease; maintenance polls, ends at its deadline, finishes its body
\* and answers.
RunsOn(r) == Lease(r) \/ (pc[r] = "waiting" /\ Expire(r)) \/ Maintain(r)

\* main() once it is asked to shut down.
ShutsDown == (restart /\ Shutdown) \/ ShutdownTimeout \/ ScepDrained \/ Exit

\* Ordinary handlers owe nothing: a client may read its response as slowly as the
\* deadlines let it.
FairSpec == Spec /\ WF_vars(ShutsDown) /\ \A r \in Requests : WF_vars(RunsOn(r))

----------------------------------------------------------------------------
(* Properties                                                              *)

TypeOK ==
  /\ pc \in [Requests -> {"idle", "arrived", "blocked", "leased", "waiting", "answer",
                         "restarting"} \cup Handling \cup Exclusive]
  /\ request \in [Requests -> [kind : Kinds \cup {"none"}, user : Users \cup {None}]]
  /\ leases \in SUBSET Requests
  /\ writer \in Requests \cup {None} /\ backupMu \in Requests \cup {None}
  /\ expired \in SUBSET Requests
  /\ stopped \in BOOLEAN /\ restart \in BOOLEAN /\ late \in BOOLEAN
  /\ main \in {"serving", "closingScep", "closingGui", "exited"}
  /\ admins \in SUBSET Users
  /\ files \in SUBSET Requests /\ index \in SUBSET Requests
  /\ copy \in [files : SUBSET Requests, index : SUBSET Requests]

\* Whoever holds the exclusive side is alone: no other request is in a handler on
\* live data or holds a lease (backup_http.go:41, "surrounds authentication AND the
\* whole handler").
Exclusion ==
  \A r \in Requests : pc[r] \in Exclusive =>
    leases = {} /\ \A q \in Requests \ {r} : pc[q] \notin Handling \cup Exclusive

\* A snapshot never holds half of what a handler wrote, though it is copied root
\* by root (TestBackupBarrierWaitsWholeOperationsAndResumes).
SnapshotIsWhole ==
  \A r \in Requests : pc[r] = "answer" => copy.files = copy.index

\* Maintenance runs for a user who is an administrator while it runs, not only
\* when the request came in (backup_http.go:113).
MaintainedByAdmin ==
  AuthEnabled => \A r \in Requests : pc[r] \in {"body", "copying"} => request[r].user \in admins

\* From the moment the files are replaced no request is served from the memory of
\* the old instance, those included that came in before (store.go:59).
StoppedServesNothing ==
  stopped => \A r \in Requests : pc[r] \notin Handling \cup {"body", "copying"}

\* A request that is over, cancelled ones included, has left no lock, no queued
\* writer and no lease behind (backup_http.go:80).
NothingLeftBehind ==
  \A r \in Requests : pc[r] = "idle" => r \notin leases /\ writer # r /\ backupMu # r

\* Nobody waits for a handler that never ends: a request gets in, maintenance gets
\* its turn or gives up, also if both meet (BACKUP.md, "new GUI and SCEP requests
\* continue normally").
NobodyWaitsForHandlers ==
  \A r \in Requests :
    pc[r] \in {"arrived", "blocked", "waiting"}
      ~> pc[r] \notin {"arrived", "blocked", "waiting"} \/ ~ Running

\* A stopped instance shuts down, also if the restore failed or requests hang.
StopEnds == stopped ~> ~ Running
----------------------------------------------------------------------------
(* The inductive invariant                                                 *)

\* Each lock belongs to the request that is at a step which holds it.
Ownership ==
  \A r \in Requests :
    /\ r \in leases <=> pc[r] \in Handling \cup {"leased"}
    /\ writer = r <=> pc[r] \in Exclusive
    /\ backupMu = r <=> pc[r] \in {"prepare", "waiting", "answer", "restarting"} \cup Exclusive

\* Readers and the writer exclude each other.
OneSide == writer # None => leases = {}

\* What kind of request is where.
Roles ==
  \A r \in Requests :
    /\ pc[r] = "halfway" => request[r].kind = "ordinary"
    /\ pc[r] = "copying" => request[r].kind = "backup"

\* The data differs from whole by what is being written.
OnlyHalfwayDiffers ==
  ~ stopped => \A r \in Requests : (r \in files <=> r \in index) <=> pc[r] # "halfway"

\* The copy differs from whole while it is being made.
Copied ==
  /\ (\A r \in Requests : pc[r] # "copying") => copy.files = copy.index
  /\ \A r \in Requests : pc[r] = "copying" => copy.files = files

IInv ==
  /\ TypeOK
  /\ Ownership /\ OneSide /\ Roles
  /\ OnlyHalfwayDiffers /\ Copied
  /\ MaintainedByAdmin /\ StoppedServesNothing
=============================================================================
