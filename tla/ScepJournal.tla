---------------------------- MODULE ScepJournal ----------------------------
(***************************************************************************)
(* The SCEP enrollment journal of NetAnchor (scep_store.go, the single-use *)
(* half of scep_protocol.go, and the deletions of store.go).               *)
(*                                                                         *)
(* scep.json is the authority: it records every challenge and, once it is  *)
(* used, the certificate that was issued for it.  The PEM files and        *)
(* index.json are a projection of it that recover() completes.  Every      *)
(* operation runs under Store.scepMu, so at most one is in progress; what  *)
(* interleaves with it is the clock, a storage error at any of its writes, *)
(* a CA directory that becomes unreachable, and the death of the process   *)
(* between any two of its writes.                                          *)
(*                                                                         *)
(* durableWrite() is two steps here, the rename that makes the new file    *)
(* visible and the directory fsync after it.  "held" is what a loss of     *)
(* power may leave of scep.json and index.json: the version that was last  *)
(* synced or any one renamed over it since (both files are in one          *)
(* directory, so one fsync settles both).                                  *)
(***************************************************************************)
EXTENDS Naturals, FiniteSets

CONSTANTS
  MaxChallenges,  \* bound: challenges ever created
  Requests,       \* one per transaction ID, CSR and signer certificate
  CAs,            \* the SCEP-capable intermediates
  FlakyCAs,       \* those whose directory may become unreachable
  None,           \* no CA, no certificate, no request, no journal entry
  Life,           \* lifetime of an unused challenge
  Retention,      \* scepRetention
  Capacity,       \* challenges the journal may hold (10000 in the code)
  MaxNow, MaxSerial, MaxCrashes, MaxFaults  \* bounds

Challenges == 1 .. MaxChallenges

Cert == [serial : 1 .. MaxSerial, chal : Challenges, req : Requests, ca : CAs,
         at : 0 .. MaxNow]

Entry == [ca : CAs, expires : Nat, revoked : BOOLEAN,
          cert : Cert \cup {None}, published : BOOLEAN]

Journal == [ca : CAs \cup {None}, chal : [Challenges -> Entry \cup {None}]]

Index == [cas : SUBSET CAs, certs : SUBSET Cert]

ASSUME Bounds ==
  /\ MaxChallenges \in Nat /\ MaxSerial \in Nat /\ MaxNow \in Nat
  /\ MaxCrashes \in Nat /\ MaxFaults \in Nat
  /\ Life \in Nat /\ Retention \in Nat /\ Capacity \in Nat
ASSUME FlakyAssumption == FlakyCAs \subseteq CAs
ASSUME NoneAssumption ==
  /\ None \notin CAs /\ None \notin Requests
  /\ None \notin Cert /\ None \notin Entry

VARIABLES
  now,        \* time.Now()
  journal,    \* scep.json, as a reader sees it
  index,      \* index.json: CA records and certificate records
  pems,       \* certs/<serial>-cert.pem
  caDirs,     \* cas/<id>
  away,       \* CA directories that cannot be read at the moment
  trash,      \* certificates whose record was moved to the trash
  held,       \* the versions of scep.json and index.json a power loss may leave
  up,         \* the process is running
  keyring,    \* caKeyring: the CAs whose key is in memory
  op,         \* the operation that holds scepMu
  st,         \* its copy of the journal
  delivered,  \* history: the successful replies sent
  made, serial, faults, crashes   \* counters the bounds apply to

files == <<journal, index, pems, caDirs, trash, held>>
memory == <<up, keyring, st>>
counters == <<made, serial, faults, crashes>>
vars == <<now, files, away, memory, op, delivered, counters>>

Kinds == {"none", "enroll", "challenge", "admin", "deleteCert", "deleteCA", "startup"}

\* The storage steps, each of which can fail.
StorageSteps == {"index", "indexSync", "mark", "markSync", "commit", "commitSync",
                 "trashCA", "trash", "unlist", "unlistSync"}

Op == [kind : Kinds, chal : Nat, req : Requests \cup {None}, ca : CAs \cup {None},
       del : SUBSET Cert, then : {"body", "reply"},
       pc : {"free", "recover", "body", "reply", "done"} \cup StorageSteps,
       reply : {"none", "success", "refused", "ok", "error"}]

Idle == [kind |-> "none", chal |-> 0, req |-> None, ca |-> None, del |-> {},
         then |-> "body", pc |-> "free", reply |-> "none"]

TypeOK ==
  /\ now \in 0 .. MaxNow
  /\ journal \in Journal /\ st \in Journal
  /\ index \in Index
  /\ pems \in SUBSET Cert /\ trash \in SUBSET Cert
  /\ caDirs \in SUBSET CAs /\ away \in SUBSET CAs /\ keyring \in SUBSET CAs
  /\ held \in [journal : SUBSET Journal, index : SUBSET Index]
  /\ up \in BOOLEAN
  /\ op \in Op
  /\ delivered \in SUBSET [to : Requests, cert : Cert]
  /\ made \in 0 .. MaxChallenges /\ serial \in 0 .. MaxSerial
  /\ faults \in 0 .. MaxFaults /\ crashes \in 0 .. MaxCrashes

EmptyJournal == [ca |-> None, chal |-> [c \in Challenges |-> None]]

\* A data directory whose CAs exist and are unlocked, and that has no scep.json.
Init ==
  /\ now = 0
  /\ journal = EmptyJournal /\ st = EmptyJournal
  /\ index = [cas |-> CAs, certs |-> {}]
  /\ pems = {} /\ trash = {}
  /\ caDirs = CAs /\ away = {} /\ keyring = CAs
  /\ held = [journal |-> {journal}, index |-> {index}]
  /\ up = TRUE
  /\ op = Idle
  /\ delivered = {}
  /\ made = 0 /\ serial = 0 /\ faults = 0 /\ crashes = 0

----------------------------------------------------------------------------
(* What the operations ask of a journal j. *)

Present(j, c) == j.chal[c] # None
Used(j, c) == Present(j, c) /\ j.chal[c].cert # None
Pending(j, c) == Used(j, c) /\ ~ j.chal[c].published
Expired(j, c) == now > j.chal[c].expires

\* SCEPService.ca: the CA directory is there and readable.
CaUsable(k) == k \in caDirs \ away

\* SCEPService.ready: the selected CA is usable and unlocked, and its chain complete.
Ready(j) == CaUsable(j.ca) /\ j.ca \in keyring /\ j.ca \in index.cas

\* Mutant of Keep: a used challenge is dropped as soon as it is published.
KeepUntilPublished(j, c) ==
  \/ Pending(j, c)
  \/ Present(j, c) /\ ~ Used(j, c) /\ now < j.chal[c].expires + Retention

\* pruneSCEP: what retention keeps.
Keep(j, c) ==
  \/ Pending(j, c)
  \/ Used(j, c) /\ now < j.chal[c].cert.at + Retention
  \/ Present(j, c) /\ ~ Used(j, c) /\ now < j.chal[c].expires + Retention

Prune(j) ==
  [j EXCEPT !.chal = [c \in Challenges |-> IF Keep(j, c) THEN j.chal[c] ELSE None]]

Size(j) == Cardinality({c \in Challenges : Present(j, c)})

----------------------------------------------------------------------------
(* The steps every operation is made of. *)

Goto(label) == op' = [op EXCEPT !.pc = label]
Answer(reply) == op' = [op EXCEPT !.pc = "done", !.reply = reply]

\* Takes scepMu and loads the journal; the operation starts at label.
Begin(new, label) ==
  /\ up /\ op.pc = "free"
  /\ op' = [new EXCEPT !.pc = label]
  /\ UNCHANGED <<now, files, away, up, keyring, delivered, counters>>

BeginRecover(new) == Begin(new, "recover") /\ st' = journal

\* An operation that only edits the journal goes straight to saving it.
BeginEdit(edited) == Begin([Idle EXCEPT !.kind = "admin"], "commit") /\ st' = edited

\* durableWrite up to the rename, and the directory fsync that ends it.
RenameJournal ==
  /\ journal' = st
  /\ held' = [held EXCEPT !.journal = @ \cup {st}]
  /\ UNCHANGED <<now, index, pems, caDirs, away, trash, memory, delivered, counters>>

RenameIndex(new) ==
  /\ index' = new
  /\ held' = [held EXCEPT !.index = @ \cup {new}]
  /\ UNCHANGED <<now, journal, caDirs, away, memory, delivered, counters>>

\* Mutant of SyncDir: the directory is not synced after the rename.
SyncFileOnly ==
  UNCHANGED <<now, journal, index, pems, caDirs, away, trash, held, up, delivered, counters>>

SyncDir ==
  /\ held' = [journal |-> {journal}, index |-> {index}]
  /\ UNCHANGED <<now, journal, index, pems, caDirs, away, trash, up, delivered, counters>>

----------------------------------------------------------------------------
(* recover and publish: project every committed, unpublished issuance, oldest *)
(* challenge first, then save the marks.                                      *)

NextPending(c) ==
  Pending(st, c) /\ \A d \in Challenges : Pending(st, d) => c <= d

\* Mutant of RecoverBlocked: an unusable CA is taken for a deleted one.
RecoverDiscards ==
  /\ op.pc = "recover"
  /\ \E c \in Challenges :
       /\ NextPending(c) /\ ~ CaUsable(st.chal[c].ca)
       /\ st' = [st EXCEPT !.chal[c] = None]
  /\ UNCHANGED <<now, files, away, up, keyring, op, delivered, counters>>

\* An unusable CA stops recovery with an error: absence is not a deletion.
RecoverBlocked ==
  /\ op.pc = "recover"
  /\ \E c \in Challenges : NextPending(c) /\ ~ CaUsable(st.chal[c].ca)
  /\ Answer("error")
  /\ UNCHANGED <<now, files, away, memory, delivered, counters>>

ProjectPem ==
  /\ op.pc = "recover"
  /\ \E c \in Challenges :
       /\ NextPending(c) /\ CaUsable(st.chal[c].ca)
       /\ pems' = pems \cup {st.chal[c].cert}
  /\ Goto("index")
  /\ UNCHANGED <<now, journal, index, caDirs, away, trash, held, memory, delivered,
                 counters>>

Mark(c) == st' = [st EXCEPT !.chal[c].published = TRUE]

ProjectIndex ==
  /\ op.pc = "index"
  /\ \E c \in Challenges :
       /\ NextPending(c) /\ st.chal[c].cert \notin index.certs
       /\ RenameIndex([index EXCEPT !.certs = @ \cup {st.chal[c].cert}])
  /\ Goto("indexSync")
  /\ UNCHANGED <<pems, trash>>

ProjectIndexed ==
  /\ op.pc = "index"
  /\ \E c \in Challenges :
       NextPending(c) /\ st.chal[c].cert \in index.certs /\ Mark(c)
  /\ Goto("recover")
  /\ UNCHANGED <<now, files, away, up, keyring, delivered, counters>>

ProjectSync ==
  /\ op.pc = "indexSync"
  /\ SyncDir
  /\ \E c \in Challenges : NextPending(c) /\ Mark(c)
  /\ Goto("recover")
  /\ UNCHANGED keyring

\* Mutant of Recovered: the Published marks are not saved.
RecoveredUnsaved ==
  /\ op.pc = "recover"
  /\ \A c \in Challenges : ~ Pending(st, c)
  /\ Goto(op.then)
  /\ UNCHANGED <<now, files, away, memory, delivered, counters>>

\* Nothing is pending: save the marks if there are any, else go on.
Recovered ==
  /\ op.pc = "recover"
  /\ \A c \in Challenges : ~ Pending(st, c)
  /\ Goto(IF st # journal THEN "mark" ELSE op.then)
  /\ UNCHANGED <<now, files, away, memory, delivered, counters>>

SaveMarks == op.pc = "mark" /\ RenameJournal /\ Goto("markSync")

\* Mutant of SyncMarks: the marks are renamed into place but not synced.
MarksUnsynced ==
  /\ op.pc = "markSync"
  /\ Goto(op.then)
  /\ UNCHANGED <<now, files, away, memory, delivered, counters>>
SyncMarks ==
  /\ op.pc = "markSync"
  /\ SyncDir
  /\ Goto(op.then)
  /\ UNCHANGED <<keyring, st>>

----------------------------------------------------------------------------
(* enroll, for a single-use challenge *)

StartEnroll(c, r) ==
  /\ Ready(journal)
  /\ BeginRecover([Idle EXCEPT !.kind = "enroll", !.chal = c, !.req = r])

\* The challenge is looked up among those of the selected CA.
Known == Present(st, op.chal) /\ st.chal[op.chal].ca = st.ca

\* Mutants of CanReplay: any request may replay; a deleted certificate is replayed.
ReplayToAnyone ==
  /\ Known /\ Used(st, op.chal)
  /\ LET x == st.chal[op.chal].cert IN now <= x.at + Retention /\ x \in index.certs

ReplayDeleted ==
  /\ Known /\ Used(st, op.chal)
  /\ LET x == st.chal[op.chal].cert IN now <= x.at + Retention /\ x.req = op.req

CanReplay ==
  /\ Known /\ Used(st, op.chal)
  /\ LET x == st.chal[op.chal].cert
     IN now <= x.at + Retention /\ x.req = op.req /\ x \in index.certs

\* Mutant of CanGrant: a used challenge may be granted again.
GrantAgain == Known /\ ~ st.chal[op.chal].revoked /\ ~ Expired(st, op.chal)

CanGrant ==
  /\ Known /\ ~ Used(st, op.chal)
  /\ ~ st.chal[op.chal].revoked /\ ~ Expired(st, op.chal)

Deliver ==
  /\ delivered' = delivered \cup {[to |-> op.req, cert |-> st.chal[op.chal].cert]}
  /\ Answer("success")
  /\ UNCHANGED <<now, files, away, memory, counters>>

Replay == op.pc = "body" /\ op.kind = "enroll" /\ CanReplay /\ Deliver

\* Refused by the challenge; a fresh request also by its names or the policy.
Refuse ==
  /\ op.pc = "body" /\ op.kind = "enroll" /\ ~ CanReplay
  /\ Answer("refused")
  /\ UNCHANGED <<now, files, away, memory, delivered, counters>>

Grant ==
  /\ op.pc = "body" /\ op.kind = "enroll" /\ CanGrant
  /\ serial < MaxSerial
  /\ serial' = serial + 1
  /\ LET x == [serial |-> serial + 1, chal |-> op.chal, req |-> op.req, ca |-> st.ca,
               at |-> now]
     IN st' = [st EXCEPT !.chal[op.chal] = [@ EXCEPT !.cert = x, !.published = FALSE]]
  /\ op' = [op EXCEPT !.pc = "commit", !.then = "reply"]
  /\ UNCHANGED <<now, files, away, up, keyring, delivered, made, faults, crashes>>

\* After the commit and the recovery that follows it.
Reply == op.pc = "reply" /\ op.kind = "enroll" /\ Deliver

----------------------------------------------------------------------------
(* Saving the journal: the commit of a grant, a new challenge or an edit. *)

Commit == op.pc = "commit" /\ RenameJournal /\ Goto("commitSync")

\* Mutant of SyncCommit: the reply does not wait for the certificate to be published.
SyncCommitAndReply ==
  /\ op.pc = "commitSync"
  /\ SyncDir
  /\ IF op.kind = "enroll" THEN Goto("reply") ELSE Answer("ok")
  /\ UNCHANGED <<keyring, st>>

SyncCommit ==
  /\ op.pc = "commitSync"
  /\ SyncDir
  /\ IF op.kind = "enroll" THEN Goto("recover") ELSE Answer("ok")
  /\ UNCHANGED <<keyring, st>>

----------------------------------------------------------------------------
(* The administrator's operations *)

StartChallenge ==
  /\ CaUsable(journal.ca)
  /\ made < MaxChallenges
  /\ BeginRecover([Idle EXCEPT !.kind = "challenge"])

Create ==
  /\ op.pc = "body" /\ op.kind = "challenge" /\ made < MaxChallenges
  /\ Size(Prune(st)) < Capacity
  /\ made' = made + 1
  /\ st' = [Prune(st) EXCEPT !.chal[made + 1] =
              [ca |-> st.ca, expires |-> now + Life, revoked |-> FALSE, cert |-> None,
               published |-> FALSE]]
  /\ Goto("commit")
  /\ UNCHANGED <<now, files, away, up, keyring, delivered, serial, faults, crashes>>

\* At capacity the pruned copy is dropped unsaved.
CapacityReached ==
  /\ op.pc = "body" /\ op.kind = "challenge"
  /\ Size(Prune(st)) >= Capacity
  /\ Answer("error")
  /\ UNCHANGED <<now, files, away, memory, delivered, counters>>

Revoke(c) ==
  /\ Present(journal, c) /\ ~ Used(journal, c)
  /\ BeginEdit([journal EXCEPT !.chal[c].revoked = TRUE])

\* Mutant of DeleteChallenge: the status check forgets that a challenge was used.
DeleteExpired(c) ==
  /\ Present(journal, c)
  /\ journal.chal[c].revoked \/ Expired(journal, c)
  /\ BeginEdit([journal EXCEPT !.chal[c] = None])

DeleteChallenge(c) ==
  /\ Present(journal, c) /\ ~ Used(journal, c)
  /\ journal.chal[c].revoked \/ Expired(journal, c)
  /\ BeginEdit([journal EXCEPT !.chal[c] = None])

\* AllowDES only decides whether a message parses, so the journal keeps its value here.
SetAllowDES == BeginEdit(journal)

SelectCA(k) ==
  /\ CaUsable(k) /\ k \in keyring
  /\ BeginEdit([journal EXCEPT !.ca = k])

----------------------------------------------------------------------------
(* DeleteCert, DeleteCA and trash *)

\* Mutants of the deletions: the pending projections are not completed first.
DeleteCertUnreconciled(x) ==
  /\ Begin([Idle EXCEPT !.kind = "deleteCert", !.del = {x}], "body")
  /\ st' = journal

DeleteCAUnreconciled(k) ==
  /\ Begin([Idle EXCEPT !.kind = "deleteCA", !.ca = k], "body")
  /\ st' = journal

StartDeleteCert(x) ==
  BeginRecover([Idle EXCEPT !.kind = "deleteCert", !.del = {x}])

StartDeleteCA(k) ==
  BeginRecover([Idle EXCEPT !.kind = "deleteCA", !.ca = k])

FindCert ==
  /\ op.pc = "body" /\ op.kind = "deleteCert"
  /\ IF op.del \subseteq index.certs THEN Goto("trash") ELSE Answer("error")
  /\ UNCHANGED <<now, files, away, memory, delivered, counters>>

\* Mutant of FindCA: only certificates whose file is still there are collected.
FindCAFiles ==
  /\ op.pc = "body" /\ op.kind = "deleteCA"
  /\ IF CaUsable(op.ca) /\ op.ca \in index.cas
     THEN op' = [op EXCEPT !.pc = "trashCA",
                           !.del = {x \in index.certs \cap pems : x.ca = op.ca}]
     ELSE Answer("error")
  /\ UNCHANGED <<now, files, away, memory, delivered, counters>>

\* caSubtree of a CA that signs leaf certificates only.
FindCA ==
  /\ op.pc = "body" /\ op.kind = "deleteCA"
  /\ IF CaUsable(op.ca) /\ op.ca \in index.cas
     THEN op' = [op EXCEPT !.pc = "trashCA",
                           !.del = {x \in index.certs : x.ca = op.ca}]
     ELSE Answer("error")
  /\ UNCHANGED <<now, files, away, memory, delivered, counters>>

TrashCA ==
  /\ op.pc = "trashCA"
  /\ IF CaUsable(op.ca) THEN caDirs' = caDirs \ {op.ca} /\ Goto("trash")
                        ELSE UNCHANGED caDirs /\ Answer("error")
  /\ UNCHANGED <<now, journal, index, pems, away, trash, held, memory, delivered, counters>>

\* A file that is already gone is not an error.
TrashPem ==
  /\ op.pc = "trash"
  /\ \E x \in op.del \cap pems : pems' = pems \ {x}
  /\ UNCHANGED <<now, journal, index, caDirs, away, trash, held, memory, op, delivered,
                 counters>>

TrashMoved ==
  /\ op.pc = "trash" /\ op.del \cap pems = {}
  /\ Goto("unlist")
  /\ UNCHANGED <<now, files, away, memory, delivered, counters>>

\* The index is saved last, without the removed records.
Unlist ==
  /\ op.pc = "unlist"
  /\ RenameIndex([cas |-> index.cas \ {op.ca}, certs |-> index.certs \ op.del])
  /\ trash' = trash \cup op.del
  /\ Goto("unlistSync")
  /\ UNCHANGED pems

SyncUnlist ==
  /\ op.pc = "unlistSync"
  /\ SyncDir
  /\ keyring' = keyring \ {op.ca}
  /\ Answer("ok")
  /\ UNCHANGED st

----------------------------------------------------------------------------
(* The end of an operation, its failures, and the process around it *)

StartupDone ==
  /\ op.pc = "body" /\ op.kind = "startup"
  /\ Answer("ok")
  /\ UNCHANGED <<now, files, away, memory, delivered, counters>>

\* Returns and releases scepMu.
Finish ==
  /\ op.pc = "done"
  /\ op' = Idle /\ st' = journal
  /\ UNCHANGED <<now, files, away, up, keyring, delivered, counters>>

\* A write, rename or fsync fails: the operation returns the error.  At a sync
\* step the new file is already visible.
StorageError ==
  /\ faults < MaxFaults
  /\ \/ op.pc \in StorageSteps
     \/ op.pc = "recover" /\ \E c \in Challenges : Pending(st, c)
  /\ faults' = faults + 1
  /\ Answer("error")
  /\ UNCHANGED <<now, files, away, memory, delivered, made, serial, crashes>>

\* The process dies; what it renamed stays.
Crash ==
  /\ up /\ crashes < MaxCrashes
  /\ crashes' = crashes + 1
  /\ up' = FALSE /\ keyring' = {} /\ op' = Idle /\ st' = journal
  /\ UNCHANGED <<now, files, away, delivered, made, serial, faults>>

\* The machine loses power: a rename that no fsync settled may be undone.
PowerLoss ==
  /\ up /\ crashes < MaxCrashes
  /\ crashes' = crashes + 1
  /\ journal' \in held.journal /\ index' \in held.index
  /\ held' = [journal |-> {journal'}, index |-> {index'}]
  /\ trash' = trash \ index'.certs
  /\ up' = FALSE /\ keyring' = {} /\ op' = Idle /\ st' = journal'
  /\ UNCHANGED <<now, pems, caDirs, away, delivered, made, serial, faults>>

\* main: unlockSecrets with whatever passphrase files are there, then startup.
Restart ==
  /\ ~ up
  /\ up' = TRUE
  /\ keyring' \in SUBSET ((caDirs \ away) \cap index.cas)
  /\ op' = [Idle EXCEPT !.kind = "startup", !.pc = "recover"]
  /\ st' = journal
  /\ UNCHANGED <<now, files, away, delivered, counters>>

\* A mount or a permission changes under the process.
Outage ==
  /\ \E k \in FlakyCAs : away' = IF k \in away THEN away \ {k} ELSE away \cup {k}
  /\ UNCHANGED <<now, files, memory, op, delivered, counters>>

Tick ==
  /\ now < MaxNow
  /\ now' = now + 1
  /\ UNCHANGED <<files, away, memory, op, delivered, counters>>

----------------------------------------------------------------------------
(* Properties *)

\* Every certificate that is or was listed, or that a client was sent.
Issued == index.certs \cup trash \cup {d.cert : d \in delivered}

\* A challenge authorizes one certificate, however often the request is repeated,
\* fails half way or is interrupted by a crash (README.md:33, "single-use
\* challenges"; README.md:273, "without minting another certificate").
SingleUse == \A x, y \in Issued : x.chal = y.chal => x = y

\* Nobody but the requester it was issued to is sent a certificate
\* (the transaction, CSR and signer checks of enroll).
RetryBinding == \A d \in delivered : d.to = d.cert.req

\* A deleted certificate is gone for good: no recovery lists it again or writes
\* its PEM again (TestSCEPDeleteCAReconcilesUnindexedPEM).
NoResurrection == trash \cap (index.certs \cup pems) = {}

\* A certificate that a client was sent stays on record: listed, or deleted on purpose.
DeliveredOnRecord == \A d \in delivered : d.cert \in index.certs \cup trash

\* A committed issuance can still be completed: deletion never removes the CA that
\* recovery needs (reconcileSCEP runs before DeleteCA moves a file).
Recoverable ==
  \A c \in Challenges : Pending(journal, c) => journal.chal[c].ca \in caDirs

\* Deleting a CA takes every certificate it issued along, committed-but-unlisted
\* ones included, and none is listed afterwards.
NoOrphans == \A x \in index.certs : x.ca \in index.cas

\* Within the retention period a retry of a request that was answered with a
\* certificate is not refused, unless the certificate was deleted or another CA
\* was selected (README.md:281).
RetryAnswered ==
  op.kind = "enroll" /\ op.reply = "refused" =>
    ~ \E d \in delivered :
        /\ d.to = op.req /\ d.cert.chal = op.chal /\ d.cert.ca = journal.ca
        /\ d.cert \in index.certs /\ now < d.cert.at + Retention

\* A successful startup leaves nothing unpublished behind.
StartupCompletes ==
  op.kind = "startup" /\ op.reply = "ok" => \A c \in Challenges : ~ Pending(journal, c)

\* A committed, unpublished issuance is never dropped, replaced or revoked by an
\* operation: retention, deletion and edits leave it for recovery.
PendingKept ==
  [][\A c \in Challenges :
       Pending(journal, c) =>
         /\ Present(journal', c)
         /\ journal'.chal[c].cert = journal.chal[c].cert]_vars

\* A certificate is listed only when its PEM is written and the journal holds it.
ListedAfterCommit ==
  [][\A x \in index'.certs \ index.certs :
       /\ x \in pems
       /\ Used(journal, x.chal) /\ journal.chal[x.chal].cert = x]_vars

\* The journal that a listed certificate rests on would survive a loss of power
\* (README.md:269-270: the fsynced journal commits "before publishing PEM/index
\* files or returning success").
ListedIsDurable ==
  [][up' => \A x \in index'.certs \ index.certs : \A j \in held.journal :
       Used(j, x.chal) /\ j.chal[x.chal].cert = x]_vars

\* Seen through the inventory, the trash and the replies, the journal, its
\* projection and its recovery are the ledger of EnrollmentLedger.
Ledger == INSTANCE EnrollmentLedger
            WITH Certs <- Cert, listed <- index.certs, withdrawn <- trash

ImplementsLedger == Ledger!Spec

\* After a crash, the restart completes what had been committed, once the storage
\* has stopped failing and unless a CA directory cannot be reached (SCEPService.recover
\* at startup).
CrashRecovers ==
  (~ up /\ faults = MaxFaults) ~> away # {} \/ \A c \in Challenges : ~ Pending(journal, c)

----------------------------------------------------------------------------
(* The inductive invariant behind these properties (ScepJournalProofs). *)

\* What the journal, and the copy of it an operation works on, says of the
\* certificates that were issued: a challenge number is never reused, the entry of
\* a challenge names the one certificate issued for it, a published one is on
\* record, and a deleted one is not left to be published.
Accounts(j) ==
  /\ \A c \in Challenges : Present(j, c) => c <= made
  /\ \A c \in Challenges : Used(j, c) => j.chal[c].cert.chal = c
  /\ \A x \in Issued : x.chal <= made
  /\ \A x \in Issued : Present(j, x.chal) => j.chal[x.chal].cert = x
  /\ \A c \in Challenges :
       Used(j, c) /\ j.chal[c].published => j.chal[c].cert \in index.certs \cup trash
  /\ \A x \in trash : Present(j, x.chal) => j.chal[x.chal].published
  /\ \A c \in Challenges : Pending(j, c) => j.chal[c].ca \in caDirs

\* During recovery the copy differs from the journal in Published marks only.
Agrees ==
  \A c \in Challenges :
    /\ Present(st, c) <=> Present(journal, c)
    /\ Present(st, c) => st.chal[c].cert = journal.chal[c].cert

RecoverySteps == {"recover", "index", "indexSync", "mark"}
TrashSteps == {"trashCA", "trash", "unlist"}
Deletions == {"deleteCert", "deleteCA"}

\* What the copy keeps of the journal it is about to replace.
KeepsPending ==
  \A c \in Challenges :
    Pending(journal, c) => Present(st, c) /\ st.chal[c].cert = journal.chal[c].cert

\* Where an operation stands.
Progress ==
  /\ op.pc \in RecoverySteps => Agrees
  /\ op.pc = "commit" => KeepsPending
  /\ op.pc \notin RecoverySteps \cup {"commit", "done"} => st = journal
  /\ op.pc \in {"mark", "markSync", "body", "reply"} \cup TrashSteps =>
       \A c \in Challenges : ~ Pending(st, c)
  /\ op.pc = "index" => \A c \in Challenges : NextPending(c) => st.chal[c].cert \in pems
  /\ op.pc = "indexSync" =>
       \A c \in Challenges : NextPending(c) => st.chal[c].cert \in index.certs
  /\ op.pc \in TrashSteps => op.kind \in Deletions /\ op.del \subseteq index.certs
  /\ op.pc = "unlist" => op.del \cap pems = {}
  /\ op.kind \in {"enroll", "challenge"} => st.ca \in caDirs
  /\ op.kind = "enroll" => op.chal \in Challenges /\ op.req \in Requests
  /\ op.pc = "reply" => op.then = "reply"
  /\ op.then = "reply" =>
       /\ op.kind = "enroll" /\ Used(st, op.chal)
       /\ st.chal[op.chal].cert.req = op.req
       /\ st.chal[op.chal].cert \notin trash

IInv ==
  /\ TypeOK
  /\ Accounts(journal) /\ Accounts(st)
  /\ Progress
  /\ SingleUse /\ RetryBinding /\ NoResurrection /\ DeliveredOnRecord

(* What it takes beyond IInv to show that a retry is answered, that a startup is *)
(* complete and that a deleted CA leaves no certificate behind.                  *)

\* A journal keeps the challenge of a certificate until its retention has passed, under
\* the CA that issued it.
Remembers(j) ==
  /\ \A x \in Issued : now < x.at + Retention => Present(j, x.chal)
  /\ \A c \in Challenges : Used(j, c) => j.chal[c].cert.ca = j.chal[c].ca

\* An operation replies once, at its end; startup edits and deletes nothing.
Replies ==
  /\ op.reply # "none" => op.pc = "done"
  /\ op.pc \in {"commit", "commitSync"} => op.kind \in {"enroll", "challenge", "admin"}
  /\ op.pc = "unlistSync" => op.kind \in Deletions

\* A CA directory goes before its record does, together with every certificate of the CA.
Removes ==
  /\ caDirs \subseteq index.cas
  /\ op.kind = "deleteCert" => op.ca = None
  /\ op.pc \in TrashSteps => {x \in index.certs : x.ca = op.ca} \subseteq op.del
  /\ op.pc \in {"trash", "unlist"} => op.ca \notin caDirs

KInv ==
  /\ IInv
  /\ Remembers(journal) /\ Remembers(st)
  /\ Replies /\ Removes
  /\ NoOrphans /\ RetryAnswered /\ StartupCompletes

(* What it takes beyond IInv when the machine loses power instead (PowerSpec). *)

\* Between a rename and its fsync two versions of a file are held, otherwise one; any
\* that may be left agrees with the certificates on record, and recovery only adds marks.
Holds ==
  /\ journal \in held.journal /\ index \in held.index
  /\ op.pc \notin {"commitSync", "markSync"} => held.journal = {journal}
  /\ op.pc \notin {"indexSync", "unlistSync"} => held.index = {index}
  /\ \A j \in held.journal : Accounts(j)
  /\ \A i \in held.index :
       /\ i.certs \subseteq index.certs \cup trash
       /\ \A d \in delivered : d.cert \in i.certs \cup trash
       /\ \A c \in Challenges :
            Used(journal, c) /\ journal.chal[c].published =>
              journal.chal[c].cert \in i.certs \cup trash
  /\ op.pc \in RecoverySteps =>
       \A c \in Challenges :
         Used(journal, c) /\ journal.chal[c].published => st.chal[c].published
  /\ ~ up => op.pc = "free"

PInv == IInv /\ Holds

----------------------------------------------------------------------------
Recovery ==
  \/ RecoverBlocked \/ ProjectPem \/ ProjectIndex \/ ProjectIndexed \/ ProjectSync
  \/ Recovered \/ SaveMarks \/ SyncMarks

Enrollment ==
  \/ Replay \/ Refuse \/ Grant \/ Reply

Administration ==
  \/ Create \/ CapacityReached \/ Commit \/ SyncCommit
  \/ FindCert \/ FindCA \/ TrashCA \/ TrashPem \/ TrashMoved \/ Unlist \/ SyncUnlist
  \/ StartupDone

\* The goroutine that holds scepMu takes its next step.
Step == Recovery \/ Enrollment \/ Administration \/ Finish

Call ==
  \/ \E c \in Challenges, r \in Requests : StartEnroll(c, r)
  \/ StartChallenge
  \/ \E c \in Challenges : Revoke(c) \/ DeleteChallenge(c)
  \/ SetAllowDES
  \/ \E k \in CAs : SelectCA(k) \/ StartDeleteCA(k)
  \/ \E c \in Challenges : Used(journal, c) /\ StartDeleteCert(journal.chal[c].cert)
  \/ \E x \in index.certs : StartDeleteCert(x)

Work == Step \/ Call \/ StorageError \/ Restart \/ Outage \/ Tick

Next == Work \/ Crash

Spec == Init /\ [][Next]_vars

\* The machine loses power instead of the process dying alone.
PowerSpec == Init /\ [][Work \/ PowerLoss]_vars

\* The goroutine that holds the lock runs on, and a supervisor restarts the
\* process; nobody is obliged to call, and storage need not fail.
FairSpec == Spec /\ WF_vars(Step) /\ WF_vars(Restart)
=============================================================================
