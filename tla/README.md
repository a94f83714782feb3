# NetAnchor in TLA+

NetAnchor is a small certificate authority server in Go: it creates a root and
intermediate CAs, issues certificates from templates, enrolls network devices
over SCEP, pushes certificates to devices over gNOI, and keeps everything as
files in one data directory. This directory holds TLA+ models of its core, the
TLC configurations that check them on small instances, and TLAPS proofs of the
theorems that matter most. The code is the reference; every definition names
the lines it models in `PROJECT.json` ("map").

Run from this directory:

    tlc -workers 2 -config ScepJournal.cfg MCScepJournal     # a TLC run
    tlapm ScepJournalProofs.tla                              # the proofs

## 1. The system

One process serves HTTPS (and, optionally, SCEP alone on plain HTTP) from one
data directory. Goroutines, one per request, share it.

| Part | State | Operations | Talks to |
| --- | --- | --- | --- |
| Store (`store.go`) | `index.json`, `certs/`, `cas/`, `trash/`, lock `mu`, lock `scepMu` | SaveCA, SaveCert, AddRecord, AddPush, DeleteCA, DeleteCert, templates | all |
| CA issuing (`ca.go`) | none of its own | CreateRoot, CreateIntermediate, IssueCert, SignCSR, signCSRWithoutPersistence | store, keyring |
| Keyring and passphrase files (`ca_unlock.go`) | unlocked keys in memory, `ca-secrets/` | unlockSecrets, keepUnlocked, savePassphrase, drop | store |
| SCEP journal (`scep_store.go`, `scep_protocol.go`) | `scep.json`: selected CA, challenges, issuances | enroll, challenge, revoke, deleteChallenge, selectCA, setAllowDES, recover, startup | store, keyring; all under `scepMu` |
| Shared SCEP challenges (`scep_shared.go`) | issuances with source and identity in `scep.json` | sharedChallenge, enrollShared, pruneShared | SCEP journal, devices, DNS |
| Operation barrier (`backup_http.go`) | RWMutex `operationsMu`, `stopped`, `backupMu`, `restartOnce` | operations, backupExclusive | every request |
| Backup and validation (`backup.go`, `backup_validate.go`) | archive, staging directory | backup, stageBackup, validateBackup | barrier, SCEP journal |
| Restore transaction (`restore.go`) | `.restore/` with `old`, `new` and `journal.json` | activateBackup, recoverRestore | barrier, main |
| Authentication (`auth.go`) | `auth/users.json`, session cookies | setup, login, users, roles | barrier |
| Devices (`device_*.go`) | `devices.json`, sealed credentials | SaveDevice, UpdateDevice, checks, re-pinning | gNOI |
| gNOI push (`gnoi_push.go`, `gnoi_admin.go`) | push record of a certificate | CSR, sign, install | store, keyring, devices |
| Templates, policy, definitions | `templates.json`, `definitions/` | edit, expand, check | CA issuing |
| Tools, flashes, pages, TLS identity, log | small bounded tables, files | | |

What is hard, and what each part must therefore keep:

- **SCEP journal.** A certificate exists in three places, the journal, a PEM
  file and the index, and they are written one after the other. A crash or a
  storage error may fall between any two; the client may repeat its request;
  the certificate or its CA may be deleted; the CA may be unreachable for a
  while; the challenge expires and is pruned. *One certificate per challenge;
  to its requester only; a retry is answered; what was committed is completed;
  what was deleted stays deleted.*
- **Restore.** The whole instance is replaced by a series of renames and the
  process still holds the old one in memory. *After any crash or loss of power
  the disk recovers to exactly the old or exactly the new instance; nothing is
  served from a mixture or from stale memory; recovery can be repeated.*
- **Operation barrier.** Leases, a polled TryLock, cancellation, a stop flag and
  a restart. *Maintenance excludes requests; waiting for it blocks none; a
  stopped instance serves none and does restart.*
- **Store and issuing.** Issuing, signing and pushing do not take `scepMu`; the
  files are written before the record, without one lock around both; a deletion
  moves files one by one and may be cut short. *No file of a listed certificate
  is lost; a record goes last; a CA in the trash signs nothing; what a deletion
  leaves can be backed up and restored.*
- **Shared challenges.** *The rate window never counts a retry; a retry never
  moves a certificate to another source; pruning keeps what the window needs.*
- **Devices and push.** Read a device, talk to a switch for a minute, write what
  was learned. *Credentials reach only what was confirmed; names stay unique; what
  was deleted does not come back; the records say what happened on the switch; the
  certificate a connection rests on is not removed.*

`PROJECT.json` lists every component with its status and every hazard at its line.

## 2. Modules

| Module | What it is |
| --- | --- |
| `ScepJournal` | the SCEP journal for single-use challenges, with the deletions of the store, the process and the storage around it |
| `EnrollmentLedger` | what the journal promises: certificates are listed, delivered to their requester, and withdrawn for good |
| `MCScepJournal` | the constants of the runs of `ScepJournal` |
| `ScepJournalProofs` | theorems about `ScepJournal`: the accounts and the ledger |
| `ScepRecoveryProofs` | theorems about `ScepJournal`: what outlives an operation, and losses of power |
| `RestoreTx` | activateBackup and recoverRestore, with the handler and main around them |
| `RestoreTxProofs` | theorems about `RestoreTx` |
| `OperationBarrier` | the barrier around all requests, the maintenance handlers, the shutdown |
| `MCOperationBarrier` | the constants of its runs |
| `OperationBarrierProofs` | theorems about `OperationBarrier` |
| `CaStore` | CAs, certificates, keys, passphrases and the trash, under requests that create, issue, sign, push and delete |
| `MCCaStore` | the constants and the scenes of its runs |
| `CaStoreProofs` | theorems about `CaStore`, whatever fails or overlaps |
| `CaRestProofs` | theorems about `CaStore` where requests come one after the other |
| `SharedChallenge` | shared challenges: names, rate window, retries, pruning, restore |
| `SharedLedger` | what shared challenges promise: a ledger of certificates that forgets nothing |
| `MCSharedChallenge` | the constants and the scenes of its run |
| `SharedChallengeProofs` | theorems about `SharedChallenge`, until a backup is restored and after |
| `DevicePush` | the device inventory, checks, pushes and removals, against switches that change |
| `MCDevicePush` | the constants and the scenes of its runs |
| `DevicePushProofs` | theorems about `DevicePush` |

The modules meet where the code does: `OperationBarrier` is what every request goes
through and takes a restore as one step, whose inside is `RestoreTx`;
`ScepJournal` has the writes of an enrollment one by one, `SharedChallenge` has
them as one step that may end early; both list certificates whose files `CaStore`
deletes; `DevicePush` takes the signing of a push as one step, whose inside is in
`CaStore`.

### 2.1 ScepJournal

| Variable | Code |
| --- | --- |
| `journal`, `st` | `scep.json`, and the copy of it the operation under `scepMu` works on |
| `index`, `pems`, `caDirs` | `index.json` (CA and certificate records), `certs/*-cert.pem`, `cas/*` |
| `away` | CA directories that cannot be read at the moment |
| `trash` | certificates whose record was moved to the trash |
| `held` | the versions of `scep.json` and `index.json` a loss of power may leave |
| `up`, `keyring` | the process is running; the CAs whose key is in memory |
| `op` | the operation that holds `scepMu`: its kind, arguments, program counter, reply |
| `delivered` | history: the successful replies |

An operation starts by taking the lock and loading the journal (`StartEnroll`,
`StartChallenge`, `Revoke`, `DeleteChallenge`, `SetAllowDES`, `SelectCA`,
`StartDeleteCert`, `StartDeleteCA`, `Restart`) and then goes, one write at a
time, through `recover` (`ProjectPem`, `ProjectIndex`, `ProjectSync`, ...,
`SaveMarks`, `SyncMarks`), its own body (`Grant`, `Replay`, `Refuse`, `Create`,
`FindCert`, ...) and, if it edits the journal, `Commit` and `SyncCommit`.
`durableWrite` is two steps: the rename that makes a file visible and the
directory fsync. `StorageError` ends the operation at any write, before or after
the rename; `Crash` ends the process at any step; `PowerLoss` also undoes
renames that no fsync settled. Since every operation holds `scepMu`, the
operations do not interleave with each other; they interleave with the clock,
outages, errors, crashes and their own repetition.

Left out, and why it does not matter to the properties: parsing, signatures and
envelopes (whether a request reaches `enroll` at all); the names and the policy
of a fresh request (`Refuse` is always possible for one, whatever the
challenge); `AllowDES` (it decides parsing only); the order of challenges in
the file other than the order of creation, which `recover` follows; the
archival copy in `trash/`. A request is its transaction ID, CSR and signer.
Requests answered 503 before they change anything are not steps. Renames in
`certs/` and `cas/` are taken as durable in `PowerSpec`. Shared challenges have
their own module. The intermediates sign leaf certificates only, as `ca()`
demands, so a CA's subtree is itself and its certificates.

### 2.2 EnrollmentLedger

Three variables, three actions: a certificate is listed (once, for a challenge
that has none), is delivered to its requester while it is listed, and is
withdrawn, never to return. `ScepJournal!ImplementsLedger` is the refinement,
with the index as `listed` and the trash as `withdrawn`; everything between the
commit and the index record is a stutter. A commit is invisible to the ledger,
and that is the point: however it is interrupted, nothing else shows.

### 2.3 RestoreTx

| Variable | Code |
| --- | --- |
| `disk` | the data directory: the live roots, `.restore/old`, `.restore/new`, the journal and what it records, the staging directory |
| `held` | the contents of the disk a loss of power may leave |
| `pc`, `caller`, `root`, `outcome` | where handleRestore, activateBackup or recoverRestore is, on whose behalf, in which iteration, and what it will return |
| `target`, `holds` | the version uploaded last; the roots each version has |
| `stopped` | `Store.stopped` |
| `loaded` | history: the tree the running process was started from |
| `reply` | history: how each restore was answered |

The content of a root is the number of the version it comes from, `Absent`, or
`Partial` for a directory that RemoveAll has half removed. Each rename, journal
write and removal is a step, and each fsync another; a step can fail
(`StorageError`, with the code's way out of it in `FailTo`) before its effect
or in the fsync after it; `Crash` leaves any member of `held`, which covers
both the death of the process and the loss of power.

Assumptions: a rename is atomic, an fsync settles every rename before it (a
journaling file system), every version has at least one root (`auth/device.key`
is always there). `.restore` and `.restore/old` are made in one step. Left
out: building and validating the stage, the external secrets directory (written
after the commit, outside the data directory), a failing `lstat` of `.restore`
in the handler, the validation of a journal nobody tampers with. Requests are
excluded by the barrier, whose module shows it.

### 2.4 OperationBarrier

| Variable | Code |
| --- | --- |
| `pc`, `request` | where the goroutine of each connection is; the kind and the user of its request |
| `leases`, `writer` | the two sides of `operationsMu`; a lease is `operationLease.held` |
| `backupMu`, `stopped`, `restart` | `Server.backupMu`, `Store.stopped`, the closed channel |
| `expired` | the requests whose context has ended |
| `main`, `late` | main's shutdown: listeners closed in order, its five seconds over |
| `admins` | the accounts with the admin role in `users.json` |
| `files`, `index`, `copy` | data written in two places, and a backup's copy of it |

Every goroutine runs on its own: `Arrive`, `Lease`, `CheckStopped`,
`Authenticate` are the way in; `WriteFiles`, `WriteIndex`, `AddUser`,
`DeleteUser` what handlers do; `Release`, `TryLock`, `GiveUp`, `Proceed`,
`Decline` are `backupExclusive`; `CopyFiles`, `CopyIndex`, `Activate`,
`RollBack` what it runs. The lock is Go's RWMutex as this code uses it: `TryLock`
never announces a writer, so a reader waits only for a writer that is in, and
`Unlock` lets all waiting readers in at once. Deadlines are a choice: a context
may end at any moment.

Left out: the deadlines of bodies and responses (a handler may return at any
moment, and need not), the archive, CSRF and passwords (`Reply` is always
possible), `reconcileSCEP` inside the snapshot, `users.json` torn while it is
rewritten (`Reply` covers the refusal), the
passphrases of an external directory, a listener that fails.

### 2.5 CaStore

| Variable | Code |
| --- | --- |
| `minted` | the certificates made so far: kind, issuer, the key that signed, with a passphrase or not |
| `index` | `index.json` |
| `cas`, `pems`, `keys`, `secrets` | `cas/<id>/{cert,key}.pem`, `certs/<serial>-{cert,key}.pem`, the passphrase files |
| `keyring` | `Store.unlocked` |
| `trash` | the directories of `trash/`: the records of their `index.json`, their files |
| `mu` | the request that holds `Store.mu` |
| `pc`, `job` | where each request is, and the certificate or the files it is at |
| `recorded` | history: what was ever listed |

A request that makes a certificate reads the issuer and its key (`CreateRoot`,
`CreateIntermediate`, `Issue`, `Push`), signs and writes the first file (`Sign`),
then the second (`SaveKey`), the passphrase and the keyring (`SavePassphrase`,
`KeepUnlocked`) and the record (`AddRecord`, under `mu`). A deletion
(`DeleteCA`, `DeleteCert`) holds `mu` from the start: it writes down what it
removes, moves one file at a time (`Move`, `DirMissing`), saves the index
(`Unlist`) and forgets the keys (`Drop`). Requests interleave between all these
steps, a write may fail (`StorageError`), the process may die (`Restart`, which
unlocks again what it can).

Left out: subjects, key types, lifetimes and extensions; the passphrases typed by
the administrator (a key is loadable when its passphrase may be given); the SCEP
journal, which `DeleteCA` and `DeleteCert` reconcile first (`ScepJournal`);
passphrase files that an administrator writes by hand.

### 2.6 SharedChallenge

| Variable | Code |
| --- | --- |
| `now` | the clock |
| `journal` | the shared challenges of `scep.json`: ranges, suffixes, end, revoked, issuances |
| `index`, `trash` | certificates listed, certificates deleted |
| `minted` | what is in a certificate and its issuance: challenge, transaction, CSR with its signer, source, names, time |
| `dns`, `inventory` | the address a name resolves to; the names of the devices at an address |
| `sent`, `created` | history: replies with a certificate; challenges ever made |
| `snapshot`, `restores` | a backup, and how often it was restored |

All operations hold `scepMu`, so an action is a whole operation: `Create`,
`Revoke`, `DeleteChallenge`, `DeleteCert`, `Retry`, `Grant`; `Prune` is the creation
of a single-use challenge, which prunes the shared ones with it. Being cut short is
part of the action (`Grant` commits and then gets as far as the index, the
mark, or neither) or is an action (`EndEarly`, a recovery that stops half way).
Restoring puts the files of a backup back and leaves the world as it is.

`SharedLedger` keeps every certificate ever issued. It may issue one when none of
them has the same identity within the window, or is of the same request within the
retention; it lists what was issued and not withdrawn, and sends what is listed to
whom it was issued for. `SharedChallenge!ImplementsLedger` is the refinement, with
`minted`, `index`, `trash` and `sent` for the ledger's variables: pruning, recovery
and operations that end early do not show. The step of a restore, and whatever
follows it, is exempt, because a backup has forgotten what was issued after it.

Left out: addresses and names as text (a range or a domain is the set of sources
or names in it); the selected CA (one); the policy; `Capacity` counts shared
challenges only.

### 2.7 DevicePush

| Variable | Code |
| --- | --- |
| `devices` | `devices.json`: name, address, pin and the address it was confirmed for, credentials or none |
| `index` | the certificates made for switches, with the outcomes `AddPush` noted |
| `installed`, `presents` | external: the certificates of a switch by name, and what its gRPC port presents |
| `pc`, `job` | where each request is, and its copy of the device |
| `known`, `removed`, `fetched`, `last`, `held`, `told` | history: devices created, certificates deleted, fingerprints compared, pins confirmed last, certificates a switch took, who was sent credentials |

`Fetch`, `Edit`, `Save`, `Add`, `Create`, `DeleteDevice` are the inventory;
`Check`, `Inspect`, `Update` a test or refresh; `Push`, `List`, `Sign`, `Load`,
`Verify`, `Record`, `Rebound`, `Repin` a push with afterInstall; `Revoke`,
`CheckCert`, `RevokeCert` a removal. Every step that opens a connection compares what
the port presents then. Between any two of them the switch may rebind its
port, its address may be another machine's (`Rebind`), the device may be edited or
deleted, and the process may die. A reply to LoadCertificate may be lost before or
after the certificate is taken.

A fingerprint is identified with the certificate it belongs to. Administrators who
compare one do not confirm another machine's (`Fetch`). Left out: the allow list
and DNS, the retries inside the verification window, the sealing of credentials,
the snapshot's content, definitions and templates.

## 3. What is checked

| Run | Module, cfg | Question |
| --- | --- | --- |
| `journal` | MCScepJournal, ScepJournal.cfg | single use, binding, deletion, retries, retention under errors and crashes; refinement of EnrollmentLedger; the inductive invariant `KInv` |
| `cas` | MCScepJournal, ScepJournalCAs.cfg | deletion and outage of CAs; completion after a crash |
| `power` | MCScepJournal, ScepJournalPower.cfg | the fsyncs, under losses of power; the inductive invariant `PInv` |
| `fsync` | MCScepJournal, ScepJournalFsync.cfg | a disagreement with README.md:269-270, see below |
| `restore` | RestoreTx, RestoreTx.cfg | atomicity of restores, what is served, that the instance comes back |
| `barrier` | MCOperationBarrier, OperationBarrier.cfg | exclusion, whole snapshots, roles, silence after a restore |
| `barrier_live` | MCOperationBarrier, OperationBarrierLive.cfg | nobody waits for a slow handler; a stop ends in an exit |
| `store` | MCCaStore, CaStore.cfg | no file lost, records last, nothing signed by a CA in the trash; at rest, whole subtrees and restorable snapshots; the inductive invariant `SInv` |
| `reroot` | MCCaStore, CaStoreReroot.cfg | a disagreement with ca.go:65, see below |
| `shared` | MCSharedChallenge, SharedChallenge.cfg | rate window, one certificate per request, retries stay with their source; a journal that agrees with the index, also after a restore; refinement of SharedLedger |
| `push` | MCDevicePush, DevicePush.cfg | pins and credentials, unique names, deleted devices and records, verified pushes, protected certificates |
| `push_pin` | MCDevicePush, DevicePushPin.cfg | a disagreement with README.md:381-382, see below |

**Scenes.** What needs many actors and what needs many certificates would be too
much in one behaviour, so the last three MC modules give each behaviour a scene in
a variable that never changes, and restrict the steps to it: in `MCCaStore` two
requests that overlap and fail, on three certificates, or one request after the
other on four (`alone`; `AtRest` is about these); in `MCSharedChallenge` one
challenge with names over the whole retention under changes of the network, or two
without names and a backup that is restored (`restoring`); in `MCDevicePush` a
device that is pushed to, one that is moved between addresses, or two that are
added and renamed while the process dies (`scene`). A scene only removes steps,
so each is a set of behaviours of the component's own `Spec`, of which the theorems
speak.

**Bounds.** Two requests against one or two challenges are what it takes for a
retry, a foreign retry and a second grant; serial numbers one above the number of
challenges leave room for a certificate too many. The clock runs past the life
of a challenge and past its retention. One crash and one storage error
let an error, a restart and a repetition meet; `Capacity` is small enough to be
reached. For restores, two roots give every position of a loop over roots (first,
last, before and after the current one); two restores give a version to go back
to wrongly; two crashes interrupt a recovery that follows an interruption. For
the barrier, three connections are a handler, a maintainer and a newcomer, and
each carries any number of requests; two accounts let one administrator demote
the other. It needs no counters, so nothing else is bounded. Its liveness run
has no accounts and no authentication: roles only add ways to refuse.
For the store, four certificates are a root, an intermediate below it, one below
that or a leaf each, and a leaf to delete first; two requests that overlap are an
issue and a deletion, or two creations. For shared challenges, `Window` 1 and
`Retention` 3 allow a second certificate of an identity within the retention of the
first, so that pruning meets one that is fresh and not the newest; the third is one
after the retention; the life of a challenge is longer than both. Two challenges fill
the journal (`Capacity` 2), which `Prune` then meets; that a third one is refused
follows from the same test in `Create`, which the theorems cover. For devices, two
requests are a push and whatever meets it, two serials a pin and the next, one
change of what a port presents is one in the middle of an operation.
`CHECK_DEADLOCK FALSE` in the runs of `RestoreTx`, `CaStore`, `SharedChallenge` and
`DevicePush`: with the bounds reached the instance idles.

**Fairness.** In `ScepJournal` and `RestoreTx`, `WF(Step)`: a goroutine that holds the lock, or main, runs on.
`WF(Restart)`: a supervisor restarts the process (`compose.yaml`,
`restart: unless-stopped`). Nobody is obliged to call, nor storage to fail or
to recover except that errors are finitely many. In `OperationBarrier`,
`WF(RunsOn(r))`: a goroutine that waits for nothing but the exclusive side runs on
(the poll has a ticker and a deadline, the body is local file work), and
`WF(ShutsDown)`: main leaves its select when the channel is closed and its own
timeout passes. Handlers get no fairness at all, so what holds does so while
clients stall them. The other modules promise nothing that must happen: their
operations are an administrator's or a device's, and may all fail.

**What the code does otherwise than documented.** The README says the fsynced
journal commits an issuance before it is published. If the process dies after
the rename of `scep.json` and before the fsync of its directory, the next start
reads the renamed journal and publishes from it without an fsync in between. The
`fsync` run finds that history. A loss of power right after it would bring the
old journal back, with the certificate listed but its challenge unused. (In the
`power` run, which starts from losses of power alone, the property holds.)

A comment says that loadCA "reads a stored CA certificate", and the keyring is
described as the stored keys decrypted. CreateCA replaces the root's files
whenever it is called; it puts the new key into the keyring when that has a
passphrase, and otherwise leaves the old entry, which loadCA prefers. The `reroot`
run shows the keyring with a pair that is not the stored one.

The README says that the pin is updated to the certificate that a push installed,
if the switch presents it. An edit whose form was read before, and is saved after,
writes the whole record with the pin it read. The `push_pin` run shows a device
with an older pin than the one confirmed last. (It still is one that was confirmed:
`InventorySound` holds.)

**Seen while modelling, without a run.** Nothing documents these otherwise, so they
are not findings:

- A CA that is deleted while a request is signing with it leaves a record whose
  issuer is in the trash (ca.go:417-432, store.go:630). `NoOrphans` therefore holds
  of `CaStore` for one request after the other only.
- A death of the process between the files and the record of a CA or a
  certificate leaves files no record names, and a later backup is refused
  (backup_validate.go:557) until they are removed by hand. A deletion cut short
  after its files were moved leaves a record without files, and a backup is refused
  as well (backup_validate.go:473-475). For a certificate the deletion can be
  repeated; for a CA whose directory is already in the trash the repetition fails
  (store.go:709, `DirMissing`) and the record stays until it is put right by hand.
- A restore revokes unused single-use challenges, and leaves shared ones as they
  were in the backup (backup.go:319-323); backup_shared_test.go:13 expects that
  they survive, and BACKUP.md:91 that every unused challenge is revoked. A restored
  journal has forgotten what was issued since the backup, so `Limits` is stated for
  an instance that was never restored.
- A push that began before the device's address was edited pins what it saw
  at the old address, with that address (gnoi_admin.go:232), so the pin is not
  mistaken for one of the new address.
- When LoadCertificate is not answered in time the push is recorded as failed,
  although the switch may have taken the certificate (gnoi_push.go:218-219);
  a lost connection is verified instead.
- Two root CAs, or two first-run setups, at the same time both succeed.

## 4. What is proved

For any constants that satisfy the assumptions named in the modules: any number
of challenges, requests and CAs, of roots and restores, any number of errors and
crashes.

- **ScepJournalProofs.** `IInv` is inductive. Its heart is `Accounts(j)`: the
  entry of a challenge names the one certificate that was issued for it, a
  published one is on record, a deleted one is not pending. It has to hold of
  the journal and of the operation's copy `st`, because the copy becomes the
  journal at a rename; `Progress` says how the two relate at each program
  counter (during recovery they differ in Published marks only; before a
  commit the copy keeps what is pending; when files move to the trash nothing is
  pending). `SingleUse`, `RetryBinding`, `NoResurrection`, `DeliveredOnRecord`,
  `Recoverable`, `PendingKept`, `ListedAfterCommit` and the refinement
  `ImplementsLedger` follow.
- **ScepRecoveryProofs.** Two invariants that rest on the first. `KInv` is what
  outlives the operation that brought it about: a challenge whose certificate was
  sent keeps it for as long as a retry may come (`Replies`, `Remembers`, in the
  journal and in the copy that replaces it), a deletion has taken what it is about
  to remove out of the journal before any file moves (`Removes`). `RetryAnswered`,
  `StartupCompletes` and `NoOrphans` follow, with storage errors and deaths of the
  process anywhere. `PInv` is about losses of power. A loss of power chooses one
  of the versions in `held`, so `Holds` says that each of them agrees with the
  inventory, the trash and the replies; between a rename and its fsync there are two,
  and they differ in no more than what has not been acted upon. `SingleUse`,
  `NoResurrection`, `DeliveredOnRecord` and `ListedIsDurable` follow under `PowerSpec`.
  These theorems assume `MaxFaults = 0`, storage that does not fail otherwise: after an
  fsync that failed two versions stay held while the code goes on with the newer
  one. The run `power` has the same scope.
- **RestoreTxProofs.** `IInv` is inductive. Its heart is that everything a loss
  of power may leave (`held`) recovers to one and the same version: the one
  served before until the commit is durable (`Uncommitted`), the uploaded one
  after it (`Committed`); between the rename and the fsync of the commit either.
  `Layout` says where the disk stands at each step of the two loops (`Swapped`,
  `Aside`, `RolledBack`). Lemma `Keeps` is the argument used for most steps: a
  step after which the disk recovers to the version it would have recovered to
  before keeps the invariant. `AlwaysRecoverable`, `ServedWhole`,
  `ServesWhatItLoaded`, `NothingPending` and `ServedForward` follow.

- **OperationBarrierProofs.** `IInv` is inductive. `Ownership` ties each lock
  to the steps at which a request holds it, `OneSide` is the RWMutex. From these,
  lemma `Alone`: whoever is at an exclusive step is alone, so that what it checks
  (`stopped`, the role) and what it copies cannot change under it.
  `OnlyHalfwayDiffers` says that data is whole but for what handlers are writing,
  `Copied` the same of the snapshot. `Exclusion`, `SnapshotIsWhole`,
  `MaintainedByAdmin`, `StoppedServesNothing` and `NothingLeftBehind` follow,
  for any number of connections and accounts, with and without authentication.
- **CaStoreProofs.** `IInv` is inductive. `NothingLost` alone is not: a
  deletion in progress is what could break it, so `Removal` says what it has moved
  and what it still has to, `Owners` that there is only one, and `Written` and
  `Savers` that a certificate gets its record only with its files in place and is
  nobody else's. `NothingLost` and `UnlistedIsAway` follow, for any number of
  requests, certificates, errors and crashes, roots excepted: a new root overwrites
  the files of the one before. `KInv` adds whose keys they are: what is stored or
  unlocked under an ID was made for it (`Attributed`), and a CA in the trash is
  nowhere else (`TrashedCAs`). `TrashedSignsNothing` follows. For a push, which asks for
  the chain and not for the CA, that needs the chain: `Walk` is a recursive
  function, and lemma `Climbs` shows by a least counterexample that such a function
  exists for every state, so that its first step is the CA itself (`ChainIsValid`).
- **CaRestProofs.** What `SceneSpec` promises where requests come one after the
  other and nothing fails, for any number of requests, certificates and
  deletions and any tree of intermediate CAs. `SInv` is inductive: it is `KInv` with
  `Orderly`, which says at every step of a creation or a deletion where each file, record,
  key and passphrase is (`Places`, `Removals`, `Bins`, `Opened`), and that from
  every listed CA the records lead to the root in no more steps than there are
  records (`Issuers`). That `caSubtree` finds every descendant rests on the last: a
  child of a CA that is removed is one step further from it (`SubtreeIsClosed`), and
  what stays listed still reaches the root without passing through what goes
  (`ChainsStay`). `AtRest` follows. The theorems assume at most one root
  (`MaxRoots <= 1`): `AtRest` is false of two, as the run `reroot` shows; and a finite set
  of requests, which `Within` counts. Where requests overlap or a write fails `AtRest`
  does not hold: a certificate that is signed while its CA is deleted is listed
  without its issuer.
- **SharedChallengeProofs.** As long as nothing is restored `IInv` is an invariant.
  Its heart is `Remembered`: what is within the retention is in the journal of its
  challenge, whatever was pruned, and a challenge that is gone does not come back
  (`InOrder`). The rate window looks at nothing else, since `Window <= Retention`.
  `RateWindow` and `OnePerRequest` (together `Limits`), `DeliveredOnRecord` and
  `NoResurrection` follow. So does the refinement `ImplementsLedger`: lemma
  `GrantIsDue` says that what was pruned could not have refused a request, and every
  other operation only lists what is pending and sends what is listed (`Publishes`). A restored backup has forgotten what was issued since, so
  the condition is needed. The second part holds however often one is restored: the
  invariant `Restorable` says the same (`Sound`) of the files in place and of those
  in the backup, so a restore replaces one sound journal by another: what is
  published is on record, and what is pending is the newest issuance of its
  challenge. The last is why pruning spares it (`PrunedKeepsPending`: the
  newest of an identity is kept, whatever its age). `PublishedIsAccounted`,
  `PendingKept` and `StaysWithSource` follow.
- **DevicePushProofs.** `IInv` is inductive. The properties compare what a request
  does with what it learned several steps ago, so the invariant says what of that
  still holds: the copy of the device has a confirmed pin (`WorksConfirmed`); a
  switch has and presents only certificates it took (`Taken`); the certificate of a
  push is on record or was deleted, is its own, and was not sent before it is
  loaded (`Numbered`, `Owned`); and who is about to remove a certificate is not
  connected to it (`Apart`), which survives a push to the same name because that
  brings a certificate nobody presents yet. `InventorySound`, `CredentialsKept`,
  `RecordsTellTheTruth`, `DeletedStaysDeleted` and `ServedIsSpared` follow, for any
  number of devices, switches, requests, changes of the switches and crashes.

Model-checked only: liveness (`CrashRecovers`, `ServesAgain`,
`NobodyWaitsForHandlers`, `StopEnds`), since ENABLED and fairness are out of the
prover's reach. Every invariant and every other action property that a passing run
checks is also the statement of a theorem.

## 5. Not modelled

- **Templates, definitions, policy** (`certtemplates.go`, `definition_*.go`,
  `profile_policy.go`). String processing: expansion of placeholders and checks of
  names and addresses, which keep no state. As a model it would be the same code
  again, character by character. The files behind it are read, changed and written
  under one lock.
- **SCEP messages** (`scep_asn1.go`, `pkcs7.go`, most of `scep_protocol.go`).
  Whether a message parses and its signature is right decides whether it reaches
  `enroll`; the models take every request as one that does, and leave every
  refusal possible.
- **The archive** (`backup.go`, `backup_validate.go`). Its format, encryption and
  the checks of single files are sequential parsing of one input. What validation
  asks of the relation between certificates, CAs and the trash is
  `CaStore!Snapshot`; of the shared journal, `PublishedIsAccounted`; that the copy
  is of one moment, `SnapshotIsWhole`.
- **Sessions and passwords** (`auth.go`). Signed cookies without state on the
  server, and cryptography. Accounts are modelled as far as they decide who may
  maintain. `users.json` is rewritten in place and read without a lock; a reader
  that meets that refuses its request.
- **The external secrets directory**. Written file by file after the commit of a
  restore, with a warning when that fails (backup_http.go:317).
- **Pages, tools, flashes, HTTPS identity, log, deployment.** Request plumbing and
  file input and output, on which nothing else depends.
