------------------------------ MODULE CaStore ------------------------------
(***************************************************************************)
(* The CAs, the certificates and their files (store.go, ca.go,             *)
(* ca_unlock.go) while requests create, issue, sign, push and delete.      *)
(*                                                                         *)
(* A CA is a directory cas/<id> with a certificate and a key, perhaps a    *)
(* passphrase file and an entry of the keyring in memory; a leaf is one or *)
(* two files in certs/.  Each has a record in index.json.  They are        *)
(* written one after the other: only a record is added, and a deletion     *)
(* run, under Store.mu.  An operation may fail at any write and the        *)
(* process may die between any two.                                        *)
(*                                                                         *)
(* A certificate is its serial number, and a key pair the serial number of *)
(* the CA certificate that was made with it.                               *)
(***************************************************************************)
EXTENDS Naturals, Sequences, FiniteSets

CONSTANTS
  Requests,            \* requests in handlers at the same time
  MaxSerial,           \* bound: certificates that are made
  MaxRoots,            \* bound: times that a root CA is made
  MaxTrash,            \* bound: deletions that are begun
  MaxFaults, MaxCrashes,  \* bounds
  Root, None           \* the CA ID "root", nothing

Serials == 0 .. MaxSerial      \* random in the code, so never twice the same
CaIds == {Root} \cup Serials   \* an intermediate CA is named by its serial

ASSUME Bounds ==
  /\ MaxSerial \in Nat /\ MaxRoots \in Nat /\ MaxTrash \in Nat
  /\ MaxFaults \in Nat /\ MaxCrashes \in Nat
ASSUME Markers == None \notin Nat /\ Root \notin Nat /\ Root # None /\ None \notin Requests

VARIABLES
  minted,    \* the certificates made so far, as their DER and record say
  index,     \* index.json: the serials listed
  cas,       \* cas/<id>: cert.pem and key.pem
  pems, keys,  \* certs/<serial>-cert.pem and -key.pem
  secrets,   \* the passphrase files, by the key that they open
  keyring,   \* Store.unlocked
  trash,     \* trash/<timestamp>, oldest first
  mu,        \* the request that holds Store.mu beyond one step
  pc, job,   \* where each request is, and with what
  recorded,  \* history: every serial that was ever listed
  faults, crashes

files == <<index, cas, pems, keys, secrets, trash>>
vars == <<minted, files, keyring, mu, pc, job, recorded, faults, crashes>>

Pair == [cert : Serials \cup {None}, key : Serials \cup {None}]
Nothing == [cert |-> None, key |-> None]

Certificate == [kind : {"root", "intermediate", "issued", "csr"},
                issuer : CaIds \cup {None},   \* CertRecord.IssuerID
                by : Serials \cup {None},     \* the key that signed it, None for its own
                enc : BOOLEAN]                \* CertRecord.KeyEnc
ASSUME NoCertificate == None \notin Certificate

Files == {"dir", "pem", "key", "secret"} \X Serials
Bin == [removed : SUBSET Serials, files : SUBSET Files]   \* its index.json, the rest
Job == [draft : Certificate \cup {None},       \* the template it has a key for
        serial : Serials \cup {None},         \* the certificate it has made
        todo : SUBSET Files]                  \* what trash has still to move

TypeOK ==
  /\ minted \in [Serials -> Certificate \cup {None}]
  /\ index \in SUBSET Serials /\ recorded \in SUBSET Serials
  /\ cas \in [CaIds -> Pair] /\ keyring \in [CaIds -> Pair]
  /\ pems \in SUBSET Serials /\ keys \in SUBSET Serials
  /\ secrets \in [CaIds -> Serials \cup {None}]
  /\ trash \in Seq(Bin)
  /\ mu \in Requests \cup {None}
  /\ pc \in [Requests -> {"idle", "signing", "key", "secret", "unlock", "record",
                          "trash", "drop"}]
  /\ job \in [Requests -> Job]
  /\ faults \in 0 .. MaxFaults /\ crashes \in 0 .. MaxCrashes

----------------------------------------------------------------------------
Made == {s \in Serials : minted[s] # None}
IsCA(s) == minted[s].kind \in {"root", "intermediate"}
HasKey(s) == minted[s].kind # "csr"
CaId(s) == IF minted[s].kind = "root" THEN Root ELSE s
\* The files of a certificate, and whether they are where they belong.
FilesOf(s) == IF IsCA(s) THEN {<<"dir", s>>}
              ELSE {<<"pem", s>>} \cup (IF HasKey(s) THEN {<<"key", s>>} ELSE {})
Stored(f) == CASE f[1] = "dir" -> cas[CaId(f[2])] = [cert |-> f[2], key |-> f[2]]
               [] f[1] = "pem" -> f[2] \in pems
               [] f[1] = "key" -> f[2] \in keys
               [] f[1] = "secret" -> secrets[CaId(f[2])] = f[2]
Present(s) == \A f \in FilesOf(s) : Stored(f)

\* The CAs that have a record.
ListedCAs == {CaId(s) : s \in {i \in index : IsCA(i)}}
ValidCAID(id) == cas[id].cert # None

\* The CA n steps up from id, along the records; None where there is no record.
Walk(id) ==
  LET up[n \in 0 .. MaxSerial + 1] ==
        IF n = 0 THEN id
        ELSE IF up[n - 1] \in index /\ minted[up[n - 1]].kind = "intermediate"
             THEN minted[up[n - 1]].issuer ELSE None
  IN up

\* Mutant of HasChain: the push does not fetch the chain before it signs.
HasNoChain(id) == TRUE
\* IssuerChainPEM succeeds: every CA up to the root has its files and its record.
HasChain(id) ==
  \E n \in 0 .. MaxSerial + 1 :
    /\ Walk(id)[n] = Root
    /\ \A m \in 0 .. n : ValidCAID(Walk(id)[m])

\* normalizeIssuer: an ID that names no CA means the root.
Normalized(id) == IF ValidCAID(id) THEN id ELSE Root

\* The listed CAs at and below the intermediate CA id, and all that they signed.
\* Mutant of Subtree: the loop over the children is left out.
SubtreeOneLevel(id) ==
  {id} \cup {s \in index : ~ IsCA(s) /\ minted[s].issuer = id}
Subtree(id) ==
  LET below == {s \in index : /\ minted[s].kind = "intermediate"
                              /\ \E n \in 0 .. MaxSerial + 1 : Walk(s)[n] = id}
  IN below \cup {s \in index : ~ IsCA(s) /\ minted[s].issuer \in below}

\* What signs for id: the unlocked pair, or the files if the passphrase is given
\* or not needed.  CreateCertificate refuses a key that is not the certificate's.
Loadable(id) == {p \in {keyring[id], cas[id]} : p.cert # None /\ p.cert = p.key}

Idle == [draft |-> None, serial |-> None, todo |-> {}]

Init ==
  /\ minted = [s \in Serials |-> None]
  /\ index = {} /\ recorded = {}
  /\ cas = [id \in CaIds |-> Nothing] /\ keyring = [id \in CaIds |-> Nothing]
  /\ pems = {} /\ keys = {} /\ trash = <<>>
  /\ secrets = [id \in CaIds |-> None]
  /\ mu = None
  /\ pc = [r \in Requests |-> "idle"]
  /\ job = [r \in Requests |-> Idle]
  /\ faults = 0 /\ crashes = 0

Goto(r, at) == pc' = [pc EXCEPT ![r] = at]
Serial(r) == job[r].serial
Reply(r) == Goto(r, "idle") /\ job' = [job EXCEPT ![r] = Idle]

----------------------------------------------------------------------------
(* Making a certificate.                                                   *)

Draft(r, kind, issuer, by, enc) ==
  /\ pc[r] = "idle" /\ Made # Serials
  /\ Goto(r, "signing")
  /\ job' = [job EXCEPT ![r].draft =
               [kind |-> kind, issuer |-> issuer, by |-> by, enc |-> enc]]
  /\ UNCHANGED <<minted, files, keyring, mu, recorded, faults, crashes>>

\* CreateCA does not ask whether there is a root already.
CreateRoot(r, enc) ==
  /\ Cardinality({s \in Made : minted[s].kind = "root"}) < MaxRoots
  /\ Draft(r, "root", None, None, enc)

CreateIntermediate(r, id, enc) ==
  LET parent == Normalized(id)
  IN \E p \in Loadable(parent) : Draft(r, "intermediate", parent, p.cert, enc)

\* IssueCert and SignCSR.  (A CA that is deleted between the two reads leaves
\* either the key that was there before, or an error.)
Issue(r, issuer, kind) ==
  /\ ValidCAID(issuer)
  /\ \E p \in Loadable(issuer) : Draft(r, kind, issuer, p.cert, FALSE)

\* gnoiPush loads the key and the chain, and then talks to the device before it
\* signs the CSR that the device sends.
Push(r, issuer) ==
  /\ mu = None /\ HasChain(issuer)
  /\ \E p \in Loadable(issuer) : Draft(r, "csr", issuer, p.cert, FALSE)

Fresh == CHOOSE s \in Serials : s \notin Made      \* randSerial

\* The certificate is signed, and the first of its files written.
Sign(r) ==
  /\ pc[r] = "signing" /\ Made # Serials
  /\ LET s == Fresh
         c == job[r].draft
         id == IF c.kind = "root" THEN Root ELSE s
     IN /\ minted' = [minted EXCEPT ![s] = c]
        /\ job' = [job EXCEPT ![r] = [Idle EXCEPT !.serial = s]]
        /\ IF c.kind \in {"root", "intermediate"}
           THEN cas' = [cas EXCEPT ![id].cert = s] /\ UNCHANGED pems
           ELSE pems' = pems \cup {s} /\ UNCHANGED cas
        /\ Goto(r, IF c.kind = "csr" THEN "record" ELSE "key")
  /\ UNCHANGED <<index, keys, secrets, trash, keyring, mu, recorded, faults, crashes>>

\* The second file of SaveCA and SaveCert.
SaveKey(r) ==
  /\ pc[r] = "key"
  /\ IF IsCA(Serial(r))
     THEN cas' = [cas EXCEPT ![CaId(Serial(r))].key = Serial(r)] /\ UNCHANGED keys
     ELSE keys' = keys \cup {Serial(r)} /\ UNCHANGED cas
  /\ Goto(r, IF minted[Serial(r)].enc THEN "secret" ELSE "record")
  /\ UNCHANGED <<minted, index, pems, secrets, trash, keyring, mu, job, recorded, faults, crashes>>

\* keepUnlocked; that the passphrase cannot be saved is only logged.
SavePassphrase(r) ==
  /\ pc[r] = "secret"
  /\ \/ secrets' = [secrets EXCEPT ![CaId(Serial(r))] = Serial(r)] /\ UNCHANGED faults
     \/ faults < MaxFaults /\ faults' = faults + 1 /\ UNCHANGED secrets
  /\ Goto(r, "unlock")
  /\ UNCHANGED <<minted, index, cas, pems, keys, trash, keyring, mu, job, recorded, crashes>>

KeepUnlocked(r) ==
  /\ pc[r] = "unlock"
  /\ keyring' = [keyring EXCEPT ![CaId(Serial(r))] = [cert |-> Serial(r), key |-> Serial(r)]]
  /\ Goto(r, "record")
  /\ UNCHANGED <<minted, files, mu, job, recorded, faults, crashes>>

\* AddRecord; the record of a root replaces that of the one before.
AddRecord(r) ==
  /\ pc[r] = "record" /\ mu = None
  /\ index' = {Serial(r)} \cup
       {s \in index : minted[s].kind = "root" => minted[Serial(r)].kind # "root"}
  /\ recorded' = recorded \cup {Serial(r)}
  /\ Reply(r)
  /\ UNCHANGED <<minted, cas, pems, keys, secrets, trash, keyring, mu, faults, crashes>>

----------------------------------------------------------------------------
(* Deleting, under scepMu and mu from beginning to end.                    *)

\* What trash has to move.
Contents(removed) ==
  {f \in Files : /\ f[2] \in removed
                 /\ f \in FilesOf(f[2]) \/ (f[1] = "secret" /\ IsCA(f[2]))}

\* trash first writes what it is going to remove.
Trash(r, removed) ==
  /\ pc[r] = "idle" /\ mu = None /\ Len(trash) < MaxTrash
  /\ mu' = r
  /\ trash' = Append(trash, [removed |-> removed, files |-> {}])
  /\ job' = [job EXCEPT ![r].todo = Contents(removed)]
  /\ Goto(r, "trash")
  /\ UNCHANGED <<minted, index, cas, pems, keys, secrets, keyring, recorded, faults, crashes>>

\* caSubtree refuses the root, and a CA that has no record.
DeleteCA(r, id) ==
  /\ ValidCAID(id) /\ id # Root /\ id \in ListedCAs
  /\ Trash(r, Subtree(id))

DeleteCert(r, s) == s \in index /\ ~ IsCA(s) /\ Trash(r, {s})

\* The order of the loops: the CAs, each leaf with its key, the passphrases.
Due(r, f) ==
  /\ pc[r] = "trash" /\ f \in job[r].todo
  /\ \A g \in job[r].todo :
       /\ g[1] = "dir" => f[1] = "dir"
       /\ f[1] = "secret" => g[1] = "secret"
       /\ f[1] = "key" => g # <<"pem", f[2]>>

\* Mutant of Move: what is deleted is erased.
Erase(r, f) ==
  /\ Due(r, f) /\ job' = [job EXCEPT ![r].todo = @ \ {f}]
  /\ cas' = IF f[1] = "dir" THEN [cas EXCEPT ![f[2]] = Nothing] ELSE cas
  /\ pems' = IF f[1] = "pem" THEN pems \ {f[2]} ELSE pems
  /\ keys' = IF f[1] = "key" THEN keys \ {f[2]} ELSE keys
  /\ UNCHANGED <<minted, index, secrets, trash, keyring, mu, pc, recorded, faults, crashes>>
\* One rename.  A leaf's file that is missing is passed over, and so is a
\* passphrase file, missing or not (that it stays behind is only logged).
Move(r, f) ==
  /\ Due(r, f)
  /\ f[1] = "dir" => Stored(f)
  /\ \/ UNCHANGED faults
     \/ f[1] = "secret" /\ faults < MaxFaults /\ faults' = faults + 1
  /\ job' = [job EXCEPT ![r].todo = @ \ {f}]
  /\ IF Stored(f) /\ faults' = faults
     THEN /\ trash' = [trash EXCEPT ![Len(trash)].files = @ \cup {f}]
          /\ cas' = IF f[1] = "dir" THEN [cas EXCEPT ![f[2]] = Nothing] ELSE cas
          /\ pems' = IF f[1] = "pem" THEN pems \ {f[2]} ELSE pems
          /\ keys' = IF f[1] = "key" THEN keys \ {f[2]} ELSE keys
          /\ secrets' = IF f[1] = "secret" THEN [secrets EXCEPT ![f[2]] = None] ELSE secrets
     ELSE UNCHANGED <<trash, cas, pems, keys, secrets>>
  /\ UNCHANGED <<minted, index, keyring, mu, pc, recorded, crashes>>

Fails(r) == Reply(r) /\ mu' = IF mu = r THEN None ELSE mu

\* A directory that is missing, after a deletion that was cut short, ends this
\* one too.
DirMissing(r, f) ==
  /\ Due(r, f) /\ f[1] = "dir" /\ ~ Stored(f)
  /\ Fails(r)
  /\ UNCHANGED <<minted, files, keyring, recorded, faults, crashes>>

Unlisted == index \ trash[Len(trash)].removed

\* Mutant of Unlist: the index is saved while files are still to be moved.
UnlistEarly(r) ==
  /\ pc[r] = "trash"
  /\ index' = Unlisted
  /\ Goto(r, "drop")
  /\ UNCHANGED <<minted, cas, pems, keys, secrets, trash, keyring, mu, job, recorded,
                 faults, crashes>>
\* trash saves the index last.
Unlist(r) ==
  /\ pc[r] = "trash" /\ job[r].todo = {}
  /\ index' = Unlisted
  /\ Goto(r, "drop")
  /\ UNCHANGED <<minted, cas, pems, keys, secrets, trash, keyring, mu, job, recorded,
                 faults, crashes>>

\* DeleteCA forgets the keys last.
Drop(r) ==
  /\ pc[r] = "drop"
  /\ keyring' = [id \in CaIds |-> IF id \in trash[Len(trash)].removed THEN Nothing
                                  ELSE keyring[id]]
  /\ Reply(r) /\ mu' = None
  /\ UNCHANGED <<minted, files, recorded, faults, crashes>>

----------------------------------------------------------------------------
(* What goes wrong.                                                        *)

\* A write or a rename fails and the operation ends; the index may have been
\* renamed into place already (durableWrite).
StorageError(r) ==
  /\ pc[r] \in {"signing", "key", "record", "trash"} /\ faults < MaxFaults
  /\ pc[r] = "record" => mu = None
  /\ faults' = faults + 1
  /\ \/ UNCHANGED index
     \/ pc[r] = "trash" /\ job[r].todo = {} /\ index' = Unlisted
  /\ Fails(r)
  /\ UNCHANGED <<minted, cas, pems, keys, secrets, trash, keyring, recorded, crashes>>

\* Any request may end before it has written anything: a policy, a device.
GiveUp(r) ==
  /\ pc[r] = "signing"
  /\ Reply(r)
  /\ UNCHANGED <<minted, files, keyring, mu, recorded, faults, crashes>>

\* unlockSecrets: the listed CAs whose passphrase file opens their key.
Unlocked ==
  [id \in CaIds |->
     IF /\ id \in ListedCAs /\ cas[id].cert # None
        /\ cas[id].key # None /\ minted[cas[id].key].enc
        /\ secrets[id] = cas[id].key
     THEN cas[id] ELSE Nothing]

\* The process dies, and starts again.
Restart ==
  /\ crashes < MaxCrashes /\ crashes' = crashes + 1
  /\ mu' = None
  /\ pc' = [r \in Requests |-> "idle"] /\ job' = [r \in Requests |-> Idle]
  /\ keyring' = Unlocked
  /\ UNCHANGED <<minted, files, recorded, faults>>

----------------------------------------------------------------------------
Create(r) ==
  \E enc \in BOOLEAN :
    CreateRoot(r, enc) \/ \E id \in CaIds : CreateIntermediate(r, id, enc)

Certify(r) ==
  \E id \in CaIds : Push(r, id) \/ \E kind \in {"issued", "csr"} : Issue(r, id, kind)

Delete(r) == \E s \in Serials : DeleteCA(r, s) \/ DeleteCert(r, s)

Save(r) == Sign(r) \/ SaveKey(r) \/ SavePassphrase(r) \/ KeepUnlocked(r) \/ AddRecord(r)

Discard(r) == (\E f \in Files : Move(r, f) \/ DirMissing(r, f)) \/ Unlist(r) \/ Drop(r)

Next ==
  \/ \E r \in Requests :
       Create(r) \/ Certify(r) \/ Delete(r) \/ Save(r) \/ Discard(r) \/ GiveUp(r) \/ StorageError(r)
  \/ Restart

Spec == Init /\ [][Next]_vars

----------------------------------------------------------------------------
Quiet == \A r \in Requests : pc[r] = "idle"
InTrash(f) == \E i \in DOMAIN trash : f \in trash[i].files /\ f[2] \in trash[i].removed
Leaves(S) == {s \in S : minted[s].kind # "root"}

\* "Nothing is erased: files move to <data>/trash/<timestamp>/ with an index.json
\* of the removed records" (README.md:24-26, Store.trash): whatever is interrupted
\* or fails, each file of a certificate that was ever listed is in its place or in
\* a trash entry that names it.
NothingLost == \A s \in Leaves(recorded) : \A f \in FilesOf(s) : Stored(f) \/ InTrash(f)

\* A record is dropped after its files have left (Store.trash saves the index
\* last): no file is left behind that the index does not know.
UnlistedIsAway == \A s \in Leaves(recorded) \ index : \A f \in FilesOf(s) : ~ Stored(f)

\* What holds between the steps; CaStoreProofs shows that it is inductive.
\* Who is deleting holds mu, and what is listed was listed.
Owners == \A r \in Requests : mu = r <=> pc[r] \in {"trash", "drop"}
Accounts == index \subseteq recorded /\ recorded \subseteq Made
\* A certificate that is being saved belongs to one request, and has the files that
\* were written so far.
Saving == {"key", "secret", "unlock", "record"}
Savers ==
  \A r \in Requests :
    /\ pc[r] = "signing" => job[r].draft \in Certificate
    /\ pc[r] \in Saving =>
         /\ Serial(r) \in Made \ recorded
         /\ \A q \in Requests \ {r} : pc[q] \in Saving => Serial(q) # Serial(r)
    /\ pc[r] = "key" => HasKey(Serial(r))
Written ==
  \A r \in Requests :
    /\ pc[r] = "key" /\ minted[Serial(r)].kind # "root" =>
         IF IsCA(Serial(r)) THEN cas[Serial(r)].cert = Serial(r) ELSE Serial(r) \in pems
    /\ pc[r] \in Saving \ {"key"} /\ minted[Serial(r)].kind # "root" =>
         Present(Serial(r))
\* A deletion has moved all of what it removes that it is not going to move.
Removal ==
  mu # None =>
    /\ trash # <<>>
    /\ pc[mu] = "trash" =>
         LET removed == trash[Len(trash)].removed
         IN /\ removed \subseteq Leaves(index)
            /\ \A f \in job[mu].todo : f[2] \in removed /\ (f[1] = "dir" => IsCA(f[2]))
            /\ \A s \in removed : \A f \in FilesOf(s) : f \in job[mu].todo \/ ~ Stored(f)
IInv == TypeOK /\ Owners /\ Accounts /\ Savers /\ Written /\ Removal /\ NothingLost /\ UnlistedIsAway

\* Whose keys they are: what is stored or unlocked under an ID was made for it, only
\* a CA is encrypted, and a CA in the trash was listed and is not in its place.
Attributed ==
  /\ \A id \in CaIds : \A p \in {cas[id], keyring[id]} :
       p.cert # None => p.cert \in Made /\ IsCA(p.cert) /\ CaId(p.cert) = id
  /\ \A s \in Made : minted[s].enc => IsCA(s)
  /\ \A r \in Requests :
       /\ pc[r] = "signing" /\ job[r].draft.enc =>
            job[r].draft.kind \in {"root", "intermediate"}
       /\ pc[r] \in {"secret", "unlock"} => IsCA(Serial(r))
TrashedCAs ==
  \A s \in Serials : InTrash(<<"dir", s>>) =>
    s \in recorded /\ minted[s].kind = "intermediate" /\ cas[s].cert = None
KInv == IInv /\ Attributed /\ TrashedCAs

\* "DeleteCA moves an intermediate CA, its descendant CAs and all certificates they
\* issued to the trash" (store.go:630-631): no record names an issuer that is gone.
NoOrphans ==
  \A s \in index : minted[s].kind = "root" \/ minted[s].issuer \in ListedCAs

\* What stays in memory is the stored pair: "unlockedCA is an encrypted CA whose key
\* is decrypted in memory" (ca_unlock.go:21, keepUnlocked, DeleteCA's drop).
KeyringIsStored ==
  Quiet => \A id \in CaIds : keyring[id] \in {Nothing, cas[id]}

\* "Deleting a CA moves its passphrase file to the trash with its key files"
\* (README.md:135): while nothing fails none is left that opens a deleted CA.
SecretsTravel ==
  Quiet => \A s \in Made : InTrash(<<"dir", s>>) => secrets[s] = None

\* A snapshot that is taken now passes validateBackup, as far as it is about the
\* certificates, unless snapshotBackup fails, and it does not look at what the files
\* are: "Unknown files inside logical directories cause backup to fail rather than
\* silently omit potentially important data" (BACKUP.md:41-42).
HistoryCAs(id) ==
  {s \in index \cup UNION {trash[i].removed : i \in DOMAIN trash} : IsCA(s) /\ CaId(s) = id}
Snapshot ==
  /\ \A s \in index : Present(s)
  /\ \A s, t \in index : IsCA(s) /\ IsCA(t) /\ CaId(s) = CaId(t) => s = t
  /\ \A id \in CaIds : cas[id] # Nothing => id \in ListedCAs
  /\ pems \cup keys \subseteq index
  /\ \A s \in index : minted[s].kind # "root" =>
       \E ca \in index : /\ IsCA(ca) /\ CaId(ca) = minted[s].issuer /\ ca = minted[s].by
                         /\ \E n \in 0 .. MaxSerial + 1 : Walk(CaId(ca))[n] = Root
  /\ \A i \in DOMAIN trash :
       /\ trash[i].removed # {} /\ \A s \in trash[i].removed : FilesOf(s) \subseteq trash[i].files
       /\ \A s \in trash[i].removed :
            LET issuers == HistoryCAs(minted[s].issuer)
            IN issuers # {} => minted[s].by \in issuers
SnapshotsRestore == Quiet => Snapshot

\* A request that begins after the directory of a CA was moved never signs with
\* its key: not from the keyring, which the deletion clears last, nor through the
\* push, which does not ask ValidCAID (gnoi_push.go:125-129).
TrashedSignsNothing ==
  [][\A r \in Requests :
       pc[r] = "idle" /\ pc'[r] = "signing" => ~ InTrash(<<"dir", job'[r].draft.by>>)]_vars
=============================================================================
