----------------------------- MODULE MCCaStore -----------------------------
(* Instances of CaStore for TLC.                                           *)
EXTENDS CaStore, TLC

CONSTANTS r1, r2

OneRequest == {r1}
TwoRequests == {r1, r2}
Symmetry == Permutations(TwoRequests)

\* A behaviour of a scene: the requests come one after the other and nothing fails,
\* or two of them meet, on fewer certificates.
VARIABLE alone

Busy == {r \in Requests : pc[r] # "idle"}
Within ==
  IF alone THEN Cardinality(Busy') <= 1 /\ faults' = 0 /\ crashes' = 0
  ELSE /\ Cardinality(Made') <= MaxSerial /\ Len(trash') < MaxTrash
       /\ \A r \in Requests :
            pc[r] = "idle" /\ pc'[r] = "signing" => Cardinality(Made) < MaxSerial

SceneInit == Init /\ alone \in BOOLEAN
SceneNext == Next /\ Within /\ UNCHANGED alone
SceneSpec == SceneInit /\ [][SceneNext]_<<vars, alone>>

\* One after the other, a deletion takes the whole subtree (Store.DeleteCA), what it
\* leaves is restorable (snapshotBackup, validateBackup), no deleted CA stays unlocked
\* (DeleteCA's drop), and no passphrase file is left for a CA that is gone (trash).
AtRest == alone => NoOrphans /\ SnapshotsRestore /\ KeyringIsStored /\ SecretsTravel

\* What holds between the steps of requests that come one after the other, where no
\* more than one root is made; CaRestProofs shows that it is inductive.
Single == \A q, r \in Requests : pc[q] # "idle" /\ pc[r] # "idle" => q = r
OneRoot ==
  /\ \A s, t \in Made : minted[s].kind = "root" /\ minted[t].kind = "root" => s = t
  /\ \A r \in Requests : pc[r] = "signing" /\ job[r].draft.kind = "root" =>
       \A s \in Made : minted[s].kind # "root"

\* What is being saved; what is being deleted, and what of it is not moved yet.
Saved == {Serial(r) : r \in {q \in Requests : pc[q] \in Saving}}
Removing == IF mu = None THEN {} ELSE trash[Len(trash)].removed
Todo == IF mu = None THEN {} ELSE job[mu].todo
Gone(f) == f[2] \in Removing /\ f \notin Todo

\* A listed CA has signed it, and is the one that it names; from there the records
\* lead to the root, in fewer steps than there are records.
Signed(c) == c.kind # "root" => c.by \in index /\ IsCA(c.by) /\ CaId(c.by) = c.issuer
Issuers ==
  /\ \A s \in index \cup Saved : Signed(minted[s])
  /\ \A r \in Requests : pc[r] = "signing" => Signed(job[r].draft)
  /\ \A s \in index : minted[s].kind = "intermediate" =>
       \E k \in 0 .. Cardinality(recorded) : Walk(s)[k] = Root
\* A file is in its place as long as it is listed and not moved, and no longer.
Places ==
  /\ \A s \in index : \A f \in FilesOf(s) : Stored(f) \/ Gone(f)
  /\ \A id \in CaIds : cas[id] # Nothing =>
       cas[id].cert \in index \cup Saved /\ ~ Gone(<<"dir", cas[id].cert>>)
  /\ \A s \in pems : s \in index \cup Saved /\ ~ IsCA(s) /\ ~ Gone(<<"pem", s>>)
  /\ \A s \in keys : s \in index \cup Saved /\ ~ IsCA(s) /\ HasKey(s) /\ ~ Gone(<<"key", s>>)
  /\ \A r \in Requests :
       /\ pc[r] = "key" /\ IsCA(Serial(r)) =>
            /\ cas[CaId(Serial(r))] = [cert |-> Serial(r), key |-> None]
            /\ keyring[CaId(Serial(r))] = Nothing
       /\ pc[r] \in Saving \ {"key"} => Present(Serial(r))
\* A deletion takes all that the CAs it removes have signed.
Removals ==
  /\ Todo \subseteq Contents(Removing)
  /\ \A s \in index : minted[s].kind # "root" /\ minted[s].by \in Removing => s \in Removing
  /\ \A r \in Requests : pc[r] = "drop" => Todo = {} /\ Removing \cap index = {}
\* What was deleted is in the trash, with its files.
Bins ==
  /\ recorded \subseteq index \cup UNION {trash[i].removed : i \in DOMAIN trash}
  /\ \A i \in DOMAIN trash :
       /\ trash[i].removed # {} /\ trash[i].removed \subseteq Leaves(recorded)
       /\ \A s \in trash[i].removed :
            /\ minted[s].by \in recorded /\ IsCA(minted[s].by)
            /\ CaId(minted[s].by) = minted[s].issuer
            /\ FilesOf(s) \subseteq trash[i].files \cup (IF i = Len(trash) THEN Todo ELSE {})
\* The keyring and the passphrase files go with their CAs.
Opened ==
  /\ \A id \in CaIds : keyring[id] \in {Nothing, cas[id]} \/ id \in Removing
  /\ \A id \in CaIds : secrets[id] # None =>
       secrets[id] \in Made /\ IsCA(secrets[id]) /\ CaId(secrets[id]) = id
  /\ \A s \in Serials : InTrash(<<"dir", s>>) =>
       secrets[s] = None \/ <<"secret", s>> \in Todo
  /\ \A s \in Removing : <<"dir", s>> \in Todo => <<"secret", s>> \in Todo
Orderly == Single /\ OneRoot /\ Issuers /\ Places /\ Removals /\ Bins /\ Opened

SInv == KInv /\ (alone => Orderly)
=============================================================================
