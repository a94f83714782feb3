--------------------------- MODULE CaStoreProofs ---------------------------
(***************************************************************************)
(* Theorems about CaStore, for any number of requests, certificates,       *)
(* deletions, failing writes and deaths of the process: the files of what  *)
(* was ever listed are never lost, and a CA in the trash signs nothing.    *)
(***************************************************************************)
EXTENDS CaStore, TLAPS, WellFoundedInduction

LEMMA InitIInv ==
  ASSUME Init PROVE IInv
BY Markers, Bounds DEF Init, IInv, TypeOK, Owners, Accounts, Savers, Written, Removal, NothingLost,
  UnlistedIsAway, Leaves, Made, Idle, Nothing, Pair, Job, Saving, files

\* Nothing moves: the files, their certificates and the accounts of them stay.
LEMMA FilesStay ==
  ASSUME IInv, UNCHANGED <<minted, index, cas, pems, keys, secrets, trash, recorded>>
  PROVE  /\ NothingLost' /\ UnlistedIsAway' /\ Accounts'
         /\ \A s : Present(s)' <=> Present(s)
         /\ \A s : FilesOf(s)' = FilesOf(s)
         /\ Made' = Made
<1>1. Made' = Made
  BY DEF Made
<1>2. \A f : Stored(f)' <=> Stored(f)
  BY DEF Stored, CaId
<1>3. \A s : FilesOf(s)' = FilesOf(s)
  BY DEF FilesOf, IsCA, HasKey
<1>4. \A f : InTrash(f)' <=> InTrash(f)
  BY DEF InTrash
<1>5. \A s : Present(s)' <=> Present(s)
  BY <1>2, <1>3 DEF Present
<1>6. Leaves(recorded)' = Leaves(recorded)
  BY DEF Leaves
<1>7. QED
  BY <1>1, <1>2, <1>3, <1>4, <1>5, <1>6 DEF IInv, NothingLost, UnlistedIsAway, Accounts

\* A request that only holds a key has written nothing yet.
LEMMA DraftKeeps ==
  ASSUME IInv, NEW r \in Requests, NEW kind \in {"root", "intermediate", "issued", "csr"},
         NEW issuer \in CaIds \cup {None}, NEW by \in Serials \cup {None}, NEW enc \in BOOLEAN,
         Draft(r, kind, issuer, by, enc)
  PROVE  IInv'
<1>1. NothingLost' /\ UnlistedIsAway' /\ Accounts' /\ \A s : Present(s)' <=> Present(s)
  BY FilesStay DEF Draft, files
<1>2. TypeOK'
  BY DEF IInv, TypeOK, Draft, files, Goto, Job, Certificate
<1>3. mu' = mu /\ pc' = [pc EXCEPT ![r] = "signing"] /\ pc[r] = "idle" /\ minted' = minted
  BY DEF Draft, files, Goto
<1>4. /\ \A q \in Requests \ {r} : job'[q] = job[q]
      /\ job'[r].draft \in Certificate /\ job'[r].serial = job[r].serial
  BY DEF IInv, TypeOK, Draft, Job, Certificate
<1>5. Owners'
  BY <1>3 DEF IInv, TypeOK, Owners
<1>6. Savers' /\ Written'
  BY <1>1, <1>3, <1>4 DEF IInv, TypeOK, Savers, Written, Saving, Serial, Made, HasKey, IsCA, Draft, files
<1>7. Removal'
  <2>1. mu # r
    BY <1>3 DEF IInv, Owners
  <2>2. \A f : Stored(f)' <=> Stored(f)
    BY DEF Draft, files, Stored, CaId
  <2>3. \A s : FilesOf(s)' = FilesOf(s)
    BY DEF Draft, files, FilesOf, IsCA, HasKey
  <2>4. mu # None => mu \in Requests /\ pc'[mu] = pc[mu] /\ job'[mu] = job[mu]
    BY <1>3, <1>4, <2>1 DEF IInv, TypeOK
  <2>5. QED
    BY <1>3, <2>2, <2>3, <2>4 DEF IInv, Removal, Leaves, IsCA, Draft, files
<1>8. QED
  BY <1>1, <1>2, <1>5, <1>6, <1>7 DEF IInv

LEMMA BeginKeeps ==
  ASSUME IInv, NEW r \in Requests, Create(r) \/ Certify(r)
  PROVE  IInv'
<1>1. \A id \in CaIds : Normalized(id) \in CaIds
  BY DEF Normalized, CaIds
<1>2. \A id \in CaIds : \A p \in Loadable(id) : p.cert \in Serials
  BY DEF IInv, TypeOK, Loadable, Pair
<1>3. ASSUME NEW enc \in BOOLEAN, CreateRoot(r, enc) PROVE IInv'
  BY <1>3, DraftKeeps DEF CreateRoot
<1>4. ASSUME NEW enc \in BOOLEAN, NEW id \in CaIds, CreateIntermediate(r, id, enc) PROVE IInv'
  BY <1>1, <1>2, <1>4, DraftKeeps DEF CreateIntermediate
<1>5. ASSUME NEW id \in CaIds, Push(r, id) PROVE IInv'
  BY <1>2, <1>5, DraftKeeps DEF Push
<1>6. ASSUME NEW id \in CaIds, NEW kind \in {"issued", "csr"}, Issue(r, id, kind) PROVE IInv'
  BY <1>2, <1>6, DraftKeeps DEF Issue
<1>7. QED
  BY <1>3, <1>4, <1>5, <1>6 DEF Create, Certify

\* A reply, and the locks of a request that fails.
LEMMA FailsKeeps ==
  ASSUME IInv, NEW r \in Requests, Fails(r), 
         UNCHANGED <<minted, index, cas, pems, keys, secrets, trash, recorded, keyring>>,
         faults' \in 0 .. MaxFaults, crashes' \in 0 .. MaxCrashes
  PROVE  IInv'
<1>1. NothingLost' /\ UnlistedIsAway' /\ Accounts' /\ \A s : Present(s)' <=> Present(s)
  BY FilesStay
<1>2. pc' = [pc EXCEPT ![r] = "idle"] /\ job' = [job EXCEPT ![r] = Idle]
      /\ mu' = IF mu = r THEN None ELSE mu
  BY DEF Fails, Reply, Goto
<1>3. TypeOK'
  BY <1>2, Markers DEF IInv, TypeOK, Job, Idle
<1>4. Owners'
  BY <1>2, Markers DEF IInv, TypeOK, Owners
<1>5. Savers' /\ Written'
  BY <1>1, <1>2 DEF IInv, TypeOK, Savers, Written, Saving, Serial, Made, HasKey, IsCA
<1>6. Removal'
  <2>1. \A f : Stored(f)' <=> Stored(f)
    BY DEF Stored, CaId
  <2>2. \A s : FilesOf(s)' = FilesOf(s)
    BY DEF FilesOf, IsCA, HasKey
  <2>3. mu' # None => mu' = mu /\ mu \in Requests /\ pc'[mu] = pc[mu] /\ job'[mu] = job[mu]
    BY <1>2 DEF IInv, TypeOK
  <2>4. QED
    BY <2>1, <2>2, <2>3 DEF IInv, Removal, Leaves, IsCA
<1>7. QED
  BY <1>1, <1>3, <1>4, <1>5, <1>6 DEF IInv

\* A step that leaves the files of t alone.
LEMMA Frame ==
  ASSUME NEW t \in Made, minted'[t] = minted[t], minted[t].kind # "root",
         cas'[t] = cas[t], t \in pems' <=> t \in pems, t \in keys' <=> t \in keys
  PROVE  /\ FilesOf(t)' = FilesOf(t) /\ IsCA(t)' = IsCA(t) /\ t \in Made'
         /\ \A f \in FilesOf(t) : Stored(f)' <=> Stored(f)
         /\ Present(t)' <=> Present(t)
<1>1. /\ FilesOf(t)' = FilesOf(t) /\ IsCA(t)' = IsCA(t) /\ t \in Made'
  BY DEF FilesOf, IsCA, HasKey, Made
<1>2. \A f \in FilesOf(t) : f \in {<<"dir", t>>, <<"pem", t>>, <<"key", t>>}
  BY DEF FilesOf
<1>3. \A f \in FilesOf(t) : Stored(f)' <=> Stored(f)
  <2> SUFFICES ASSUME NEW f \in FilesOf(t) PROVE Stored(f)' <=> Stored(f)
    OBVIOUS
  <2>1. f[2] = t /\ f[1] \in {"dir", "pem", "key"}
    BY <1>2
  <2>2. CASE f[1] = "dir"
    BY <2>1, <2>2 DEF Stored, CaId
  <2>3. CASE f[1] = "pem"
    BY <2>1, <2>3 DEF Stored
  <2>4. CASE f[1] = "key"
    BY <2>1, <2>4 DEF Stored
  <2>5. QED
    BY <2>1, <2>2, <2>3, <2>4
<1>4. QED
  BY <1>1, <1>3 DEF Present

\* What the parts of the invariant about a deletion need of a step that writes.
LEMMA RemovalStays ==
  ASSUME IInv, UNCHANGED <<index, trash>>,
         mu' = mu, mu # None => pc'[mu] = pc[mu] /\ job'[mu] = job[mu],
         \A t \in Leaves(index) : /\ FilesOf(t)' = FilesOf(t) /\ IsCA(t)' = IsCA(t)
                                  /\ minted'[t] = minted[t]
                                  /\ \A f \in FilesOf(t) : Stored(f)' <=> Stored(f)
  PROVE  Removal'
<1>1. Leaves(index) \subseteq Leaves(index)'
  BY DEF Leaves
<1>2. QED
  BY <1>1 DEF IInv, Removal

LEMMA AccountsStay ==
  ASSUME IInv, UNCHANGED <<index, trash, recorded>>, Made \subseteq Made',
         \A t \in Leaves(recorded)' : /\ t \in Leaves(recorded) /\ FilesOf(t)' = FilesOf(t)
                                  /\ \A f \in FilesOf(t) : Stored(f)' <=> Stored(f)
  PROVE  NothingLost' /\ UnlistedIsAway' /\ Accounts'
BY DEF IInv, NothingLost, UnlistedIsAway, Accounts, InTrash, Leaves

\* Signing makes a certificate that no one has, and writes its first file.
LEMMA SignKeeps ==
  ASSUME IInv, NEW r \in Requests, Sign(r)
  PROVE  IInv'
<1>0. PICK s \in Serials, c \in Certificate : s = Fresh /\ c = job[r].draft
  BY DEF IInv, Sign, Savers, Fresh, Made
<1> DEFINE id == IF c.kind = "root" THEN Root ELSE s
<1>1. s \in Serials /\ s \notin Made /\ s \notin recorded /\ s \notin index
  BY <1>0 DEF IInv, Sign, Fresh, Made, Accounts
<1>2. /\ c \in Certificate /\ c # None
      /\ minted' = [minted EXCEPT ![s] = c] /\ Made' = Made \cup {s}
  BY <1>0, <1>1, NoCertificate DEF IInv, TypeOK, Sign, Made
<1>3. /\ UNCHANGED <<index, keys, secrets, trash, keyring, mu, recorded, faults, crashes>>
      /\ job' = [job EXCEPT ![r] = [Idle EXCEPT !.serial = s]]
      /\ pc' = [pc EXCEPT ![r] = IF c.kind = "csr" THEN "record" ELSE "key"]
      /\ pc[r] = "signing"
  BY <1>0 DEF Sign, Goto
<1>4. IF c.kind \in {"root", "intermediate"}
      THEN cas' = [cas EXCEPT ![id].cert = s] /\ pems' = pems
      ELSE pems' = pems \cup {s} /\ cas' = cas
  BY <1>0 DEF Sign
<1>5. s \in CaIds /\ id \in CaIds /\ Root \notin Serials
  BY <1>1, Markers DEF CaIds, Serials
<1>6. TypeOK'
  <2>1. minted' \in [Serials -> Certificate \cup {None}]
    BY <1>1, <1>2 DEF IInv, TypeOK
  <2>2. cas' \in [CaIds -> Pair]
    BY <1>1, <1>4, <1>5 DEF IInv, TypeOK, Pair
  <2>3. pems' \in SUBSET Serials
    BY <1>1, <1>4 DEF IInv, TypeOK
  <2>4. [Idle EXCEPT !.serial = s] \in Job
    BY <1>1 DEF Idle, Job
  <2>5. QED
    BY <1>3, <2>1, <2>2, <2>3, <2>4 DEF IInv, TypeOK
<1>7. \A t \in Leaves(Made) :
        /\ FilesOf(t)' = FilesOf(t) /\ IsCA(t)' = IsCA(t) /\ minted'[t] = minted[t]
        /\ \A f \in FilesOf(t) : Stored(f)' <=> Stored(f)
        /\ Present(t)' <=> Present(t)
  <2> SUFFICES ASSUME NEW t \in Leaves(Made)
               PROVE  /\ FilesOf(t)' = FilesOf(t) /\ IsCA(t)' = IsCA(t) /\ minted'[t] = minted[t]
                      /\ \A f \in FilesOf(t) : Stored(f)' <=> Stored(f)
                      /\ Present(t)' <=> Present(t)
    OBVIOUS
  <2>1. t \in Made /\ t \in Serials /\ t # s /\ minted[t].kind # "root"
    BY <1>1 DEF Leaves, Made
  <2>2. minted'[t] = minted[t] /\ cas'[t] = cas[t]
    BY <1>1, <1>2, <1>4, <1>5, <2>1 DEF IInv, TypeOK, CaIds
  <2>3. (t \in pems' <=> t \in pems) /\ (t \in keys' <=> t \in keys)
    BY <1>3, <1>4, <2>1
  <2>4. QED
    BY <2>1, <2>2, <2>3, Frame
<1>8. Leaves(recorded)' = Leaves(recorded) /\ Leaves(recorded) \subseteq Leaves(Made)
      /\ Leaves(index) \subseteq Leaves(Made)
  BY <1>1, <1>2, <1>3 DEF Leaves, IInv, Accounts, TypeOK
<1>9. NothingLost' /\ UnlistedIsAway' /\ Accounts'
  BY <1>2, <1>3, <1>7, <1>8, AccountsStay
<1>10. Owners'
  BY <1>3 DEF IInv, TypeOK, Owners
<1>11. Removal'
  BY <1>3, <1>7, <1>8, <1>10, Markers, RemovalStays DEF IInv, TypeOK, Owners
<1>12. Savers'
  <2>1. job'[r].serial = s /\ pc'[r] \in {"key", "record"} /\ (pc'[r] = "key" => c.kind # "csr")
    BY <1>3 DEF IInv, TypeOK, Idle
  <2>2. \A q \in Requests \ {r} : job'[q] = job[q] /\ pc'[q] = pc[q]
    BY <1>3 DEF IInv, TypeOK
  <2>3. minted'[s] = c /\ \A t \in Made : minted'[t] = minted[t]
    BY <1>1, <1>2 DEF IInv, TypeOK, Made
  <2>4. ASSUME NEW q \in Requests \ {r}
        PROVE  /\ pc'[q] = "signing" => job'[q].draft \in Certificate
               /\ pc'[q] \in Saving => /\ job'[q].serial \in Made' \ recorded'
                                       /\ job'[q].serial # s
               /\ pc'[q] = "key" => minted'[job'[q].serial].kind # "csr"
    BY <1>1, <1>2, <1>3, <2>2, <2>3 DEF IInv, Savers, Serial, HasKey, Saving
  <2>5. QED
    BY <1>1, <1>2, <1>3, <2>1, <2>2, <2>3, <2>4 DEF IInv, Savers, Serial, HasKey, Saving
<1>13. Written'
  <2>1. job'[r].serial = s /\ pc'[r] = IF c.kind = "csr" THEN "record" ELSE "key"
    BY <1>3 DEF IInv, TypeOK, Idle
  <2>2. minted'[s] = c
    BY <1>1, <1>2 DEF IInv, TypeOK
  <2>3. c.kind = "intermediate" => cas'[s].cert = s
    BY <1>1, <1>4, <1>5 DEF IInv, TypeOK, Pair
  <2>4. c.kind \in {"issued", "csr"} => s \in pems'
    BY <1>4
  <2>5. c.kind \in {"root", "intermediate", "issued", "csr"}
    BY <1>2 DEF Certificate
  <2>6. c.kind = "csr" => Present(s)'
    <3>1. SUFFICES ASSUME c.kind = "csr" PROVE Present(s)'
      OBVIOUS
    <3>2. FilesOf(s)' = {<<"pem", s>>}
      BY <2>2, <3>1 DEF FilesOf, IsCA, HasKey
    <3>3. Stored(<<"pem", s>>)'
      BY <2>4, <3>1 DEF Stored
    <3>4. QED
      BY <3>2, <3>3 DEF Present
  <2>7. ASSUME NEW q \in Requests \ {r}
        PROVE  /\ pc'[q] = "key" /\ minted'[job'[q].serial].kind # "root" =>
                    IF IsCA(job[q].serial)' THEN cas'[job'[q].serial].cert = job'[q].serial
                    ELSE job'[q].serial \in pems'
               /\ pc'[q] \in Saving \ {"key"} /\ minted'[job'[q].serial].kind # "root" =>
                    Present(job[q].serial)'
    <3> DEFINE t == job[q].serial
    <3>1. pc'[q] = pc[q] /\ job'[q] = job[q]
      BY <1>3 DEF IInv, TypeOK
    <3>2. SUFFICES ASSUME pc[q] \in Saving, minted'[t].kind # "root"
                   PROVE  /\ pc'[q] = "key" => IF IsCA(t)' THEN cas'[t].cert = t ELSE t \in pems'
                          /\ pc'[q] \in Saving \ {"key"} => Present(t)'
      BY <3>1 DEF Saving
    <3>3. t \in Made /\ t # s /\ t \in Serials
      BY <1>1, <3>2 DEF IInv, Savers, Serial, Made
    <3>4. minted'[t] = minted[t] /\ t \in Leaves(Made)
      BY <1>1, <1>2, <3>2, <3>3 DEF IInv, TypeOK, Leaves
    <3>5. cas'[t] = cas[t] /\ (t \in pems' <=> t \in pems)
      BY <1>1, <1>4, <1>5, <3>3 DEF IInv, TypeOK, CaIds
    <3>6. QED
      BY <1>7, <3>1, <3>2, <3>4, <3>5 DEF IInv, Written, Serial
  <2>8. QED
    <3>1. /\ pc'[r] = "key" /\ minted'[s].kind # "root" =>
               IF IsCA(s)' THEN cas'[s].cert = s ELSE s \in pems'
          /\ pc'[r] \in Saving \ {"key"} => Present(s)'
      BY <2>1, <2>2, <2>3, <2>4, <2>5, <2>6 DEF IsCA, Saving
    <3>2. \A q \in Requests : Serial(q)' = job'[q].serial
      BY DEF Serial
    <3>3. QED
      BY <2>1, <2>7, <3>1, <3>2 DEF Written, IsCA, Saving
<1>14. QED
  BY <1>6, <1>9, <1>10, <1>11, <1>12, <1>13 DEF IInv

\* A request goes on with its own certificate and touches no other's files.
LEMMA SaverStep ==
  ASSUME IInv, NEW r \in Requests, NEW s \in Serials, s = Serial(r), NEW at \in Saving \ {"key"},
         pc[r] \in Saving, pc' = [pc EXCEPT ![r] = at],
         UNCHANGED <<minted, index, pems, trash, mu, job, recorded>>,
         TypeOK',
         minted[s].kind # "root" => Present(s)',
         \A t \in Leaves(Made) \ {s} : cas'[t] = cas[t] /\ (t \in keys' <=> t \in keys)
  PROVE  IInv'
<1>1. s \in Made /\ s \notin recorded /\ s \notin index /\ Made' = Made
  BY DEF IInv, Savers, Accounts, Made
<1>2. \A t \in Leaves(Made) \ {s} :
        /\ FilesOf(t)' = FilesOf(t) /\ IsCA(t)' = IsCA(t)
        /\ \A f \in FilesOf(t) : Stored(f)' <=> Stored(f)
        /\ Present(t)' <=> Present(t)
  BY Frame DEF Leaves
<1>3. Leaves(recorded)' = Leaves(recorded) /\ Leaves(recorded) \subseteq Leaves(Made) \ {s}
      /\ Leaves(index) \subseteq Leaves(Made) \ {s}
  BY <1>1 DEF Leaves, IInv, Accounts
<1>4. NothingLost' /\ UnlistedIsAway' /\ Accounts'
  BY <1>1, <1>2, <1>3, AccountsStay
<1>5. Owners'
  BY DEF IInv, TypeOK, Owners, Saving
<1>6. Removal'
  BY <1>2, <1>3, Markers, RemovalStays DEF IInv, TypeOK, Owners, Saving
<1>7. Savers'
  BY <1>1 DEF IInv, TypeOK, Savers, Serial, HasKey, Saving
<1>8. Written'
  <2>1. ASSUME NEW q \in Requests \ {r}, pc[q] \in Saving, minted[Serial(q)].kind # "root"
        PROVE  /\ Serial(q) \in Leaves(Made) \ {s}
               /\ cas'[Serial(q)] = cas[Serial(q)]
    <3>1. Serial(q) \in Leaves(Made) \ {s}
      BY <2>1 DEF IInv, Savers, Leaves
    <3>2. QED
      BY <3>1
  <2>2. ASSUME NEW q \in Requests \ {r}, pc'[q] \in Saving, minted[Serial(q)].kind # "root"
        PROVE  /\ pc'[q] = "key" => IF IsCA(Serial(q)) THEN cas'[Serial(q)].cert = Serial(q)
                                                       ELSE Serial(q) \in pems'
               /\ pc'[q] \in Saving \ {"key"} => Present(Serial(q))'
    <3>1. pc'[q] = pc[q]
      BY DEF IInv, TypeOK
    <3>2. PICK t \in Leaves(Made) \ {s} : t = Serial(q) /\ t = Serial(q)'
      BY <2>1, <2>2, <3>1 DEF Serial
    <3>3. Present(Serial(q))' <=> Present(t)'
      BY <3>2 DEF Present
    <3>4. Present(Serial(q)) <=> Present(t)
      BY <3>2 DEF Present
    <3>5. QED
      BY <1>2, <2>1, <2>2, <3>1, <3>2, <3>3, <3>4 DEF IInv, Written
  <2>3. pc'[r] = at /\ Serial(r)' = Serial(r) /\ (minted[s].kind # "root" => Present(Serial(r))')
    <3>1. Serial(r)' = s
      BY DEF Serial
    <3>2. Present(Serial(r))' <=> Present(s)'
      BY <3>1 DEF Present
    <3>3. QED
      BY <3>1, <3>2 DEF IInv, TypeOK
  <2>4. \A q \in Requests : Serial(q)' = Serial(q) /\ IsCA(Serial(q))' = IsCA(Serial(q))
    BY DEF Serial, IsCA
  <2>5. SUFFICES ASSUME NEW q \in Requests, minted'[Serial(q)'].kind # "root"
                 PROVE  /\ pc'[q] = "key" => IF IsCA(Serial(q))' THEN cas'[Serial(q)'].cert = Serial(q)'
                                             ELSE Serial(q)' \in pems'
                        /\ pc'[q] \in Saving \ {"key"} => Present(Serial(q))'
    BY DEF Written, Saving
  <2>6. minted[Serial(q)].kind # "root"
    BY <2>4, <2>5
  <2>7. CASE q = r
    BY <2>3, <2>6, <2>7
  <2>8. CASE q # r
    BY <2>2, <2>4, <2>6, <2>8 DEF Saving
  <2>9. QED
    BY <2>7, <2>8
<1>9. QED
  BY <1>4, <1>5, <1>6, <1>7, <1>8 DEF IInv

LEMMA SaveKeyKeeps ==
  ASSUME IInv, NEW r \in Requests, SaveKey(r)
  PROVE  IInv'
<1>1. PICK s \in Serials : s = Serial(r) /\ s \in Made /\ HasKey(s)
  BY DEF IInv, Savers, SaveKey, Saving, Made
<1>2. PICK at \in {"secret", "record"} : pc' = [pc EXCEPT ![r] = at]
  BY DEF SaveKey, Goto
<1>3. /\ pc[r] = "key"
      /\ UNCHANGED <<minted, index, pems, secrets, trash, keyring, mu, job, recorded, faults, crashes>>
      /\ IF IsCA(s) THEN cas' = [cas EXCEPT ![CaId(s)].key = s] /\ keys' = keys
         ELSE keys' = keys \cup {s} /\ cas' = cas
  BY <1>1 DEF SaveKey
<1>4. CaId(s) \in CaIds /\ Root \notin Serials
  BY <1>1, Markers DEF CaId, CaIds, Serials
<1>5. TypeOK'
  <2>1. cas' \in [CaIds -> Pair]
    BY <1>3, <1>4 DEF IInv, TypeOK, Pair
  <2>2. keys' \in SUBSET Serials
    BY <1>3 DEF IInv, TypeOK
  <2>3. QED
    BY <1>2, <1>3, <2>1, <2>2 DEF IInv, TypeOK
<1>6. \A t \in Leaves(Made) \ {s} : cas'[t] = cas[t] /\ (t \in keys' <=> t \in keys)
  BY <1>3, <1>4 DEF Leaves, Made, CaId, IInv, TypeOK, CaIds
<1>7. ASSUME minted[s].kind # "root" PROVE Present(s)'
  <2>1. IF IsCA(s) THEN cas[s].cert = s ELSE s \in pems
    BY <1>1, <1>3, <1>7 DEF IInv, Written
  <2>2. CASE IsCA(s)
    <3>1. FilesOf(s)' = {<<"dir", s>>}
      BY <1>3, <2>2 DEF FilesOf, IsCA
    <3>2. cas'[s] = [cert |-> s, key |-> s]
      BY <1>3, <1>4, <1>7, <2>1, <2>2 DEF CaId, IInv, TypeOK, Pair
    <3>3. Stored(<<"dir", s>>)'
      BY <1>3, <1>7, <3>2 DEF Stored, CaId
    <3>4. QED
      BY <3>1, <3>3 DEF Present
  <2>3. CASE ~ IsCA(s)
    <3>1. FilesOf(s)' = {<<"pem", s>>, <<"key", s>>}
      BY <1>1, <1>3, <2>3 DEF FilesOf, IsCA, HasKey
    <3>2. Stored(<<"pem", s>>)' /\ Stored(<<"key", s>>)'
      BY <1>3, <2>1, <2>3 DEF Stored
    <3>3. QED
      BY <3>1, <3>2 DEF Present
  <2>4. QED
    BY <2>2, <2>3
<1>8. QED
  BY <1>1, <1>2, <1>3, <1>5, <1>6, <1>7, SaverStep DEF Saving

\* The passphrase file and the keyring are no files of a certificate.
LEMMA UnlockingKeeps ==
  ASSUME IInv, NEW r \in Requests, SavePassphrase(r) \/ KeepUnlocked(r)
  PROVE  IInv'
<1>1. PICK s \in Serials : s = Serial(r) /\ s \in Made
  BY DEF IInv, Savers, SavePassphrase, KeepUnlocked, Saving, Made
<1>2. PICK at \in {"unlock", "record"} : pc' = [pc EXCEPT ![r] = at]
  BY DEF SavePassphrase, KeepUnlocked, Goto
<1>3. /\ pc[r] \in {"secret", "unlock"}
      /\ UNCHANGED <<minted, index, cas, pems, keys, trash, mu, job, recorded, crashes>>
  BY DEF SavePassphrase, KeepUnlocked, files
<1>4. CaId(s) \in CaIds
  BY <1>1 DEF CaId, CaIds
<1>5. TypeOK'
  <2>1. secrets' \in [CaIds -> Serials \cup {None}] /\ faults' \in 0 .. MaxFaults
    BY <1>1, <1>4, Bounds DEF SavePassphrase, KeepUnlocked, files, IInv, TypeOK
  <2>2. keyring' \in [CaIds -> Pair]
    BY <1>1, <1>4 DEF SavePassphrase, KeepUnlocked, files, IInv, TypeOK, Pair
  <2>3. QED
    BY <1>2, <1>3, <2>1, <2>2 DEF IInv, TypeOK
<1>6. ASSUME minted[s].kind # "root" PROVE Present(s)'
  <2>1. Present(Serial(r))
    BY <1>1, <1>3, <1>6 DEF IInv, Written, Saving
  <2>2. Present(s)
    BY <1>1, <2>1 DEF Present
  <2>3. QED
    BY <1>1, <1>3, <1>6, <2>2, Frame
<1>7. QED
  BY <1>1, <1>2, <1>3, <1>5, <1>6, SaverStep DEF Saving, IInv, TypeOK

\* A record is added when all its files are there.
LEMMA AddRecordKeeps ==
  ASSUME IInv, NEW r \in Requests, AddRecord(r)
  PROVE  IInv'
<1>1. PICK s \in Serials : s = Serial(r) /\ s \in Made \ recorded
  BY DEF IInv, Savers, AddRecord, Saving, Made
<1>2. /\ pc[r] = "record" /\ mu = None
      /\ pc' = [pc EXCEPT ![r] = "idle"] /\ job' = [job EXCEPT ![r] = Idle]
      /\ UNCHANGED <<minted, cas, pems, keys, secrets, trash, keyring, mu, faults, crashes>>
      /\ recorded' = recorded \cup {s}
      /\ index' = {s} \cup {t \in index : minted[t].kind = "root" => minted[s].kind # "root"}
  BY <1>1 DEF AddRecord, Reply, Goto
<1>3. minted[s].kind # "root" => Present(s)
  <2>1. minted[s].kind # "root" => Present(Serial(r))
    BY <1>1, <1>2 DEF IInv, Written, Saving
  <2>2. QED
    BY <1>1, <2>1 DEF Present
<1>4. \A f : (Stored(f)' <=> Stored(f)) /\ (InTrash(f)' <=> InTrash(f))
  BY <1>2 DEF Stored, CaId, InTrash
<1>5. (\A t : FilesOf(t)' = FilesOf(t)) /\ Made' = Made
  BY <1>2 DEF FilesOf, IsCA, HasKey, Made
<1>6. \A t : Present(t)' <=> Present(t)
  BY <1>4, <1>5 DEF Present
<1>7. TypeOK'
  BY <1>2, Markers DEF IInv, TypeOK, Job, Idle
<1>8. Owners' /\ Removal'
  BY <1>2 DEF IInv, TypeOK, Owners, Removal
<1>9. Accounts'
  BY <1>1, <1>2, <1>5 DEF IInv, Accounts
<1>10. Savers'
  BY <1>1, <1>2, <1>5 DEF IInv, TypeOK, Savers, Serial, HasKey, Saving
<1>11. Written'
  BY <1>2, <1>6 DEF IInv, TypeOK, Written, Serial, IsCA, Saving
<1>12. NothingLost'
  <2>1. \A t \in Leaves(recorded)' : t \in Leaves(recorded) \/ (t = s /\ minted[s].kind # "root")
    BY <1>2 DEF Leaves
  <2>2. QED
    BY <1>3, <1>4, <1>5, <2>1 DEF IInv, NothingLost, Present
<1>13. UnlistedIsAway'
  <2>1. \A t \in Leaves(recorded)' \ index' : t \in Leaves(recorded) \ index
    BY <1>2 DEF Leaves
  <2>2. QED
    BY <1>4, <1>5, <2>1 DEF IInv, UnlistedIsAway
<1>14. QED
  BY <1>7, <1>8, <1>9, <1>10, <1>11, <1>12, <1>13 DEF IInv

\* The entry in the trash is opened: nothing has been moved yet.
LEMMA TrashKeeps ==
  ASSUME IInv, NEW r \in Requests, NEW removed \in SUBSET Leaves(index), Trash(r, removed)
  PROVE  IInv'
<1> DEFINE todo == Contents(removed)
           bin == [removed |-> removed, files |-> {}]
<1>1. /\ pc[r] = "idle" /\ mu = None /\ mu' = r
      /\ pc' = [pc EXCEPT ![r] = "trash"]
      /\ trash' = Append(trash, bin)
      /\ job' = [job EXCEPT ![r].todo = todo]
      /\ UNCHANGED <<minted, index, cas, pems, keys, secrets, keyring, recorded, faults, crashes>>
  BY DEF Trash, Goto
<1>2. removed \subseteq Serials /\ removed \subseteq Made
  BY DEF IInv, TypeOK, Leaves, Accounts, Made
<1>3. \A s \in removed : \A f \in FilesOf(s) : f \in Files /\ f[2] = s /\ (f[1] = "dir" => IsCA(s))
  BY <1>2 DEF FilesOf, Files
<1>4. \A f \in todo : f \in Files /\ f[2] \in removed /\ (f[1] = "dir" => IsCA(f[2]))
  BY <1>3 DEF Contents
<1>5. /\ Len(trash') = Len(trash) + 1 /\ trash' \in Seq(Bin) /\ trash' # <<>>
      /\ trash'[Len(trash')] = bin /\ \A i \in DOMAIN trash : trash'[i] = trash[i]
      /\ DOMAIN trash' = DOMAIN trash \cup {Len(trash')}
  <2>1. bin \in Bin /\ trash \in Seq(Bin)
    BY <1>2 DEF Bin, IInv, TypeOK
  <2>2. QED
    BY <1>1, <2>1
<1>6. \A f : InTrash(f)' <=> InTrash(f)
  BY <1>5 DEF InTrash
<1>7. \A f : Stored(f)' <=> Stored(f)
  BY <1>1 DEF Stored, CaId
<1>8. (\A t : FilesOf(t)' = FilesOf(t) /\ IsCA(t)' = IsCA(t)) /\ Made' = Made
  BY <1>1 DEF FilesOf, IsCA, HasKey, Made
<1>9. \A t : Present(t)' <=> Present(t)
  BY <1>7, <1>8 DEF Present
<1>10. NothingLost' /\ UnlistedIsAway' /\ Accounts'
  BY <1>1, <1>6, <1>7, <1>8 DEF IInv, NothingLost, UnlistedIsAway, Accounts, Leaves
<1>11. TypeOK'
  <2>1. todo \subseteq Files
    BY <1>4
  <2>2. job' \in [Requests -> Job]
    BY <1>1, <2>1 DEF IInv, TypeOK, Job
  <2>3. QED
    BY <1>1, <1>5, <2>2 DEF IInv, TypeOK
<1>12. Owners'
  BY <1>1, Markers DEF IInv, TypeOK, Owners
<1>13. \A q \in Requests : Serial(q)' = Serial(q) /\ job'[q].draft = job[q].draft
  BY <1>1 DEF Serial, IInv, TypeOK, Job
<1>14. Savers'
  BY <1>1, <1>8, <1>13 DEF IInv, TypeOK, Savers, HasKey, Saving
<1>15. Written'
  <2>1. \A q \in Requests : pc'[q] # "trash" => pc'[q] = pc[q]
    BY <1>1 DEF IInv, TypeOK
  <2>2. ASSUME NEW q \in Requests
        PROVE  /\ IsCA(Serial(q))' = IsCA(Serial(q))
               /\ Present(Serial(q))' <=> Present(Serial(q))
    <3>1. PICK t : t = Serial(q) /\ t = Serial(q)'
      BY <1>13
    <3>2. (Present(Serial(q))' <=> Present(t)') /\ (Present(Serial(q)) <=> Present(t))
      BY <3>1 DEF Present
    <3>3. IsCA(Serial(q))' = IsCA(t)' /\ IsCA(Serial(q)) = IsCA(t)
      BY <3>1 DEF IsCA
    <3>4. QED
      BY <1>8, <1>9, <3>2, <3>3
  <2>3. QED
    BY <1>1, <1>13, <2>1, <2>2 DEF IInv, Written, Saving
<1>16. Removal'
  <2>1. job'[r].todo = todo
    BY <1>1 DEF IInv, TypeOK, Job
  <2>2. Leaves(index)' = Leaves(index)
    BY <1>1 DEF Leaves
  <2>3. QED
    BY <1>1, <1>3, <1>4, <1>5, <1>8, <2>1, <2>2, Markers DEF Removal, Contents
<1>17. QED
  BY <1>10, <1>11, <1>12, <1>14, <1>15, <1>16 DEF IInv

LEMMA DeleteKeeps ==
  ASSUME IInv, NEW r \in Requests, Delete(r)
  PROVE  IInv'
<1>1. ASSUME NEW s \in Serials, DeleteCA(r, s) PROVE IInv'
  <2>1. Subtree(s) \in SUBSET Leaves(index)
    BY DEF Subtree, Leaves, IsCA
  <2>2. QED
    BY <1>1, <2>1, TrashKeeps DEF DeleteCA
<1>2. ASSUME NEW s \in Serials, DeleteCert(r, s) PROVE IInv'
  <2>1. {s} \in SUBSET Leaves(index)
    BY <1>2 DEF DeleteCert, Leaves, IsCA
  <2>2. QED
    BY <1>2, <2>1, TrashKeeps DEF DeleteCert
<1>3. QED
  BY <1>1, <1>2 DEF Delete

\* A file is taken from its place and put into the entry that names it.
LEMMA MoveKeeps ==
  ASSUME IInv, NEW r \in Requests, NEW f \in Files, Move(r, f)
  PROVE  IInv'
<1> DEFINE last == Len(trash)
           removed == trash[last].removed
           moved == Stored(f) /\ faults' = faults
<1>1. /\ pc[r] = "trash" /\ mu = r /\ f \in job[r].todo
      /\ job' = [job EXCEPT ![r].todo = @ \ {f}]
      /\ f[1] = "dir" => Stored(f)
      /\ UNCHANGED <<minted, index, keyring, mu, pc, recorded, crashes>>
      /\ faults' \in 0 .. MaxFaults /\ (f[1] # "secret" => faults' = faults)
  BY Bounds DEF Move, Due, IInv, Owners, TypeOK
<1>2. IF moved
      THEN /\ trash' = [trash EXCEPT ![last].files = @ \cup {f}]
           /\ cas' = IF f[1] = "dir" THEN [cas EXCEPT ![f[2]] = Nothing] ELSE cas
           /\ pems' = IF f[1] = "pem" THEN pems \ {f[2]} ELSE pems
           /\ keys' = IF f[1] = "key" THEN keys \ {f[2]} ELSE keys
           /\ secrets' = IF f[1] = "secret" THEN [secrets EXCEPT ![f[2]] = None] ELSE secrets
      ELSE UNCHANGED <<trash, cas, pems, keys, secrets>>
  BY DEF Move
<1>3. /\ removed \subseteq Leaves(index) /\ f[2] \in removed /\ trash # <<>>
      /\ \A s \in removed : \A g \in FilesOf(s) : g \in job[r].todo \/ ~ Stored(g)
      /\ \A g \in job[r].todo : g[2] \in removed /\ (g[1] = "dir" => IsCA(g[2]))
  BY <1>1, Markers DEF IInv, Removal
<1>4. /\ f = <<f[1], f[2]>> /\ f[2] \in Serials /\ f[2] \in Made /\ f[2] \in recorded
      /\ minted[f[2]].kind # "root" /\ f[1] \in {"dir", "pem", "key", "secret"}
  BY <1>3 DEF Files, IInv, Accounts, Leaves
<1>5. trash \in Seq(Bin) /\ last \in DOMAIN trash /\ last \in Nat
  BY <1>3 DEF IInv, TypeOK
<1>6. /\ trash' \in Seq(Bin) /\ Len(trash') = last /\ trash'[last].removed = removed
      /\ \A i \in DOMAIN trash : /\ trash'[i].removed = trash[i].removed
                                /\ trash[i].files \subseteq trash'[i].files
      /\ DOMAIN trash' = DOMAIN trash
      /\ moved => f \in trash'[last].files
  <2>1. CASE moved
    <3>1. \A i \in DOMAIN trash : trash[i] \in Bin
      BY <1>5
    <3>2. [trash[last] EXCEPT !.files = @ \cup {f}] \in Bin
      BY <1>5, <3>1 DEF Bin
    <3>3. trash' = [trash EXCEPT ![last] = [trash[last] EXCEPT !.files = @ \cup {f}]]
      BY <1>2, <2>1
    <3>4. trash' \in Seq(Bin) /\ Len(trash') = last /\ DOMAIN trash' = DOMAIN trash
      BY <1>5, <3>2, <3>3
    <3>5. \A i \in DOMAIN trash : /\ trash'[i].removed = trash[i].removed
                                /\ trash[i].files \subseteq trash'[i].files
      BY <1>5, <3>1, <3>2, <3>3 DEF Bin
    <3>6. f \in trash'[last].files
      BY <1>5, <3>1, <3>3 DEF Bin
    <3>7. QED
      BY <1>5, <3>4, <3>5, <3>6
  <2>2. CASE ~ moved
    BY <1>2, <1>5, <2>2
  <2>3. QED
    BY <2>1, <2>2
<1>7. /\ Made' = Made /\ Leaves(recorded)' = Leaves(recorded) /\ Leaves(index)' = Leaves(index)
      /\ \A t : FilesOf(t)' = FilesOf(t) /\ IsCA(t)' = IsCA(t)
  BY <1>1 DEF Made, Leaves, FilesOf, IsCA, HasKey
<1>8. Root \notin Serials /\ None \notin Serials /\ Serials \subseteq CaIds
  BY Markers DEF Serials, CaIds
<1>9. \A t \in Leaves(Made) \ {f[2]} :
        /\ cas'[t] = cas[t]
        /\ \A g \in FilesOf(t) : Stored(g)' <=> Stored(g)
        /\ Present(t)' <=> Present(t)
  <2> SUFFICES ASSUME NEW t \in Leaves(Made) \ {f[2]}
               PROVE  /\ cas'[t] = cas[t]
                      /\ \A g \in FilesOf(t) : Stored(g)' <=> Stored(g)
                      /\ Present(t)' <=> Present(t)
    OBVIOUS
  <2>1. t \in Made /\ minted[t].kind # "root" /\ t \in CaIds
    BY <1>8 DEF Leaves, Made
  <2>2. cas'[t] = cas[t] /\ (t \in pems' <=> t \in pems) /\ (t \in keys' <=> t \in keys)
    BY <1>2, <2>1 DEF IInv, TypeOK
  <2>3. QED
    BY <1>1, <2>1, <2>2, Frame
<1>10. \A g \in FilesOf(f[2]) : g # f => (Stored(g)' <=> Stored(g))
  <2> SUFFICES ASSUME NEW g \in FilesOf(f[2]), g # f PROVE Stored(g)' <=> Stored(g)
    OBVIOUS
  <2>1. CASE g = <<"dir", f[2]>>
    <3>1. f[1] # "dir"
      BY <1>4, <2>1
    <3>2. cas' = cas
      BY <1>2, <3>1
    <3>3. QED
      BY <1>1, <2>1, <3>2 DEF Stored, CaId
  <2>2. CASE g = <<"pem", f[2]>>
    <3>1. f[1] # "pem"
      BY <1>4, <2>2
    <3>2. pems' = pems
      BY <1>2, <3>1
    <3>3. QED
      BY <2>2, <3>2 DEF Stored
  <2>3. CASE g = <<"key", f[2]>>
    <3>1. f[1] # "key"
      BY <1>4, <2>3
    <3>2. keys' = keys
      BY <1>2, <3>1
    <3>3. QED
      BY <2>3, <3>2 DEF Stored
  <2>4. QED
    BY <2>1, <2>2, <2>3 DEF FilesOf
<1>11. f \in FilesOf(f[2]) => ~ Stored(f)'
  <2> SUFFICES ASSUME f \in FilesOf(f[2]) PROVE ~ Stored(f)'
    OBVIOUS
  <2>1. f[1] # "secret"
    BY DEF FilesOf
  <2>2. CASE moved
    <3>1. CASE f[1] = "dir"
      <4>1. cas'[f[2]] = Nothing
        BY <1>2, <1>4, <1>8, <2>2, <3>1 DEF IInv, TypeOK
      <4>2. QED
        BY <1>1, <1>4, <1>8, <3>1, <4>1 DEF Stored, CaId, Nothing
    <3>2. CASE f[1] = "pem"
      BY <1>2, <2>2, <3>2 DEF Stored
    <3>3. CASE f[1] = "key"
      BY <1>2, <2>2, <3>3 DEF Stored
    <3>4. QED
      BY <1>4, <2>1, <3>1, <3>2, <3>3
  <2>3. CASE ~ moved
    <3>1. ~ Stored(f)
      BY <1>1, <2>1, <2>3
    <3>2. UNCHANGED <<minted, cas, pems, keys, secrets>>
      BY <1>1, <1>2, <2>3
    <3>3. QED
      BY <3>1, <3>2 DEF Stored, CaId
  <2>4. QED
    BY <2>2, <2>3
<1>12. \A g : InTrash(g) => InTrash(g)'
  BY <1>6 DEF InTrash
<1>13. \A s \in Leaves(Made) : \A g \in FilesOf(s) : Stored(g)' => Stored(g)
  BY <1>9, <1>10, <1>11
<1>14. Leaves(recorded) \subseteq Leaves(Made)
  BY DEF IInv, Accounts, Leaves
<1>15. NothingLost'
  <2> SUFFICES ASSUME NEW s \in Leaves(recorded), NEW g \in FilesOf(s)
               PROVE  Stored(g)' \/ InTrash(g)'
    BY <1>7 DEF NothingLost
  <2>1. Stored(g) \/ InTrash(g)
    BY DEF IInv, NothingLost
  <2>2. CASE g # f
    BY <1>9, <1>10, <1>12, <1>14, <2>1, <2>2
  <2>3. CASE g = f
    <3>1. f[1] # "secret"
      BY <2>3 DEF FilesOf
    <3>2. CASE moved
      <4>1. f \in trash'[last].files /\ f[2] \in trash'[last].removed /\ last \in DOMAIN trash'
        BY <1>3, <1>5, <1>6, <3>2
      <4>2. InTrash(f)'
        BY <4>1 DEF InTrash
      <4>3. QED
        BY <2>3, <4>2
    <3>3. CASE ~ moved
      <4>1. InTrash(f)
        BY <1>1, <2>1, <2>3, <3>1, <3>3
      <4>2. QED
        BY <1>12, <2>3, <4>1
    <3>4. QED
      BY <3>2, <3>3
  <2>4. QED
    BY <2>2, <2>3
<1>16. UnlistedIsAway'
  <2>1. (Leaves(recorded) \ index)' = Leaves(recorded) \ index
    BY <1>1, <1>7
  <2>2. QED
    BY <1>7, <1>13, <1>14, <2>1 DEF IInv, UnlistedIsAway
<1>17. TypeOK'
  <2>1. cas' \in [CaIds -> Pair] /\ secrets' \in [CaIds -> Serials \cup {None}]
    BY <1>2, <1>4, <1>8 DEF IInv, TypeOK, Pair, Nothing
  <2>2. pems' \in SUBSET Serials /\ keys' \in SUBSET Serials
    BY <1>2 DEF IInv, TypeOK
  <2>3. job' \in [Requests -> Job]
    BY <1>1 DEF IInv, TypeOK, Job
  <2>4. QED
    BY <1>1, <1>6, <2>1, <2>2, <2>3 DEF IInv, TypeOK
<1>18. Owners' /\ Accounts'
  BY <1>1, <1>7 DEF IInv, Owners, Accounts
<1>19. \A q \in Requests : Serial(q)' = Serial(q) /\ job'[q].draft = job[q].draft
  BY <1>1 DEF Serial, IInv, TypeOK, Job
<1>20. Savers'
  BY <1>1, <1>7, <1>19 DEF IInv, TypeOK, Savers, HasKey, Saving
<1>21. Written'
  <2> SUFFICES ASSUME NEW q \in Requests, NEW s \in Serials, s = Serial(q),
                      pc[q] \in Saving, minted[s].kind # "root"
               PROVE  /\ pc[q] = "key" => IF IsCA(s) THEN cas'[s].cert = s ELSE s \in pems'
                      /\ pc[q] \in Saving \ {"key"} => Present(s)'
    <3>1. \A q \in Requests : pc[q] \in Saving => Serial(q) \in Serials
      BY DEF IInv, Savers, Made
    <3>2. ASSUME NEW q \in Requests, NEW s, s = Serial(q)
          PROVE  /\ Serial(q)' = s /\ IsCA(Serial(q))' = IsCA(s)
                 /\ (Present(Serial(q))' <=> Present(s)')
      <4>1. Serial(q)' = s
        BY <1>19, <3>2
      <4>2. Present(Serial(q))' <=> Present(s)'
        BY <4>1 DEF Present
      <4>3. QED
        BY <1>1, <4>1, <4>2 DEF IsCA
    <3>3. QED
      BY <1>1, <3>1, <3>2 DEF Written, Saving
  <2>1. s \in Leaves(Made) \ {f[2]}
    BY <1>4 DEF IInv, Savers, Leaves
  <2>2. s \in pems' <=> s \in pems
    BY <1>2, <2>1
  <2>3. Present(s) <=> Present(Serial(q))
    BY DEF Present
  <2>4. QED
    BY <1>9, <2>1, <2>2, <2>3 DEF IInv, Written
<1>22. Removal'
  <2>1. job'[r].todo = job[r].todo \ {f}
    BY <1>1 DEF IInv, TypeOK, Job
  <2>2. removed' = removed
    BY <1>6
  <2>3. \A s \in removed : s \in Leaves(Made)
    BY <1>3, <1>14 DEF Leaves, IInv, Accounts
  <2>4. \A s \in removed : \A g \in FilesOf(s) : g \in job'[r].todo \/ ~ Stored(g)'
    <3> SUFFICES ASSUME NEW s \in removed, NEW g \in FilesOf(s), g \notin job'[r].todo
                 PROVE  ~ Stored(g)'
      OBVIOUS
    <3>1. CASE g = f
      <4>1. s = f[2]
        BY <3>1 DEF FilesOf
      <4>2. QED
        BY <1>11, <3>1, <4>1
    <3>2. CASE g # f
      <4>1. ~ Stored(g)
        BY <1>3, <2>1, <3>2
      <4>2. QED
        BY <1>13, <2>3, <4>1
    <3>3. QED
      BY <3>1, <3>2
  <2>5. trash' # <<>>
    BY <1>5, <1>6
  <2>6. QED
    BY <1>1, <1>3, <1>7, <2>1, <2>2, <2>4, <2>5 DEF Removal
<1>23. QED
  BY <1>15, <1>16, <1>17, <1>18, <1>20, <1>21, <1>22 DEF IInv

\* The index is saved when nothing of what is removed is left.
LEMMA UnlistedKeeps ==
  ASSUME IInv, NEW r \in Requests, pc[r] = "trash", job[r].todo = {}, index' = Unlisted,
         UNCHANGED <<minted, cas, pems, keys, secrets, trash, keyring, recorded>>,
         faults' \in 0 .. MaxFaults, crashes' \in 0 .. MaxCrashes,
         \/ mu' = mu /\ job' = job /\ pc' = [pc EXCEPT ![r] = "drop"]
         \/ mu' = None /\ job' = [job EXCEPT ![r] = Idle] /\ pc' = [pc EXCEPT ![r] = "idle"]
  PROVE  IInv'
<1> DEFINE removed == trash[Len(trash)].removed
<1>1. mu = r /\ removed \subseteq Leaves(index)
      /\ \A s \in removed : \A f \in FilesOf(s) : ~ Stored(f)
  BY Markers DEF IInv, Owners, Removal
<1>2. \A f : (Stored(f)' <=> Stored(f)) /\ (InTrash(f)' <=> InTrash(f))
  BY DEF Stored, CaId, InTrash
<1>3. /\ Made' = Made /\ Leaves(recorded)' = Leaves(recorded)
      /\ \A t : FilesOf(t)' = FilesOf(t) /\ IsCA(t)' = IsCA(t)
  BY DEF FilesOf, IsCA, HasKey, Made, Leaves
<1>4. \A t : Present(t)' <=> Present(t)
  BY <1>2, <1>3 DEF Present
<1>5. NothingLost'
  BY <1>2, <1>3 DEF IInv, NothingLost
<1>6. UnlistedIsAway'
  BY <1>1, <1>2, <1>3 DEF IInv, UnlistedIsAway, Unlisted, Leaves
<1>7. TypeOK'
  <2>1. index' \in SUBSET Serials /\ mu' \in Requests \cup {None}
    BY DEF IInv, TypeOK, Unlisted
  <2>2. Idle \in Job
    BY DEF Idle, Job
  <2>3. job' \in [Requests -> Job]
    BY <2>2 DEF IInv, TypeOK
  <2>4. pc' \in [Requests -> {"idle", "signing", "key", "secret", "unlock", "record",
                            "trash", "drop"}]
    BY DEF IInv, TypeOK
  <2>5. QED
    BY <2>1, <2>3, <2>4 DEF IInv, TypeOK
<1>8. Owners' /\ Accounts'
  BY <1>1, <1>3, Markers DEF IInv, TypeOK, Owners, Accounts, Unlisted
<1>9. Savers'
  BY <1>3 DEF IInv, TypeOK, Savers, HasKey, Saving, Serial
<1>10. Written'
  BY <1>3, <1>4 DEF IInv, TypeOK, Written, Serial, IsCA, Saving
<1>11. Removal'
  BY <1>1, Markers DEF IInv, TypeOK, Removal
<1>12. QED
  BY <1>5, <1>6, <1>7, <1>8, <1>9, <1>10, <1>11 DEF IInv

LEMMA DropKeeps ==
  ASSUME IInv, NEW r \in Requests, Drop(r)
  PROVE  IInv'
<1>1. /\ pc[r] = "drop" /\ mu = r /\ mu' = None
      /\ pc' = [pc EXCEPT ![r] = "idle"] /\ job' = [job EXCEPT ![r] = Idle]
      /\ UNCHANGED <<minted, index, cas, pems, keys, secrets, trash, recorded, faults, crashes>>
  BY DEF Drop, Reply, Goto, files, IInv, Owners
<1>2. NothingLost' /\ UnlistedIsAway' /\ Accounts' /\ \A s : Present(s)' <=> Present(s)
  BY <1>1, FilesStay
<1>3. keyring' \in [CaIds -> Pair]
  BY DEF Drop, IInv, TypeOK, Nothing, Pair
<1>4. TypeOK'
  BY <1>1, <1>3, Markers DEF IInv, TypeOK, Job, Idle
<1>5. Owners' /\ Removal'
  BY <1>1, Markers DEF IInv, TypeOK, Owners, Removal
<1>6. Savers' /\ Written'
  BY <1>1, <1>2 DEF IInv, TypeOK, Savers, Written, Saving, Serial, Made, HasKey, IsCA
<1>7. QED
  BY <1>2, <1>4, <1>5, <1>6 DEF IInv

LEMMA DiscardKeeps ==
  ASSUME IInv, NEW r \in Requests, Discard(r)
  PROVE  IInv'
<1>1. ASSUME NEW f \in Files, Move(r, f) PROVE IInv'
  BY <1>1, MoveKeeps
<1>2. ASSUME NEW f \in Files, DirMissing(r, f) PROVE IInv'
  BY <1>2, FailsKeeps DEF DirMissing, files, IInv, TypeOK
<1>3. CASE Unlist(r)
  BY <1>3, UnlistedKeeps DEF Unlist, Goto, IInv, TypeOK
<1>4. QED
  BY <1>1, <1>2, <1>3, DropKeeps DEF Discard

LEMMA StorageErrorKeeps ==
  ASSUME IInv, NEW r \in Requests, StorageError(r)
  PROVE  IInv'
<1>1. /\ Fails(r) /\ faults' \in 0 .. MaxFaults /\ crashes' = crashes
      /\ UNCHANGED <<minted, cas, pems, keys, secrets, trash, keyring, recorded>>
  BY Bounds DEF StorageError, IInv, TypeOK
<1>2. CASE index' = index
  BY <1>1, <1>2, FailsKeeps DEF IInv, TypeOK
<1>3. CASE pc[r] = "trash" /\ job[r].todo = {} /\ index' = Unlisted
  <2>1. mu = r
    BY <1>3 DEF IInv, Owners
  <2>2. QED
    BY <1>1, <1>3, <2>1, UnlistedKeeps DEF Fails, Reply, Goto, IInv, TypeOK
<1>4. QED
  BY <1>2, <1>3 DEF StorageError

\* The process dies: only the files and the history are left.
LEMMA RestartKeeps ==
  ASSUME IInv, Restart
  PROVE  IInv'
<1>1. UNCHANGED <<minted, index, cas, pems, keys, secrets, trash, recorded>>
  BY DEF Restart, files
<1>2. NothingLost' /\ UnlistedIsAway' /\ Accounts'
  BY <1>1, FilesStay
<1>3. keyring' \in [CaIds -> Pair]
  BY DEF Restart, Unlocked, IInv, TypeOK, Nothing, Pair
<1>4. Idle \in Job
  BY DEF Idle, Job
<1>5. TypeOK'
  BY <1>1, <1>3, <1>4, Bounds DEF IInv, TypeOK, Restart
<1>6. Owners' /\ Removal' /\ Savers' /\ Written'
  BY Markers DEF Restart, Owners, Removal, Savers, Written, Saving
<1>7. QED
  BY <1>2, <1>5, <1>6 DEF IInv

LEMMA NextKeeps ==
  ASSUME IInv, [Next]_vars
  PROVE  IInv'
<1>1. ASSUME NEW r \in Requests, Save(r) PROVE IInv'
  BY <1>1, SignKeeps, SaveKeyKeeps, UnlockingKeeps, AddRecordKeeps DEF Save
<1>2. ASSUME NEW r \in Requests, GiveUp(r) PROVE IInv'
  <2>1. mu # r
    BY <1>2 DEF GiveUp, IInv, Owners
  <2>2. QED
    BY <1>2, <2>1, FailsKeeps DEF GiveUp, Fails, files, IInv, TypeOK
<1>3. CASE UNCHANGED vars
  <2>1. NothingLost' /\ UnlistedIsAway' /\ Accounts' /\ \A s : Present(s)' <=> Present(s)
    BY <1>3, FilesStay DEF vars, files
  <2>2. TypeOK' /\ Owners' /\ Savers' /\ Written'
    BY <1>3, <2>1 DEF vars, files, IInv, TypeOK, Owners, Savers, Written, Saving, Serial, Made, HasKey, IsCA
  <2>3. Removal'
    <3>1. \A t : FilesOf(t)' = FilesOf(t) /\ IsCA(t)' = IsCA(t)
      BY <1>3 DEF vars, FilesOf, IsCA, HasKey
    <3>2. \A f : Stored(f)' <=> Stored(f)
      BY <1>3 DEF vars, files, Stored, CaId
    <3>3. QED
      BY <1>3, <3>1, <3>2 DEF vars, files, IInv, Removal, Leaves
  <2>4. QED
    BY <2>1, <2>2, <2>3 DEF IInv
<1>4. QED
  BY <1>1, <1>2, <1>3, BeginKeeps, DeleteKeeps, DiscardKeeps, StorageErrorKeeps, RestartKeeps
  DEF Next

----------------------------------------------------------------------------
\* Between any two steps of any requests the accounts of the files are right: what
\* is being saved, what a deletion has still to move, what is listed (store.go,
\* ca.go).
THEOREM Invariant == Spec => []IInv
<1>1. Init => IInv
  BY InitIInv
<1>2. IInv /\ [Next]_vars => IInv'
  BY NextKeeps
<1>3. QED
  BY <1>1, <1>2, PTL DEF Spec

\* The variables keep their types.
THEOREM TypeCorrect == Spec => []TypeOK
<1>1. IInv => TypeOK
  BY DEF IInv
<1>2. QED
  BY <1>1, Invariant, PTL

\* Whatever fails or dies, the files of every certificate that was ever listed are
\* in their place or in a trash entry that names it (Store.trash).
THEOREM FilesAreKept == Spec => []NothingLost
<1>1. IInv => NothingLost
  BY DEF IInv
<1>2. QED
  BY <1>1, Invariant, PTL

\* A record goes only after its files: nothing that was listed is left behind
\* unlisted (Store.trash saves the index last).
THEOREM RecordsGoLast == Spec => []UnlistedIsAway
<1>1. IInv => UnlistedIsAway
  BY DEF IInv
<1>2. QED
  BY <1>1, Invariant, PTL

----------------------------------------------------------------------------
(* Whose keys they are.                                                    *)

\* The parts of Attributed that no request's own position decides.
Keys == \A id \in CaIds : \A p \in {cas[id], keyring[id]} :
          p.cert # None => p.cert \in Made /\ IsCA(p.cert) /\ CaId(p.cert) = id
Encrypted == \A s \in Made : minted[s].enc => IsCA(s)
Works(r) ==
  /\ pc[r] = "signing" /\ job[r].draft.enc => job[r].draft.kind \in {"root", "intermediate"}
  /\ pc[r] \in {"secret", "unlock"} => IsCA(Serial(r))

LEMMA AttributedParts == Attributed <=> Keys /\ Encrypted /\ \A r \in Requests : Works(r)
BY DEF Attributed, Keys, Encrypted, Works

LEMMA AttributedPrimed == (Keys /\ Encrypted /\ \A r \in Requests : Works(r))' => Attributed'
BY AttributedParts, PTL

\* Nobody else's request changes what it is working on.
LEMMA OthersWork ==
  ASSUME NEW q \in Requests, Works(q), minted' = minted, pc'[q] = pc[q], job'[q] = job[q]
  PROVE  Works(q)'
BY DEF Works, Serial, IsCA

\* A step that leaves the certificates, the CAs and the keyring alone.
LEMMA KeysStay ==
  ASSUME KInv, UNCHANGED <<minted, cas, keyring>>
  PROVE  Keys' /\ Encrypted'
BY AttributedParts DEF KInv, Keys, Encrypted, Made, IsCA, CaId

\* A step after which a request is where no claim is made about it.
LEMMA LeaverAttributed ==
  ASSUME KInv, NEW r \in Requests, NEW at \in {"idle", "key", "record", "trash", "drop"},
         pc' = [pc EXCEPT ![r] = at], \A q \in Requests \ {r} : job'[q] = job[q],
         minted' = minted, Keys'
  PROVE  Attributed'
<1>1. Encrypted'
  BY AttributedParts DEF KInv, Encrypted, Made, IsCA
<1>2. Works(r)'
  BY DEF Works, KInv, IInv, TypeOK
<1>3. \A q \in Requests \ {r} : Works(q)'
  BY AttributedParts, OthersWork DEF KInv, IInv, TypeOK
<1>4. QED
  BY <1>1, <1>2, <1>3, AttributedPrimed

LEMMA DraftAttributed ==
  ASSUME KInv, NEW r \in Requests, NEW kind \in {"root", "intermediate", "issued", "csr"},
         NEW issuer \in CaIds \cup {None}, NEW by \in Serials \cup {None}, NEW enc \in BOOLEAN,
         Draft(r, kind, issuer, by, enc), enc => kind \in {"root", "intermediate"}
  PROVE  Attributed'
<1>1. Keys' /\ Encrypted' /\ minted' = minted
  BY KeysStay DEF Draft, files
<1>2. job'[r].draft = [kind |-> kind, issuer |-> issuer, by |-> by, enc |-> enc]
  BY DEF Draft, KInv, IInv, TypeOK, Job
<1>3. Works(r)'
  BY <1>2 DEF Works, Draft, Goto, KInv, IInv, TypeOK
<1>4. \A q \in Requests \ {r} : Works(q)'
  BY <1>1, AttributedParts, OthersWork DEF KInv, IInv, TypeOK, Draft, Goto
<1>5. QED
  BY <1>1, <1>3, <1>4, AttributedPrimed

LEMMA BeginAttributed ==
  ASSUME KInv, NEW r \in Requests, Create(r) \/ Certify(r)
  PROVE  Attributed'
<1>1. \A id \in CaIds : Normalized(id) \in CaIds
  BY DEF Normalized, CaIds
<1>2. \A id \in CaIds : \A p \in Loadable(id) : p.cert \in Serials
  BY DEF KInv, IInv, TypeOK, Loadable, Pair
<1>3. ASSUME NEW enc \in BOOLEAN, CreateRoot(r, enc) PROVE Attributed'
  BY <1>3, DraftAttributed DEF CreateRoot
<1>4. ASSUME NEW enc \in BOOLEAN, NEW id \in CaIds, CreateIntermediate(r, id, enc)
      PROVE  Attributed'
  BY <1>1, <1>2, <1>4, DraftAttributed DEF CreateIntermediate
<1>5. ASSUME NEW id \in CaIds, Push(r, id) PROVE Attributed'
  BY <1>2, <1>5, DraftAttributed DEF Push
<1>6. ASSUME NEW id \in CaIds, NEW kind \in {"issued", "csr"}, Issue(r, id, kind)
      PROVE  Attributed'
  BY <1>2, <1>6, DraftAttributed DEF Issue
<1>7. QED
  BY <1>3, <1>4, <1>5, <1>6 DEF Create, Certify

LEMMA SignAttributed ==
  ASSUME KInv, NEW r \in Requests, Sign(r)
  PROVE  Attributed'
<1>0. PICK s \in Serials, c \in Certificate : s = Fresh /\ c = job[r].draft /\ s \notin Made
  BY DEF KInv, IInv, Sign, Savers, Fresh, Made
<1> DEFINE id == IF c.kind = "root" THEN Root ELSE s
<1>1. /\ minted' = [minted EXCEPT ![s] = c] /\ Made' = Made \cup {s} /\ minted'[s] = c
      /\ \A t \in Made : minted'[t] = minted[t]
  BY <1>0, NoCertificate DEF KInv, IInv, TypeOK, Sign, Made
<1>2. /\ keyring' = keyring /\ pc[r] = "signing"
      /\ pc' = [pc EXCEPT ![r] = IF c.kind = "csr" THEN "record" ELSE "key"]
      /\ \A q \in Requests \ {r} : job'[q] = job[q]
      /\ IF c.kind \in {"root", "intermediate"} THEN cas' = [cas EXCEPT ![id].cert = s]
                                                ELSE cas' = cas
  BY <1>0 DEF Sign, Goto, KInv, IInv, TypeOK
<1>3. c.enc => c.kind \in {"root", "intermediate"}
  BY <1>0, <1>2 DEF KInv, Attributed
<1>4. Encrypted'
  BY <1>1, <1>3, AttributedParts DEF KInv, Encrypted, IsCA
<1>5. Keys'
  <2> SUFFICES ASSUME NEW i \in CaIds, NEW p \in {cas'[i], keyring'[i]}, p.cert # None
               PROVE  p.cert \in Made' /\ IsCA(p.cert)' /\ CaId(p.cert)' = i
    BY DEF Keys
  <2>1. CASE p.cert = s /\ c.kind \in {"root", "intermediate"} /\ i = id
    BY <1>1, <2>1 DEF IsCA, CaId
  <2>2. CASE p \in {cas[i], keyring[i]}
    <3>1. p.cert \in Made /\ IsCA(p.cert) /\ CaId(p.cert) = i
      BY <2>2, AttributedParts DEF KInv, Keys
    <3>2. QED
      BY <1>1, <3>1 DEF IsCA, CaId
  <2>3. QED
    <3>1. s \in CaIds /\ Root \in CaIds /\ cas \in [CaIds -> Pair]
      BY DEF CaIds, KInv, IInv, TypeOK
    <3>2. CASE p = keyring'[i]
      BY <1>2, <2>2, <3>2
    <3>3. CASE p = cas'[i] /\ cas'[i] = cas[i]
      BY <2>2, <3>3
    <3>4. CASE p = cas'[i] /\ cas'[i] # cas[i]
      <4>1. c.kind \in {"root", "intermediate"} /\ i = id
        BY <1>2, <3>1, <3>4
      <4>2. p.cert = s
        BY <1>2, <3>1, <3>4, <4>1 DEF Pair
      <4>3. QED
        BY <2>1, <4>1, <4>2
    <3>5. QED
      BY <3>2, <3>3, <3>4
<1>6. Works(r)'
  BY <1>2 DEF Works, KInv, IInv, TypeOK
<1>7. ASSUME NEW q \in Requests \ {r} PROVE Works(q)'
  <2>1. Works(q) /\ pc'[q] = pc[q] /\ job'[q] = job[q]
    BY <1>2, AttributedParts DEF KInv, IInv, TypeOK
  <2>2. pc[q] \in {"secret", "unlock"} => Serial(q) \in Made
    BY DEF KInv, IInv, Savers, Saving
  <2>3. QED
    BY <1>1, <2>1, <2>2 DEF Works, Serial, IsCA
<1>8. QED
  BY <1>4, <1>5, <1>6, <1>7, AttributedPrimed

LEMMA SaveAttributed ==
  ASSUME KInv, NEW r \in Requests, Save(r)
  PROVE  Attributed'
<1>0. pc[r] \in Saving => Serial(r) \in Made /\ Serial(r) \in Serials
  BY DEF KInv, IInv, Savers, Made
<1>1. CASE SaveKey(r)
  <2>1. /\ pc[r] = "key" /\ minted' = minted /\ keyring' = keyring /\ job' = job
        /\ pc' = [pc EXCEPT ![r] = IF minted[Serial(r)].enc THEN "secret" ELSE "record"]
        /\ \/ cas' = cas
           \/ cas' = [cas EXCEPT ![CaId(Serial(r))].key = Serial(r)]
    BY <1>1 DEF SaveKey, Goto
  <2>2. \A id \in CaIds : cas'[id].cert = cas[id].cert
    BY <2>1 DEF KInv, IInv, TypeOK, Pair
  <2>3. Keys'
    BY <2>1, <2>2, AttributedParts DEF KInv, Keys, Made, IsCA, CaId
  <2>4. Encrypted'
    BY <2>1, AttributedParts DEF KInv, Encrypted, Made, IsCA
  <2>5. Works(r)'
    <3>1. minted[Serial(r)].enc => IsCA(Serial(r))
      BY <1>0, <2>1, AttributedParts DEF KInv, Encrypted, Saving
    <3>2. Serial(r)' = Serial(r)
      BY <2>1 DEF Serial
    <3>3. pc'[r] = "secret" => minted[Serial(r)].enc
      BY <2>1 DEF KInv, IInv, TypeOK
    <3>4. pc'[r] \in {"secret", "record"}
      BY <2>1 DEF KInv, IInv, TypeOK
    <3>5. QED
      BY <2>1, <3>1, <3>2, <3>3, <3>4 DEF Works, IsCA
  <2>6. \A q \in Requests \ {r} : Works(q)'
    BY <2>1, AttributedParts, OthersWork DEF KInv, IInv, TypeOK
  <2>7. QED
    BY <2>3, <2>4, <2>5, <2>6, AttributedPrimed
<1>2. CASE SavePassphrase(r)
  <2>1. /\ pc[r] = "secret" /\ UNCHANGED <<minted, cas, keyring, job>>
        /\ pc' = [pc EXCEPT ![r] = "unlock"]
    BY <1>2 DEF SavePassphrase, Goto
  <2>2. Keys' /\ Encrypted'
    BY <2>1, KeysStay
  <2>3. Works(r) /\ Works(r)'
    BY <2>1, AttributedParts DEF KInv, Works, IInv, TypeOK, Serial, IsCA
  <2>4. \A q \in Requests \ {r} : Works(q)'
    BY <2>1, AttributedParts, OthersWork DEF KInv, IInv, TypeOK
  <2>5. QED
    BY <2>2, <2>3, <2>4, AttributedPrimed
<1>3. CASE KeepUnlocked(r)
  <2>1. /\ pc[r] = "unlock" /\ UNCHANGED <<minted, cas, job>>
        /\ pc' = [pc EXCEPT ![r] = "record"]
        /\ keyring' = [keyring EXCEPT ![CaId(Serial(r))] = [cert |-> Serial(r), key |-> Serial(r)]]
    BY <1>3 DEF KeepUnlocked, Goto, files
  <2>2. Serial(r) \in Made /\ IsCA(Serial(r))
    BY <1>0, <2>1 DEF KInv, Attributed, Saving
  <2>3. \A id \in CaIds : keyring'[id] = keyring[id] \/ (id = CaId(Serial(r)) /\ keyring'[id].cert = Serial(r))
    BY <2>1 DEF KInv, IInv, TypeOK
  <2>4. Keys'
    BY <2>1, <2>2, <2>3, AttributedParts DEF KInv, Keys, Made, IsCA, CaId
  <2>5. QED
    BY <2>1, <2>4, LeaverAttributed
<1>4. CASE AddRecord(r)
  <2>1. /\ UNCHANGED <<minted, cas, keyring>> /\ pc' = [pc EXCEPT ![r] = "idle"]
        /\ \A q \in Requests \ {r} : job'[q] = job[q]
    BY <1>4 DEF AddRecord, Reply, Goto, KInv, IInv, TypeOK
  <2>2. QED
    BY <2>1, KeysStay, LeaverAttributed
<1>5. QED
  BY <1>1, <1>2, <1>3, <1>4, SignAttributed DEF Save

LEMMA DiscardAttributed ==
  ASSUME KInv, NEW r \in Requests, Delete(r) \/ Discard(r)
  PROVE  Attributed'
<1>1. ASSUME NEW removed, Trash(r, removed) PROVE Attributed'
  <2>1. /\ UNCHANGED <<minted, cas, keyring>> /\ pc' = [pc EXCEPT ![r] = "trash"]
        /\ \A q \in Requests \ {r} : job'[q] = job[q]
    BY <1>1 DEF Trash, Goto, KInv, IInv, TypeOK
  <2>2. QED
    BY <2>1, KeysStay, LeaverAttributed
<1>2. ASSUME NEW f \in Files, Move(r, f) PROVE Attributed'
  <2>1. /\ UNCHANGED <<minted, keyring, pc>>
        /\ job' = [job EXCEPT ![r].todo = @ \ {f}]
        /\ cas' = cas \/ cas' = [cas EXCEPT ![f[2]] = Nothing]
    BY <1>2 DEF Move
  <2>2. \A id \in CaIds : cas'[id] = cas[id] \/ cas'[id] = Nothing
    BY <2>1 DEF KInv, IInv, TypeOK
  <2>3. Keys'
    BY <2>1, <2>2, AttributedParts DEF KInv, Keys, Made, IsCA, CaId, Nothing
  <2>4. Encrypted'
    BY <2>1, AttributedParts DEF KInv, Encrypted, Made, IsCA
  <2>5. \A q \in Requests : Serial(q)' = Serial(q) /\ job'[q].draft = job[q].draft
    BY <2>1 DEF Serial, KInv, IInv, TypeOK, Job
  <2>6. \A q \in Requests : Works(q)'
    BY <2>1, <2>5, AttributedParts DEF KInv, Works, IsCA
  <2>7. QED
    BY <2>3, <2>4, <2>6, AttributedPrimed
<1>3. ASSUME NEW f \in Files, DirMissing(r, f) PROVE Attributed'
  <2>1. /\ UNCHANGED <<minted, cas, keyring>> /\ pc' = [pc EXCEPT ![r] = "idle"]
        /\ \A q \in Requests \ {r} : job'[q] = job[q]
    BY <1>3 DEF DirMissing, Fails, Reply, Goto, files, KInv, IInv, TypeOK
  <2>2. QED
    BY <2>1, KeysStay, LeaverAttributed
<1>4. CASE Unlist(r)
  <2>1. UNCHANGED <<minted, cas, keyring, job>> /\ pc' = [pc EXCEPT ![r] = "drop"]
    BY <1>4 DEF Unlist, Goto
  <2>2. QED
    BY <2>1, KeysStay, LeaverAttributed
<1>5. CASE Drop(r)
  <2>1. /\ UNCHANGED <<minted, cas>> /\ pc' = [pc EXCEPT ![r] = "idle"]
        /\ \A q \in Requests \ {r} : job'[q] = job[q]
        /\ \A id \in CaIds : keyring'[id] = keyring[id] \/ keyring'[id] = Nothing
    BY <1>5 DEF Drop, Reply, Goto, files, KInv, IInv, TypeOK
  <2>2. Keys'
    BY <2>1, AttributedParts DEF KInv, Keys, Made, IsCA, CaId, Nothing
  <2>3. QED
    BY <2>1, <2>2, LeaverAttributed
<1>6. QED
  BY <1>1, <1>2, <1>3, <1>4, <1>5 DEF Delete, DeleteCA, DeleteCert, Discard

LEMMA AttributedStep ==
  ASSUME KInv, [Next]_vars
  PROVE  Attributed'
<1>1. ASSUME NEW r \in Requests, GiveUp(r) \/ StorageError(r) PROVE Attributed'
  <2>1. /\ UNCHANGED <<minted, cas, keyring>> /\ pc' = [pc EXCEPT ![r] = "idle"]
        /\ \A q \in Requests \ {r} : job'[q] = job[q]
    BY <1>1 DEF GiveUp, StorageError, Fails, Reply, Goto, files, KInv, IInv, TypeOK
  <2>2. QED
    BY <2>1, KeysStay, LeaverAttributed
<1>2. CASE Restart
  <2>1. UNCHANGED <<minted, cas>> /\ \A id \in CaIds : keyring'[id] \in {cas[id], Nothing}
    BY <1>2 DEF Restart, Unlocked, files
  <2>2. Keys'
    BY <2>1, AttributedParts DEF KInv, Keys, Made, IsCA, CaId, Nothing
  <2>3. Encrypted'
    BY <2>1, AttributedParts DEF KInv, Encrypted, Made, IsCA
  <2>4. \A q \in Requests : Works(q)'
    BY <1>2 DEF Restart, Works
  <2>5. QED
    BY <2>2, <2>3, <2>4, AttributedPrimed
<1>3. CASE UNCHANGED vars
  BY <1>3 DEF vars, files, KInv, Attributed, Made, IsCA, CaId, Serial
<1>4. QED
  BY <1>1, <1>2, <1>3, BeginAttributed, SaveAttributed, DiscardAttributed DEF Next

\* A CA in the trash stays there, and nothing is written in its old place: a step
\* that moves no directory, and keeps what was stored for the CAs that were listed.
LEMMA TrashedStay ==
  ASSUME KInv, \A f : InTrash(f)' => InTrash(f), recorded \subseteq recorded',
         \A s \in recorded : minted'[s] = minted[s] /\ (cas[s].cert = None => cas'[s].cert = None)
  PROVE  TrashedCAs'
BY DEF KInv, TrashedCAs

LEMMA TrashedStep ==
  ASSUME KInv, [Next]_vars
  PROVE  TrashedCAs'
<1>1. ASSUME UNCHANGED <<minted, cas, trash>>, recorded \subseteq recorded' PROVE TrashedCAs'
  <2>1. \A f : InTrash(f)' => InTrash(f)
    BY <1>1 DEF InTrash
  <2>2. QED
    BY <1>1, <2>1, TrashedStay
<1>2. ASSUME NEW r \in Requests, Create(r) \/ Certify(r) PROVE TrashedCAs'
  BY <1>1, <1>2 DEF Create, Certify, CreateRoot, CreateIntermediate, Push, Issue, Draft, files
<1>3. ASSUME NEW r \in Requests, Sign(r) PROVE TrashedCAs'
  <2>0. PICK s \in Serials : s = Fresh /\ s \notin Made
    BY <1>3 DEF Sign, Fresh, Made
  <2>1. /\ trash' = trash /\ recorded' = recorded
        /\ \A t \in recorded : t # s /\ t \in Serials /\ minted'[t] = minted[t]
    BY <1>3, <2>0 DEF Sign, KInv, IInv, TypeOK, Accounts, Made
  <2>2. \A t \in recorded : cas'[t] = cas[t]
    <3>1. Root \notin Serials
      BY Markers DEF Serials
    <3>2. cas' = cas \/ cas' = [cas EXCEPT ![Root].cert = s] \/ cas' = [cas EXCEPT ![s].cert = s]
      BY <1>3, <2>0 DEF Sign
    <3>3. QED
      BY <2>1, <3>1, <3>2 DEF KInv, IInv, TypeOK, CaIds
  <2>3. \A f : InTrash(f)' => InTrash(f)
    BY <2>1 DEF InTrash
  <2>4. QED
    BY <2>1, <2>2, <2>3, TrashedStay
<1>4. ASSUME NEW r \in Requests, SaveKey(r) PROVE TrashedCAs'
  <2>1. /\ UNCHANGED <<minted, trash, recorded>>
        /\ cas' = cas \/ cas' = [cas EXCEPT ![CaId(Serial(r))].key = Serial(r)]
    BY <1>4 DEF SaveKey
  <2>2. \A t \in recorded : cas'[t].cert = cas[t].cert
    BY <2>1 DEF KInv, IInv, TypeOK, CaIds, Pair
  <2>3. \A f : InTrash(f)' => InTrash(f)
    BY <2>1 DEF InTrash
  <2>4. QED
    BY <2>1, <2>2, <2>3, TrashedStay
<1>5. ASSUME NEW r \in Requests, SavePassphrase(r) \/ KeepUnlocked(r) \/ AddRecord(r)
      PROVE  TrashedCAs'
  BY <1>1, <1>5 DEF SavePassphrase, KeepUnlocked, AddRecord, files
<1>6. ASSUME NEW r \in Requests, NEW removed, Trash(r, removed) PROVE TrashedCAs'
  <2>1. /\ UNCHANGED <<minted, cas, recorded>>
        /\ trash' = Append(trash, [removed |-> removed, files |-> {}])
    BY <1>6 DEF Trash
  <2>2. trash \in Seq(Bin)
    BY DEF KInv, IInv, TypeOK
  <2>3. /\ \A i \in DOMAIN trash : trash'[i] = trash[i]
        /\ \A i \in DOMAIN trash' : i \in DOMAIN trash \/ trash'[i].files = {}
    BY <2>1, <2>2
  <2>4. \A f : InTrash(f)' => InTrash(f)
    BY <2>3 DEF InTrash
  <2>5. QED
    BY <2>1, <2>4, TrashedStay
<1>7. ASSUME NEW r \in Requests, NEW f \in Files, Move(r, f) PROVE TrashedCAs'
  <2>1. /\ pc[r] = "trash" /\ mu = r /\ f \in job[r].todo /\ f = <<f[1], f[2]>>
        /\ UNCHANGED <<minted, recorded>>
    BY <1>7 DEF Move, Due, KInv, IInv, Owners, Files
  <2>2. /\ trash # <<>> /\ trash \in Seq(Bin) /\ Len(trash) \in DOMAIN trash
        /\ trash[Len(trash)].removed \subseteq Leaves(index)
        /\ f[2] \in trash[Len(trash)].removed /\ (f[1] = "dir" => IsCA(f[2]))
    BY <2>1, Markers DEF KInv, IInv, TypeOK, Removal
  <2>3. f[2] \in Serials /\ f[2] \in CaIds /\ f[2] \in recorded /\ f[2] \in Made
        /\ minted[f[2]].kind # "root"
    BY <2>2 DEF KInv, IInv, TypeOK, Accounts, Leaves, Made, CaIds
  <2>4. \A id \in CaIds : cas'[id] = cas[id] \/ cas'[id] = Nothing
    BY <1>7, <2>3 DEF Move, KInv, IInv, TypeOK
  <2>5. CASE trash' = trash
    <3>1. \A g : InTrash(g)' => InTrash(g)
      BY <2>5 DEF InTrash
    <3>2. \A s \in recorded : cas[s].cert = None => cas'[s].cert = None
      BY <2>4 DEF KInv, IInv, TypeOK, CaIds, Nothing
    <3>3. QED
      BY <2>1, <3>1, <3>2, TrashedStay
  <2>6. CASE trash' # trash
    <3>1. /\ trash' = [trash EXCEPT ![Len(trash)].files = @ \cup {f}]
          /\ cas' = IF f[1] = "dir" THEN [cas EXCEPT ![f[2]] = Nothing] ELSE cas
      BY <1>7, <2>6 DEF Move
    <3>2. /\ DOMAIN trash' = DOMAIN trash
          /\ \A i \in DOMAIN trash : /\ trash'[i].removed = trash[i].removed
                                     /\ trash'[i].files \subseteq trash[i].files \cup {f}
      BY <2>2, <3>1 DEF Bin
    <3>3. \A g : InTrash(g)' => InTrash(g) \/ g = f
      BY <3>2 DEF InTrash
    <3>4. f[1] = "dir" => minted[f[2]].kind = "intermediate" /\ cas'[f[2]].cert = None
      <4> SUFFICES ASSUME f[1] = "dir"
                   PROVE  minted[f[2]].kind = "intermediate" /\ cas'[f[2]].cert = None
        OBVIOUS
      <4>1. minted[f[2]].kind = "intermediate"
        BY <2>2, <2>3 DEF IsCA
      <4>2. cas'[f[2]] = Nothing
        BY <2>3, <3>1 DEF KInv, IInv, TypeOK
      <4>3. QED
        BY <4>1, <4>2 DEF Nothing
    <3>5. ASSUME NEW s \in Serials, InTrash(<<"dir", s>>)'
          PROVE  s \in recorded /\ minted[s].kind = "intermediate" /\ cas'[s].cert = None
      <4>1. CASE InTrash(<<"dir", s>>)
        <5>1. s \in recorded /\ minted[s].kind = "intermediate" /\ cas[s].cert = None
          BY <4>1 DEF KInv, TrashedCAs
        <5>2. QED
          BY <2>4, <5>1 DEF CaIds, Nothing
      <4>2. CASE <<"dir", s>> = f
        BY <2>3, <3>4, <4>2
      <4>3. QED
        BY <3>3, <3>5, <4>1, <4>2
    <3>6. QED
      BY <2>1, <3>5 DEF TrashedCAs
  <2>7. QED
    BY <2>5, <2>6
<1>8. ASSUME NEW r \in Requests, Delete(r) PROVE TrashedCAs'
  BY <1>6, <1>8 DEF Delete, DeleteCA, DeleteCert
<1>9. ASSUME NEW r \in Requests, Discard(r) PROVE TrashedCAs'
  <2>1. ASSUME NEW f \in Files, DirMissing(r, f) PROVE TrashedCAs'
    BY <1>1, <2>1 DEF DirMissing, files
  <2>2. CASE Unlist(r) \/ Drop(r)
    BY <1>1, <2>2 DEF Unlist, Drop, files
  <2>3. QED
    BY <1>7, <1>9, <2>1, <2>2 DEF Discard
<1>10. ASSUME NEW r \in Requests, GiveUp(r) \/ StorageError(r) PROVE TrashedCAs'
  BY <1>1, <1>10 DEF GiveUp, StorageError, files
<1>11. CASE Restart \/ UNCHANGED vars
  BY <1>1, <1>11 DEF Restart, vars, files
<1>12. QED
  BY <1>2, <1>3, <1>4, <1>5, <1>8, <1>9, <1>10, <1>11 DEF Next, Save

----------------------------------------------------------------------------
(* The way up.                                                             *)

Up(x) == IF x \in index /\ minted[x].kind = "intermediate" THEN minted[x].issuer ELSE None

\* There is a walk of any length: a shortest one that is missing would be one step
\* longer than one that is there.
LEMMA Climbs ==
  ASSUME NEW id, NEW M \in Nat
  PROVE  \E g : g = [n \in 0 .. M |-> IF n = 0 THEN id ELSE Up(g[n - 1])]
<1> DEFINE Has(k) == \E g : g = [n \in 0 .. k |-> IF n = 0 THEN id ELSE Up(g[n - 1])]
           Missing == {k \in Nat : ~ Has(k)}
<1>1. SUFFICES ASSUME Missing # {} PROVE FALSE
  OBVIOUS
<1>2. PICK k \in Missing : \A m \in Missing : ~ (<<m, k>> \in OpToRel(<, Nat))
  <2> HIDE DEF Missing
  <2>1. Missing \subseteq Nat
    BY DEF Missing
  <2>2. QED
    BY <1>1, <2>1, WFMin, NatLessThanWellFounded
<1>3. \A m \in Nat : m < k => Has(m)
  BY <1>2 DEF OpToRel
<1>4. CASE k = 0
  <2> DEFINE g == [n \in 0 .. k |-> id]
  <2>1. g = [n \in 0 .. k |-> IF n = 0 THEN id ELSE Up(g[n - 1])]
    BY <1>4
  <2>2. QED
    BY <1>2, <2>1
<1>5. CASE k # 0
  <2>0. k \in Nat
    BY <1>2
  <2>1. k \in Nat /\ k - 1 \in Nat /\ k - 1 < k
    <3> HIDE DEF Missing
    <3>1. QED
      BY <2>0, <1>5
  <2>2. PICK g : g = [n \in 0 .. k - 1 |-> IF n = 0 THEN id ELSE Up(g[n - 1])]
    BY <1>3, <2>1
  <2> DEFINE h == [n \in 0 .. k |-> IF n = k THEN Up(g[k - 1]) ELSE g[n]]
  <2>3. \A n \in 0 .. k : h[n] = IF n = 0 THEN id ELSE Up(h[n - 1])
    <3> SUFFICES ASSUME NEW n \in 0 .. k PROVE h[n] = IF n = 0 THEN id ELSE Up(h[n - 1])
      OBVIOUS
    <3>1. CASE n = k
      <4>1. h[n] = Up(g[k - 1])
        BY <3>1
      <4>2. h[n - 1] = g[k - 1]
        BY <2>1, <3>1
      <4>3. QED
        BY <1>5, <3>1, <4>1, <4>2
    <3>2. CASE n # k
      <4>1. n \in 0 .. k - 1 /\ h[n] = g[n]
        BY <2>1, <3>2
      <4>2. g[n] = IF n = 0 THEN id ELSE Up(g[n - 1])
        BY <2>2, <4>1
      <4>3. n # 0 => h[n - 1] = g[n - 1]
        BY <2>1, <4>1
      <4>4. QED
        BY <4>1, <4>2, <4>3
    <3>3. QED
      BY <3>1, <3>2
  <2>4. h = [n \in 0 .. k |-> IF n = 0 THEN id ELSE Up(h[n - 1])]
    <3> HIDE DEF Up
    <3>1. h = [n \in 0 .. k |-> h[n]]
      OBVIOUS
    <3> HIDE DEF h
    <3>2. QED
      BY <2>3, <3>1
  <2>5. QED
    BY <1>2, <2>4
<1>6. QED
  BY <1>4, <1>5

\* Walk is the walk that its definition describes.
LEMMA WalkUnfolds ==
  ASSUME NEW id
  PROVE  Walk(id) = [n \in 0 .. MaxSerial + 1 |-> IF n = 0 THEN id ELSE Up(Walk(id)[n - 1])]
<1>1. MaxSerial + 1 \in Nat
  BY Bounds
<1>2. PICK g : g = [n \in 0 .. MaxSerial + 1 |-> IF n = 0 THEN id ELSE Up(g[n - 1])]
  BY <1>1, Climbs
<1>3. QED
  BY <1>2 DEF Walk, Up

\* A CA with a chain is in its place itself.
LEMMA ChainIsValid ==
  ASSUME NEW id \in CaIds, HasChain(id)
  PROVE  ValidCAID(id)
<1>1. 0 \in 0 .. MaxSerial + 1
  BY Bounds
<1>2. Walk(id)[0] = id
  BY <1>1, WalkUnfolds
<1>3. PICK n \in 0 .. MaxSerial + 1 : \A m \in 0 .. n : ValidCAID(Walk(id)[m])
  BY DEF HasChain
<1>4. 0 \in 0 .. n
  BY <1>3, Bounds
<1>5. QED
  BY <1>2, <1>3, <1>4

----------------------------------------------------------------------------
LEMMA InitKInv ==
  ASSUME Init PROVE KInv
<1>1. Attributed
  BY DEF Init, Attributed, Made, Nothing, Idle
<1>2. TrashedCAs
  BY DEF Init, TrashedCAs, InTrash
<1>3. QED
  BY <1>1, <1>2, InitIInv DEF KInv

LEMMA KeysStep == KInv /\ [Next]_vars => KInv'
<1>1. SUFFICES ASSUME KInv, [Next]_vars PROVE KInv'
  OBVIOUS
<1>2. IInv'
  BY <1>1, NextKeeps DEF KInv
<1>3. QED
  BY <1>1, <1>2, AttributedStep, TrashedStep DEF KInv

\* A key that is there belongs to the CA it is found under, and the CAs in the trash
\* were listed and are nowhere else (SaveCA, keepUnlocked, trash).
THEOREM KeysInvariant == Spec => []KInv
<1>1. QED
  BY InitKInv, KeysStep, PTL DEF Spec

\* What a request has signed with is no CA in the trash, when it asks for one that
\* is in its place.
LEMMA SoundDraft ==
  ASSUME KInv, NEW r \in Requests, NEW kind, NEW issuer, NEW enc,
         NEW id \in CaIds, ValidCAID(id) \/ id = Root, NEW p \in Loadable(id),
         Draft(r, kind, issuer, p.cert, enc)
  PROVE  ~ InTrash(<<"dir", job'[r].draft.by>>)
<1>1. p.cert \in Made /\ p.cert \in Serials /\ IsCA(p.cert) /\ CaId(p.cert) = id
  BY DEF KInv, Attributed, Loadable, Made
<1>2. job'[r].draft.by = p.cert
  BY DEF Draft, KInv, IInv, TypeOK, Job
<1>3. SUFFICES ASSUME InTrash(<<"dir", p.cert>>) PROVE FALSE
  BY <1>2
<1>4. minted[p.cert].kind = "intermediate" /\ cas[p.cert].cert = None
  BY <1>1, <1>3 DEF KInv, TrashedCAs
<1>5. p.cert = id
  BY <1>1, <1>4 DEF CaId
<1>6. id # Root
  BY <1>1, <1>5, Markers DEF Serials
<1>7. QED
  BY <1>4, <1>5, <1>6 DEF ValidCAID

\* A request that begins after the directory of a CA was moved to the trash never
\* signs with its key, whether it finds it in the keyring or through the push
\* (loadCA, gnoiPush, DeleteCA's drop).
THEOREM TrashedCAsSignNothing == Spec => TrashedSignsNothing
<1> DEFINE Sound == \A r \in Requests :
      pc[r] = "idle" /\ pc'[r] = "signing" => ~ InTrash(<<"dir", job'[r].draft.by>>)
<1>1. KInv /\ [Next]_vars => [Sound]_vars
  <2> SUFFICES ASSUME KInv, [Next]_vars, NEW r \in Requests, pc[r] = "idle", pc'[r] = "signing"
               PROVE  ~ InTrash(<<"dir", job'[r].draft.by>>)
    OBVIOUS
  <2>1. \A q \in Requests : pc' = [pc EXCEPT ![q] = "signing"] => q = r
    BY DEF KInv, IInv, TypeOK
  <2>2. Create(r) \/ Certify(r)
    <3>1. ASSUME NEW q \in Requests, Create(q) \/ Certify(q) PROVE q = r
      BY <2>1, <3>1 DEF Create, Certify, CreateRoot, CreateIntermediate, Push, Issue, Draft, Goto
    <3>2. ASSUME NEW q \in Requests, Save(q) PROVE FALSE
      BY <3>2 DEF Save, Sign, SaveKey, SavePassphrase, KeepUnlocked, AddRecord, Reply, Goto,
        KInv, IInv, TypeOK
    <3>3. ASSUME NEW q \in Requests, Delete(q) \/ Discard(q) PROVE FALSE
      BY <3>3 DEF Delete, DeleteCA, DeleteCert, Trash, Discard, Move, DirMissing, Fails, Unlist,
        Drop, Reply, Goto, KInv, IInv, TypeOK
    <3>4. ASSUME NEW q \in Requests, GiveUp(q) \/ StorageError(q) PROVE FALSE
      BY <3>4 DEF GiveUp, StorageError, Fails, Reply, Goto, KInv, IInv, TypeOK
    <3>5. CASE Restart \/ UNCHANGED vars
      BY <3>5 DEF Restart, vars
    <3>6. QED
      BY <3>1, <3>2, <3>3, <3>4, <3>5 DEF Next
  <2>3. ASSUME NEW enc \in BOOLEAN, CreateRoot(r, enc) PROVE ~ InTrash(<<"dir", job'[r].draft.by>>)
    <3>1. job'[r].draft.by = None
      BY <2>3 DEF CreateRoot, Draft, KInv, IInv, TypeOK, Job
    <3>2. \A i \in DOMAIN trash : trash[i].removed \subseteq Serials
      <4>1. trash \in Seq(Bin)
        BY DEF KInv, IInv, TypeOK
      <4>2. \A i \in DOMAIN trash : trash[i] \in Bin
        BY <4>1
      <4>3. QED
        BY <4>2 DEF Bin
    <3>3. None \notin Serials
      BY Markers DEF Serials
    <3>4. QED
      BY <3>1, <3>2, <3>3 DEF InTrash
  <2>4. ASSUME NEW enc \in BOOLEAN, NEW id \in CaIds, CreateIntermediate(r, id, enc)
        PROVE  ~ InTrash(<<"dir", job'[r].draft.by>>)
    <3>1. Normalized(id) \in CaIds /\ (ValidCAID(Normalized(id)) \/ Normalized(id) = Root)
      BY DEF Normalized, CaIds
    <3>2. QED
      BY <2>4, <3>1, SoundDraft DEF CreateIntermediate
  <2>5. ASSUME NEW id \in CaIds, Push(r, id) PROVE ~ InTrash(<<"dir", job'[r].draft.by>>)
    BY <2>5, ChainIsValid, SoundDraft DEF Push
  <2>6. ASSUME NEW id \in CaIds, NEW kind \in {"issued", "csr"}, Issue(r, id, kind)
        PROVE  ~ InTrash(<<"dir", job'[r].draft.by>>)
    BY <2>6, SoundDraft DEF Issue
  <2>7. QED
    BY <2>2, <2>3, <2>4, <2>5, <2>6 DEF Create, Certify
<1>2. QED
  BY <1>1, KeysInvariant, PTL DEF Spec, TrashedSignsNothing
=============================================================================
