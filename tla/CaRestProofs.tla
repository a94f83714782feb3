---------------------------- MODULE CaRestProofs ----------------------------
(***************************************************************************)
(* Theorems about CaStore where the requests come one after the other and  *)
(* no root is made again: a deletion takes the whole subtree and nothing   *)
(* else, and what is left can be backed up and restored.                   *)
(***************************************************************************)
EXTENDS MCCaStore, CaStoreProofs, FiniteSetTheorems

----------------------------------------------------------------------------
(* Walks.                                                                  *)

LEMMA Least ==
  ASSUME NEW T, T \subseteq Nat, T # {}
  PROVE  \E k \in T : \A m \in T : k <= m
<1>1. PICK k \in T : \A m \in T : ~ (<<m, k>> \in OpToRel(<, Nat))
  BY WFMin, NatLessThanWellFounded
<1>2. ASSUME NEW m \in T PROVE k <= m
  <2>1. k \in Nat /\ m \in Nat
    OBVIOUS
  <2>2. ~ (m < k)
    BY <1>1, <2>1 DEF OpToRel
  <2>3. QED
    BY <2>1, <2>2
<1>3. QED
  BY <1>2

LEMMA WalkAll ==
  \A id : Walk(id) = [n \in 0 .. MaxSerial + 1 |-> IF n = 0 THEN id ELSE Up(Walk(id)[n - 1])]
BY WalkUnfolds

LEMMA WalkSteps ==
  \A id : /\ Walk(id)[0] = id
          /\ \A n \in 0 .. MaxSerial : Walk(id)[n + 1] = Up(Walk(id)[n])
<1> SUFFICES ASSUME NEW id
             PROVE  /\ Walk(id)[0] = id
                    /\ \A n \in 0 .. MaxSerial : Walk(id)[n + 1] = Up(Walk(id)[n])
  OBVIOUS
<1>1. Walk(id) = [n \in 0 .. MaxSerial + 1 |-> IF n = 0 THEN id ELSE Up(Walk(id)[n - 1])]
  BY WalkAll
<1>2. 0 \in 0 .. MaxSerial + 1
  BY Bounds
<1>3. ASSUME NEW n \in 0 .. MaxSerial PROVE Walk(id)[n + 1] = Up(Walk(id)[n])
  <2>1. n + 1 \in 0 .. MaxSerial + 1 /\ n + 1 # 0 /\ (n + 1) - 1 = n
    BY Bounds
  <2> DEFINE w == Walk(id)
  <2>2. w = [k \in 0 .. MaxSerial + 1 |-> IF k = 0 THEN id ELSE Up(w[k - 1])]
    BY <1>1
  <2> HIDE DEF w
  <2>3. w[n + 1] = Up(w[(n + 1) - 1])
    BY <2>1, <2>2
  <2>4. QED
    BY <2>1, <2>3 DEF w
<1>4. QED
  BY <1>1, <1>2, <1>3

LEMMA WalkStepsTo ==
  \A id : /\ Walk(id)[0] = id
          /\ \A n \in 0 .. MaxSerial : \A x : Walk(id)[n] = x => Walk(id)[n + 1] = Up(x)
BY WalkSteps

LEMMA WalkStepsPrimed ==
  (\A id : /\ Walk(id)[0] = id
           /\ \A n \in 0 .. MaxSerial : \A x : Walk(id)[n] = x => Walk(id)[n + 1] = Up(x))'
BY WalkStepsTo, PTL

\* The walk from s goes on as the walk from its issuer.
LEMMA WalkShift ==
  ASSUME NEW s, NEW p, Up(s) = p
  PROVE  \A n \in 0 .. MaxSerial : Walk(s)[n + 1] = Walk(p)[n]
<1> DEFINE Wrong == {n \in 0 .. MaxSerial : Walk(s)[n + 1] # Walk(p)[n]}
<1>1. SUFFICES ASSUME Wrong # {} PROVE FALSE
  OBVIOUS
<1>2. PICK k \in Wrong : \A m \in Wrong : k <= m
  <2>1. Wrong \subseteq Nat
    BY Bounds
  <2> HIDE DEF Wrong
  <2>2. QED
    BY <1>1, <2>1, Least
<1>3. k \in 0 .. MaxSerial /\ k \in Nat /\ MaxSerial \in Nat
  BY <1>2, Bounds
<1>4. CASE k = 0
  <2>1. Walk(s)[0 + 1] = Up(Walk(s)[0]) /\ Walk(s)[0] = s /\ Walk(p)[0] = p
    BY <1>3, <1>4, WalkSteps
  <2>2. QED
    BY <1>2, <1>4, <2>1
<1>5. CASE k # 0
  <2>1. k - 1 \in 0 .. MaxSerial /\ ~ (k <= k - 1) /\ (k - 1) + 1 = k
    BY <1>3, <1>5
  <2>2. Walk(s)[k] = Walk(p)[k - 1]
    BY <1>2, <2>1
  <2>3. Walk(s)[k + 1] = Up(Walk(s)[k]) /\ Walk(p)[k] = Up(Walk(p)[k - 1])
    BY <1>3, <2>1, WalkSteps
  <2>4. QED
    BY <1>2, <2>2, <2>3
<1>6. QED
  BY <1>4, <1>5

\* A step that changes nothing on the way up leaves the walk as it is.
LEMMA WalkSame ==
  ASSUME NEW C, \A x \in C : Up(x) \in C /\ Up(x)' = Up(x), NEW id \in C
  PROVE  \A n \in 0 .. MaxSerial + 1 : Walk(id)'[n] = Walk(id)[n] /\ Walk(id)[n] \in C
<1> DEFINE Wrong == {n \in 0 .. MaxSerial + 1 :
                       ~ (Walk(id)'[n] = Walk(id)[n] /\ Walk(id)[n] \in C)}
<1>1. SUFFICES ASSUME Wrong # {} PROVE FALSE
  OBVIOUS
<1>2. PICK k \in Wrong : \A m \in Wrong : k <= m
  <2>1. Wrong \subseteq Nat
    BY Bounds
  <2> HIDE DEF Wrong
  <2>2. QED
    BY <1>1, <2>1, Least
<1>3. k \in 0 .. MaxSerial + 1 /\ k \in Nat /\ MaxSerial \in Nat
  BY <1>2, Bounds
<1>4. CASE k = 0
  BY <1>2, <1>4, WalkSteps, WalkStepsPrimed
<1>5. CASE k # 0
  <2>1. k - 1 \in 0 .. MaxSerial /\ k - 1 \in 0 .. MaxSerial + 1 /\ ~ (k <= k - 1) /\ (k - 1) + 1 = k
    BY <1>3, <1>5
  <2>2. Walk(id)'[k - 1] = Walk(id)[k - 1] /\ Walk(id)[k - 1] \in C
    BY <1>2, <2>1
  <2>3. Walk(id)[k] = Up(Walk(id)[k - 1]) /\ Walk(id)'[k] = Up(Walk(id)[k - 1])'
    BY <2>1, <2>2, WalkSteps, WalkStepsPrimed
  <2>4. QED
    BY <1>2, <2>2, <2>3
<1>6. QED
  BY <1>4, <1>5

\* Beyond the root there is nothing.
LEMMA WalkEnds ==
  ASSUME NEW s, NEW k \in 0 .. MaxSerial + 1, Walk(s)[k] \in {Root, None},
         Up(Root) = None, Up(None) = None
  PROVE  \A n \in 0 .. MaxSerial + 1 : n > k => Walk(s)[n] = None
<1> DEFINE Wrong == {n \in 0 .. MaxSerial + 1 : n > k /\ Walk(s)[n] # None}
<1>1. SUFFICES ASSUME Wrong # {} PROVE FALSE
  OBVIOUS
<1>2. PICK m \in Wrong : \A n \in Wrong : m <= n
  <2>1. Wrong \subseteq Nat
    BY Bounds
  <2> HIDE DEF Wrong
  <2>2. QED
    BY <1>1, <2>1, Least
<1>3. /\ m \in 0 .. MaxSerial + 1 /\ m \in Nat /\ k \in Nat /\ MaxSerial \in Nat /\ m > k
      /\ m - 1 \in 0 .. MaxSerial /\ m - 1 \in 0 .. MaxSerial + 1 /\ ~ (m <= m - 1) /\ (m - 1) + 1 = m
  BY <1>2, Bounds
<1>4. Walk(s)[m - 1] \in {Root, None}
  <2>1. CASE m - 1 = k
    BY <2>1
  <2>2. CASE m - 1 > k
    BY <1>2, <1>3, <2>2
  <2>3. QED
    BY <1>3, <2>1, <2>2
<1>5. Walk(s)[m] = Up(Walk(s)[m - 1])
  BY <1>3, WalkSteps
<1>6. QED
  BY <1>2, <1>4, <1>5

----------------------------------------------------------------------------
(* What follows from the invariant.                                        *)

LEMMA Counted ==
  ASSUME NEW S \in SUBSET Serials
  PROVE  IsFiniteSet(S) /\ Cardinality(S) \in Nat /\ Cardinality(S) <= MaxSerial + 1
<1>1. IsFiniteSet(Serials) /\ Cardinality(Serials) = MaxSerial + 1
  BY FS_Interval, Bounds DEF Serials
<1>2. QED
  BY <1>1, FS_Subset, FS_CardinalityType

LEMMA QuietFacts ==
  ASSUME KInv, Quiet
  PROVE  mu = None /\ Saved = {} /\ Removing = {} /\ Todo = {} /\ \A f : ~ Gone(f)
<1>1. mu = None
  BY DEF KInv, IInv, TypeOK, Owners, Quiet
<1>2. QED
  BY <1>1 DEF Saved, Saving, Quiet, Removing, Todo, Gone

LEMMA NoOrphansHere ==
  ASSUME KInv, Orderly
  PROVE  NoOrphans
BY DEF Orderly, Issuers, Signed, NoOrphans, ListedCAs

LEMMA SnapshotHere ==
  ASSUME KInv, Orderly, Quiet
  PROVE  Snapshot
<1>1. mu = None /\ Saved = {} /\ Removing = {} /\ Todo = {} /\ \A f : ~ Gone(f)
  BY QuietFacts
<1>2. /\ index \subseteq Made /\ index \subseteq Serials /\ recorded \subseteq Made
      /\ Root \notin Serials /\ None \notin Serials
  BY Markers DEF KInv, IInv, TypeOK, Accounts, Made, Serials
<1>3. \A s \in index : Present(s)
  BY <1>1 DEF Orderly, Places, Present
<1>4. \A s, t \in index : IsCA(s) /\ IsCA(t) /\ CaId(s) = CaId(t) => s = t
  BY <1>2 DEF Orderly, OneRoot, IsCA, CaId
<1>5. ASSUME NEW id \in CaIds, cas[id] # Nothing PROVE id \in ListedCAs
  <2>1. cas[id].cert \in index
    BY <1>1, <1>5 DEF Orderly, Places
  <2>2. IsCA(cas[id].cert) /\ CaId(cas[id].cert) = id
    BY <1>2, <2>1 DEF KInv, Attributed
  <2>3. QED
    BY <2>1, <2>2 DEF ListedCAs
<1>6. pems \cup keys \subseteq index
  BY <1>1 DEF Orderly, Places
<1>7. ASSUME NEW s \in index, minted[s].kind # "root"
      PROVE  \E ca \in index : /\ IsCA(ca) /\ CaId(ca) = minted[s].issuer /\ ca = minted[s].by
                               /\ \E n \in 0 .. MaxSerial + 1 : Walk(CaId(ca))[n] = Root
  <2> DEFINE ca == minted[s].by
  <2>1. ca \in index /\ IsCA(ca) /\ CaId(ca) = minted[s].issuer
    BY <1>7 DEF Orderly, Issuers, Signed
  <2>2. \E n \in 0 .. MaxSerial + 1 : Walk(CaId(ca))[n] = Root
    <3>1. CASE minted[ca].kind = "root"
      <4>1. CaId(ca) = Root
        BY <3>1 DEF CaId
      <4>2. Walk(Root)[0] = Root /\ 0 \in 0 .. MaxSerial + 1
        BY WalkSteps, Bounds
      <4>3. QED
        BY <4>1, <4>2
    <3>2. CASE minted[ca].kind = "intermediate"
      <4>1. CaId(ca) = ca
        BY <3>2 DEF CaId
      <4>2. PICK k \in 0 .. Cardinality(recorded) : Walk(ca)[k] = Root
        BY <2>1, <3>2 DEF Orderly, Issuers
      <4>3. Cardinality(recorded) \in Nat /\ Cardinality(recorded) <= MaxSerial + 1
        BY Counted DEF KInv, IInv, TypeOK
      <4>4. k \in 0 .. MaxSerial + 1
        BY <4>3, Bounds
      <4>5. QED
        BY <4>1, <4>2, <4>4
    <3>3. QED
      BY <2>1, <3>1, <3>2 DEF IsCA
  <2>3. QED
    BY <2>1, <2>2
<1>8. ASSUME NEW i \in DOMAIN trash
      PROVE  /\ trash[i].removed # {}
             /\ \A s \in trash[i].removed : FilesOf(s) \subseteq trash[i].files
             /\ \A s \in trash[i].removed :
                  LET issuers == HistoryCAs(minted[s].issuer)
                  IN issuers # {} => minted[s].by \in issuers
  <2>1. trash[i].removed # {} /\ \A s \in trash[i].removed : FilesOf(s) \subseteq trash[i].files
    BY <1>1 DEF Orderly, Bins
  <2>2. ASSUME NEW s \in trash[i].removed PROVE minted[s].by \in HistoryCAs(minted[s].issuer)
    <3>1. /\ minted[s].by \in recorded /\ IsCA(minted[s].by)
          /\ CaId(minted[s].by) = minted[s].issuer
      BY <2>2 DEF Orderly, Bins
    <3>2. minted[s].by \in index \cup UNION {trash[j].removed : j \in DOMAIN trash}
      BY <3>1 DEF Orderly, Bins
    <3>3. QED
      BY <3>1, <3>2 DEF HistoryCAs
  <2>3. QED
    BY <2>1, <2>2
<1>9. QED
  BY <1>3, <1>4, <1>5, <1>6, <1>7, <1>8 DEF Snapshot

LEMMA RestFollows == SInv => AtRest
<1>1. SUFFICES ASSUME SInv, alone PROVE AtRest
  BY DEF AtRest
<1>2. KInv /\ Orderly
  BY <1>1 DEF SInv
<1>3. SnapshotsRestore
  BY <1>2, SnapshotHere DEF SnapshotsRestore
<1>4. KeyringIsStored
  <2>1. SUFFICES ASSUME Quiet, NEW id \in CaIds PROVE keyring[id] \in {Nothing, cas[id]}
    BY DEF KeyringIsStored
  <2>2. Removing = {}
    BY <1>2, <2>1, QuietFacts
  <2>3. QED
    BY <1>2, <2>2 DEF Orderly, Opened
<1>5. SecretsTravel
  <2>1. SUFFICES ASSUME Quiet, NEW s \in Made, InTrash(<<"dir", s>>) PROVE secrets[s] = None
    BY DEF SecretsTravel
  <2>2. Todo = {} /\ s \in Serials
    BY <1>2, <2>1, QuietFacts DEF Made
  <2>3. QED
    BY <1>2, <2>1, <2>2 DEF Orderly, Opened
<1>6. QED
  BY <1>2, <1>3, <1>4, <1>5, NoOrphansHere DEF AtRest

LEMMA InitSInv ==
  ASSUME SceneInit PROVE SInv
<1>1. Init
  BY DEF SceneInit
<1>2. Single /\ OneRoot /\ Issuers /\ Places /\ Removals /\ Bins /\ Opened
  <2>1. Saved = {} /\ Removing = {} /\ Todo = {} /\ Made = {}
    BY <1>1 DEF Init, Saved, Saving, Removing, Todo, Made
  <2>2. \A f : ~ InTrash(f)
    BY <1>1 DEF Init, InTrash
  <2>3. Single /\ OneRoot
    BY <1>1, <2>1 DEF Init, Single, OneRoot
  <2>4. Issuers /\ Removals
    BY <1>1, <2>1 DEF Init, Issuers, Removals
  <2>5. Places
    BY <1>1, <2>1 DEF Init, Places, Saving
  <2>6. Bins
    BY <1>1 DEF Init, Bins
  <2>7. Opened
    BY <1>1, <2>1, <2>2 DEF Init, Opened
  <2>8. QED
    BY <2>3, <2>4, <2>5, <2>6, <2>7
<1>3. QED
  BY <1>1, <1>2, InitKInv DEF SInv, Orderly

----------------------------------------------------------------------------
(* What a step may count on.                                               *)

LEMMA OneAtATime ==
  ASSUME IsFiniteSet(Requests), Cardinality(Busy') <= 1
  PROVE  Single'
<1>1. Busy' \subseteq Requests
  BY DEF Busy
<1>2. SUFFICES ASSUME NEW q \in Requests, NEW r \in Requests,
                      pc'[q] # "idle", pc'[r] # "idle", q # r
               PROVE  FALSE
  BY DEF Single
<1>3. {q, r} \subseteq Busy' /\ IsFiniteSet(Busy')
  BY <1>1, <1>2, FS_Subset DEF Busy
<1>4. Cardinality({q, r}) = 2
  <2>1. Cardinality({q}) = 1 /\ IsFiniteSet({q})
    BY FS_Singleton
  <2>2. Cardinality({q} \cup {r}) = 1 + 1
    BY <1>2, <2>1, FS_AddElement
  <2>3. {q, r} = {q} \cup {r}
    OBVIOUS
  <2>4. QED
    BY <2>2, <2>3
<1>5. Cardinality({q, r}) <= Cardinality(Busy') /\ Cardinality(Busy') \in Nat
  BY <1>3, FS_Subset, FS_CardinalityType
<1>6. QED
  BY <1>4, <1>5

\* Who is alone: the others are idle, and mu is its own or free.
Facts(r) ==
  /\ \A q \in Requests : q # r => pc[q] = "idle"
  /\ pc[r] \in {"trash", "drop"} =>
       /\ mu = r /\ Saved = {} /\ Todo = job[r].todo
       /\ Removing = trash[Len(trash)].removed
  /\ pc[r] \notin {"trash", "drop"} =>
       mu = None /\ Removing = {} /\ Todo = {} /\ \A f : ~ Gone(f)
  /\ pc[r] \in Saving => Saved = {Serial(r)}
  /\ pc[r] \notin Saving => Saved = {}

LEMMA FactsHold ==
  IInv /\ Single => \A r \in Requests : pc[r] # "idle" => Facts(r)
<1> SUFFICES ASSUME IInv, Single, NEW r \in Requests, pc[r] # "idle" PROVE Facts(r)
  OBVIOUS
<1>1. \A q \in Requests : q # r => pc[q] = "idle"
  BY DEF Single
<1>2. pc[r] \in Saving => Saved = {Serial(r)}
  BY <1>1 DEF Saved, Saving
<1>3. pc[r] \notin Saving => Saved = {}
  BY <1>1 DEF Saved, Saving
<1>4. pc[r] \in {"trash", "drop"} => mu = r
  BY DEF IInv, Owners
<1>5. pc[r] \notin {"trash", "drop"} => mu = None
  BY <1>1 DEF IInv, TypeOK, Owners
<1>6. pc[r] \in {"trash", "drop"} => Saved = {}
  BY <1>3 DEF Saving
<1>7. r # None
  BY Markers
<1>8. QED
  BY <1>1, <1>2, <1>3, <1>4, <1>5, <1>6, <1>7 DEF Facts, Removing, Todo, Gone

LEMMA FactsPrimed ==
  (IInv /\ Single)' => (\A r \in Requests : pc[r] # "idle" => Facts(r))'
BY FactsHold, PTL

LEMMA Restful ==
  IInv /\ Quiet => mu = None /\ Saved = {} /\ Removing = {} /\ Todo = {} /\ \A f : ~ Gone(f)
<1> SUFFICES ASSUME IInv, Quiet
             PROVE  mu = None /\ Saved = {} /\ Removing = {} /\ Todo = {} /\ \A f : ~ Gone(f)
  OBVIOUS
<1>1. mu = None
  BY DEF IInv, TypeOK, Owners, Quiet
<1>2. QED
  BY <1>1 DEF Saved, Saving, Quiet, Removing, Todo, Gone

LEMMA RestfulPrimed ==
  (IInv /\ Quiet)' => (mu = None /\ Saved = {} /\ Removing = {} /\ Todo = {} /\ \A f : ~ Gone(f))'
BY Restful, PTL

\* One request is busy after a step: it was the only one before, if it was busy.
LEMMA WasAlone ==
  ASSUME KInv, KInv', Single', NEW r \in Requests, NEW at, pc' = [pc EXCEPT ![r] = at],
         at # "idle"
  PROVE  /\ Facts(r)' /\ pc'[r] = at
         /\ pc[r] = "idle" => Quiet /\ mu = None /\ Saved = {} /\ Removing = {} /\ Todo = {}
                              /\ \A f : ~ Gone(f)
<1>1. pc'[r] = at
  BY DEF KInv, IInv, TypeOK
<1>2. Facts(r)'
  BY <1>1, FactsPrimed DEF KInv
<1>3. pc[r] = "idle" => Quiet
  BY <1>1 DEF KInv, IInv, TypeOK, Single, Quiet
<1>4. QED
  BY <1>1, <1>2, <1>3, Restful DEF KInv

\* A step after which nobody is busy.
LEMMA NowQuiet ==
  ASSUME KInv, KInv', Orderly, NEW r \in Requests, pc[r] # "idle", pc' = [pc EXCEPT ![r] = "idle"]
  PROVE  (mu = None /\ Saved = {} /\ Removing = {} /\ Todo = {} /\ \A f : ~ Gone(f))'
         /\ \A q \in Requests : pc'[q] = "idle"
<1>1. \A q \in Requests : pc'[q] = "idle"
  BY FactsHold DEF KInv, Orderly, IInv, TypeOK, Facts
<1>2. Quiet'
  BY <1>1 DEF Quiet
<1>3. QED
  BY <1>1, <1>2, RestfulPrimed DEF KInv

LEMMA Alike ==
  ASSUME NEW x, minted'[x] = minted[x]
  PROVE  /\ IsCA(x)' = IsCA(x) /\ HasKey(x)' = HasKey(x) /\ CaId(x)' = CaId(x)
         /\ FilesOf(x)' = FilesOf(x)
BY DEF IsCA, HasKey, CaId, FilesOf

LEMMA AllAlike ==
  ASSUME minted' = minted
  PROVE  /\ \A x : /\ IsCA(x)' = IsCA(x) /\ HasKey(x)' = HasKey(x) /\ CaId(x)' = CaId(x)
                   /\ FilesOf(x)' = FilesOf(x)
         /\ Made' = Made
BY DEF IsCA, HasKey, CaId, FilesOf, Made

LEMMA KnownSerials ==
  ASSUME IInv
  PROVE  /\ index \subseteq recorded /\ recorded \subseteq Made /\ Made \subseteq Serials
         /\ Serials \subseteq CaIds /\ Root \in CaIds
         /\ Root \notin Serials /\ None \notin Serials /\ Root # None
         /\ \A s \in Made : CaId(s) \in CaIds
BY Markers DEF IInv, Accounts, Made, Serials, CaIds, CaId

\* Where the record of a CA leads.
LEMMA UpStays ==
  ASSUME KInv, Orderly, NEW x \in index \cup {Root, None}
  PROVE  /\ Up(x) \in index \cup {Root, None}
         /\ x \in index /\ minted[x].kind = "intermediate" =>
              /\ minted[x].by \in index /\ Up(x) = minted[x].issuer
              /\ Up(x) = Root \/ Up(x) = minted[x].by
<1>1. Root \notin index /\ None \notin index
  BY KnownSerials DEF KInv
<1>2. ASSUME x \in index, minted[x].kind = "intermediate"
      PROVE  /\ minted[x].by \in index /\ Up(x) = minted[x].issuer
             /\ Up(x) = Root \/ Up(x) = minted[x].by
  BY <1>2 DEF Up, Orderly, Issuers, Signed, CaId
<1>3. QED
  BY <1>1, <1>2 DEF Up

\* The chains of the CAs that stay listed do not change.
LEMMA ChainsStay ==
  ASSUME KInv, KInv', Orderly, NEW kept, kept \subseteq index, kept \subseteq index',
         \A x \in kept : minted'[x] = minted[x],
         \A x \in kept : minted[x].kind = "intermediate" => minted[x].by \in kept
  PROVE  \A x \in kept \cup {Root, None} :
           \A n \in 0 .. MaxSerial + 1 : Walk(x)'[n] = Walk(x)[n]
<1> DEFINE C == kept \cup {Root, None}
<1>1. Root \notin index /\ None \notin index /\ Root \notin index' /\ None \notin index'
  <2>1. TypeOK /\ TypeOK'
    BY DEF KInv, IInv
  <2>2. index \subseteq Serials /\ index' \subseteq Serials
    BY <2>1 DEF TypeOK
  <2>3. Root \notin Serials /\ None \notin Serials
    BY Markers DEF Serials
  <2>4. QED
    BY <2>2, <2>3
<1>2. \A x \in C : Up(x) \in C /\ Up(x)' = Up(x)
  <2> SUFFICES ASSUME NEW x \in C PROVE Up(x) \in C /\ Up(x)' = Up(x)
    OBVIOUS
  <2>1. CASE x \in {Root, None}
    BY <1>1, <2>1 DEF Up
  <2>2. CASE x \in kept
    <3>1. Up(x)' = Up(x)
      BY <2>2 DEF Up
    <3>2. Up(x) \in C
      <4>1. CASE minted[x].kind = "intermediate"
        BY <2>2, <4>1, UpStays
      <4>2. CASE minted[x].kind # "intermediate"
        BY <4>2 DEF Up
      <4>3. QED
        BY <4>1, <4>2
    <3>3. QED
      BY <3>1, <3>2
  <2>3. QED
    BY <2>1, <2>2
<1>3. ASSUME NEW x \in C
      PROVE  \A n \in 0 .. MaxSerial + 1 : Walk(x)'[n] = Walk(x)[n]
  <2> HIDE DEF C
  <2>1. QED
    BY <1>2, <1>3, WalkSame
<1>4. QED
  BY <1>3

LEMMA RootsReached ==
  ASSUME KInv, KInv', Orderly, NEW kept, kept \subseteq index, kept \subseteq index',
         \A x \in kept : minted'[x] = minted[x],
         \A x \in kept : minted[x].kind = "intermediate" => minted[x].by \in kept,
         recorded \subseteq recorded'
  PROVE  \A s \in kept : minted'[s].kind = "intermediate" =>
           \E k \in 0 .. Cardinality(recorded') : Walk(s)'[k] = Root
<1>1. /\ Cardinality(recorded) \in Nat /\ Cardinality(recorded') \in Nat
      /\ Cardinality(recorded) <= Cardinality(recorded') /\ Cardinality(recorded) <= MaxSerial + 1
  <2>1. TypeOK /\ TypeOK'
    BY DEF KInv, IInv
  <2>2. recorded \in SUBSET Serials /\ recorded' \in SUBSET Serials
    BY <2>1 DEF TypeOK
  <2>3. IsFiniteSet(recorded')
    BY <2>2, Counted
  <2>4. QED
    BY <2>2, <2>3, Counted, FS_Subset
<1>2. SUFFICES ASSUME NEW s \in kept, minted[s].kind = "intermediate"
               PROVE  \E k \in 0 .. Cardinality(recorded') : Walk(s)'[k] = Root
  OBVIOUS
<1>3. PICK k \in 0 .. Cardinality(recorded) : Walk(s)[k] = Root
  BY <1>2 DEF Orderly, Issuers
<1>4. k \in 0 .. MaxSerial + 1 /\ k \in 0 .. Cardinality(recorded')
  BY <1>1, <1>3, Bounds
<1>5. Walk(s)'[k] = Walk(s)[k]
  BY <1>2, <1>4, ChainsStay
<1>6. QED
  BY <1>3, <1>4, <1>5

----------------------------------------------------------------------------
(* Steps that leave one part or the other alone.                           *)

\* Nothing is made or listed, and no request begins.
LEMMA StandingStays ==
  ASSUME KInv, Orderly, UNCHANGED <<minted, index, recorded>>, Saved' \subseteq Saved,
         \A q \in Requests : pc'[q] = "signing" =>
           pc[q] = "signing" /\ job'[q].draft = job[q].draft
  PROVE  OneRoot' /\ Issuers'
<1>1. /\ Made' = Made
      /\ \A x : IsCA(x)' = IsCA(x) /\ CaId(x)' = CaId(x)
  BY AllAlike
<1>2. OneRoot'
  BY <1>1 DEF Orderly, OneRoot
<1>3. \A x : Walk(x)' = Walk(x)
  BY DEF Walk
<1>4. \A c : Signed(c)' <=> Signed(c)
  BY <1>1 DEF Signed
<1>5. Issuers'
  BY <1>3, <1>4 DEF Orderly, Issuers
<1>6. QED
  BY <1>2, <1>5

\* What was deleted stays in the trash, and what is added is listed.
LEMMA BinsStay ==
  ASSUME KInv, Orderly, UNCHANGED trash, Todo' = Todo, \A s \in recorded : minted'[s] = minted[s],
         recorded \subseteq recorded', recorded' \ recorded \subseteq index', index \subseteq index'
  PROVE  Bins'
<1>1. /\ recorded \subseteq index \cup UNION {trash[i].removed : i \in DOMAIN trash}
      /\ \A i \in DOMAIN trash :
           /\ trash[i].removed # {} /\ trash[i].removed \subseteq Leaves(recorded)
           /\ \A s \in trash[i].removed :
                /\ minted[s].by \in recorded /\ IsCA(minted[s].by)
                /\ CaId(minted[s].by) = minted[s].issuer
                /\ FilesOf(s) \subseteq trash[i].files \cup (IF i = Len(trash) THEN Todo ELSE {})
  BY DEF Orderly, Bins
<1>2. \A s \in recorded : IsCA(s)' = IsCA(s) /\ CaId(s)' = CaId(s) /\ FilesOf(s)' = FilesOf(s)
  BY Alike
<1>3. Leaves(recorded) \subseteq Leaves(recorded)' /\ Leaves(recorded) \subseteq recorded
  BY DEF Leaves
<1>4. ASSUME NEW i \in DOMAIN trash
      PROVE  /\ trash[i].removed # {} /\ trash[i].removed \subseteq Leaves(recorded)'
             /\ \A s \in trash[i].removed :
                  /\ minted'[s].by \in recorded' /\ IsCA(minted[s].by)'
                  /\ CaId(minted[s].by)' = minted'[s].issuer
                  /\ FilesOf(s)' \subseteq trash[i].files \cup (IF i = Len(trash) THEN Todo ELSE {})
  <2>1. ASSUME NEW s \in trash[i].removed
        PROVE  /\ minted'[s].by \in recorded' /\ IsCA(minted[s].by)'
               /\ CaId(minted[s].by)' = minted'[s].issuer
               /\ FilesOf(s)' \subseteq trash[i].files \cup (IF i = Len(trash) THEN Todo ELSE {})
    <3>1. s \in recorded /\ minted'[s] = minted[s]
      BY <1>1, <1>3, <2>1
    <3>2. PICK t \in recorded : t = minted[s].by /\ t = minted'[s].by
      BY <1>1, <2>1, <3>1
    <3>3. IsCA(t) /\ CaId(t) = minted[s].issuer
      BY <1>1, <2>1, <3>2
    <3>4. IsCA(t)' /\ CaId(t)' = minted'[s].issuer
      BY <1>2, <3>1, <3>2, <3>3
    <3>5. IsCA(minted[s].by)' /\ CaId(minted[s].by)' = CaId(t)'
      BY <3>2, <3>4 DEF IsCA, CaId
    <3>6. QED
      BY <1>1, <1>2, <2>1, <3>1, <3>2, <3>4, <3>5
  <2>2. QED
    BY <1>1, <1>3, <2>1
<1>5. recorded' \subseteq index' \cup UNION {trash'[i].removed : i \in DOMAIN trash'}
  BY <1>1
<1>6. QED
  BY <1>4, <1>5 DEF Bins

\* No deletion is under way.
LEMMA NothingRemoved ==
  ASSUME Removing' = {}, Todo' = {}, \A q \in Requests : pc'[q] # "drop"
  PROVE  Removals'
BY DEF Removals

\* A request begins, or ends, while nothing is being written.
LEMMA FilesRest ==
  ASSUME KInv, KInv', Orderly, Single',
         UNCHANGED <<minted, index, cas, pems, keys, secrets, trash, keyring, recorded>>,
         Saved = {}, Removing = {}, Todo = {}, Saved' = {}, Removing' = {}, Todo' = {},
         OneRoot', Issuers', \A q \in Requests : pc'[q] \notin Saving \cup {"drop"}
  PROVE  Orderly'
<1>1. Made' = Made
      /\ \A x : /\ IsCA(x)' = IsCA(x) /\ HasKey(x)' = HasKey(x) /\ CaId(x)' = CaId(x)
                /\ FilesOf(x)' = FilesOf(x)
  BY AllAlike
<1>2. \A f : (Stored(f)' <=> Stored(f)) /\ (InTrash(f)' <=> InTrash(f)) /\ (Gone(f)' <=> Gone(f))
  BY <1>1 DEF Stored, InTrash, Gone
<1>3. Removals'
  BY NothingRemoved
<1>4. Bins'
  BY BinsStay
<1>5. Opened'
  BY <1>1, <1>2 DEF Orderly, Opened
<1>6. Places'
  <2>1. \A q \in Requests : pc'[q] \notin Saving /\ pc'[q] # "key"
    BY DEF Saving
  <2>2. QED
    BY <1>1, <1>2, <2>1 DEF Orderly, Places
<1>7. QED
  BY <1>3, <1>4, <1>5, <1>6 DEF Orderly

----------------------------------------------------------------------------
(* Making.                                                                 *)

LEMMA DraftOrderly ==
  ASSUME KInv, KInv', Orderly, Single', NEW r \in Requests,
         NEW kind, NEW issuer, NEW by, NEW enc, Draft(r, kind, issuer, by, enc),
         kind = "root" => \A s \in Made : minted[s].kind # "root",
         kind # "root" => by \in index /\ IsCA(by) /\ CaId(by) = issuer
  PROVE  Orderly'
<1>1. /\ pc[r] = "idle" /\ pc' = [pc EXCEPT ![r] = "signing"]
      /\ UNCHANGED <<minted, index, cas, pems, keys, secrets, trash, keyring, recorded, mu>>
      /\ job'[r].draft = [kind |-> kind, issuer |-> issuer, by |-> by, enc |-> enc]
  BY DEF Draft, Goto, files, KInv, IInv, TypeOK, Job
<1>2. /\ Facts(r)' /\ pc'[r] = "signing"
      /\ Quiet /\ mu = None /\ Saved = {} /\ Removing = {} /\ Todo = {} /\ \A f : ~ Gone(f)
  BY <1>1, WasAlone
<1>3. Saved' = {} /\ Removing' = {} /\ Todo' = {}
  BY <1>2 DEF Facts, Saving
<1>4. \A q \in Requests : pc'[q] \in {"idle", "signing"} /\ (pc'[q] = "signing" => q = r)
  BY <1>1, <1>2 DEF Quiet, KInv, IInv, TypeOK
<1>5. Made' = Made /\ \A x : IsCA(x)' = IsCA(x) /\ CaId(x)' = CaId(x)
  BY <1>1, AllAlike
<1>6. OneRoot'
  BY <1>1, <1>4, <1>5 DEF Orderly, OneRoot
<1>7. Issuers'
  <2>1. \A c : Signed(c)' <=> Signed(c)
    BY <1>1, <1>5 DEF Signed
  <2>2. Signed(job'[r].draft)
    BY <1>1 DEF Signed
  <2>3. \A x : Walk(x)' = Walk(x)
    BY <1>1 DEF Walk
  <2>4. ASSUME NEW q \in Requests, pc'[q] = "signing" PROVE Signed(job[q].draft)'
    <3>1. q = r
      BY <1>4, <2>4
    <3>2. Signed(job[r].draft)' <=> Signed(job'[r].draft)
      BY <1>1, <1>5 DEF Signed
    <3>3. QED
      BY <2>2, <3>1, <3>2
  <2>5. QED
    BY <1>1, <1>2, <1>3, <2>1, <2>3, <2>4 DEF Orderly, Issuers
<1>8. QED
  BY <1>1, <1>2, <1>3, <1>4, <1>6, <1>7, FilesRest DEF Saving

\* What signs for a CA is its own certificate, and that is listed.
LEMMA Signers ==
  ASSUME KInv, Orderly, Quiet, NEW id \in CaIds, NEW p \in Loadable(id)
  PROVE  p.cert \in index /\ IsCA(p.cert) /\ CaId(p.cert) = id
<1>1. Saved = {} /\ Removing = {}
  BY Restful DEF KInv
<1>2. p.cert \in Made /\ IsCA(p.cert) /\ CaId(p.cert) = id
  BY DEF KInv, Attributed, Loadable
<1>3. keyring[id] \in {Nothing, cas[id]}
  BY <1>1 DEF Orderly, Opened
<1>4. p = cas[id] /\ p # Nothing
  BY <1>3 DEF Loadable, Nothing
<1>5. QED
  BY <1>1, <1>2, <1>4 DEF Orderly, Places

LEMMA BeginOrderly ==
  ASSUME MaxRoots <= 1, KInv, KInv', Orderly, Single', NEW r \in Requests, Create(r) \/ Certify(r)
  PROVE  Orderly'
<1>0. Quiet
  <2>1. pc[r] = "idle" /\ pc' = [pc EXCEPT ![r] = "signing"]
    BY DEF Create, Certify, CreateRoot, CreateIntermediate, Push, Issue, Draft, Goto
  <2>2. QED
    BY <2>1, WasAlone
<1>1. ASSUME NEW enc \in BOOLEAN, CreateRoot(r, enc) PROVE Orderly'
  <2> DEFINE roots == {s \in Made : minted[s].kind = "root"}
  <2>1. roots \in SUBSET Serials
    BY DEF Made
  <2>2. Cardinality(roots) \in Nat /\ IsFiniteSet(roots)
    BY <2>1, Counted
  <2>3. Cardinality(roots) = 0
    BY <1>1, <2>2, Bounds DEF CreateRoot
  <2>4. roots = {}
    BY <2>2, <2>3, FS_EmptySet
  <2>5. QED
    BY <1>1, <2>4, DraftOrderly DEF CreateRoot
<1>2. ASSUME NEW enc \in BOOLEAN, NEW id \in CaIds, CreateIntermediate(r, id, enc)
      PROVE  Orderly'
  <2>1. Normalized(id) \in CaIds
    BY DEF Normalized, CaIds
  <2>2. PICK p \in Loadable(Normalized(id)) :
          Draft(r, "intermediate", Normalized(id), p.cert, enc)
    BY <1>2 DEF CreateIntermediate
  <2>3. p.cert \in index /\ IsCA(p.cert) /\ CaId(p.cert) = Normalized(id)
    BY <1>0, <2>1, Signers
  <2>4. QED
    BY <2>2, <2>3, DraftOrderly
<1>3. ASSUME NEW id \in CaIds, Push(r, id) PROVE Orderly'
  BY <1>0, <1>3, Signers, DraftOrderly DEF Push
<1>4. ASSUME NEW id \in CaIds, NEW kind \in {"issued", "csr"}, Issue(r, id, kind)
      PROVE  Orderly'
  BY <1>0, <1>4, Signers, DraftOrderly DEF Issue
<1>5. QED
  BY <1>1, <1>2, <1>3, <1>4 DEF Create, Certify

\* The first file of a certificate that nobody has.
LEMMA SignOrderly ==
  ASSUME KInv, KInv', Orderly, Single', NEW r \in Requests, Sign(r)
  PROVE  Orderly'
<1>0. PICK s \in Serials, c \in Certificate : s = Fresh /\ c = job[r].draft /\ s \notin Made
  BY DEF KInv, IInv, Sign, Savers, Fresh, Made
<1> DEFINE id == IF c.kind = "root" THEN Root ELSE s
           at == IF c.kind = "csr" THEN "record" ELSE "key"
<1>1. /\ minted' = [minted EXCEPT ![s] = c] /\ Made' = Made \cup {s} /\ minted'[s] = c
      /\ \A t \in Made : minted'[t] = minted[t]
  BY <1>0, NoCertificate DEF KInv, IInv, TypeOK, Sign, Made
<1>2. /\ UNCHANGED <<index, keys, secrets, trash, keyring, mu, recorded>>
      /\ pc[r] = "signing" /\ pc' = [pc EXCEPT ![r] = at]
      /\ job'[r].serial = s
      /\ IF c.kind \in {"root", "intermediate"}
         THEN cas' = [cas EXCEPT ![id].cert = s] /\ pems' = pems
         ELSE pems' = pems \cup {s} /\ cas' = cas
  BY <1>0 DEF Sign, Goto, KInv, IInv, TypeOK, Idle
<1>3. /\ index \subseteq recorded /\ recorded \subseteq Made /\ Made \subseteq Serials
      /\ Root \notin Serials /\ None \notin Serials /\ id \in CaIds /\ s \notin index
      /\ s \notin recorded
  BY <1>0, KnownSerials DEF KInv
<1>4. /\ mu = None /\ Removing = {} /\ Todo = {} /\ Saved = {} /\ \A f : ~ Gone(f)
  BY <1>2, FactsHold DEF KInv, Orderly, Facts, Saving
<1>5. /\ pc'[r] = at /\ \A q \in Requests : q # r => pc'[q] = "idle"
      /\ Removing' = {} /\ Todo' = {} /\ Saved' = {s} /\ \A f : ~ Gone(f)'
  <2>1. Facts(r)' /\ pc'[r] = at
    BY <1>2, WasAlone
  <2>2. at \in Saving
    BY DEF Saving
  <2>3. QED
    BY <1>2, <2>1, <2>2 DEF Facts, Saving, Serial
<1>6. Signed(c) /\ (c.kind = "root" => \A t \in Made : minted[t].kind # "root")
  BY <1>0, <1>2 DEF Orderly, Issuers, OneRoot
<1>7. \A t \in Made : /\ IsCA(t)' = IsCA(t) /\ HasKey(t)' = HasKey(t) /\ CaId(t)' = CaId(t)
                      /\ FilesOf(t)' = FilesOf(t)
  BY <1>1, Alike
<1>8. OneRoot'
  <2>1. \A q \in Requests : pc'[q] # "signing"
    BY <1>5
  <2>2. \A t, u \in Made' : minted'[t].kind = "root" /\ minted'[u].kind = "root" => t = u
    BY <1>1, <1>6 DEF Orderly, OneRoot
  <2>3. QED
    BY <2>1, <2>2 DEF OneRoot
<1>9. Issuers'
  <2>1. ASSUME NEW d, Signed(d) PROVE Signed(d)'
    <3>1. SUFFICES ASSUME d.kind # "root" PROVE Signed(d)'
      BY DEF Signed
    <3>2. PICK t \in Made : t = d.by /\ t \in index /\ IsCA(t) /\ CaId(t) = d.issuer
      BY <1>3, <2>1, <3>1 DEF Signed
    <3>3. t \in index' /\ IsCA(t)' /\ CaId(t)' = d.issuer
      BY <1>2, <1>7, <3>2
    <3>4. QED
      BY <3>2, <3>3 DEF Signed, IsCA, CaId
  <2>2. ASSUME NEW t \in index PROVE Signed(minted[t])'
    <3>1. PICK d : d = minted[t] /\ d = minted'[t]
      BY <1>1, <1>3
    <3>2. Signed(d)
      BY <3>1 DEF Orderly, Issuers, Signed
    <3>3. Signed(d)'
      BY <2>1, <3>2
    <3>4. QED
      BY <3>1, <3>3 DEF Signed
  <2>3. Signed(minted[s])'
    <3>1. Signed(c)'
      BY <1>6, <2>1
    <3>2. QED
      BY <1>1, <3>1 DEF Signed
  <2>4. \A t \in index : minted'[t].kind = "intermediate" =>
          \E k \in 0 .. Cardinality(recorded') : Walk(t)'[k] = Root
    <3>1. \A x \in index : minted[x].kind = "intermediate" => minted[x].by \in index
      BY DEF Orderly, Issuers, Signed
    <3>2. \A x \in index : minted'[x] = minted[x]
      BY <1>1, <1>3
    <3>3. QED
      BY <1>2, <3>1, <3>2, RootsReached
  <2>5. QED
    BY <1>2, <1>5, <2>2, <2>3, <2>4 DEF Issuers
<1>10. Removals'
  BY <1>5, NothingRemoved
<1>11. Bins'
  BY <1>1, <1>2, <1>3, <1>4, <1>5, BinsStay
<1>12. c.kind \in {"root", "intermediate"} => cas[id] = Nothing /\ keyring[id] = Nothing
  <2> SUFFICES ASSUME c.kind \in {"root", "intermediate"}, cas[id] # Nothing
               PROVE  FALSE
    <3>1. keyring[id] \in {Nothing, cas[id]}
      BY <1>3, <1>4 DEF Orderly, Opened
    <3>2. QED
      BY <3>1
  <2>1. cas[id].cert \in Made
    BY <1>3, <1>4 DEF Orderly, Places
  <2>2. IsCA(cas[id].cert) /\ CaId(cas[id].cert) = id
    BY <1>3, <2>1 DEF KInv, Attributed
  <2>3. QED
    BY <1>0, <1>3, <1>6, <2>1, <2>2 DEF CaId
<1>13. IsCA(s)' <=> c.kind \in {"root", "intermediate"}
  BY <1>1 DEF IsCA
<1>14. c.kind \in {"root", "intermediate"} =>
         CaId(s)' = id /\ cas'[id] = [cert |-> s, key |-> None]
  <2> SUFFICES ASSUME c.kind \in {"root", "intermediate"}
               PROVE  CaId(s)' = id /\ cas'[id] = [cert |-> s, key |-> None]
    OBVIOUS
  <2>1. CaId(s)' = id
    BY <1>1 DEF CaId
  <2>2. cas[id] = [cert |-> None, key |-> None]
    BY <1>12 DEF Nothing
  <2>3. cas' = [cas EXCEPT ![id].cert = s] /\ cas \in [CaIds -> Pair]
    BY <1>2 DEF KInv, IInv, TypeOK
  <2>4. cas'[id] = [cas[id] EXCEPT !.cert = s]
    BY <1>3, <2>3
  <2>5. QED
    BY <2>1, <2>2, <2>4
<1>15. \A i \in CaIds : cas'[i] = cas[i] \/ (i = id /\ c.kind \in {"root", "intermediate"})
  BY <1>2 DEF KInv, IInv, TypeOK
<1>16. ASSUME NEW t \in index, NEW f \in FilesOf(t)' PROVE Stored(f)'
  <2>1. t \in Made /\ FilesOf(t)' = FilesOf(t) /\ CaId(t)' = CaId(t) /\ Stored(f)
    BY <1>3, <1>4, <1>7, <1>16 DEF Orderly, Places
  <2>2. f[2] = t /\ f[1] \in {"dir", "pem", "key"}
    BY <2>1 DEF FilesOf
  <2>3. CASE f[1] = "dir"
    <3>1. CaId(t) # id \/ c.kind \notin {"root", "intermediate"}
      BY <1>0, <1>3, <1>6, <2>1 DEF CaId
    <3>2. CaId(t) \in CaIds
      BY <2>1, KnownSerials DEF KInv
    <3>3. cas'[CaId(t)] = cas[CaId(t)]
      BY <1>15, <3>1, <3>2
    <3>4. QED
      BY <2>1, <2>2, <2>3, <3>3 DEF Stored
  <2>4. CASE f[1] = "pem"
    BY <1>2, <2>1, <2>4 DEF Stored
  <2>5. CASE f[1] = "key"
    BY <1>2, <2>1, <2>5 DEF Stored
  <2>6. QED
    BY <2>2, <2>3, <2>4, <2>5
<1>17. Places'
  <2>1. \A i \in CaIds : cas'[i] # Nothing => cas'[i].cert \in index' \cup Saved'
    <3> SUFFICES ASSUME NEW i \in CaIds, cas'[i] # Nothing
                 PROVE  cas'[i].cert \in index' \cup Saved'
      OBVIOUS
    <3>1. CASE cas'[i] = cas[i]
      BY <1>2, <1>4, <3>1 DEF Orderly, Places
    <3>2. CASE i = id /\ c.kind \in {"root", "intermediate"}
      <4>1. cas'[i] = [cert |-> s, key |-> None]
        BY <1>14, <3>2
      <4>2. cas'[i].cert = s
        BY <4>1
      <4>3. QED
        BY <1>5, <4>2
    <3>3. QED
      BY <1>15, <3>1, <3>2
  <2>2. \A t \in pems' : t \in index' \cup Saved' /\ ~ IsCA(t)'
    <3>1. \A t \in pems : t \in index /\ ~ IsCA(t)
      BY <1>4 DEF Orderly, Places
    <3>2. \A t \in pems : t \in index' /\ ~ IsCA(t)'
      BY <1>2, <1>3, <1>7, <3>1
    <3>3. pems' \subseteq pems \cup {s} /\ (c.kind \in {"root", "intermediate"} => pems' = pems)
      BY <1>2
    <3>4. QED
      BY <1>5, <1>13, <3>2, <3>3
  <2>3. \A t \in keys' : t \in index' \cup Saved' /\ ~ IsCA(t)' /\ HasKey(t)'
    <3>1. \A t \in keys : t \in index /\ ~ IsCA(t) /\ HasKey(t)
      BY <1>4 DEF Orderly, Places
    <3>2. QED
      BY <1>2, <1>3, <1>7, <3>1
  <2>4. /\ Serial(r)' = s
        /\ pc'[r] = "key" /\ IsCA(s)' =>
             cas'[CaId(s)'] = [cert |-> s, key |-> None] /\ keyring'[CaId(s)'] = Nothing
        /\ pc'[r] \in Saving \ {"key"} => Present(s)'
    <3>1. c.kind = "csr" => Present(s)'
      <4>1. SUFFICES ASSUME c.kind = "csr" PROVE Present(s)'
        OBVIOUS
      <4>2. FilesOf(s)' = {<<"pem", s>>}
        BY <1>1, <4>1 DEF FilesOf, IsCA, HasKey
      <4>3. Stored(<<"pem", s>>)'
        BY <1>2, <4>1 DEF Stored
      <4>4. QED
        BY <4>2, <4>3 DEF Present
    <3>2. QED
      BY <1>2, <1>5, <1>12, <1>13, <1>14, <3>1 DEF Serial
  <2>5. \A q \in Requests : /\ Present(Serial(q))' <=> (\A f \in FilesOf(Serial(q))' : Stored(f)')
    BY DEF Present
  <2>6. /\ IsCA(Serial(r))' = IsCA(s)' /\ CaId(Serial(r))' = CaId(s)'
        /\ Present(Serial(r))' <=> Present(s)'
    BY <2>4 DEF IsCA, CaId, Present
  <2>7. \A q \in Requests : q # r => pc'[q] \notin Saving
    BY <1>5 DEF Saving
  <2>8. \A q \in Requests :
          /\ pc'[q] = "key" /\ IsCA(Serial(q))' =>
               /\ cas'[CaId(Serial(q))'] = [cert |-> Serial(q)', key |-> None]
               /\ keyring'[CaId(Serial(q))'] = Nothing
          /\ pc'[q] \in Saving \ {"key"} => Present(Serial(q))'
    <3> SUFFICES ASSUME NEW q \in Requests, pc'[q] \in Saving
                 PROVE  /\ pc'[q] = "key" /\ IsCA(Serial(q))' =>
                             /\ cas'[CaId(Serial(q))'] = [cert |-> Serial(q)', key |-> None]
                             /\ keyring'[CaId(Serial(q))'] = Nothing
                        /\ pc'[q] \in Saving \ {"key"} => Present(Serial(q))'
      BY DEF Saving
    <3>1. q = r
      BY <2>7
    <3>2. QED
      BY <2>4, <2>6, <3>1
  <2>9. QED
    BY <1>2, <1>5, <1>16, <2>1, <2>2, <2>3, <2>8 DEF Places
<1>18. Opened'
  <2>1. \A f : InTrash(f)' <=> InTrash(f)
    BY <1>2 DEF InTrash
  <2>2. \A i \in CaIds : keyring'[i] \in {Nothing, cas'[i]}
    BY <1>2, <1>4, <1>12, <1>15 DEF Orderly, Opened
  <2>3. \A i \in CaIds : secrets'[i] # None =>
          secrets'[i] \in Made' /\ IsCA(secrets[i])' /\ CaId(secrets[i])' = i
    <3> SUFFICES ASSUME NEW i \in CaIds, secrets[i] # None
                 PROVE  secrets[i] \in Made' /\ IsCA(secrets[i])' /\ CaId(secrets[i])' = i
      BY <1>2
    <3>1. PICK t \in Made : t = secrets[i] /\ t = secrets'[i] /\ IsCA(t) /\ CaId(t) = i
      BY <1>2 DEF Orderly, Opened
    <3>2. t \in Made' /\ IsCA(t)' /\ CaId(t)' = i
      BY <1>1, <1>7, <3>1
    <3>3. QED
      BY <3>1, <3>2 DEF IsCA, CaId
  <2>4. \A t \in Serials : InTrash(<<"dir", t>>)' => secrets'[t] = None
    BY <1>2, <1>4, <2>1 DEF Orderly, Opened
  <2>5. QED
    BY <1>5, <2>2, <2>3, <2>4 DEF Opened
<1>19. QED
  BY <1>8, <1>9, <1>10, <1>11, <1>17, <1>18 DEF Orderly

\* Places after a step of a request that is saving a certificate.
LEMMA PlacesWhileSaving ==
  ASSUME NEW r \in Requests, NEW s, Serial(r)' = s, \A q \in Requests : q # r => pc'[q] \notin Saving,
         \A f : ~ Gone(f)', \A t \in index' : Present(t)',
         \A i \in CaIds : cas'[i] # Nothing => cas'[i].cert \in index' \cup Saved',
         \A t \in pems' : t \in index' \cup Saved' /\ ~ IsCA(t)',
         \A t \in keys' : t \in index' \cup Saved' /\ ~ IsCA(t)' /\ HasKey(t)',
         pc'[r] # "key", pc'[r] \in Saving => Present(s)'
  PROVE  Places'
<1>1. ASSUME NEW q \in Requests, pc'[q] \in Saving PROVE pc'[q] # "key" /\ Present(Serial(q))'
  <2>1. q = r
    BY <1>1
  <2>2. Present(Serial(r))' <=> Present(s)'
    BY DEF Present
  <2>3. QED
    BY <1>1, <2>1, <2>2
<1>2. \A t \in index' : \A f \in FilesOf(t)' : Stored(f)'
  BY DEF Present
<1>3. \A q \in Requests : pc'[q] # "key"
  BY <1>1 DEF Saving
<1>4. QED
  BY <1>1, <1>2, <1>3 DEF Places

\* Two CAs with one name are one.
LEMMA NamesDiffer ==
  ASSUME KInv, Orderly, NEW s \in Made, NEW t \in Made, IsCA(s), IsCA(t), CaId(s) = CaId(t)
  PROVE  s = t
<1>1. Root \notin Serials /\ Made \subseteq Serials
  BY KnownSerials DEF KInv
<1>2. QED
  BY <1>1 DEF Orderly, OneRoot, IsCA, CaId

\* What is known of a request that saves a certificate, and of its next step.
LEMMA SaverFacts ==
  ASSUME KInv, KInv', Orderly, Single', NEW r \in Requests, pc[r] \in Saving,
         NEW at \in Saving, pc' = [pc EXCEPT ![r] = at], job' = job
  PROVE  /\ Serial(r) \in Made \ recorded /\ Serial(r)' = Serial(r)
         /\ Saved = {Serial(r)} /\ Saved' = Saved
         /\ mu = None /\ Removing = {} /\ Todo = {} /\ (\A f : ~ Gone(f))
         /\ Removing' = {} /\ Todo' = {} /\ (\A f : ~ Gone(f)')
         /\ pc'[r] = at /\ (\A q \in Requests : q # r => pc'[q] = "idle")
<1>1. Serial(r) \in Made \ recorded /\ Serial(r)' = Serial(r)
  BY DEF KInv, IInv, Savers, Serial
<1>2. /\ mu = None /\ Removing = {} /\ Todo = {} /\ (\A f : ~ Gone(f)) /\ Saved = {Serial(r)}
  BY FactsHold DEF KInv, Orderly, Facts, Saving
<1>3. Facts(r)' /\ pc'[r] = at
  BY WasAlone DEF Saving
<1>4. QED
  BY <1>1, <1>2, <1>3 DEF Facts, Saving

LEMMA SaveKeyOrderly ==
  ASSUME KInv, KInv', Orderly, Single', NEW r \in Requests, SaveKey(r)
  PROVE  Orderly'
<1> DEFINE at == IF minted[Serial(r)].enc THEN "secret" ELSE "record"
<1>1. /\ pc[r] = "key" /\ pc[r] \in Saving /\ at \in Saving /\ at # "key" /\ pc' = [pc EXCEPT ![r] = at]
      /\ UNCHANGED <<minted, index, pems, secrets, trash, keyring, mu, job, recorded>>
  BY DEF SaveKey, Goto, Saving
<1>2. /\ Serial(r) \in Made \ recorded /\ Serial(r)' = Serial(r)
      /\ Saved = {Serial(r)} /\ Saved' = Saved
      /\ mu = None /\ Removing = {} /\ Todo = {} /\ (\A f : ~ Gone(f))
      /\ Removing' = {} /\ Todo' = {} /\ (\A f : ~ Gone(f)')
      /\ pc'[r] = at /\ (\A q \in Requests : q # r => pc'[q] = "idle")
  <2> HIDE DEF at
  <2>1. QED
    BY <1>1, SaverFacts
<1>3. PICK s : s = Serial(r)
  OBVIOUS
<1>4. /\ s \in Made /\ s \notin recorded /\ s \notin index /\ s \in Serials /\ HasKey(s)
      /\ CaId(s) \in CaIds /\ index \subseteq Made /\ Made \subseteq Serials
  BY <1>1, <1>2, <1>3, KnownSerials DEF KInv, IInv, Savers, HasKey
<1>5. IF IsCA(s) THEN cas' = [cas EXCEPT ![CaId(s)].key = s] /\ keys' = keys
      ELSE keys' = keys \cup {s} /\ cas' = cas
  BY <1>3 DEF SaveKey
<1>6. /\ \A x : /\ IsCA(x)' = IsCA(x) /\ HasKey(x)' = HasKey(x) /\ CaId(x)' = CaId(x)
                /\ FilesOf(x)' = FilesOf(x)
      /\ Made' = Made
  BY <1>1, AllAlike
<1>7. IsCA(s) => /\ cas[CaId(s)] = [cert |-> s, key |-> None] /\ keyring[CaId(s)] = Nothing
                 /\ cas'[CaId(s)] = [cert |-> s, key |-> s]
  <2> SUFFICES ASSUME IsCA(s)
               PROVE  /\ cas[CaId(s)] = [cert |-> s, key |-> None] /\ keyring[CaId(s)] = Nothing
                      /\ cas'[CaId(s)] = [cert |-> s, key |-> s]
    OBVIOUS
  <2>1. cas[CaId(s)] = [cert |-> s, key |-> None] /\ keyring[CaId(s)] = Nothing
    BY <1>1, <1>3 DEF Orderly, Places
  <2>2. cas' = [cas EXCEPT ![CaId(s)].key = s] /\ cas \in [CaIds -> Pair]
    BY <1>5 DEF KInv, IInv, TypeOK
  <2>3. cas'[CaId(s)] = [cas[CaId(s)] EXCEPT !.key = s]
    BY <1>4, <2>2
  <2>4. QED
    BY <2>1, <2>3
<1>8. \A i \in CaIds : cas'[i] = cas[i] \/ (i = CaId(s) /\ IsCA(s))
  BY <1>5 DEF KInv, IInv, TypeOK
<1>9. \A t \in index : Present(t)'
  <2> SUFFICES ASSUME NEW t \in index, NEW f \in FilesOf(t) PROVE Stored(f)'
    BY <1>6 DEF Present
  <2>1. Stored(f) /\ t \in Made /\ t # s /\ CaId(t) \in CaIds
    BY <1>2, <1>4, KnownSerials DEF Orderly, Places, KInv
  <2>2. f[2] = t /\ f[1] \in {"dir", "pem", "key"} /\ (f[1] = "dir" => IsCA(t))
    BY DEF FilesOf
  <2>3. CASE f[1] = "dir"
    <3>1. IsCA(s) => CaId(t) # CaId(s)
      BY <1>4, <2>1, <2>2, <2>3, NamesDiffer
    <3>2. cas'[CaId(t)] = cas[CaId(t)]
      BY <1>8, <2>1, <3>1
    <3>3. QED
      BY <1>6, <2>1, <2>2, <2>3, <3>2 DEF Stored
  <2>4. CASE f[1] = "pem"
    BY <1>1, <2>1, <2>4 DEF Stored
  <2>5. CASE f[1] = "key"
    BY <1>5, <2>1, <2>5 DEF Stored
  <2>6. QED
    BY <2>2, <2>3, <2>4, <2>5
<1>10. Present(s)'
  <2>1. CASE IsCA(s)
    <3>1. FilesOf(s)' = {<<"dir", s>>}
      BY <1>6, <2>1 DEF FilesOf
    <3>2. Stored(<<"dir", s>>)'
      BY <1>6, <1>7, <2>1 DEF Stored
    <3>3. QED
      BY <3>1, <3>2 DEF Present
  <2>2. CASE ~ IsCA(s)
    <3>1. FilesOf(s)' = {<<"pem", s>>, <<"key", s>>}
      BY <1>4, <1>6, <2>2 DEF FilesOf
    <3>2. s \in pems /\ s \in keys'
      <4>1. minted[s].kind # "root"
        BY <2>2 DEF IsCA
      <4>2. QED
        BY <1>1, <1>3, <1>5, <2>2, <4>1 DEF KInv, IInv, Written
    <3>3. Stored(<<"pem", s>>)' /\ Stored(<<"key", s>>)'
      BY <1>1, <3>2 DEF Stored
    <3>4. QED
      BY <3>1, <3>3 DEF Present
  <2>3. QED
    BY <2>1, <2>2
<1>11. \A i \in CaIds : cas'[i] # Nothing => cas'[i].cert \in index' \cup Saved'
  <2> SUFFICES ASSUME NEW i \in CaIds, cas'[i] # Nothing PROVE cas'[i].cert \in index' \cup Saved'
    OBVIOUS
  <2>1. CASE cas'[i] = cas[i]
    BY <1>1, <1>2, <2>1 DEF Orderly, Places
  <2>2. CASE i = CaId(s) /\ IsCA(s)
    <3>1. cas'[i].cert = s
      BY <1>7, <2>2
    <3>2. QED
      BY <1>2, <1>3, <3>1
  <2>3. QED
    BY <1>8, <2>1, <2>2
<1>12. \A t \in pems' : t \in index' \cup Saved' /\ ~ IsCA(t)'
  BY <1>1, <1>2, <1>6 DEF Orderly, Places
<1>13. \A t \in keys' : t \in index' \cup Saved' /\ ~ IsCA(t)' /\ HasKey(t)'
  <2>1. \A t \in keys : t \in index' \cup Saved' /\ ~ IsCA(t) /\ HasKey(t)
    BY <1>1, <1>2 DEF Orderly, Places
  <2>2. QED
    BY <1>2, <1>3, <1>4, <1>5, <1>6, <2>1
<1>14. Places'
  <2>1. \A q \in Requests : q # r => pc'[q] \notin Saving
    BY <1>2 DEF Saving
  <2>2. Serial(r)' = s /\ pc'[r] # "key"
    BY <1>1, <1>2, <1>3
  <2>3. QED
    BY <1>1, <1>2, <1>9, <1>10, <1>11, <1>12, <1>13, <2>1, <2>2, PlacesWhileSaving
<1>15. OneRoot' /\ Issuers'
  <2>1. \A q \in Requests : pc'[q] # "signing"
    BY <1>2
  <2>2. QED
    BY <1>1, <1>2, <2>1, StandingStays
<1>16. Removals'
  <2>1. \A q \in Requests : pc'[q] # "drop"
    BY <1>2
  <2>2. QED
    BY <1>2, <2>1, NothingRemoved
<1>17. Bins'
  BY <1>1, <1>2, BinsStay
<1>18. Opened'
  <2>1. \A f : InTrash(f)' <=> InTrash(f)
    BY <1>1 DEF InTrash
  <2>2. \A i \in CaIds : keyring'[i] \in {Nothing, cas'[i]}
    BY <1>1, <1>2, <1>7, <1>8 DEF Orderly, Opened
  <2>3. QED
    BY <1>1, <1>2, <1>6, <2>1, <2>2 DEF Orderly, Opened
<1>19. QED
  BY <1>14, <1>15, <1>16, <1>17, <1>18 DEF Orderly

LEMMA UnlockOrderly ==
  ASSUME KInv, KInv', Orderly, Single', NEW r \in Requests, SavePassphrase(r) \/ KeepUnlocked(r)
  PROVE  Orderly'
<1>1. PICK at \in Saving : at # "key" /\ pc' = [pc EXCEPT ![r] = at]
  BY DEF SavePassphrase, KeepUnlocked, Goto, Saving
<1>2. /\ pc[r] \in {"secret", "unlock"} /\ pc[r] \in Saving
      /\ UNCHANGED <<minted, index, cas, pems, keys, trash, mu, job, recorded>>
  BY DEF SavePassphrase, KeepUnlocked, files, Saving
<1>3. /\ Serial(r) \in Made \ recorded /\ Serial(r)' = Serial(r)
      /\ Saved = {Serial(r)} /\ Saved' = Saved
      /\ mu = None /\ Removing = {} /\ Todo = {} /\ (\A f : ~ Gone(f))
      /\ Removing' = {} /\ Todo' = {} /\ (\A f : ~ Gone(f)')
      /\ pc'[r] = at /\ (\A q \in Requests : q # r => pc'[q] = "idle")
  BY <1>1, <1>2, SaverFacts
<1>4. PICK s : s = Serial(r)
  OBVIOUS
<1>5. /\ s \in Made /\ s \notin recorded /\ s \in Serials /\ IsCA(s) /\ CaId(s) \in CaIds
  BY <1>2, <1>3, <1>4, KnownSerials DEF KInv, Attributed
<1>6. /\ \A x : /\ IsCA(x)' = IsCA(x) /\ HasKey(x)' = HasKey(x) /\ CaId(x)' = CaId(x)
                /\ FilesOf(x)' = FilesOf(x)
      /\ Made' = Made
  BY <1>2, AllAlike
<1>7. \A f : f[1] \in {"dir", "pem", "key"} => (Stored(f)' <=> Stored(f))
  BY <1>2, <1>6 DEF Stored
<1>8. \A t : Present(t)' <=> Present(t)
  <2>1. \A t : \A f \in FilesOf(t) : f[1] \in {"dir", "pem", "key"}
    BY DEF FilesOf
  <2>2. QED
    BY <1>6, <1>7, <2>1 DEF Present
<1>9. Present(s)
  <2>1. Present(Serial(r))
    BY <1>2 DEF Orderly, Places
  <2>2. QED
    BY <1>4, <2>1 DEF Present
<1>10. Places'
  <2>1. \A q \in Requests : q # r => pc'[q] \notin Saving
    BY <1>3 DEF Saving
  <2>2. \A t \in index' : Present(t)'
    BY <1>2, <1>3, <1>8 DEF Orderly, Places, Present
  <2>3. /\ \A i \in CaIds : cas'[i] # Nothing => cas'[i].cert \in index' \cup Saved'
        /\ \A t \in pems' : t \in index' \cup Saved' /\ ~ IsCA(t)'
        /\ \A t \in keys' : t \in index' \cup Saved' /\ ~ IsCA(t)' /\ HasKey(t)'
    BY <1>2, <1>3, <1>6 DEF Orderly, Places
  <2>4. Serial(r)' = s /\ pc'[r] # "key" /\ Present(s)'
    BY <1>1, <1>3, <1>4, <1>8, <1>9
  <2>5. QED
    BY <1>3, <2>1, <2>2, <2>3, <2>4, PlacesWhileSaving
<1>11. OneRoot' /\ Issuers'
  <2>1. \A q \in Requests : pc'[q] # "signing"
    BY <1>3 DEF Saving
  <2>2. QED
    BY <1>2, <1>3, <2>1, StandingStays
<1>12. Removals'
  <2>1. \A q \in Requests : pc'[q] # "drop"
    BY <1>3 DEF Saving
  <2>2. QED
    BY <1>3, <2>1, NothingRemoved
<1>13. Bins'
  BY <1>2, <1>3, BinsStay
<1>14. Opened'
  <2>1. \A f : InTrash(f)' <=> InTrash(f)
    BY <1>2 DEF InTrash
  <2>2. \A i \in CaIds : keyring'[i] \in {Nothing, cas'[i]}
    <3>1. cas[CaId(s)] = [cert |-> s, key |-> s]
      <4>1. Stored(<<"dir", s>>)
        BY <1>5, <1>9 DEF Present, FilesOf
      <4>2. QED
        BY <4>1 DEF Stored
    <3>2. \A i \in CaIds : keyring'[i] = keyring[i] \/ (i = CaId(s) /\ keyring'[i] = [cert |-> s, key |-> s])
      BY <1>4 DEF SavePassphrase, KeepUnlocked, KInv, IInv, TypeOK
    <3>3. QED
      BY <1>2, <1>3, <3>1, <3>2 DEF Orderly, Opened
  <2>3. \A i \in CaIds : secrets'[i] = secrets[i] \/ (i = CaId(s) /\ secrets'[i] = s)
    BY <1>4 DEF SavePassphrase, KeepUnlocked, files, KInv, IInv, TypeOK
  <2>4. \A i \in CaIds : secrets'[i] # None =>
          secrets'[i] \in Made /\ IsCA(secrets'[i]) /\ CaId(secrets'[i]) = i
    <3> SUFFICES ASSUME NEW i \in CaIds, secrets'[i] # None
                 PROVE  secrets'[i] \in Made /\ IsCA(secrets'[i]) /\ CaId(secrets'[i]) = i
      OBVIOUS
    <3>1. CASE secrets'[i] = secrets[i]
      BY <3>1 DEF Orderly, Opened
    <3>2. CASE i = CaId(s) /\ secrets'[i] = s
      BY <1>5, <3>2
    <3>3. QED
      BY <2>3, <3>1, <3>2
  <2>5. \A t \in Serials : InTrash(<<"dir", t>>)' => secrets'[t] = None
    <3> SUFFICES ASSUME NEW t \in Serials, InTrash(<<"dir", t>>) PROVE secrets'[t] = None
      BY <2>1
    <3>1. t \in recorded /\ secrets[t] = None
      BY <1>3 DEF KInv, TrashedCAs, Orderly, Opened
    <3>2. t # CaId(s) /\ t \in CaIds
      BY <1>5, <3>1, KnownSerials DEF CaId, KInv
    <3>3. QED
      BY <2>3, <3>1, <3>2
  <2>6. \A i \in CaIds : secrets'[i] # None =>
          secrets'[i] \in Made' /\ IsCA(secrets[i])' /\ CaId(secrets[i])' = i
    <3> SUFFICES ASSUME NEW i \in CaIds, secrets'[i] # None
                 PROVE  secrets'[i] \in Made' /\ IsCA(secrets[i])' /\ CaId(secrets[i])' = i
      OBVIOUS
    <3>1. PICK t : t = secrets'[i] /\ t \in Made /\ IsCA(t) /\ CaId(t) = i
      BY <2>4
    <3>2. t \in Made' /\ IsCA(t)' /\ CaId(t)' = i
      BY <1>6, <3>1
    <3>3. QED
      BY <3>1, <3>2 DEF IsCA, CaId
  <2>7. QED
    BY <1>3, <2>2, <2>5, <2>6 DEF Opened
<1>15. QED
  BY <1>10, <1>11, <1>12, <1>13, <1>14 DEF Orderly

LEMMA WalkShiftAll ==
  \A s, p : Up(s) = p => \A n \in 0 .. MaxSerial : Walk(s)[n + 1] = Walk(p)[n]
BY WalkShift

LEMMA WalkShiftPrimed ==
  (\A s, p : Up(s) = p => \A n \in 0 .. MaxSerial : Walk(s)[n + 1] = Walk(p)[n])'
BY WalkShiftAll, PTL

\* The record of a new CA leads to its issuer, and from there to the root.
LEMMA NewChain ==
  ASSUME KInv, KInv', Orderly, NEW s \in Made \ recorded, UNCHANGED minted,
         index' = index \cup {s}, recorded' = recorded \cup {s},
         minted[s].kind = "intermediate", Signed(minted[s])
  PROVE  \E k \in 0 .. Cardinality(recorded') : Walk(s)'[k] = Root
<1> DEFINE p == minted[s].issuer
           by == minted[s].by
<1>1. by \in index /\ IsCA(by) /\ CaId(by) = p
  BY DEF Signed
<1>2. /\ IsFiniteSet(recorded) /\ Cardinality(recorded) \in Nat
      /\ Cardinality(recorded') = Cardinality(recorded) + 1
      /\ Cardinality(recorded') <= MaxSerial + 1
  <2>1. TypeOK /\ TypeOK'
    BY DEF KInv, IInv
  <2>2. recorded \in SUBSET Serials /\ recorded' \in SUBSET Serials
    BY <2>1 DEF TypeOK
  <2>3. QED
    BY <2>2, Counted, FS_AddElement
<1>3. PICK k \in 0 .. Cardinality(recorded) : Walk(p)[k] = Root
  <2>1. CASE minted[by].kind = "root"
    <3>1. p = Root
      BY <1>1, <2>1 DEF CaId
    <3>2. Walk(Root)[0] = Root /\ 0 \in 0 .. Cardinality(recorded)
      BY <1>2, WalkSteps
    <3>3. QED
      BY <3>1, <3>2
  <2>2. CASE minted[by].kind = "intermediate"
    <3>1. p = by
      BY <1>1, <2>2 DEF CaId
    <3>2. QED
      BY <1>1, <2>2, <3>1 DEF Orderly, Issuers
  <2>3. QED
    BY <1>1, <2>1, <2>2 DEF IsCA
<1>4. k \in 0 .. MaxSerial /\ k \in 0 .. MaxSerial + 1 /\ k + 1 \in 0 .. Cardinality(recorded')
  BY <1>2, <1>3, Bounds
<1>5. Walk(p)'[k] = Walk(p)[k]
  <2>1. p \in index \cup {Root, None}
    BY <1>1 DEF CaId
  <2>2. \A x \in index : minted[x].kind = "intermediate" => minted[x].by \in index
    BY DEF Orderly, Issuers, Signed
  <2>3. index \subseteq index' /\ \A x \in index : minted'[x] = minted[x]
    OBVIOUS
  <2>4. QED
    BY <1>4, <2>1, <2>2, <2>3, ChainsStay
<1>6. Up(s)' = p
  BY DEF Up
<1>7. Walk(s)'[k + 1] = Walk(p)'[k]
  <2>1. PICK q : q = p
    OBVIOUS
  <2>2. Up(s)' = q
    BY <1>6, <2>1
  <2>3. \A n \in 0 .. MaxSerial : Walk(s)'[n + 1] = Walk(q)'[n]
    BY <2>2, WalkShiftPrimed
  <2>4. Walk(q)' = Walk(p)'
    BY <2>1 DEF Walk
  <2>5. QED
    BY <1>4, <2>3, <2>4
<1>8. QED
  BY <1>3, <1>4, <1>5, <1>7

\* The record is added last.
LEMMA AddRecordOrderly ==
  ASSUME KInv, KInv', Orderly, Single', NEW r \in Requests, AddRecord(r)
  PROVE  Orderly'
<1>1. /\ pc[r] = "record" /\ pc[r] \in Saving /\ pc' = [pc EXCEPT ![r] = "idle"]
      /\ UNCHANGED <<minted, cas, pems, keys, secrets, trash, keyring>>
  BY DEF AddRecord, Reply, Goto, Saving
<1>2. /\ Removing = {} /\ Todo = {} /\ (\A f : ~ Gone(f)) /\ Saved = {Serial(r)}
  BY <1>1, FactsHold DEF KInv, Orderly, Facts, Saving
<1>3. /\ Saved' = {} /\ Removing' = {} /\ Todo' = {} /\ (\A f : ~ Gone(f)')
      /\ \A q \in Requests : pc'[q] = "idle"
  BY <1>1, NowQuiet
<1>4. PICK s : s = Serial(r)
  OBVIOUS
<1>5. s \in Made /\ s \notin recorded /\ s \notin index /\ index \subseteq Made
  BY <1>1, <1>4, KnownSerials DEF KInv, IInv, Savers
<1>6. recorded' = recorded \cup {s} /\ index' = index \cup {s}
  <2>1. \A t \in index : minted[t].kind = "root" => minted[s].kind # "root"
    BY <1>5 DEF Orderly, OneRoot
  <2>2. QED
    BY <1>4, <2>1 DEF AddRecord
<1>7. /\ \A x : /\ IsCA(x)' = IsCA(x) /\ HasKey(x)' = HasKey(x) /\ CaId(x)' = CaId(x)
                /\ FilesOf(x)' = FilesOf(x)
      /\ Made' = Made
  BY <1>1, AllAlike
<1>8. \A f : (Stored(f)' <=> Stored(f)) /\ (InTrash(f)' <=> InTrash(f))
  BY <1>1, <1>7 DEF Stored, InTrash
<1>9. Present(s)
  <2>1. Present(Serial(r))
    BY <1>1 DEF Orderly, Places
  <2>2. QED
    BY <1>4, <2>1 DEF Present
<1>10. OneRoot'
  BY <1>1, <1>3, <1>7 DEF Orderly, OneRoot
<1>11. Signed(minted[s])
  BY <1>2, <1>4 DEF Orderly, Issuers
<1>12. Issuers'
  <2>1. \A t \in index' : Signed(minted[t])
    BY <1>6, <1>11 DEF Orderly, Issuers
  <2>2. \A t \in index' : Signed(minted[t])'
    BY <1>1, <1>6, <1>7, <2>1 DEF Signed
  <2>3. \A t \in index : minted'[t].kind = "intermediate" =>
          \E k \in 0 .. Cardinality(recorded') : Walk(t)'[k] = Root
    <3>1. \A x \in index : minted[x].kind = "intermediate" => minted[x].by \in index
      BY DEF Orderly, Issuers, Signed
    <3>2. \A x \in index : minted'[x] = minted[x]
      BY <1>1
    <3>3. QED
      BY <1>6, <3>1, <3>2, RootsReached
  <2>4. minted'[s].kind = "intermediate" =>
          \E k \in 0 .. Cardinality(recorded') : Walk(s)'[k] = Root
    BY <1>1, <1>5, <1>6, <1>11, NewChain
  <2>5. QED
    BY <1>3, <1>6, <2>2, <2>3, <2>4 DEF Issuers
<1>13. Removals'
  BY <1>3, NothingRemoved
<1>14. Bins'
  BY <1>1, <1>2, <1>3, <1>6, BinsStay
<1>15. Opened'
  BY <1>1, <1>2, <1>3, <1>7, <1>8 DEF Orderly, Opened
<1>16. Places'
  <2>1. \A t \in index' : \A f \in FilesOf(t)' : Stored(f)'
    BY <1>2, <1>6, <1>7, <1>8, <1>9 DEF Orderly, Places, Present
  <2>2. /\ \A i \in CaIds : cas'[i] # Nothing => cas'[i].cert \in index'
        /\ \A t \in pems' : t \in index' /\ ~ IsCA(t)'
        /\ \A t \in keys' : t \in index' /\ ~ IsCA(t)' /\ HasKey(t)'
    BY <1>1, <1>2, <1>4, <1>6, <1>7 DEF Orderly, Places
  <2>3. QED
    BY <1>3, <2>1, <2>2 DEF Places, Saving
<1>17. QED
  BY <1>10, <1>12, <1>13, <1>14, <1>15, <1>16 DEF Orderly

LEMMA GiveUpOrderly ==
  ASSUME KInv, KInv', Orderly, Single', NEW r \in Requests, GiveUp(r)
  PROVE  Orderly'
<1>1. /\ pc[r] = "signing" /\ pc' = [pc EXCEPT ![r] = "idle"]
      /\ UNCHANGED <<minted, index, cas, pems, keys, secrets, trash, keyring, recorded>>
  BY DEF GiveUp, Reply, Goto, files
<1>2. Removing = {} /\ Todo = {} /\ Saved = {}
  BY <1>1, FactsHold DEF KInv, Orderly, Facts, Saving
<1>3. Saved' = {} /\ Removing' = {} /\ Todo' = {} /\ \A q \in Requests : pc'[q] = "idle"
  BY <1>1, NowQuiet
<1>4. OneRoot' /\ Issuers'
  BY <1>1, <1>2, <1>3, StandingStays
<1>5. QED
  BY <1>1, <1>2, <1>3, <1>4, FilesRest DEF Saving

----------------------------------------------------------------------------
(* Deleting.                                                               *)

\* What caSubtree returns is all that the CA and those below it have signed.
LEMMA SubtreeIsClosed ==
  ASSUME KInv, Orderly, NEW id \in Serials, id \in ListedCAs
  PROVE  /\ Subtree(id) \subseteq Leaves(index) /\ Subtree(id) # {}
         /\ \A s \in index : minted[s].kind # "root" /\ minted[s].by \in Subtree(id) =>
              s \in Subtree(id)
<1> DEFINE below == {s \in index : /\ minted[s].kind = "intermediate"
                                   /\ \E n \in 0 .. MaxSerial + 1 : Walk(s)[n] = id}
<1>1. Subtree(id) = below \cup {s \in index : ~ IsCA(s) /\ minted[s].issuer \in below}
  BY DEF Subtree
<1>2. Root \notin Serials /\ None \notin Serials /\ index \subseteq Serials
      /\ Root \notin index /\ None \notin index
  BY KnownSerials DEF KInv
<1>3. Subtree(id) \subseteq Leaves(index)
  BY <1>1 DEF Leaves, IsCA
<1>4. id \in Subtree(id)
  <2>1. id \in index /\ minted[id].kind = "intermediate"
    BY <1>2 DEF ListedCAs, CaId, IsCA
  <2>2. Walk(id)[0] = id /\ 0 \in 0 .. MaxSerial + 1
    BY WalkSteps, Bounds
  <2>3. QED
    BY <1>1, <2>1, <2>2
<1>5. ASSUME NEW s \in index, minted[s].kind # "root", minted[s].by \in Subtree(id)
      PROVE  s \in Subtree(id)
  <2>1. PICK p : p = minted[s].by
    OBVIOUS
  <2>2. p \in index /\ IsCA(p) /\ CaId(p) = minted[s].issuer
    BY <1>5, <2>1 DEF Orderly, Issuers, Signed
  <2>3. p \in below
    BY <1>1, <1>5, <2>1, <2>2
  <2>4. minted[s].issuer = p /\ minted[p].kind = "intermediate"
    BY <2>2, <2>3 DEF CaId
  <2>5. CASE ~ IsCA(s)
    BY <1>1, <2>3, <2>4, <2>5
  <2>6. CASE IsCA(s)
    <3>1. minted[s].kind = "intermediate" /\ Up(s) = p
      BY <1>5, <2>4, <2>6 DEF IsCA, Up
    <3>2. PICK n \in 0 .. MaxSerial + 1 : Walk(p)[n] = id
      BY <2>3
    <3>3. PICK k \in 0 .. Cardinality(recorded) : Walk(p)[k] = Root
      BY <2>2, <2>4 DEF Orderly, Issuers
    <3>4. Cardinality(recorded) \in Nat /\ Cardinality(recorded) <= MaxSerial + 1
      BY Counted DEF KInv, IInv, TypeOK
    <3>5. k \in 0 .. MaxSerial + 1
      BY <3>3, <3>4, Bounds
    <3>6. ~ (n > k)
      <4>1. Up(Root) = None /\ Up(None) = None
        BY <1>2 DEF Up
      <4>2. n > k => Walk(p)[n] = None
        BY <3>3, <3>5, <4>1, WalkEnds
      <4>3. QED
        BY <1>2, <3>2, <4>2
    <3>7. n # k
      BY <1>2, <3>2, <3>3
    <3>8. n \in 0 .. MaxSerial /\ n + 1 \in 0 .. MaxSerial + 1
      BY <3>5, <3>6, <3>7, Bounds
    <3>9. Walk(s)[n + 1] = id
      BY <3>1, <3>2, <3>8, WalkShift
    <3>10. QED
      BY <1>1, <3>1, <3>8, <3>9
  <2>7. QED
    BY <2>5, <2>6
<1>6. QED
  BY <1>3, <1>4, <1>5

LEMMA TrashOrderly ==
  ASSUME KInv, KInv', Orderly, Single', NEW r \in Requests,
         NEW removed \in SUBSET Leaves(index), removed # {}, Trash(r, removed),
         \A s \in index : minted[s].kind # "root" /\ minted[s].by \in removed => s \in removed
  PROVE  Orderly'
<1> DEFINE bin == [removed |-> removed, files |-> {}]
<1>1. /\ pc[r] = "idle" /\ pc' = [pc EXCEPT ![r] = "trash"]
      /\ trash' = Append(trash, bin)
      /\ job'[r].todo = Contents(removed)
      /\ UNCHANGED <<minted, index, cas, pems, keys, secrets, keyring, recorded>>
  BY DEF Trash, Goto, KInv, IInv, TypeOK, Job
<1>2. /\ Facts(r)' /\ pc'[r] = "trash"
      /\ Quiet /\ mu = None /\ Saved = {} /\ Removing = {} /\ Todo = {} /\ \A f : ~ Gone(f)
  BY <1>1, WasAlone
<1>3. /\ removed \subseteq Serials /\ removed \subseteq Made /\ removed \subseteq recorded
      /\ removed \subseteq index /\ index \subseteq recorded /\ recorded \subseteq Made
      /\ \A s \in removed : minted[s].kind # "root"
  BY KnownSerials DEF KInv, Leaves
<1>4. /\ trash' \in Seq(Bin) /\ Len(trash') = Len(trash) + 1 /\ Len(trash') \notin DOMAIN trash
      /\ trash'[Len(trash')] = bin /\ \A i \in DOMAIN trash : trash'[i] = trash[i]
      /\ DOMAIN trash' = DOMAIN trash \cup {Len(trash')} /\ Len(trash) \in Nat
  <2>1. bin \in Bin
    BY <1>3 DEF Bin
  <2>2. trash \in Seq(Bin)
    BY DEF KInv, IInv, TypeOK
  <2>3. QED
    BY <1>1, <2>1, <2>2
<1>5. /\ Removing' = removed /\ Todo' = Contents(removed) /\ Saved' = {}
      /\ \A q \in Requests : q # r => pc'[q] = "idle"
  BY <1>1, <1>2, <1>4 DEF Facts
<1>6. /\ \A x : /\ IsCA(x)' = IsCA(x) /\ HasKey(x)' = HasKey(x) /\ CaId(x)' = CaId(x)
                /\ FilesOf(x)' = FilesOf(x)
      /\ Made' = Made
  BY <1>1, AllAlike
<1>7. \A f : Stored(f)' <=> Stored(f)
  BY <1>1, <1>6 DEF Stored
<1>8. \A s \in removed : \A f \in FilesOf(s) : f \in Contents(removed)
  <2>1. \A s \in removed : \A f \in FilesOf(s) : f \in Files /\ f[2] = s
    BY <1>3 DEF FilesOf, Files
  <2>2. QED
    BY <2>1 DEF Contents
<1>9. \A f : Gone(f)' => f[2] \in removed /\ f \notin Contents(removed)
  BY <1>5 DEF Gone
<1>10. OneRoot' /\ Issuers'
  <2>1. \A q \in Requests : pc'[q] # "signing"
    BY <1>2, <1>5
  <2>2. QED
    BY <1>1, <1>2, <1>5, <2>1, StandingStays
<1>11. Places'
  <2>1. \A s \in index' : \A f \in FilesOf(s)' : Stored(f)'
    BY <1>1, <1>2, <1>6, <1>7 DEF Orderly, Places
  <2>2. ASSUME NEW i \in CaIds, cas'[i] # Nothing
        PROVE  cas'[i].cert \in index' /\ ~ Gone(<<"dir", cas[i].cert>>)'
    <3>1. PICK t : t = cas[i].cert /\ t = cas'[i].cert /\ t \in index
      BY <1>1, <1>2, <2>2 DEF Orderly, Places
    <3>2. IsCA(t)
      BY <1>1, <1>3, <2>2, <3>1, KnownSerials DEF KInv, Attributed
    <3>3. <<"dir", t>> \in FilesOf(t)
      BY <3>2 DEF FilesOf
    <3>4. ~ Gone(<<"dir", t>>)'
      BY <1>8, <1>9, <3>3
    <3>5. Gone(<<"dir", cas[i].cert>>)' <=> Gone(<<"dir", t>>)'
      BY <1>1, <3>1 DEF Gone
    <3>6. QED
      BY <1>1, <3>1, <3>4, <3>5
  <2>3. ASSUME NEW s \in pems PROVE s \in index' /\ ~ IsCA(s)' /\ ~ Gone(<<"pem", s>>)'
    <3>1. s \in index /\ ~ IsCA(s)
      BY <1>2 DEF Orderly, Places
    <3>2. <<"pem", s>> \in FilesOf(s)
      BY <3>1 DEF FilesOf
    <3>3. QED
      BY <1>1, <1>6, <1>8, <1>9, <3>1, <3>2
  <2>4. ASSUME NEW s \in keys
        PROVE  s \in index' /\ ~ IsCA(s)' /\ HasKey(s)' /\ ~ Gone(<<"key", s>>)'
    <3>1. s \in index /\ ~ IsCA(s) /\ HasKey(s)
      BY <1>2 DEF Orderly, Places
    <3>2. <<"key", s>> \in FilesOf(s)
      BY <3>1 DEF FilesOf
    <3>3. QED
      BY <1>1, <1>6, <1>8, <1>9, <3>1, <3>2
  <2>5. \A q \in Requests : pc'[q] \notin Saving /\ pc'[q] # "key"
    BY <1>2, <1>5 DEF Saving
  <2>6. QED
    BY <1>1, <2>1, <2>2, <2>3, <2>4, <2>5 DEF Places
<1>12. Removals'
  <2>1. Contents(removed)' = Contents(removed)
    BY <1>1, <1>6 DEF Contents
  <2>2. Contents(Removing)' = Contents(removed)
    BY <1>5, <2>1 DEF Contents
  <2>3. \A q \in Requests : pc'[q] # "drop"
    BY <1>2, <1>5
  <2>4. QED
    BY <1>1, <1>5, <2>2, <2>3 DEF Removals
<1>13. Bins'
  <2>1. \A s \in removed : minted[s].by \in index /\ IsCA(minted[s].by) /\ CaId(minted[s].by) = minted[s].issuer
    BY <1>3 DEF Orderly, Issuers, Signed
  <2>2. recorded' \subseteq index' \cup UNION {trash'[i].removed : i \in DOMAIN trash'}
    <3>1. recorded \subseteq index \cup UNION {trash[i].removed : i \in DOMAIN trash}
      BY DEF Orderly, Bins
    <3>2. QED
      BY <1>1, <1>4, <3>1
  <2>3. Leaves(recorded)' = Leaves(recorded) /\ removed \subseteq Leaves(recorded)
    BY <1>1, <1>3 DEF Leaves
  <2>4. \A s : minted[s].by \in recorded /\ IsCA(minted[s].by) /\ CaId(minted[s].by) = minted[s].issuer
          => minted'[s].by \in recorded' /\ IsCA(minted[s].by)' /\ CaId(minted[s].by)' = minted'[s].issuer
    BY <1>1 DEF IsCA, CaId
  <2>5. ASSUME NEW i \in DOMAIN trash'
        PROVE  /\ trash'[i].removed # {} /\ trash'[i].removed \subseteq Leaves(recorded)'
               /\ \A s \in trash'[i].removed :
                    /\ minted'[s].by \in recorded' /\ IsCA(minted[s].by)'
                    /\ CaId(minted[s].by)' = minted'[s].issuer
                    /\ FilesOf(s)' \subseteq
                         trash'[i].files \cup (IF i = Len(trash') THEN Todo' ELSE {})
    <3>1. CASE i \in DOMAIN trash
      <4>1. trash'[i] = trash[i] /\ i # Len(trash')
        BY <1>4, <3>1
      <4>2. /\ trash[i].removed # {} /\ trash[i].removed \subseteq Leaves(recorded)
            /\ \A s \in trash[i].removed :
                 /\ minted[s].by \in recorded /\ IsCA(minted[s].by)
                 /\ CaId(minted[s].by) = minted[s].issuer
                 /\ FilesOf(s) \subseteq trash[i].files
        BY <1>2, <3>1 DEF Orderly, Bins
      <4>3. QED
        BY <1>6, <2>3, <2>4, <4>1, <4>2
    <3>2. CASE i = Len(trash')
      <4>1. trash'[i].removed = removed
        BY <1>4, <3>2
      <4>2. \A s \in removed : FilesOf(s)' \subseteq Todo'
        BY <1>5, <1>6, <1>8
      <4>3. QED
        BY <1>3, <2>1, <2>3, <2>4, <3>2, <4>1, <4>2
    <3>3. QED
      BY <1>4, <2>5, <3>1, <3>2
  <2>6. QED
    BY <2>2, <2>5 DEF Bins
<1>14. Opened'
  <2>1. \A f : InTrash(f)' => InTrash(f)
    BY <1>4 DEF InTrash
  <2>2. \A s \in removed : <<"dir", s>> \in Contents(removed) => <<"secret", s>> \in Contents(removed)
    <3> SUFFICES ASSUME NEW s \in removed, <<"dir", s>> \in Contents(removed)
                 PROVE  <<"secret", s>> \in Contents(removed)
      OBVIOUS
    <3>1. IsCA(s)
      BY DEF Contents, FilesOf
    <3>2. <<"secret", s>> \in Files
      BY <1>3 DEF Files
    <3>3. QED
      BY <3>1, <3>2 DEF Contents
  <2>3. \A i \in CaIds : keyring'[i] \in {Nothing, cas'[i]}
    BY <1>1, <1>2 DEF Orderly, Opened
  <2>4. \A i \in CaIds : secrets'[i] # None =>
          secrets'[i] \in Made' /\ IsCA(secrets[i])' /\ CaId(secrets[i])' = i
    BY <1>1, <1>6 DEF Orderly, Opened
  <2>5. \A s \in Serials : InTrash(<<"dir", s>>)' => secrets'[s] = None
    BY <1>1, <1>2, <2>1 DEF Orderly, Opened
  <2>6. QED
    BY <1>5, <2>2, <2>3, <2>4, <2>5 DEF Opened
<1>15. QED
  BY <1>10, <1>11, <1>12, <1>13, <1>14 DEF Orderly

LEMMA DeleteOrderly ==
  ASSUME KInv, KInv', Orderly, Single', NEW r \in Requests, Delete(r)
  PROVE  Orderly'
<1>1. ASSUME NEW s \in Serials, DeleteCA(r, s) PROVE Orderly'
  BY <1>1, SubtreeIsClosed, TrashOrderly DEF DeleteCA
<1>2. ASSUME NEW s \in Serials, DeleteCert(r, s) PROVE Orderly'
  <2>1. {s} \subseteq Leaves(index) /\ {s} # {}
    BY <1>2 DEF DeleteCert, Leaves, IsCA
  <2>2. \A t \in index : minted[t].kind # "root" => minted[t].by # s
    BY <1>2 DEF DeleteCert, Orderly, Issuers, Signed
  <2>3. \A t \in index : minted[t].kind # "root" /\ minted[t].by \in {s} => t \in {s}
    BY <2>2
  <2>4. QED
    BY <1>2, <2>1, <2>3, TrashOrderly DEF DeleteCert
<1>3. QED
  BY <1>1, <1>2 DEF Delete

\* The index is saved when everything has been moved.
LEMMA UnlistOrderly ==
  ASSUME KInv, KInv', Orderly, Single', NEW r \in Requests, Unlist(r)
  PROVE  Orderly'
<1>1. /\ pc[r] = "trash" /\ pc' = [pc EXCEPT ![r] = "drop"] /\ job[r].todo = {}
      /\ UNCHANGED <<minted, cas, pems, keys, secrets, trash, keyring, recorded, mu, job>>
      /\ index' = index \ trash[Len(trash)].removed
  BY DEF Unlist, Goto, Unlisted
<1>2. mu = r /\ Saved = {} /\ Todo = {} /\ Removing = trash[Len(trash)].removed
  BY <1>1, FactsHold DEF KInv, Orderly, Facts
<1>3. /\ Saved' = {} /\ Todo' = {} /\ Removing' = Removing /\ pc'[r] = "drop"
      /\ \A q \in Requests : q # r => pc'[q] = "idle"
  <2>1. Facts(r)' /\ pc'[r] = "drop"
    BY <1>1, WasAlone
  <2>2. QED
    BY <1>1, <1>2, <2>1 DEF Facts
<1>4. /\ \A x : /\ IsCA(x)' = IsCA(x) /\ HasKey(x)' = HasKey(x) /\ CaId(x)' = CaId(x)
                /\ FilesOf(x)' = FilesOf(x)
      /\ Made' = Made
  BY <1>1, AllAlike
<1>5. \A f : (Stored(f)' <=> Stored(f)) /\ (InTrash(f)' <=> InTrash(f)) /\ (Gone(f)' <=> Gone(f))
  BY <1>1, <1>2, <1>3, <1>4 DEF Stored, InTrash, Gone
<1>6. \A s \in index : minted[s].kind # "root" /\ minted[s].by \in Removing => s \in Removing
  BY DEF Orderly, Removals
<1>7. \A s \in index' : s \in index /\ s \notin Removing /\ Signed(minted[s])
                        /\ (minted[s].kind # "root" => minted[s].by \in index')
  BY <1>1, <1>2, <1>6 DEF Orderly, Issuers, Signed
<1>8. OneRoot'
  <2>1. \A q \in Requests : pc'[q] # "signing"
    BY <1>3
  <2>2. QED
    BY <1>1, <1>4, <2>1 DEF Orderly, OneRoot
<1>9. Issuers'
  <2>1. \A q \in Requests : pc'[q] # "signing"
    BY <1>3
  <2>2. \A s \in index' : Signed(minted[s])'
    BY <1>1, <1>4, <1>7 DEF Signed
  <2>3. \A s \in index' : minted'[s].kind = "intermediate" =>
          \E k \in 0 .. Cardinality(recorded') : Walk(s)'[k] = Root
    <3>1. PICK kept : kept = index'
      OBVIOUS
    <3>2. /\ kept \subseteq index /\ kept \subseteq index' /\ recorded \subseteq recorded'
          /\ \A x \in kept : minted'[x] = minted[x]
          /\ \A x \in kept : minted[x].kind = "intermediate" => minted[x].by \in kept
      BY <1>1, <1>7, <3>1
    <3>3. \A s \in kept : minted'[s].kind = "intermediate" =>
            \E k \in 0 .. Cardinality(recorded') : Walk(s)'[k] = Root
      BY <3>2, RootsReached
    <3>4. QED
      BY <3>1, <3>3
  <2>4. QED
    BY <1>3, <2>1, <2>2, <2>3 DEF Issuers
<1>10. Places'
  <2>1. \A s \in index' : \A f \in FilesOf(s)' : Stored(f)' \/ Gone(f)'
    BY <1>4, <1>5, <1>7 DEF Orderly, Places
  <2>2. \A f : f[2] \in index /\ ~ Gone(f) => f[2] \in index'
    BY <1>1, <1>2 DEF Gone
  <2>3. ASSUME NEW i \in CaIds, cas'[i] # Nothing
        PROVE  cas'[i].cert \in index' /\ ~ Gone(<<"dir", cas[i].cert>>)'
    <3>1. PICK t : t = cas[i].cert /\ t = cas'[i].cert
      BY <1>1
    <3>2. t \in index /\ ~ Gone(<<"dir", cas[i].cert>>)
      BY <1>1, <1>2, <2>3, <3>1 DEF Orderly, Places
    <3>3. (Gone(<<"dir", cas[i].cert>>) <=> Gone(<<"dir", t>>))
          /\ (Gone(<<"dir", cas[i].cert>>)' <=> Gone(<<"dir", t>>)')
      BY <3>1 DEF Gone
    <3>4. t \in index'
      BY <2>2, <3>2, <3>3
    <3>5. QED
      BY <1>5, <3>1, <3>2, <3>3, <3>4
  <2>4. ASSUME NEW s \in pems
        PROVE  s \in index' /\ ~ IsCA(s)' /\ ~ Gone(<<"pem", s>>)'
    <3>1. s \in index /\ ~ IsCA(s) /\ ~ Gone(<<"pem", s>>)
      BY <1>2 DEF Orderly, Places
    <3>2. <<"pem", s>>[2] = s
      OBVIOUS
    <3>3. s \in index'
      BY <2>2, <3>1, <3>2
    <3>4. QED
      BY <1>4, <1>5, <3>1, <3>3
  <2>5. ASSUME NEW s \in keys
        PROVE  s \in index' /\ ~ IsCA(s)' /\ HasKey(s)' /\ ~ Gone(<<"key", s>>)'
    <3>1. s \in index /\ ~ IsCA(s) /\ HasKey(s) /\ ~ Gone(<<"key", s>>)
      BY <1>2 DEF Orderly, Places
    <3>2. <<"key", s>>[2] = s
      OBVIOUS
    <3>3. s \in index'
      BY <2>2, <3>1, <3>2
    <3>4. QED
      BY <1>4, <1>5, <3>1, <3>3
  <2>6. \A q \in Requests : pc'[q] \notin Saving /\ pc'[q] # "key"
    BY <1>3 DEF Saving
  <2>7. pems' = pems /\ keys' = keys
    BY <1>1
  <2>8. QED
    BY <2>1, <2>3, <2>4, <2>5, <2>6, <2>7 DEF Places
<1>11. Removals'
  <2>1. Removing' \cap index' = {}
    BY <1>1, <1>2, <1>3
  <2>2. QED
    BY <1>1, <1>3, <1>7, <2>1 DEF Removals
<1>12. Bins'
  <2>1. trash # <<>> /\ trash \in Seq(Bin)
    BY <1>1, <1>2, Markers DEF KInv, IInv, TypeOK, Removal
  <2>2. Len(trash) \in DOMAIN trash
    BY <2>1
  <2>3. recorded' \subseteq index' \cup UNION {trash'[i].removed : i \in DOMAIN trash'}
    BY <1>1, <2>2 DEF Orderly, Bins
  <2>4. Leaves(recorded)' = Leaves(recorded)
    BY <1>1 DEF Leaves
  <2>5. QED
    BY <1>1, <1>2, <1>3, <1>4, <2>3, <2>4 DEF Orderly, Bins
<1>13. Opened'
  BY <1>1, <1>2, <1>3, <1>4, <1>5 DEF Orderly, Opened
<1>14. QED
  BY <1>8, <1>9, <1>10, <1>11, <1>12, <1>13 DEF Orderly

\* The keys are forgotten, and the request is over.
LEMMA DropOrderly ==
  ASSUME KInv, KInv', Orderly, Single', NEW r \in Requests, Drop(r)
  PROVE  Orderly'
<1>1. /\ pc[r] = "drop" /\ pc' = [pc EXCEPT ![r] = "idle"]
      /\ UNCHANGED <<minted, index, cas, pems, keys, secrets, trash, recorded>>
      /\ keyring' = [id \in CaIds |-> IF id \in trash[Len(trash)].removed THEN Nothing ELSE keyring[id]]
  BY DEF Drop, Reply, Goto, files
<1>2. /\ mu = r /\ Saved = {} /\ Todo = {} /\ Removing = trash[Len(trash)].removed
      /\ Removing \cap index = {}
  BY <1>1, FactsHold DEF KInv, Orderly, Facts, Removals
<1>3. /\ Saved' = {} /\ Removing' = {} /\ Todo' = {} /\ (\A f : ~ Gone(f)')
      /\ \A q \in Requests : pc'[q] = "idle"
  BY <1>1, NowQuiet
<1>4. /\ \A x : /\ IsCA(x)' = IsCA(x) /\ HasKey(x)' = HasKey(x) /\ CaId(x)' = CaId(x)
                /\ FilesOf(x)' = FilesOf(x)
      /\ Made' = Made
  BY <1>1, AllAlike
<1>5. \A f : (Stored(f)' <=> Stored(f)) /\ (InTrash(f)' <=> InTrash(f))
  BY <1>1, <1>4 DEF Stored, InTrash
<1>6. OneRoot' /\ Issuers'
  BY <1>1, <1>2, <1>3, StandingStays
<1>7. Removals'
  BY <1>3, NothingRemoved
<1>8. Bins'
  BY <1>1, <1>2, <1>3, BinsStay
<1>9. Places'
  <2>1. \A s \in index : \A f \in FilesOf(s) : Stored(f)
    <3>1. \A s : \A f \in FilesOf(s) : f[2] = s
      BY DEF FilesOf
    <3>2. QED
      BY <1>2, <3>1 DEF Orderly, Places, Gone
  <2>2. /\ \A i \in CaIds : cas[i] # Nothing => cas[i].cert \in index
        /\ \A s \in pems : s \in index /\ ~ IsCA(s)
        /\ \A s \in keys : s \in index /\ ~ IsCA(s) /\ HasKey(s)
    BY <1>2 DEF Orderly, Places
  <2>3. QED
    BY <1>1, <1>3, <1>4, <1>5, <2>1, <2>2 DEF Places, Saving
<1>10. Opened'
  <2>1. \A i \in CaIds : keyring'[i] \in {Nothing, cas'[i]}
    BY <1>1, <1>2 DEF Orderly, Opened
  <2>2. QED
    BY <1>1, <1>2, <1>3, <1>4, <1>5, <2>1 DEF Orderly, Opened
<1>11. QED
  BY <1>6, <1>7, <1>8, <1>9, <1>10 DEF Orderly

\* A file that has to be moved is there, and goes into the last entry of the trash.
LEMMA MoveFacts ==
  ASSUME KInv, Orderly, faults = 0, faults' = 0, NEW r \in Requests, NEW f \in Files, Move(r, f)
  PROVE  /\ mu = r /\ pc[r] = "trash" /\ Saved = {} /\ Todo = job[r].todo
         /\ Removing = trash[Len(trash)].removed
         /\ f \in Todo /\ f[2] \in Removing /\ f[2] \in index /\ minted[f[2]].kind # "root"
         /\ f = <<f[1], f[2]>> /\ f[2] \in Serials /\ f[1] \in {"dir", "pem", "key", "secret"}
         /\ IF f[1] = "secret" THEN IsCA(f[2]) ELSE f \in FilesOf(f[2]) /\ Stored(f)
         /\ job' = [job EXCEPT ![r].todo = @ \ {f}]
         /\ UNCHANGED <<minted, index, keyring, mu, pc, recorded>>
         /\ cas' = IF f[1] = "dir" THEN [cas EXCEPT ![f[2]] = Nothing] ELSE cas
         /\ pems' = IF f[1] = "pem" THEN pems \ {f[2]} ELSE pems
         /\ keys' = IF f[1] = "key" THEN keys \ {f[2]} ELSE keys
         /\ secrets' = IF f[1] = "secret" /\ Stored(f)
                       THEN [secrets EXCEPT ![f[2]] = None] ELSE secrets
         /\ trash' = IF Stored(f) THEN [trash EXCEPT ![Len(trash)].files = @ \cup {f}] ELSE trash
         /\ f[1] = "secret" => \A g \in Todo : g[1] = "secret"
<1>1. /\ pc[r] = "trash" /\ f \in job[r].todo
      /\ job' = [job EXCEPT ![r].todo = @ \ {f}]
      /\ UNCHANGED <<minted, index, keyring, mu, pc, recorded>>
      /\ f[1] = "secret" => \A g \in job[r].todo : g[1] = "secret"
  BY DEF Move, Due
<1>2. /\ mu = r /\ Saved = {} /\ Todo = job[r].todo /\ Removing = trash[Len(trash)].removed
  BY <1>1, FactsHold DEF KInv, Orderly, Facts
<1>3. f[2] \in Removing /\ Removing \subseteq Leaves(index)
  BY <1>1, <1>2, Markers DEF KInv, IInv, Removal
<1>4. f[2] \in index /\ minted[f[2]].kind # "root"
  BY <1>3 DEF Leaves
<1>5. f = <<f[1], f[2]>> /\ f[2] \in Serials /\ f[1] \in {"dir", "pem", "key", "secret"}
  BY DEF Files
<1>6. f \in Contents(Removing)
  BY <1>1, <1>2 DEF Orderly, Removals
<1>7. f \in FilesOf(f[2]) \/ (f[1] = "secret" /\ IsCA(f[2]))
  BY <1>6 DEF Contents
<1>8. f \in FilesOf(f[2]) => f[1] # "secret" /\ Stored(f)
  <2>1. f \in FilesOf(f[2]) => f[1] # "secret"
    BY DEF FilesOf
  <2>2. f \in FilesOf(f[2]) => Stored(f) \/ Gone(f)
    BY <1>4 DEF Orderly, Places
  <2>3. ~ Gone(f)
    BY <1>1, <1>2 DEF Gone
  <2>4. QED
    BY <2>1, <2>2, <2>3
<1>9. IF Stored(f)
      THEN /\ trash' = [trash EXCEPT ![Len(trash)].files = @ \cup {f}]
           /\ cas' = IF f[1] = "dir" THEN [cas EXCEPT ![f[2]] = Nothing] ELSE cas
           /\ pems' = IF f[1] = "pem" THEN pems \ {f[2]} ELSE pems
           /\ keys' = IF f[1] = "key" THEN keys \ {f[2]} ELSE keys
           /\ secrets' = IF f[1] = "secret" THEN [secrets EXCEPT ![f[2]] = None] ELSE secrets
      ELSE UNCHANGED <<trash, cas, pems, keys, secrets>>
  BY DEF Move
<1>10. ~ Stored(f) => f[1] = "secret"
  BY <1>7, <1>8
<1>11. /\ cas' = IF f[1] = "dir" THEN [cas EXCEPT ![f[2]] = Nothing] ELSE cas
       /\ pems' = IF f[1] = "pem" THEN pems \ {f[2]} ELSE pems
       /\ keys' = IF f[1] = "key" THEN keys \ {f[2]} ELSE keys
       /\ secrets' = IF f[1] = "secret" /\ Stored(f)
                     THEN [secrets EXCEPT ![f[2]] = None] ELSE secrets
       /\ trash' = IF Stored(f) THEN [trash EXCEPT ![Len(trash)].files = @ \cup {f}] ELSE trash
  <2>1. CASE Stored(f)
    BY <1>9, <2>1
  <2>2. CASE ~ Stored(f)
    BY <1>9, <1>10, <2>2
  <2>3. QED
    BY <2>1, <2>2
<1>12. IF f[1] = "secret" THEN IsCA(f[2]) ELSE f \in FilesOf(f[2]) /\ Stored(f)
  BY <1>7, <1>8
<1>13. \A g \in Todo : f[1] = "secret" => g[1] = "secret"
  BY <1>1, <1>2
<1>14. f \in Todo
  BY <1>1, <1>2
<1>15. QED
  BY <1>1, <1>2, <1>3, <1>4, <1>5, <1>11, <1>12, <1>13, <1>14

LEMMA Replaced ==
  ASSUME NEW S, NEW q \in Seq(S), NEW n \in DOMAIN q, NEW e \in S
  PROVE  /\ [q EXCEPT ![n] = e] \in Seq(S)
         /\ Len([q EXCEPT ![n] = e]) = Len(q) /\ DOMAIN [q EXCEPT ![n] = e] = DOMAIN q
OBVIOUS

\* What the move leaves of the trash.
LEMMA MovedTrash ==
  ASSUME KInv, trash # <<>>, NEW f \in Files,
         trash' = IF Stored(f) THEN [trash EXCEPT ![Len(trash)].files = @ \cup {f}] ELSE trash
  PROVE  /\ Len(trash') = Len(trash) /\ DOMAIN trash' = DOMAIN trash /\ Len(trash) \in DOMAIN trash
         /\ \A i \in DOMAIN trash : /\ trash'[i].removed = trash[i].removed
                                   /\ trash[i].files \subseteq trash'[i].files
                                   /\ trash'[i].files \subseteq trash[i].files \cup {f}
         /\ Stored(f) => f \in trash'[Len(trash)].files
<1>1. trash \in Seq(Bin) /\ Len(trash) \in DOMAIN trash
  BY DEF KInv, IInv, TypeOK
<1>2. \A i \in DOMAIN trash : trash[i] \in Bin
  BY <1>1
<1>3. CASE Stored(f)
  <2> DEFINE new == [trash[Len(trash)] EXCEPT !.files = @ \cup {f}]
  <2>1. new \in Bin /\ new.removed = trash[Len(trash)].removed
        /\ new.files = trash[Len(trash)].files \cup {f}
    BY <1>1, <1>2 DEF Bin
  <2>2. trash' = [trash EXCEPT ![Len(trash)] = new]
    BY <1>3
  <2> HIDE DEF new
  <2>3. PICK n : n = Len(trash)
    OBVIOUS
  <2>4. n \in DOMAIN trash /\ trash' = [trash EXCEPT ![n] = new]
    BY <1>1, <2>2, <2>3
  <2>5. Len(trash') = n /\ DOMAIN trash' = DOMAIN trash
    BY <1>1, <2>1, <2>3, <2>4, Replaced
  <2>6. \A i \in DOMAIN trash : trash'[i] = IF i = n THEN new ELSE trash[i]
    BY <1>1, <2>4
  <2>7. QED
    BY <1>1, <2>1, <2>3, <2>5, <2>6
<1>4. CASE ~ Stored(f)
  BY <1>1, <1>4
<1>5. QED
  BY <1>3, <1>4

\* One rename: the file leaves its place, and the others stay where they are.
LEMMA MoveOrderly ==
  ASSUME KInv, KInv', Orderly, Single', faults = 0, faults' = 0,
         NEW r \in Requests, NEW f \in Files, Move(r, f)
  PROVE  Orderly'
<1> DEFINE n == Len(trash)
           c == f[2]
<1>1. /\ mu = r /\ pc[r] = "trash" /\ Saved = {} /\ Todo = job[r].todo
      /\ Removing = trash[n].removed
      /\ f \in Todo /\ c \in Removing /\ c \in index /\ minted[c].kind # "root"
      /\ f = <<f[1], c>> /\ c \in Serials /\ f[1] \in {"dir", "pem", "key", "secret"}
      /\ UNCHANGED <<minted, index, keyring, mu, pc, recorded>>
  BY MoveFacts
<1>2. IF f[1] = "secret" THEN IsCA(c) ELSE f \in FilesOf(c) /\ Stored(f)
  BY MoveFacts
<1>3. /\ cas' = IF f[1] = "dir" THEN [cas EXCEPT ![c] = Nothing] ELSE cas
      /\ pems' = IF f[1] = "pem" THEN pems \ {c} ELSE pems
      /\ keys' = IF f[1] = "key" THEN keys \ {c} ELSE keys
      /\ secrets' = IF f[1] = "secret" /\ Stored(f) THEN [secrets EXCEPT ![c] = None] ELSE secrets
      /\ f[1] = "secret" => \A g \in Todo : g[1] = "secret"
  BY MoveFacts
<1>4. /\ trash' = IF Stored(f) THEN [trash EXCEPT ![n].files = @ \cup {f}] ELSE trash
      /\ job' = [job EXCEPT ![r].todo = @ \ {f}]
  BY MoveFacts
<1>5. trash # <<>>
  BY <1>1, Markers DEF KInv, IInv, Removal
<1>6. /\ Len(trash') = n /\ DOMAIN trash' = DOMAIN trash /\ n \in DOMAIN trash
      /\ \A i \in DOMAIN trash : /\ trash'[i].removed = trash[i].removed
                                /\ trash[i].files \subseteq trash'[i].files
                                /\ trash'[i].files \subseteq trash[i].files \cup {f}
      /\ Stored(f) => f \in trash'[n].files
  BY <1>4, <1>5, MovedTrash
<1> HIDE DEF n
<1>7. /\ Removing' = Removing
      /\ \A q \in Requests : pc'[q] \notin Saving \cup {"drop", "key", "signing"}
  <2>1. Removing' = trash'[n].removed
    BY <1>1, <1>6, Markers DEF Removing, n
  <2>2. \A q \in Requests : q # r => pc[q] = "idle"
    BY <1>1 DEF Orderly, Single
  <2>3. QED
    BY <1>1, <1>6, <2>1, <2>2 DEF Saving
<1>8. Saved' = {} /\ Todo' = Todo \ {f}
  <2>1. job'[r].todo = job[r].todo \ {f}
    BY <1>4 DEF KInv, IInv, TypeOK, Job
  <2>2. Todo' = job'[r].todo
    BY <1>1, Markers DEF Todo
  <2>3. QED
    BY <1>1, <1>7, <2>1, <2>2 DEF Saved
<1>9. \A g : Gone(g)' <=> Gone(g) \/ g = f
  BY <1>1, <1>7, <1>8 DEF Gone
<1>10. /\ \A x : /\ IsCA(x)' = IsCA(x) /\ HasKey(x)' = HasKey(x) /\ CaId(x)' = CaId(x)
                 /\ FilesOf(x)' = FilesOf(x)
       /\ Made' = Made
  BY <1>1, AllAlike
<1>11. /\ Root \notin Serials /\ None \notin Serials /\ Serials \subseteq CaIds /\ c \in CaIds
       /\ CaId(c) = c /\ cas \in [CaIds -> Pair] /\ secrets \in [CaIds -> Serials \cup {None}]
  BY <1>1, KnownSerials DEF KInv, IInv, TypeOK, CaId
<1>12. OneRoot' /\ Issuers'
  BY <1>1, <1>7, <1>8, StandingStays
<1>13. Places'
  <2>1. ASSUME NEW s \in index', NEW g \in FilesOf(s)'
        PROVE  Stored(g)' \/ Gone(g)'
    <3>1. s \in index /\ g \in FilesOf(s)
      BY <1>1, <1>10
    <3>2. Stored(g) \/ Gone(g)
      BY <3>1 DEF Orderly, Places
    <3>3. SUFFICES ASSUME Stored(g), g # f PROVE Stored(g)'
      BY <1>9, <3>2
    <3>4. CASE g = <<"dir", s>> /\ IsCA(s)
      <4>1. cas[CaId(s)] = [cert |-> s, key |-> s] /\ CaId(s)' = CaId(s)
        BY <1>10, <3>3, <3>4 DEF Stored
      <4>2. f[1] = "dir" => CaId(s) # c
        BY <1>1, <1>11, <3>1, <3>3, <3>4 DEF CaId
      <4>3. cas'[CaId(s)] = cas[CaId(s)]
        BY <1>3, <1>11, <4>2
      <4>4. QED
        BY <3>4, <4>1, <4>3 DEF Stored
    <3>5. CASE g = <<"pem", s>>
      BY <1>1, <1>3, <3>3, <3>5 DEF Stored
    <3>6. CASE g = <<"key", s>>
      BY <1>1, <1>3, <3>3, <3>6 DEF Stored
    <3>7. QED
      BY <3>1, <3>4, <3>5, <3>6 DEF FilesOf
  <2>2. ASSUME NEW i \in CaIds, cas'[i] # Nothing
        PROVE  cas'[i].cert \in index' /\ ~ Gone(<<"dir", cas[i].cert>>)'
    <3>1. cas'[i] = cas[i] /\ (f[1] = "dir" => i # c)
      BY <1>3, <1>11, <2>2
    <3>2. PICK t : t = cas[i].cert /\ t = cas'[i].cert
      BY <3>1
    <3>3. t \in index /\ ~ Gone(<<"dir", cas[i].cert>>)
      BY <1>1, <2>2, <3>1, <3>2 DEF Orderly, Places
    <3>4. (Gone(<<"dir", cas[i].cert>>) <=> Gone(<<"dir", t>>))
          /\ (Gone(<<"dir", cas[i].cert>>)' <=> Gone(<<"dir", t>>)')
      BY <3>2 DEF Gone
    <3>5. CaId(t) = i
      <4>1. t # None
        BY <3>3, KnownSerials DEF KInv
      <4>2. QED
        BY <3>2, <4>1 DEF KInv, Attributed
    <3>6. <<"dir", t>> # f
      BY <1>11, <3>1, <3>5
    <3>7. QED
      BY <1>1, <1>9, <3>2, <3>3, <3>4, <3>6
  <2>3. ASSUME NEW s \in pems'
        PROVE  s \in index' /\ ~ IsCA(s)' /\ ~ Gone(<<"pem", s>>)'
    <3>1. s \in pems /\ (f[1] = "pem" => s # c)
      BY <1>3, <2>3
    <3>2. s \in index /\ ~ IsCA(s) /\ ~ Gone(<<"pem", s>>)
      BY <1>1, <3>1 DEF Orderly, Places
    <3>3. <<"pem", s>> # f
      BY <3>1
    <3>4. QED
      BY <1>1, <1>9, <1>10, <3>2, <3>3
  <2>4. ASSUME NEW s \in keys'
        PROVE  s \in index' /\ ~ IsCA(s)' /\ HasKey(s)' /\ ~ Gone(<<"key", s>>)'
    <3>1. s \in keys /\ (f[1] = "key" => s # c)
      BY <1>3, <2>4
    <3>2. s \in index /\ ~ IsCA(s) /\ HasKey(s) /\ ~ Gone(<<"key", s>>)
      BY <1>1, <3>1 DEF Orderly, Places
    <3>3. <<"key", s>> # f
      BY <3>1
    <3>4. QED
      BY <1>1, <1>9, <1>10, <3>2, <3>3
  <2>5. \A q \in Requests : pc'[q] \notin Saving /\ pc'[q] # "key"
    BY <1>7
  <2>6. QED
    BY <2>1, <2>2, <2>3, <2>4, <2>5 DEF Places
<1>14. Removals'
  <2>1. Contents(Removing)' = Contents(Removing)
    BY <1>7, <1>10 DEF Contents
  <2>2. \A q \in Requests : pc'[q] # "drop"
    BY <1>7
  <2>3. QED
    BY <1>1, <1>7, <1>8, <2>1, <2>2 DEF Orderly, Removals
<1>15. Bins'
  <2>1. /\ recorded \subseteq index \cup UNION {trash[i].removed : i \in DOMAIN trash}
        /\ \A i \in DOMAIN trash :
             /\ trash[i].removed # {} /\ trash[i].removed \subseteq Leaves(recorded)
             /\ \A s \in trash[i].removed :
                  /\ minted[s].by \in recorded /\ IsCA(minted[s].by)
                  /\ CaId(minted[s].by) = minted[s].issuer
                  /\ FilesOf(s) \subseteq trash[i].files \cup (IF i = n THEN Todo ELSE {})
    BY DEF Orderly, Bins, n
  <2>2. Leaves(recorded)' = Leaves(recorded)
    BY <1>1 DEF Leaves
  <2>3. ASSUME NEW i \in DOMAIN trash, NEW s \in trash[i].removed
        PROVE  FilesOf(s) \subseteq trash'[i].files \cup (IF i = n THEN Todo' ELSE {})
    <3>1. FilesOf(s) \subseteq trash[i].files \cup (IF i = n THEN Todo ELSE {})
      BY <2>1
    <3>2. f \in FilesOf(s) => Stored(f)
      <4>1. f \in FilesOf(s) => f[1] # "secret"
        BY DEF FilesOf
      <4>2. QED
        BY <1>2, <4>1
    <3>3. CASE i = n
      BY <1>6, <1>8, <3>1, <3>2, <3>3
    <3>4. CASE i # n
      BY <1>6, <3>1, <3>4
    <3>5. QED
      BY <3>3, <3>4
  <2>4. ASSUME NEW i \in DOMAIN trash, NEW s \in trash[i].removed
        PROVE  /\ minted'[s].by \in recorded' /\ IsCA(minted[s].by)'
               /\ CaId(minted[s].by)' = minted'[s].issuer
    <3>1. minted[s].by \in recorded /\ IsCA(minted[s].by) /\ CaId(minted[s].by) = minted[s].issuer
      BY <2>1
    <3>2. IsCA(minted[s].by)' = IsCA(minted[s].by) /\ CaId(minted[s].by)' = CaId(minted[s].by)
      BY <1>1 DEF IsCA, CaId
    <3>3. QED
      BY <1>1, <3>1, <3>2
  <2>5. recorded' \subseteq index' \cup UNION {trash'[i].removed : i \in DOMAIN trash'}
    BY <1>1, <1>6, <2>1
  <2>6. \A i \in DOMAIN trash' :
          /\ trash'[i].removed # {} /\ trash'[i].removed \subseteq Leaves(recorded)'
          /\ \A s \in trash'[i].removed :
               /\ minted'[s].by \in recorded' /\ IsCA(minted[s].by)'
               /\ CaId(minted[s].by)' = minted'[s].issuer
               /\ FilesOf(s)' \subseteq trash'[i].files \cup (IF i = Len(trash') THEN Todo' ELSE {})
    BY <1>6, <1>10, <2>1, <2>2, <2>3, <2>4
  <2>7. QED
    BY <2>5, <2>6 DEF Bins
<1>16. Opened'
  <2>1. \A i \in CaIds : keyring'[i] \in {Nothing, cas'[i]} \/ i \in Removing'
    BY <1>1, <1>3, <1>7, <1>11 DEF Orderly, Opened
  <2>2. \A i \in CaIds : secrets'[i] \in {None, secrets[i]}
    BY <1>3, <1>11
  <2>3. ASSUME NEW i \in CaIds, secrets'[i] # None
        PROVE  secrets'[i] \in Made' /\ IsCA(secrets[i])' /\ CaId(secrets[i])' = i
    <3>1. PICK t : t = secrets[i] /\ t = secrets'[i]
      BY <2>2, <2>3
    <3>2. t \in Made /\ IsCA(t) /\ CaId(t) = i
      BY <2>3, <3>1 DEF Orderly, Opened
    <3>3. IsCA(secrets[i])' = IsCA(t)' /\ CaId(secrets[i])' = CaId(t)'
      BY <3>1 DEF IsCA, CaId
    <3>4. QED
      BY <1>10, <3>1, <3>2, <3>3
  <2>4. f[1] = "secret" => secrets'[c] = None
    <3>1. SUFFICES ASSUME f[1] = "secret", ~ Stored(f), secrets[c] # None PROVE FALSE
      BY <1>3, <1>11
    <3>2. secrets[c] # c
      BY <1>11, <3>1 DEF Stored
    <3>3. CaId(secrets[c]) = c
      BY <1>11, <3>1 DEF Orderly, Opened
    <3>4. QED
      BY <1>1, <1>11, <3>2, <3>3 DEF CaId
  <2>5. ASSUME NEW s \in Serials, InTrash(<<"dir", s>>)'
        PROVE  secrets'[s] = None \/ <<"secret", s>> \in Todo'
    <3>1. CASE <<"dir", s>> = f
      <4>1. s = c /\ f[1] = "dir"
        BY <1>1, <3>1
      <4>2. <<"secret", s>> \in Todo
        BY <1>1, <3>1, <4>1 DEF Orderly, Opened
      <4>3. QED
        BY <1>8, <3>1, <4>2
    <3>2. CASE <<"dir", s>> # f
      <4>1. InTrash(<<"dir", s>>)
        BY <1>6, <2>5, <3>2 DEF InTrash
      <4>2. secrets[s] = None \/ <<"secret", s>> \in Todo
        BY <4>1 DEF Orderly, Opened
      <4>3. CASE secrets[s] = None
        BY <1>11, <2>2, <4>3
      <4>4. CASE <<"secret", s>> \in Todo /\ <<"secret", s>> # f
        BY <1>8, <4>4
      <4>5. CASE <<"secret", s>> = f
        BY <1>1, <2>4, <4>5
      <4>6. QED
        BY <4>2, <4>3, <4>4, <4>5
    <3>3. QED
      BY <3>1, <3>2
  <2>6. ASSUME NEW s \in Removing', <<"dir", s>> \in Todo'
        PROVE  <<"secret", s>> \in Todo'
    <3>1. s \in Removing /\ <<"dir", s>> \in Todo
      BY <1>7, <1>8, <2>6
    <3>2. <<"secret", s>> \in Todo
      BY <3>1 DEF Orderly, Opened
    <3>3. f[1] # "secret"
      BY <1>3, <3>1
    <3>4. QED
      BY <1>1, <1>8, <3>2, <3>3
  <2>7. QED
    BY <2>1, <2>3, <2>5, <2>6 DEF Opened
<1>17. QED
  BY <1>12, <1>13, <1>14, <1>15, <1>16 DEF Orderly

----------------------------------------------------------------------------
(* The scene.                                                              *)

\* While requests come one after the other nothing is interrupted.
LEMMA NothingFails ==
  ASSUME KInv, Next, alone, Within
  PROVE  /\ faults = 0 /\ faults' = 0
         /\ \E r \in Requests :
              \/ Create(r) \/ Certify(r) \/ Delete(r) \/ Save(r) \/ GiveUp(r)
              \/ (\E f \in Files : Move(r, f) \/ DirMissing(r, f)) \/ Unlist(r) \/ Drop(r)
<1>1. faults' = 0 /\ crashes' = 0 /\ faults \in Nat /\ crashes \in Nat
  BY Bounds DEF Within, KInv, IInv, TypeOK
<1>2. ~ Restart
  BY <1>1 DEF Restart
<1>3. \A r \in Requests : ~ StorageError(r)
  BY <1>1 DEF StorageError
<1>4. PICK r \in Requests :
        Create(r) \/ Certify(r) \/ Delete(r) \/ Save(r) \/ Discard(r) \/ GiveUp(r)
  BY <1>2, <1>3 DEF Next
<1>5. faults = 0
  <2>1. CASE Create(r) \/ Certify(r)
    BY <1>1, <2>1 DEF Create, Certify, CreateRoot, CreateIntermediate, Push, Issue, Draft
  <2>2. CASE Delete(r) \/ GiveUp(r)
    BY <1>1, <2>2 DEF Delete, DeleteCA, DeleteCert, Trash, GiveUp
  <2>3. CASE Save(r)
    BY <1>1, <2>3 DEF Save, Sign, SaveKey, SavePassphrase, KeepUnlocked, AddRecord
  <2>4. CASE Discard(r)
    BY <1>1, <2>4 DEF Discard, Move, DirMissing, Unlist, Drop
  <2>5. QED
    BY <1>4, <2>1, <2>2, <2>3, <2>4
<1>6. QED
  BY <1>1, <1>4, <1>5 DEF Discard

\* and no directory that trash has to move is missing.
LEMMA NoneMissing ==
  ASSUME KInv, Orderly, NEW r \in Requests, NEW f \in Files, DirMissing(r, f)
  PROVE  FALSE
<1>1. pc[r] = "trash" /\ f \in job[r].todo /\ f[1] = "dir" /\ ~ Stored(f)
  BY DEF DirMissing, Due
<1>2. mu = r /\ Todo = job[r].todo /\ Removing = trash[Len(trash)].removed
  BY <1>1, FactsHold DEF KInv, Orderly, Facts
<1>3. f \in Contents(Removing)
  BY <1>1, <1>2 DEF Orderly, Removals
<1>4. f[2] \in Removing /\ Removing \subseteq Leaves(index)
  BY <1>1, <1>2, Markers DEF KInv, IInv, Removal
<1>5. f[2] \in index /\ f \in FilesOf(f[2])
  BY <1>1, <1>3, <1>4 DEF Contents, Leaves
<1>6. ~ Gone(f)
  BY <1>1, <1>2 DEF Gone
<1>7. QED
  BY <1>1, <1>5, <1>6 DEF Orderly, Places

LEMMA NextOrderly ==
  ASSUME MaxRoots <= 1, IsFiniteSet(Requests), KInv, KInv', Orderly, alone, Next, Within
  PROVE  Orderly'
<1>1. Single'
  BY OneAtATime DEF Within
<1>2. faults = 0 /\ faults' = 0
  BY NothingFails
<1>3. PICK r \in Requests :
        \/ Create(r) \/ Certify(r) \/ Delete(r) \/ Save(r) \/ GiveUp(r)
        \/ (\E f \in Files : Move(r, f) \/ DirMissing(r, f)) \/ Unlist(r) \/ Drop(r)
  BY NothingFails
<1>4. CASE Create(r) \/ Certify(r)
  BY <1>1, <1>4, BeginOrderly
<1>5. CASE Save(r)
  BY <1>1, <1>5, SignOrderly, SaveKeyOrderly, UnlockOrderly, AddRecordOrderly DEF Save
<1>6. CASE GiveUp(r)
  BY <1>1, <1>6, GiveUpOrderly
<1>7. CASE Delete(r)
  BY <1>1, <1>7, DeleteOrderly
<1>8. CASE \E f \in Files : Move(r, f) \/ DirMissing(r, f)
  BY <1>1, <1>2, <1>8, MoveOrderly, NoneMissing
<1>9. CASE Unlist(r)
  BY <1>1, <1>9, UnlistOrderly
<1>10. CASE Drop(r)
  BY <1>1, <1>10, DropOrderly
<1>11. QED
  BY <1>3, <1>4, <1>5, <1>6, <1>7, <1>8, <1>9, <1>10

LEMMA SameOrder ==
  ASSUME UNCHANGED vars
  PROVE  Orderly' <=> Orderly
<1>1. /\ UNCHANGED <<minted, index, cas, pems, keys, secrets, trash, keyring, mu, pc, job, recorded>>
      /\ \A x : /\ IsCA(x)' = IsCA(x) /\ HasKey(x)' = HasKey(x) /\ CaId(x)' = CaId(x)
                /\ FilesOf(x)' = FilesOf(x) /\ Walk(x)' = Walk(x)
      /\ Made' = Made
  BY AllAlike DEF vars, files, Walk
<1>2. Saved' = Saved /\ Removing' = Removing /\ Todo' = Todo
  BY <1>1 DEF Saved, Removing, Todo, Serial
<1>3. \A f : /\ Gone(f)' <=> Gone(f)
             /\ Stored(f)' <=> Stored(f)
             /\ InTrash(f)' <=> InTrash(f)
  BY <1>1, <1>2 DEF Gone, Stored, InTrash
<1>4. (Single' <=> Single) /\ (OneRoot' <=> OneRoot)
  BY <1>1 DEF Single, OneRoot
<1>5. Issuers' <=> Issuers
  <2>1. \A c : Signed(c)' <=> Signed(c)
    BY <1>1 DEF Signed
  <2>2. QED
    BY <1>1, <1>2, <2>1 DEF Issuers
<1>6. Places' <=> Places
  BY <1>1, <1>2, <1>3 DEF Places, Serial, Present
<1>7. Removals' <=> Removals
  BY <1>1, <1>2 DEF Removals, Contents
<1>8. Bins' <=> Bins
  BY <1>1, <1>2 DEF Bins, Leaves
<1>9. Opened' <=> Opened
  BY <1>1, <1>2, <1>3 DEF Opened
<1>10. QED
  BY <1>4, <1>5, <1>6, <1>7, <1>8, <1>9 DEF Orderly

LEMMA SceneStep ==
  ASSUME MaxRoots <= 1, IsFiniteSet(Requests), SInv, [SceneNext]_<<vars, alone>>
  PROVE  SInv'
<1>1. KInv'
  BY KeysStep DEF SInv, SceneNext
<1>2. alone' = alone
  BY DEF SceneNext
<1>3. ASSUME alone PROVE Orderly'
  <2>1. CASE SceneNext
    BY <1>1, <1>3, <2>1, NextOrderly DEF SInv, SceneNext
  <2>2. CASE UNCHANGED <<vars, alone>>
    BY <1>3, <2>2, SameOrder DEF SInv
  <2>3. QED
    BY <2>1, <2>2
<1>4. QED
  BY <1>1, <1>2, <1>3 DEF SInv

\* What holds between the steps of creations, issues, pushes and deletions that come
\* one after the other (CreateCA, IssueCert, SignCSR, gnoiPush, DeleteCA, DeleteCert),
\* while no root is made twice: every record names the CA that signed it, every file is
\* in its place or, once trash has moved it, in the entry that lists it.
THEOREM SceneInvariant ==
  ASSUME MaxRoots <= 1, IsFiniteSet(Requests)
  PROVE  SceneSpec => []SInv
<1>1. SInv /\ [SceneNext]_<<vars, alone>> => SInv'
  BY SceneStep
<1>2. SceneInit => SInv
  BY InitSInv
<1>3. QED
  BY <1>1, <1>2, PTL DEF SceneSpec

\* One after the other, Store.DeleteCA takes the whole subtree and nothing of it stays
\* listed, unlocked or readable with a passphrase file, and what snapshotBackup reads
\* after any of them is a backup that validateBackup accepts.
THEOREM AtRestHolds ==
  ASSUME MaxRoots <= 1, IsFiniteSet(Requests)
  PROVE  SceneSpec => []AtRest
  BY SceneInvariant, RestFollows, PTL
=============================================================================
