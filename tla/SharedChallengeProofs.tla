----------------------- MODULE SharedChallengeProofs -----------------------
(***************************************************************************)
(* Theorems about SharedChallenge, for any number of challenges, requests, *)
(* addresses and certificates, and any capacity, window and retention.     *)
(* The first part holds as long as no backup is restored: a restore takes  *)
(* the issuances after the backup out of the journal, and with them what   *)
(* the limits rest on.  The second holds however often one is restored.    *)
(***************************************************************************)
EXTENDS SharedChallenge, TLAPS

LEMMA InitIInv ==
  ASSUME Init PROVE IInv
BY Times, Inputs DEF Init, IInv, TypeOK, InOrder, Remembered, Accounts, RateWindow, OnePerRequest,
  StaysWithSource, DeliveredOnRecord, NoResurrection, AllPending

\* Every operation but Grant: issuances may leave the journal when they are not fresh,
\* certificates may be listed when they are pending, and be deleted.
LEMMA Quiet ==
  ASSUME IInv, TypeOK', minted' = minted, now' >= now,
         created \subseteq created',
         \A c \in DOMAIN journal' :
            \/ c \in DOMAIN journal
            \/ c \notin created /\ c \in created' /\ Certificates(c)' = {},
         \A c \in DOMAIN journal' : c \in DOMAIN journal =>
            /\ Certificates(c)' \subseteq Certificates(c)
            /\ \A x \in Certificates(c) : Fresh(x) => x \in Certificates(c)',
         AllPending' \subseteq AllPending, AllPending' \cap trash' = {},
         index' \cup trash' \subseteq index \cup trash \cup AllPending,
         index \cup trash \subseteq index' \cup trash',
         index' \cap trash' = {},
         \A m \in sent' : \/ m \in sent
                          \/ /\ m.cert \in DOMAIN minted /\ m.cert \in index'
                             /\ m.src = minted[m.cert].src
                             /\ m.tx = minted[m.cert].tx /\ m.csr = minted[m.cert].csr
  PROVE  IInv'
<1>1. \A x \in DOMAIN minted : minted[x].used \in Nat
  BY DEF IInv, TypeOK, Certificate
<1>2. InOrder'
  <2>1. \A x \in DOMAIN minted : minted[x].used <= now'
    BY <1>1, Times DEF IInv, InOrder, TypeOK
  <2>2. DOMAIN journal' \subseteq created'
    BY DEF IInv, InOrder
  <2>3. QED
    BY <2>1, <2>2 DEF IInv, InOrder
<1>3. Remembered'
  <2>1. ASSUME NEW c \in DOMAIN journal', NEW x \in Certificates(c)'
        PROVE  x \in DOMAIN minted /\ minted[x].challenge = c
    BY <2>1 DEF IInv, Remembered
  <2>2. ASSUME NEW x \in DOMAIN minted, minted[x].challenge \in DOMAIN journal', Fresh(x)'
        PROVE  x \in Certificates(minted[x].challenge)'
    <3>1. minted[x].challenge \in DOMAIN journal
      BY <2>2 DEF IInv, InOrder
    <3>2. Fresh(x)
      BY <1>1, <2>2, Times DEF Fresh, IInv, TypeOK
    <3>3. QED
      BY <2>2, <3>1, <3>2 DEF IInv, Remembered
  <2>3. QED
    BY <2>1, <2>2 DEF Remembered
<1>4. AllPending \subseteq DOMAIN minted
  BY DEF AllPending, Pending, IInv, Remembered, Certificates
<1>5. Accounts'
  BY <1>4 DEF IInv, Accounts
<1>6. RateWindow' /\ OnePerRequest'
  BY DEF IInv, RateWindow, OnePerRequest, Identity
<1>7. StaysWithSource' /\ DeliveredOnRecord' /\ NoResurrection'
  BY DEF IInv, StaysWithSource, DeliveredOnRecord, NoResurrection
<1>8. QED
  BY <1>2, <1>3, <1>5, <1>6, <1>7 DEF IInv

----------------------------------------------------------------------------
\* Marking what is published neither adds nor drops an issuance.
LEMMA MarkedFacts ==
  ASSUME NEW S \in SUBSET Issuance
  PROVE  /\ Marked(S) \in SUBSET Issuance
         /\ {i.cert : i \in Marked(S)} = {i.cert : i \in S}
         /\ {i.cert : i \in {j \in Marked(S) : ~ j.published}} = {}
<1>1. Marked(S) \in SUBSET Issuance
  <2> SUFFICES ASSUME NEW i \in Marked(S) PROVE i \in Issuance
    OBVIOUS
  <2>1. PICK j \in S : i = [cert |-> j.cert, published |-> TRUE]
    BY DEF Marked
  <2>2. QED
    BY <2>1 DEF Issuance
<1>2. \A i \in Marked(S) : i.published /\ \E j \in S : i.cert = j.cert
  BY DEF Marked
<1>3. ASSUME NEW j \in S PROVE \E i \in Marked(S) : i.cert = j.cert
  <2>1. [cert |-> j.cert, published |-> TRUE] \in Marked(S)
    BY DEF Marked
  <2>2. QED
    BY <2>1
<1>4. QED
  BY <1>1, <1>2, <1>3

\* A challenge whose issuances are replaced.
LEMMA WithIssuances ==
  ASSUME NEW e \in Challenge, NEW S \in SUBSET Issuance
  PROVE  /\ [e EXCEPT !.issuances = S] \in Challenge
         /\ [e EXCEPT !.issuances = S].issuances = S
BY DEF Challenge

LEMMA Entries ==
  ASSUME TypeOK, NEW c \in DOMAIN journal
  PROVE  journal[c] \in Challenge /\ journal[c].issuances \in SUBSET Issuance
BY DEF TypeOK, Challenge

LEMMA RecoveredFacts ==
  ASSUME TypeOK
  PROVE  /\ DOMAIN Recovered = DOMAIN journal
         /\ Recovered \in [DOMAIN journal -> Challenge]
         /\ \A c \in DOMAIN journal :
              /\ Recovered[c].issuances = Marked(journal[c].issuances)
              /\ {i.cert : i \in Recovered[c].issuances} = Certificates(c)
              /\ {i.cert : i \in {j \in Recovered[c].issuances : ~ j.published}} = {}
<1>1. DOMAIN Recovered = DOMAIN journal
  BY DEF Recovered
<1>2. ASSUME NEW c \in DOMAIN journal
      PROVE  /\ Recovered[c] \in Challenge
             /\ Recovered[c].issuances = Marked(journal[c].issuances)
  <2>1. Recovered[c] = [journal[c] EXCEPT !.issuances = Marked(journal[c].issuances)]
    BY DEF Recovered
  <2>2. QED
    BY <2>1, Entries, MarkedFacts, WithIssuances
<1>3. ASSUME NEW c \in DOMAIN journal
      PROVE  /\ {i.cert : i \in Recovered[c].issuances} = Certificates(c)
             /\ {i.cert : i \in {j \in Recovered[c].issuances : ~ j.published}} = {}
  BY <1>2, Entries, MarkedFacts DEF Certificates
<1>4. Recovered \in [DOMAIN journal -> Challenge]
  <2>1. Recovered = [c \in DOMAIN journal |-> Recovered[c]]
    BY DEF Recovered
  <2>2. QED
    BY <1>2, <2>1
<1>5. QED
  BY <1>1, <1>2, <1>3, <1>4

\* What follows when an operation leaves the recovered journal behind.
LEMMA AfterRecovery ==
  ASSUME TypeOK, journal' = Recovered
  PROVE  /\ DOMAIN journal' = DOMAIN journal /\ journal' \in [DOMAIN journal' -> Challenge]
         /\ AllPending' = {}
         /\ \A c \in DOMAIN journal : Certificates(c)' = Certificates(c)
<1>1. DOMAIN journal' = DOMAIN journal /\ journal' \in [DOMAIN journal' -> Challenge]
  BY RecoveredFacts
<1>2. \A c \in DOMAIN journal : Certificates(c)' = Certificates(c)
  BY RecoveredFacts DEF Certificates
<1>3. \A c \in DOMAIN journal : Pending(c)' = {}
  BY RecoveredFacts DEF Pending
<1>4. AllPending' = {}
  BY <1>1, <1>3 DEF AllPending
<1>5. QED
  BY <1>1, <1>2, <1>4

LEMMA PendingIsMinted ==
  ASSUME IInv
  PROVE  /\ AllPending \subseteq DOMAIN minted /\ AllPending \subseteq Certs
         /\ AllPending \cap trash = {} /\ index \cap trash = {}
BY DEF AllPending, Pending, IInv, Remembered, Certificates, Accounts, NoResurrection, TypeOK

----------------------------------------------------------------------------
LEMMA PrunedFacts ==
  ASSUME TypeOK
  PROVE  /\ DOMAIN Pruned \subseteq DOMAIN journal
         /\ \A c \in DOMAIN Pruned :
              /\ Pruned[c] \in Challenge
              /\ {i.cert : i \in Pruned[c].issuances} \subseteq Certificates(c)
              /\ \A x \in Certificates(c) :
                   Fresh(x) => x \in {i.cert : i \in Pruned[c].issuances}
              /\ {i.cert : i \in {j \in Pruned[c].issuances : ~ j.published}} = {}
<1>1. DOMAIN Pruned \subseteq DOMAIN journal
  BY DEF Pruned
<1>2. ASSUME NEW c \in DOMAIN Pruned
      PROVE  /\ Kept(c) \in SUBSET Issuance /\ journal[c] \in Challenge
             /\ Pruned[c] = [journal[c] EXCEPT !.issuances = Marked(Kept(c))]
  <2>1. Kept(c) \subseteq journal[c].issuances
    BY DEF Kept
  <2>2. QED
    BY <1>1, <2>1, Entries DEF Pruned
<1>3. ASSUME NEW c \in DOMAIN Pruned
      PROVE  /\ Pruned[c] \in Challenge
             /\ Pruned[c].issuances = Marked(Kept(c))
  <2>1. Marked(Kept(c)) \in SUBSET Issuance
    BY <1>2, MarkedFacts
  <2> DEFINE e == [journal[c] EXCEPT !.issuances = Marked(Kept(c))]
  <2>2. e \in Challenge /\ e.issuances = Marked(Kept(c))
    BY <1>2, <2>1, WithIssuances
  <2>3. QED
    BY <1>2, <2>2
<1>4. ASSUME NEW c \in DOMAIN Pruned
      PROVE  /\ {i.cert : i \in Pruned[c].issuances} = {i.cert : i \in Kept(c)}
             /\ {i.cert : i \in {j \in Pruned[c].issuances : ~ j.published}} = {}
  BY <1>2, <1>3, MarkedFacts
<1>5. ASSUME NEW c \in DOMAIN Pruned
      PROVE  /\ {i.cert : i \in Kept(c)} \subseteq Certificates(c)
             /\ \A x \in Certificates(c) : Fresh(x) => x \in {i.cert : i \in Kept(c)}
  BY DEF Kept, Certificates
<1>6. QED
  BY <1>1, <1>3, <1>4, <1>5

LEMMA CreateKeeps ==
  ASSUME IInv, NEW c \in Challenges, NEW option \in Options, Create(c, option)
  PROVE  IInv'
<1>1. index' = index \cup AllPending /\ trash' = trash /\ minted' = minted /\ now' = now /\ sent' = sent
  BY DEF Create, Recover
<1>2. CASE Cardinality(DOMAIN Pruned) >= Capacity
  <2>1. journal' = Recovered /\ created' = created
    BY <1>2 DEF Create
  <2>2. TypeOK'
    BY <1>1, <2>1, AfterRecovery, PendingIsMinted DEF IInv, TypeOK, Create, world
  <2>3. QED
    BY <1>1, <2>1, <2>2, AfterRecovery, PendingIsMinted, Quiet, Times DEF IInv, TypeOK
<1>3. CASE ~ Cardinality(DOMAIN Pruned) >= Capacity
  <2> DEFINE new == [ranges |-> option.ranges, suffixes |-> option.suffixes,
                     expires |-> now + Lifetime, revoked |-> FALSE, issuances |-> {}]
  <2>1. /\ DOMAIN journal' = DOMAIN Pruned \cup {c}
        /\ journal'[c] = new
        /\ \A d \in DOMAIN Pruned : d # c => journal'[d] = Pruned[d]
        /\ journal' = [d \in DOMAIN journal' |-> journal'[d]]
    BY <1>3 DEF Create
  <2>2. c \notin created /\ created' = created \cup {c}
    BY <1>3 DEF Create
  <2>3. c \notin DOMAIN journal /\ c \notin DOMAIN Pruned
    BY <2>2, PrunedFacts DEF IInv, InOrder
  <2>4. new \in Challenge
    BY Times, Inputs DEF Challenge, IInv, TypeOK
  <2>5. \A d \in DOMAIN journal' : journal'[d] \in Challenge
    BY <2>1, <2>3, <2>4, PrunedFacts DEF IInv
  <2>6. DOMAIN journal' \subseteq Challenges
    BY <2>1, PrunedFacts DEF IInv, TypeOK
  <2>7. journal' \in [DOMAIN journal' -> Challenge]
    BY <2>1, <2>5
  <2>8. TypeOK'
    BY <1>1, <2>2, <2>6, <2>7, PendingIsMinted DEF IInv, TypeOK, Create, world
  <2>9. Certificates(c)' = {} /\ Pending(c)' = {}
    BY <2>1 DEF Certificates, Pending
  <2>10. \A d \in DOMAIN Pruned :
           /\ Certificates(d)' \subseteq Certificates(d)
           /\ \A x \in Certificates(d) : Fresh(x) => x \in Certificates(d)'
           /\ Pending(d)' = {}
    BY <2>1, <2>3, PrunedFacts DEF IInv, Certificates, Pending
  <2>11. AllPending' = {}
    BY <2>1, <2>9, <2>10 DEF AllPending
  <2>12. \A d \in DOMAIN journal' : d \in DOMAIN journal =>
           /\ Certificates(d)' \subseteq Certificates(d)
           /\ \A x \in Certificates(d) : Fresh(x) => x \in Certificates(d)'
    BY <2>1, <2>3, <2>10
  <2>13. \A d \in DOMAIN journal' :
           \/ d \in DOMAIN journal
           \/ d \notin created /\ d \in created' /\ Certificates(d)' = {}
    BY <2>1, <2>2, <2>9, PrunedFacts DEF IInv
  <2>14. now' >= now
    BY <1>1 DEF IInv, TypeOK
  <2>15. QED
    BY <1>1, <2>2, <2>8, <2>11, <2>12, <2>13, <2>14, PendingIsMinted, Quiet
<1>4. QED
  BY <1>2, <1>3

LEMMA PruneKeeps ==
  ASSUME IInv, Prune
  PROVE  IInv'
<1>full. CASE journal' = Recovered
  <2>1. /\ index' = index \cup AllPending
        /\ UNCHANGED <<trash, minted, now, sent, created, dns, inventory, edits, restores>>
    BY DEF Prune, Recover, world
  <2>2. TypeOK'
    BY <1>full, <2>1, AfterRecovery, PendingIsMinted DEF IInv, TypeOK
  <2>3. QED
    BY <1>full, <2>1, <2>2, AfterRecovery, PendingIsMinted, Quiet, Times DEF IInv, TypeOK
<1> SUFFICES ASSUME journal' = Pruned PROVE IInv'
  BY <1>full DEF Prune
<1>1. /\ index' = index \cup AllPending /\ journal' = Pruned
      /\ UNCHANGED <<trash, minted, now, sent, created, dns, inventory, edits, restores>>
  BY DEF Prune, Recover, world
<1>2. /\ DOMAIN journal' \subseteq DOMAIN journal
      /\ journal' = [d \in DOMAIN journal' |-> journal'[d]]
      /\ \A d \in DOMAIN journal' : journal'[d] \in Challenge
  BY <1>1, PrunedFacts DEF IInv, Pruned
<1>3. TypeOK'
  <2>1. journal' \in [DOMAIN journal' -> Challenge]
    BY <1>2
  <2>2. DOMAIN journal' \subseteq Challenges
    BY <1>2 DEF IInv, TypeOK
  <2>3. QED
    BY <1>1, <2>1, <2>2, PendingIsMinted DEF IInv, TypeOK
<1>4. \A d \in DOMAIN journal' :
        /\ Certificates(d)' \subseteq Certificates(d)
        /\ \A x \in Certificates(d) : Fresh(x) => x \in Certificates(d)'
        /\ Pending(d)' = {}
  BY <1>1, PrunedFacts DEF IInv, Certificates, Pending
<1>5. AllPending' = {}
  BY <1>4 DEF AllPending
<1>6. \A d \in DOMAIN journal' : d \in DOMAIN journal
  BY <1>2
<1>7. now' >= now
  BY <1>1 DEF IInv, TypeOK
<1>8. QED
  BY <1>1, <1>3, <1>4, <1>5, <1>6, <1>7, PendingIsMinted, Quiet

----------------------------------------------------------------------------
LEMMA RevokeKeeps ==
  ASSUME IInv, NEW c \in Challenges, Revoke(c) PROVE IInv'
<1>1. /\ UNCHANGED <<index, trash, minted, now, sent, created, dns, inventory, edits, restores>>
      /\ c \in DOMAIN journal /\ DOMAIN journal' = DOMAIN journal
      /\ journal'[c] = [journal[c] EXCEPT !.revoked = TRUE]
      /\ \A d \in DOMAIN journal : d # c => journal'[d] = journal[d]
      /\ journal' = [d \in DOMAIN journal' |-> journal'[d]]
  BY DEF Revoke, world
<1>2. \A d \in DOMAIN journal :
        journal'[d] \in Challenge /\ journal'[d].issuances = journal[d].issuances
  BY <1>1, Entries DEF IInv, Challenge
<1>3. \A d \in DOMAIN journal : Certificates(d)' = Certificates(d) /\ Pending(d)' = Pending(d)
  BY <1>2 DEF Certificates, Pending
<1>4. AllPending' = AllPending
  BY <1>1, <1>3 DEF AllPending
<1>5. journal' \in [DOMAIN journal' -> Challenge]
  BY <1>1, <1>2
<1>6. TypeOK'
  BY <1>1, <1>5 DEF IInv, TypeOK
<1>7. now' >= now
  BY <1>1 DEF IInv, TypeOK
<1>8. QED
  BY <1>1, <1>3, <1>4, <1>6, <1>7, PendingIsMinted, Quiet

LEMMA DeleteChallengeKeeps ==
  ASSUME IInv, NEW c \in Challenges, DeleteChallenge(c) PROVE IInv'
<1>1. /\ UNCHANGED <<index, trash, minted, now, sent, created, dns, inventory, edits, restores>>
      /\ DOMAIN journal' = DOMAIN journal \ {c}
      /\ \A d \in DOMAIN journal' : journal'[d] = journal[d]
      /\ journal' = [d \in DOMAIN journal' |-> journal'[d]]
  BY DEF DeleteChallenge, world
<1>2. \A d \in DOMAIN journal' : Certificates(d)' = Certificates(d) /\ Pending(d)' = Pending(d)
  BY <1>1 DEF Certificates, Pending
<1>3. AllPending' \subseteq AllPending
  BY <1>1, <1>2 DEF AllPending
<1>4. journal' \in [DOMAIN journal' -> Challenge]
  BY <1>1, Entries DEF IInv
<1>5. TypeOK'
  BY <1>1, <1>4 DEF IInv, TypeOK
<1>6. now' >= now
  BY <1>1 DEF IInv, TypeOK
<1>7. QED
  BY <1>1, <1>2, <1>3, <1>5, <1>6, PendingIsMinted, Quiet

LEMMA DeleteCertKeeps ==
  ASSUME IInv, NEW x \in Certs, DeleteCert(x) PROVE IInv'
<1>1. /\ UNCHANGED <<minted, now, sent, created, dns, inventory, edits, restores>>
      /\ journal' = Recovered /\ x \in index \cup AllPending
      /\ index' = (index \cup AllPending) \ {x} /\ trash' = trash \cup {x}
  BY DEF DeleteCert, world
<1>2. TypeOK'
  BY <1>1, AfterRecovery, PendingIsMinted DEF IInv, TypeOK
<1>3. now' >= now
  BY <1>1 DEF IInv, TypeOK
<1>4. QED
  BY <1>1, <1>2, <1>3, AfterRecovery, PendingIsMinted, Quiet DEF IInv

LEMMA RetryKeeps ==
  ASSUME IInv, NEW c \in Challenges, NEW tx \in Transactions, NEW csr \in Csrs,
         NEW src \in Sources, Retry(c, tx, csr, src)
  PROVE  IInv'
<1>1. /\ UNCHANGED <<minted, now, trash, created, dns, inventory, edits, restores>>
      /\ journal' = Recovered /\ index' = index \cup AllPending
      /\ c \in DOMAIN journal
  BY DEF Retry, Recover, Accepts, world
<1>2. PICK x \in Given(c, tx, csr, src) :
        IF x \in index'
        THEN sent' = sent \cup {[cert |-> x, tx |-> tx, csr |-> csr, src |-> src]}
        ELSE sent' = sent
  BY DEF Retry
<1>3. x \in DOMAIN minted /\ minted[x].tx = tx /\ minted[x].csr = csr /\ minted[x].src = src
  BY <1>1 DEF Given, IInv, Remembered
<1>4. \A m \in sent' :
        \/ m \in sent
        \/ m = [cert |-> x, tx |-> tx, csr |-> csr, src |-> src] /\ x \in index'
  BY <1>2
<1>5. TypeOK'
  <2>1. sent' \subseteq [cert : Certs, tx : Transactions, csr : Csrs, src : Sources]
    BY <1>3, <1>4 DEF IInv, TypeOK
  <2>2. QED
    BY <1>1, <2>1, AfterRecovery, PendingIsMinted DEF IInv, TypeOK
<1>6. \A m \in sent' : \/ m \in sent
                      \/ /\ m.cert \in DOMAIN minted /\ m.cert \in index'
                         /\ m.src = minted[m.cert].src
                         /\ m.tx = minted[m.cert].tx /\ m.csr = minted[m.cert].csr
  BY <1>3, <1>4
<1>7. now' >= now
  BY <1>1 DEF IInv, TypeOK
<1>8. QED
  BY <1>1, <1>5, <1>6, <1>7, AfterRecovery, PendingIsMinted, Quiet DEF IInv

LEMMA EndEarlyKeeps ==
  ASSUME IInv, EndEarly PROVE IInv'
<1>1. UNCHANGED <<minted, now, trash, sent, created, dns, inventory, edits, restores>>
  BY DEF EndEarly, world
<1>2. PICK listed \in SUBSET AllPending :
        /\ index' = index \cup listed
        /\ journal' = journal \/ (listed = AllPending /\ journal' = Recovered)
  BY DEF EndEarly
<1>3. now' >= now
  BY <1>1 DEF IInv, TypeOK
<1>4. CASE journal' = journal
  <2>1. \A c \in DOMAIN journal : Certificates(c)' = Certificates(c) /\ Pending(c)' = Pending(c)
    BY <1>4 DEF Certificates, Pending
  <2>2. AllPending' = AllPending
    BY <1>4, <2>1 DEF AllPending
  <2>3. TypeOK'
    BY <1>1, <1>2, <1>4, PendingIsMinted DEF IInv, TypeOK
  <2>4. QED
    BY <1>1, <1>2, <1>3, <1>4, <2>1, <2>2, <2>3, PendingIsMinted, Quiet
<1>5. CASE journal' = Recovered
  <2>1. TypeOK'
    BY <1>1, <1>2, <1>5, AfterRecovery, PendingIsMinted DEF IInv, TypeOK
  <2>2. QED
    BY <1>1, <1>2, <1>3, <1>5, <2>1, AfterRecovery, PendingIsMinted, Quiet DEF IInv
<1>6. QED
  BY <1>2, <1>4, <1>5

LEMMA BackupKeeps ==
  ASSUME IInv, Backup PROVE IInv'
<1>1. /\ UNCHANGED <<minted, now, trash, sent, created, dns, inventory, edits, restores>>
      /\ journal' = Recovered /\ index' = index \cup AllPending
  BY DEF Backup, Recover, world
<1>2. TypeOK'
  BY <1>1, AfterRecovery, PendingIsMinted DEF IInv, TypeOK
<1>3. now' >= now
  BY <1>1 DEF IInv, TypeOK
<1>4. QED
  BY <1>1, <1>2, <1>3, AfterRecovery, PendingIsMinted, Quiet DEF IInv

\* Time and the names of the network.
LEMMA WorldKeeps ==
  ASSUME IInv, Tick \/ Change PROVE IInv'
<1>1. UNCHANGED <<minted, journal, index, trash, sent, created, restores>>
  BY DEF Tick, Change, Readdress, EditDevice, store
<1>2. \A c \in DOMAIN journal : Certificates(c)' = Certificates(c) /\ Pending(c)' = Pending(c)
  BY <1>1 DEF Certificates, Pending
<1>3. AllPending' = AllPending
  BY <1>1, <1>2 DEF AllPending
<1>4. now' >= now /\ now' \in 0 .. MaxTime
  BY Times DEF Tick, Change, Readdress, EditDevice, IInv, TypeOK
<1>5. dns' \in [Names -> Sources \cup {None}] /\ inventory' \in [Sources -> SUBSET Names]
  BY DEF Tick, Change, Readdress, EditDevice, world, IInv, TypeOK
<1>6. edits' \in 0 .. MaxEdits
  BY Times DEF Tick, Change, Readdress, EditDevice, world, IInv, TypeOK
<1>7. TypeOK'
  BY <1>1, <1>4, <1>5, <1>6 DEF IInv, TypeOK
<1>8. QED
  BY <1>1, <1>2, <1>3, <1>4, <1>7, PendingIsMinted, Quiet

----------------------------------------------------------------------------
\* The next number is above all others.
LEMMA NextNumber ==
  ASSUME IInv, NEW x \in Certs \ DOMAIN minted, \A y \in Certs \ DOMAIN minted : x <= y
  PROVE  \A y \in DOMAIN minted : y < x /\ minted[y].used <= now
<1> SUFFICES ASSUME NEW y \in DOMAIN minted, ~ (y < x) PROVE FALSE
  BY DEF IInv, InOrder
<1>1. x \in Nat /\ y \in Nat /\ x # y
  BY DEF IInv, TypeOK, Certs
<1>2. x < y
  BY <1>1
<1>3. QED
  BY <1>2 DEF IInv, InOrder

\* The journal and the certificates after a grant.
LEMMA Granted ==
  ASSUME TypeOK, NEW c \in DOMAIN journal, NEW x \in Certs \ DOMAIN minted, NEW p \in BOOLEAN,
         journal' = [Recovered EXCEPT ![c].issuances = @ \cup {[cert |-> x, published |-> p]}]
  PROVE  /\ DOMAIN journal' = DOMAIN journal /\ journal' \in [DOMAIN journal' -> Challenge]
         /\ \A d \in DOMAIN journal :
              Certificates(d)' = Certificates(d) \cup (IF d = c THEN {x} ELSE {})
         /\ AllPending' = IF p THEN {} ELSE {x}
         /\ \A d \in DOMAIN journal : d # c => journal'[d] = Recovered[d]
         /\ journal'[c].issuances = Recovered[c].issuances \cup {[cert |-> x, published |-> p]}
<1>1. /\ DOMAIN journal' = DOMAIN journal
      /\ journal' = [d \in DOMAIN journal' |-> journal'[d]]
      /\ \A d \in DOMAIN journal : d # c => journal'[d] = Recovered[d]
      /\ journal'[c] = [Recovered[c] EXCEPT !.issuances = @ \cup {[cert |-> x, published |-> p]}]
  BY RecoveredFacts
<1>2. Recovered[c] \in Challenge /\ Recovered[c].issuances \in SUBSET Issuance
  BY RecoveredFacts DEF Challenge
<1> DEFINE S == Recovered[c].issuances \cup {[cert |-> x, published |-> p]}
<1>3. S \in SUBSET Issuance
  BY <1>2 DEF Issuance
<1>4. journal'[c] = [Recovered[c] EXCEPT !.issuances = S]
  BY <1>1
<1> HIDE DEF S
<1>5. journal'[c] \in Challenge /\ journal'[c].issuances = S
  <2>1. /\ [Recovered[c] EXCEPT !.issuances = S] \in Challenge
        /\ [Recovered[c] EXCEPT !.issuances = S].issuances = S
    BY <1>2, <1>3, WithIssuances
  <2>2. QED
    BY <1>4, <2>1
<1>6. journal' \in [DOMAIN journal' -> Challenge]
  BY <1>1, <1>5, RecoveredFacts
<1>7. ASSUME NEW d \in DOMAIN journal, d # c
      PROVE  Certificates(d)' = Certificates(d) /\ Pending(d)' = {}
  BY <1>1, <1>7, RecoveredFacts DEF Certificates, Pending
<1>8. Certificates(c)' = Certificates(c) \cup {x}
  <2>1. Certificates(c)' = {i.cert : i \in S}
    BY <1>5 DEF Certificates
  <2>2. {i.cert : i \in S} = {i.cert : i \in Recovered[c].issuances} \cup {x}
    <3>1. \A i \in S : i \in Recovered[c].issuances \/ i.cert = x
      BY DEF S
    <3>2. [cert |-> x, published |-> p] \in S /\ Recovered[c].issuances \subseteq S
      BY DEF S
    <3>3. x \in {i.cert : i \in S}
      BY <3>2
    <3>4. QED
      BY <3>1, <3>2, <3>3
  <2>3. QED
    BY <2>1, <2>2, RecoveredFacts
<1>9. Pending(c)' = IF p THEN {} ELSE {x}
  <2>1. Pending(c)' = {i.cert : i \in {j \in S : ~ j.published}}
    BY <1>5 DEF Pending
  <2>2. ASSUME NEW i \in Recovered[c].issuances, ~ i.published PROVE FALSE
    <3>1. {j.cert : j \in {k \in Recovered[c].issuances : ~ k.published}} = {}
      BY RecoveredFacts
    <3>2. i.cert \in {j.cert : j \in {k \in Recovered[c].issuances : ~ k.published}}
      BY <2>2
    <3>3. QED
      BY <3>1, <3>2
  <2>3. \A i \in S : ~ i.published => i = [cert |-> x, published |-> p] /\ ~ p
    BY <2>2 DEF S
  <2>4. ~ p => [cert |-> x, published |-> p] \in {j \in S : ~ j.published}
    BY DEF S
  <2>5. \A z : z \in Pending(c)' <=> z = x /\ ~ p
    <3>1. ASSUME NEW z \in Pending(c)' PROVE z = x /\ ~ p
      BY <2>1, <2>3, <3>1
    <3>2. ~ p => x \in Pending(c)'
      BY <2>1, <2>4
    <3>3. QED
      BY <3>1, <3>2
  <2>6. QED
    BY <2>5
<1>10. AllPending' = Pending(c)'
  BY <1>1, <1>7 DEF AllPending
<1>11. QED
  BY <1>1, <1>5, <1>6, <1>7, <1>8, <1>9, <1>10 DEF S

LEMMA GrantKeeps ==
  ASSUME IInv, NEW c \in Challenges, NEW tx \in Transactions, NEW csr \in Csrs,
         NEW src \in Sources, Grant(c, tx, csr, src)
  PROVE  IInv'
<1>1. /\ UNCHANGED <<now, trash, created, dns, inventory, edits, restores>>
      /\ c \in DOMAIN journal
  BY DEF Grant, Grantable, Accepts, world
<1> DEFINE names == Named(src, journal[c].suffixes, Asks[csr])
           cert == [challenge |-> c, tx |-> tx, csr |-> csr, src |-> src, used |-> now,
                    names |-> names]
<1>2. PICK x \in Certs \ DOMAIN minted, published \in {"committed", "listed", "marked"} :
        /\ \A y \in Certs \ DOMAIN minted : x <= y
        /\ minted' = [y \in DOMAIN minted \cup {x} |-> IF y = x THEN cert ELSE minted[y]]
        /\ journal' = [Recovered EXCEPT ![c].issuances =
                          @ \cup {[cert |-> x, published |-> published = "marked"]}]
        /\ index' = index \cup AllPending \cup (IF published = "committed" THEN {} ELSE {x})
        /\ sent' = IF published = "marked"
                   THEN sent \cup {[cert |-> x, tx |-> tx, csr |-> csr, src |-> src]} ELSE sent
  BY DEF Grant, Answers
<1>3. names \in SUBSET Names
  BY <1>1, Entries, Inputs DEF Named, IInv, TypeOK, Challenge
<1>4. cert \in Certificate
  BY <1>3 DEF Certificate, IInv, TypeOK
<1>5. /\ DOMAIN minted' = DOMAIN minted \cup {x} /\ minted'[x] = cert
      /\ \A y \in DOMAIN minted : minted'[y] = minted[y] /\ y # x
      /\ minted' \in [DOMAIN minted' -> Certificate]
  BY <1>2, <1>4 DEF IInv, TypeOK
<1>6. /\ DOMAIN journal' = DOMAIN journal /\ journal' \in [DOMAIN journal' -> Challenge]
      /\ \A d \in DOMAIN journal :
           Certificates(d)' = Certificates(d) \cup (IF d = c THEN {x} ELSE {})
      /\ AllPending' \subseteq {x}
  <2>1. (published = "marked") \in BOOLEAN
    OBVIOUS
  <2>2. QED
    BY <1>1, <1>2, <2>1, Granted DEF IInv
<1>7. /\ \A y \in DOMAIN minted : y < x /\ minted[y].used <= now
      /\ \A y \in DOMAIN minted : minted[y].used \in Nat
      /\ now \in Nat /\ x \in Nat
  BY <1>2, NextNumber DEF IInv, TypeOK, Certificate, Certs
<1>earlier. ASSUME NEW y \in DOMAIN minted', NEW z \in DOMAIN minted', y < z PROVE y \in DOMAIN minted
  <2>1. z \in Nat /\ (z \in DOMAIN minted => z < x)
    BY <1>5, <1>7 DEF IInv, TypeOK, Certs
  <2>2. y # x
    BY <1>5, <1>7, <1>earlier, <2>1
  <2>3. QED
    BY <1>5, <2>2
<1>8. \A y \in DOMAIN minted :
        Fresh(y) /\ minted[y].challenge = c => y \in Certificates(c)
  BY <1>1 DEF IInv, Remembered
<1>9. TypeOK'
  BY <1>1, <1>2, <1>5, <1>6, PendingIsMinted DEF IInv, TypeOK
<1>10. InOrder'
  <2>1. ASSUME NEW y \in Certs, y < x PROVE y \in DOMAIN minted
    BY <1>2, <1>7, <2>1 DEF Certs
  <2>2. \A z \in DOMAIN minted' : \A y \in Certs : y < z => y \in DOMAIN minted'
    BY <1>5, <2>1 DEF IInv, InOrder
  <2>3. ASSUME NEW y \in DOMAIN minted', NEW z \in DOMAIN minted', y < z
        PROVE  minted'[y].used <= minted'[z].used
    <3>1. y \in DOMAIN minted
      BY <1>earlier, <2>3
    <3>2. CASE z = x
      BY <1>5, <1>7, <3>1, <3>2
    <3>3. CASE z \in DOMAIN minted
      BY <1>5, <2>3, <3>1, <3>3 DEF IInv, InOrder
    <3>4. QED
      BY <1>5, <3>2, <3>3
  <2>4. \A z \in DOMAIN minted' : minted'[z].used <= now'
    BY <1>1, <1>5, <1>7
  <2>5. \A z \in DOMAIN minted' : minted'[z].challenge \in created'
    BY <1>1, <1>5 DEF IInv, InOrder
  <2>6. QED
    BY <1>1, <1>6, <2>2, <2>3, <2>4, <2>5 DEF IInv, InOrder
<1>11. Remembered'
  <2>1. ASSUME NEW d \in DOMAIN journal, NEW y \in Certificates(d)'
        PROVE  y \in DOMAIN minted' /\ minted'[y].challenge = d
    BY <1>5, <1>6, <2>1 DEF IInv, Remembered
  <2>2. ASSUME NEW d \in DOMAIN journal, NEW y \in DOMAIN minted', minted'[y].challenge = d,
               Fresh(y)'
        PROVE  y \in Certificates(d)'
    <3>1. CASE y = x
      BY <1>1, <1>5, <1>6, <2>2, <3>1
    <3>2. CASE y \in DOMAIN minted
      <4>1. Fresh(y) /\ minted[y].challenge = d
        BY <1>1, <1>5, <2>2, <3>2 DEF Fresh
      <4>2. y \in Certificates(d)
        BY <3>2, <4>1 DEF IInv, Remembered
      <4>3. QED
        BY <1>6, <4>2
    <3>3. QED
      BY <1>5, <3>1, <3>2
  <2>3. \A y \in DOMAIN minted' :
          minted'[y].challenge \in DOMAIN journal' /\ Fresh(y)'
            => y \in Certificates(minted[y].challenge)'
    BY <1>6, <2>2
  <2>4. QED
    BY <1>6, <2>1, <2>3 DEF Remembered
<1>12. Accounts' /\ NoResurrection'
  BY <1>1, <1>2, <1>5, <1>6, PendingIsMinted DEF IInv, Accounts, NoResurrection
<1>13. RateWindow'
  <2>1. ASSUME NEW y \in DOMAIN minted, minted[y].challenge = c,
               Identity(y) = <<src, names>>
        PROVE  now >= minted[y].used + Window
    <3>1. CASE Fresh(y)
      <4>1. ~ Limited(c, <<src, names>>) /\ y \in Certificates(c)
        BY <1>8, <2>1, <3>1 DEF Grant, Grantable
      <4>2. ~ (now < minted[y].used + Window)
        BY <2>1, <4>1 DEF Limited
      <4>3. QED
        BY <1>7, <4>2, Times
    <3>2. CASE ~ Fresh(y)
      BY <1>7, <3>2, Times DEF Fresh
    <3>3. QED
      BY <3>1, <3>2
  <2>2. SUFFICES ASSUME NEW y \in DOMAIN minted', NEW z \in DOMAIN minted', y < z,
                        minted'[y].challenge = minted'[z].challenge, Identity(y)' = Identity(z)'
                 PROVE  minted'[z].used >= minted'[y].used + Window
    BY DEF RateWindow
  <2>3. y \in DOMAIN minted
    BY <1>earlier, <2>2
  <2>4. Identity(y)' = Identity(y)
    BY <1>5, <2>3 DEF Identity
  <2>5. CASE z = x
    <3>1. minted'[z] = cert
      BY <1>5, <2>5
    <3>2. Identity(z)' = <<src, names>>
      BY <3>1 DEF Identity
    <3>3. minted[y].challenge = c /\ Identity(y) = <<src, names>>
      <4>1. Identity(y) = <<src, names>>
        BY <2>2, <2>4, <3>2
      <4>2. minted[y].challenge = c
        BY <1>5, <2>2, <2>3, <3>1
      <4>3. QED
        BY <4>1, <4>2
    <3>4. now >= minted[y].used + Window
      BY <2>1, <2>3, <3>3
    <3>5. QED
      BY <1>5, <2>3, <3>1, <3>4
  <2>6. CASE z \in DOMAIN minted
    <3>1. Identity(z)' = Identity(z)
      BY <1>5, <2>6 DEF Identity
    <3>2. QED
      BY <1>5, <2>2, <2>3, <2>4, <2>6, <3>1 DEF IInv, RateWindow
  <2>7. QED
    BY <1>5, <2>5, <2>6
<1>14. OnePerRequest'
  <2>1. ASSUME NEW y \in DOMAIN minted, minted[y].challenge = c, minted[y].src = src,
               minted[y].tx = tx, minted[y].csr = csr
        PROVE  now >= minted[y].used + Retention
    <3>1. ~ Fresh(y)
      BY <1>8, <2>1 DEF Grant, Grantable, Given
    <3>2. QED
      BY <1>7, <3>1, Times DEF Fresh
  <2>2. SUFFICES ASSUME NEW y \in DOMAIN minted', NEW z \in DOMAIN minted', y < z,
                        minted'[y].challenge = minted'[z].challenge,
                        minted'[y].src = minted'[z].src, minted'[y].tx = minted'[z].tx,
                        minted'[y].csr = minted'[z].csr
                 PROVE  minted'[z].used >= minted'[y].used + Retention
    BY DEF OnePerRequest
  <2>3. y \in DOMAIN minted
    BY <1>earlier, <2>2
  <2>4. CASE z = x
    BY <1>5, <2>1, <2>2, <2>3, <2>4
  <2>5. CASE z \in DOMAIN minted
    BY <1>5, <2>2, <2>3, <2>5 DEF IInv, OnePerRequest
  <2>6. QED
    BY <1>5, <2>4, <2>5
<1>15. StaysWithSource' /\ DeliveredOnRecord'
  <2>1. \A m \in sent' : \/ m \in sent
                        \/ /\ m = [cert |-> x, tx |-> tx, csr |-> csr, src |-> src]
                           /\ published = "marked"
    BY <1>2
  <2>2. StaysWithSource'
    <3> SUFFICES ASSUME NEW m \in sent'
                 PROVE  /\ m.cert \in DOMAIN minted' /\ m.src = minted'[m.cert].src
                        /\ m.tx = minted'[m.cert].tx /\ m.csr = minted'[m.cert].csr
      BY DEF StaysWithSource
    <3>1. CASE m \in sent
      BY <1>5, <3>1 DEF IInv, StaysWithSource
    <3>2. CASE m = [cert |-> x, tx |-> tx, csr |-> csr, src |-> src]
      BY <1>5, <3>2
    <3>3. QED
      BY <2>1, <3>1, <3>2
  <2>3. DeliveredOnRecord'
    BY <1>1, <1>2, <2>1 DEF IInv, DeliveredOnRecord
  <2>4. QED
    BY <2>2, <2>3
<1>16. QED
  BY <1>9, <1>10, <1>11, <1>12, <1>13, <1>14, <1>15 DEF IInv

----------------------------------------------------------------------------
\* While nothing was restored.
Original == restores \in Nat /\ (restores = 0 => IInv)

LEMMA StepKeeps ==
  ASSUME Original, [Next]_vars PROVE Original'
<1>1. restores' \in Nat /\ (restores' = 0 => restores = 0)
  <2>1. CASE Administer \/ Enroll \/ EndEarly
    BY <2>1 DEF Original, Administer, Create, Prune, Revoke, DeleteChallenge, DeleteCert, Enroll, Retry,
      Grant, EndEarly
  <2>2. CASE Backup \/ Tick \/ Change \/ UNCHANGED vars
    BY <2>2 DEF Original, Backup, Tick, Change, Readdress, EditDevice, vars
  <2>3. CASE Restore
    BY <2>3 DEF Original, Restore
  <2>4. QED
    BY <2>1, <2>2, <2>3 DEF Next
<1>2. SUFFICES ASSUME IInv, restores' = 0, restores = 0 PROVE IInv'
  BY <1>1 DEF Original
<1>3. CASE Administer
  BY <1>2, <1>3, CreateKeeps, PruneKeeps, RevokeKeeps, DeleteChallengeKeeps, DeleteCertKeeps
    DEF Administer
<1>4. CASE Enroll
  BY <1>2, <1>4, RetryKeeps, GrantKeeps DEF Enroll
<1>5. CASE EndEarly
  BY <1>2, <1>5, EndEarlyKeeps
<1>6. CASE Backup
  BY <1>2, <1>6, BackupKeeps
<1>7. CASE Restore
  BY <1>2, <1>7 DEF Restore
<1>8. CASE Tick \/ Change
  BY <1>2, <1>8, WorldKeeps
<1>9. CASE UNCHANGED vars
  <2>1. UNCHANGED <<now, journal, index, trash, minted, dns, inventory, sent, created, restores, edits>>
    BY <1>9 DEF vars, store, world
  <2>2. QED
    BY <1>2, <2>1 DEF IInv, TypeOK, InOrder, Remembered, Accounts, RateWindow, OnePerRequest,
      StaysWithSource, DeliveredOnRecord, NoResurrection, Certificates, Fresh, AllPending, Pending,
      Identity
<1>10. QED
  BY <1>3, <1>4, <1>5, <1>6, <1>7, <1>8, <1>9 DEF Next

\* The journal remembers what the limits need, whatever is pruned, deleted, retried or
\* cut short, until a backup is restored.
THEOREM Invariant == Spec => [](restores = 0 => IInv)
<1>1. Init => Original
  BY InitIInv DEF Init, Original
<1>2. Original /\ [Next]_vars => Original'
  BY StepKeeps
<1>3. Original => (restores = 0 => IInv)
  BY DEF Original
<1>4. QED
  BY <1>1, <1>2, <1>3, PTL DEF Spec

\* Every variable has its type.
THEOREM TypeCorrect == Spec => [](restores = 0 => TypeOK)
<1>1. (restores = 0 => IInv) => (restores = 0 => TypeOK)
  BY DEF IInv
<1>2. QED
  BY <1>1, Invariant, PTL

\* One issuance for an identity and a challenge in a window (sharedRateWindow), also
\* across failed publications, retries and the pruning of the journal.
THEOREM RateIsLimited == Spec => [](restores = 0 => RateWindow)
<1>1. (restores = 0 => IInv) => (restores = 0 => RateWindow)
  BY DEF IInv
<1>2. QED
  BY <1>1, Invariant, PTL

\* The two limits together, as the runs check them (enrollShared).
THEOREM LimitsHold == Spec => []Limits
<1>1. (restores = 0 => IInv) => Limits
  BY DEF IInv, Limits
<1>2. QED
  BY <1>1, Invariant, PTL

\* One certificate for a request of a source within the retention: a retry finds what
\* the first attempt left, wherever that was cut short.
THEOREM RetriesRepeat == Spec => [](restores = 0 => OnePerRequest)
<1>1. (restores = 0 => IInv) => (restores = 0 => OnePerRequest)
  BY DEF IInv
<1>2. QED
  BY <1>1, Invariant, PTL

\* What was sent is listed or was deleted, and what was deleted stays deleted.
THEOREM RepliesAreRecorded ==
  Spec => [](restores = 0 => DeliveredOnRecord /\ NoResurrection)
<1>1. (restores = 0 => IInv) => (restores = 0 => DeliveredOnRecord /\ NoResurrection)
  BY DEF IInv
<1>2. QED
  BY <1>1, Invariant, PTL

----------------------------------------------------------------------------
(* The ledger that forgets nothing.                                        *)

\* Every operation that issues nothing: what is pending may be listed, and what is
\* listed may be sent.
LEMMA Publishes ==
  ASSUME IInv, UNCHANGED <<now, minted, trash>>,
         index \subseteq index', index' \subseteq index \cup AllPending,
         sent \subseteq sent',
         \A m \in sent' : \/ m \in sent
                          \/ \E x \in index' : m = Ledger!Reply(x, minted[x])
  PROVE  Ledger!Serve
<1>1. AllPending \subseteq DOMAIN minted \ trash
  BY PendingIsMinted
<1>2. sent' \subseteq sent \cup {Ledger!Reply(x, minted'[x]) : x \in index'}
  OBVIOUS
<1>3. index' \subseteq index \cup (DOMAIN minted' \ trash)
  BY <1>1
<1>4. QED
  BY <1>2, <1>3 DEF Ledger!Serve

LEMMA RetryServes ==
  ASSUME IInv, NEW c \in Challenges, NEW tx \in Transactions, NEW csr \in Csrs,
         NEW src \in Sources, Retry(c, tx, csr, src)
  PROVE  Ledger!Serve
<1>1. /\ UNCHANGED <<now, minted, trash>> /\ index' = index \cup AllPending
      /\ c \in DOMAIN journal
  BY DEF Retry, Recover, Accepts
<1>2. PICK x \in Given(c, tx, csr, src) :
        IF x \in index'
        THEN sent' = sent \cup {[cert |-> x, tx |-> tx, csr |-> csr, src |-> src]}
        ELSE sent' = sent
  BY DEF Retry
<1>3. Ledger!Reply(x, minted[x]) = [cert |-> x, tx |-> tx, csr |-> csr, src |-> src]
  BY DEF Given, Ledger!Reply
<1>4. /\ sent \subseteq sent'
      /\ \A m \in sent' : m \in sent \/ \E y \in index' : m = Ledger!Reply(y, minted[y])
  BY <1>2, <1>3
<1>5. QED
  BY <1>1, <1>4, Publishes

\* What the pruned journal does not refuse, everything that was ever issued does not
\* refuse either: what was pruned is older than the window and the retention.
LEMMA GrantIsDue ==
  ASSUME IInv, NEW c \in Challenges, NEW tx \in Transactions, NEW csr \in Csrs,
         NEW src \in Sources, Grant(c, tx, csr, src),
         NEW p, p.challenge = c, p.tx = tx, p.csr = csr, p.src = src,
         p.names = Named(src, journal[c].suffixes, Asks[csr])
  PROVE  Ledger!Due(p)
<1>1. /\ c \in DOMAIN journal
      /\ Given(c, tx, csr, src) = {}
      /\ ~ Limited(c, <<p.src, p.names>>)
  BY DEF Grant, Grantable, Accepts
<1> SUFFICES ASSUME NEW y \in DOMAIN minted
             PROVE  /\ Ledger!SameIdentity(p, minted[y]) => now >= minted[y].used + Window
                    /\ Ledger!SameRequest(p, minted[y]) => now >= minted[y].used + Retention
  BY DEF Ledger!Due
<1>2. now \in Nat /\ minted[y].used \in Nat
  BY DEF IInv, TypeOK, Certificate
<1>3. minted[y].challenge = c /\ Fresh(y) => y \in Certificates(c)
  BY <1>1 DEF IInv, Remembered
<1>4. CASE ~ Fresh(y)
  BY <1>2, <1>4, Times DEF Fresh
<1>5. ASSUME Fresh(y), Ledger!SameIdentity(p, minted[y])
      PROVE  now >= minted[y].used + Window
  <2>1. y \in Certificates(c) /\ Identity(y) = <<p.src, p.names>>
    BY <1>3, <1>5 DEF Ledger!SameIdentity, Identity
  <2>2. ~ (now < minted[y].used + Window)
    BY <1>1, <2>1 DEF Limited
  <2>3. QED
    BY <1>2, <2>2, Times
<1>6. ASSUME Fresh(y) PROVE ~ Ledger!SameRequest(p, minted[y])
  BY <1>1, <1>3, <1>6 DEF Ledger!SameRequest, Given
<1>7. QED
  BY <1>4, <1>5, <1>6

LEMMA GrantServes ==
  ASSUME IInv, NEW c \in Challenges, NEW tx \in Transactions, NEW csr \in Csrs,
         NEW src \in Sources, Grant(c, tx, csr, src)
  PROVE  Ledger!Serve
<1> DEFINE cert == [challenge |-> c, tx |-> tx, csr |-> csr, src |-> src, used |-> now,
                    names |-> Named(src, journal[c].suffixes, Asks[csr])]
<1>1. PICK x \in Certs \ DOMAIN minted, published \in {"committed", "listed", "marked"} :
        /\ minted' = [y \in DOMAIN minted \cup {x} |-> IF y = x THEN cert ELSE minted[y]]
        /\ index' = index \cup AllPending \cup (IF published = "committed" THEN {} ELSE {x})
        /\ sent' = IF published = "marked"
                   THEN sent \cup {[cert |-> x, tx |-> tx, csr |-> csr, src |-> src]} ELSE sent
  BY DEF Grant, Answers
<1>2. UNCHANGED <<now, trash>>
  BY DEF Grant
<1>3. Ledger!Due(cert) /\ cert.used = now
  BY GrantIsDue
<1>4. Ledger!Reply(x, cert) = [cert |-> x, tx |-> tx, csr |-> csr, src |-> src]
  BY DEF Ledger!Reply
<1> HIDE DEF cert
<1>5. DOMAIN minted' = DOMAIN minted \cup {x} /\ minted'[x] = cert
  BY <1>1
<1>6. Ledger!Issue(x, minted'[x])
  BY <1>1, <1>3, <1>5 DEF Ledger!Issue
<1>7. /\ AllPending \subseteq DOMAIN minted \ trash
      /\ x \notin trash
  BY PendingIsMinted DEF IInv, Accounts
<1>8. index \subseteq index' /\ index' \subseteq index \cup (DOMAIN minted' \ trash)
  BY <1>1, <1>5, <1>7
<1>9. sent \subseteq sent' /\ sent' \subseteq sent \cup {Ledger!Reply(y, minted'[y]) : y \in index'}
  <2>1. CASE published = "marked"
    <3>1. x \in index'
      BY <1>1, <2>1
    <3>2. QED
      BY <1>1, <1>4, <1>5, <2>1, <3>1
  <2>2. CASE published # "marked"
    BY <1>1, <2>2
  <2>3. QED
    BY <2>1, <2>2
<1>10. QED
  BY <1>2, <1>5, <1>6, <1>8, <1>9 DEF Ledger!Serve

LEMMA DeleteCertWithdraws ==
  ASSUME IInv, NEW x \in Certs, DeleteCert(x)
  PROVE  Ledger!Withdraw(x) /\ x \in DOMAIN minted
<1>1. /\ UNCHANGED <<now, minted, sent>> /\ x \in index \cup AllPending
      /\ index' = (index \cup AllPending) \ {x} /\ trash' = trash \cup {x}
  BY DEF DeleteCert
<1>2. index \cup AllPending \subseteq DOMAIN minted \ trash
  BY PendingIsMinted DEF IInv, Accounts
<1>3. QED
  BY <1>1, <1>2 DEF Ledger!Withdraw

\* Every operation is an operation of the ledger, or does not touch what it keeps.
LEMMA StepIsLedgerStep ==
  ASSUME IInv, [Next]_vars, ~ Restore
  PROVE  Ledger!Next \/ UNCHANGED <<now, minted, index, trash, sent>>
<1>1. ASSUME NEW c \in Challenges, NEW option \in Options, Create(c, option) PROVE Ledger!Serve
  BY <1>1, Publishes DEF Create, Recover
<1>2. CASE Prune
  <2>1. Ledger!Serve
    BY <1>2, Publishes DEF Prune, Recover
  <2>2. QED
    BY <2>1 DEF Ledger!Next
<1>3. CASE Administer
  <2>1. ASSUME NEW c \in Challenges, Revoke(c) \/ DeleteChallenge(c)
        PROVE  UNCHANGED <<now, minted, index, trash, sent>>
    BY <2>1 DEF Revoke, DeleteChallenge
  <2>2. ASSUME NEW x \in Certs, DeleteCert(x) PROVE Ledger!Next
    BY <2>2, DeleteCertWithdraws DEF Ledger!Next
  <2>3. Ledger!Serve => Ledger!Next
    BY DEF Ledger!Next
  <2>4. QED
    BY <1>1, <1>2, <1>3, <2>1, <2>2, <2>3 DEF Administer
<1>4. CASE Enroll
  BY <1>4, RetryServes, GrantServes DEF Enroll, Ledger!Next
<1>5. CASE EndEarly
  <2>1. UNCHANGED <<now, minted, trash, sent>>
    BY <1>5 DEF EndEarly
  <2>2. index \subseteq index' /\ index' \subseteq index \cup AllPending
    BY <1>5 DEF EndEarly
  <2>3. QED
    BY <2>1, <2>2, Publishes DEF Ledger!Next
<1>6. CASE Backup
  <2>1. Ledger!Serve
    BY <1>6, Publishes DEF Backup, Recover
  <2>2. QED
    BY <2>1 DEF Ledger!Next
<1>7. CASE Tick
  BY <1>7 DEF Tick, store, Ledger!Tick, Ledger!Next
<1>8. CASE Change \/ UNCHANGED vars
  BY <1>8 DEF Change, Readdress, EditDevice, vars, store
<1>9. QED
  BY <1>3, <1>4, <1>5, <1>6, <1>7, <1>8 DEF Next

\* What enrollShared decides from the pruned and recovered journal is what it would
\* decide from everything that was ever issued, until a backup is restored.
THEOREM ImplementsTheLedger == Spec => ImplementsLedger
<1>1. Init => Original /\ Ledger!Init
  BY InitIInv DEF Init, Original, Ledger!Init
<1>2. Original /\ [Next]_vars => Original'
  BY StepKeeps
<1>3. Original /\ [Next]_vars
        => [Ledger!Next \/ restores' > 0]_<<now, minted, index, trash, sent>>
  <2> SUFFICES ASSUME Original, [Next]_vars, ~ (restores' > 0)
               PROVE  Ledger!Next \/ UNCHANGED <<now, minted, index, trash, sent>>
    OBVIOUS
  <2>1. Original' /\ restores' = 0
    BY StepKeeps DEF Original
  <2>2. ~ Restore /\ restores = 0
    <3>1. ~ Restore
      BY <2>1 DEF Restore, Original
    <3>2. restores' = restores
      BY <3>1 DEF Next, Administer, Create, Prune, Revoke, DeleteChallenge, DeleteCert, Enroll,
        Retry, Grant, EndEarly, Backup, Tick, Change, Readdress, EditDevice, vars
    <3>3. QED
      BY <2>1, <3>1, <3>2
  <2>3. QED
    BY <2>2, StepIsLedgerStep DEF Original
<1>4. QED
  BY <1>1, <1>2, <1>3, PTL DEF Spec, ImplementsLedger

----------------------------------------------------------------------------
(* However often a backup is restored.                                     *)

\* A journal and the certificates that are listed and deleted beside it, where m says
\* what was issued and made which challenges there were: what is published is on
\* record, and what is pending is the newest of its challenge.
Sound(j, listed, deleted, m, made) ==
  /\ j \in [DOMAIN j -> Challenge] /\ DOMAIN j \subseteq made \cap Challenges
  /\ listed \subseteq Certs /\ deleted \subseteq Certs
  /\ \A c \in DOMAIN j : \A i \in j[c].issuances :
       /\ i.cert \in DOMAIN m
       /\ i.published => i.cert \in listed \cup deleted
       /\ ~ i.published => \A k \in j[c].issuances : m[k.cert].used <= m[i.cert].used

\* It holds of the files in place and of those in the backup.
Restorable ==
  /\ TypeOK /\ StaysWithSource
  /\ \A x \in DOMAIN minted : minted[x].used <= now
  /\ Sound(journal, index, trash, minted, created)
  /\ snapshot # None =>
       Sound(snapshot.journal, snapshot.index, snapshot.trash, minted, created)

LEMMA InitRestorable ==
  ASSUME Init PROVE Restorable
BY Times, Inputs DEF Init, Restorable, Sound, TypeOK, StaysWithSource

\* A backup stays sound while certificates and challenges are added.
LEMMA Later ==
  ASSUME NEW j, NEW listed, NEW deleted, NEW m, NEW made, NEW mm, NEW mmade,
         Sound(j, listed, deleted, m, made), made \subseteq mmade,
         DOMAIN m \subseteq DOMAIN mm, \A x \in DOMAIN m : mm[x] = m[x]
  PROVE  Sound(j, listed, deleted, mm, mmade)
BY DEF Sound

LEMMA PendingIsTyped ==
  ASSUME TypeOK PROVE AllPending \subseteq Certs
BY DEF TypeOK, AllPending, Pending, Challenge, Issuance

\* Every operation but Grant and Restore: issuances leave the journal or are marked,
\* and when they are marked all that was pending is on record.
LEMMA Settled ==
  ASSUME Restorable, TypeOK', minted' = minted, now' >= now,
         created \subseteq created', DOMAIN journal' \subseteq created',
         index \cup trash \subseteq index' \cup trash',
         \A c \in DOMAIN journal' : \A i \in journal'[c].issuances :
            /\ c \in DOMAIN journal
            /\ \/ i \in journal[c].issuances
               \/ /\ i.published /\ i.cert \in Certificates(c)
                  /\ AllPending \subseteq index' \cup trash',
         \/ snapshot' = snapshot
         \/ snapshot' = [journal |-> journal', index |-> index', trash |-> trash'],
         \A m \in sent' : \/ m \in sent
                          \/ /\ m.cert \in DOMAIN minted
                             /\ m.src = minted[m.cert].src
                             /\ m.tx = minted[m.cert].tx /\ m.csr = minted[m.cert].csr
  PROVE  Restorable'
<1>1. StaysWithSource'
  BY DEF Restorable, StaysWithSource
<1>2. \A x \in DOMAIN minted' : minted'[x].used <= now'
  <2>1. \A x \in DOMAIN minted : minted[x].used \in Nat
    BY DEF Restorable, TypeOK, Certificate
  <2>2. QED
    BY <2>1, Times DEF Restorable, TypeOK
<1>3. ASSUME NEW c \in DOMAIN journal', NEW i \in journal'[c].issuances
      PROVE  \E k \in journal[c].issuances :
               k.cert = i.cert /\ (i.published \/ k = i)
  BY <1>3 DEF Certificates
<1>4. ASSUME NEW c \in DOMAIN journal', NEW i \in journal'[c].issuances
      PROVE  /\ i.cert \in DOMAIN minted
             /\ i.published => i.cert \in index' \cup trash'
             /\ ~ i.published =>
                  \A k \in journal'[c].issuances : minted[k.cert].used <= minted[i.cert].used
  <2>1. c \in DOMAIN journal
    BY <1>4
  <2>2. i.cert \in DOMAIN minted
    BY <1>3, <1>4, <2>1 DEF Restorable, Sound
  <2>3. ASSUME i.published PROVE i.cert \in index' \cup trash'
    <3>1. CASE i \in journal[c].issuances
      BY <2>1, <2>3, <3>1 DEF Restorable, Sound
    <3>2. CASE i.cert \in Certificates(c) /\ AllPending \subseteq index' \cup trash'
      <4>1. PICK k \in journal[c].issuances : k.cert = i.cert
        BY <3>2 DEF Certificates
      <4>2. CASE k.published
        BY <2>1, <4>1, <4>2 DEF Restorable, Sound
      <4>3. CASE ~ k.published
        BY <2>1, <3>2, <4>1, <4>3 DEF AllPending, Pending
      <4>4. QED
        BY <4>2, <4>3
    <3>3. QED
      BY <1>4, <3>1, <3>2
  <2>4. ASSUME ~ i.published, NEW k \in journal'[c].issuances
        PROVE  minted[k.cert].used <= minted[i.cert].used
    <3>1. i \in journal[c].issuances
      BY <1>4, <2>4
    <3>2. PICK n \in journal[c].issuances : n.cert = k.cert
      BY <1>3, <1>4
    <3>3. QED
      BY <2>1, <2>4, <3>1, <3>2 DEF Restorable, Sound
  <2>5. QED
    BY <2>2, <2>3, <2>4
<1>5. Sound(journal', index', trash', minted', created')
  BY <1>4 DEF Sound, TypeOK
<1>6. snapshot' # None =>
        Sound(snapshot'.journal, snapshot'.index, snapshot'.trash, minted', created')
  <2>1. CASE snapshot' = snapshot
    BY <2>1, Later DEF Restorable
  <2>2. CASE snapshot' = [journal |-> journal', index |-> index', trash |-> trash']
    BY <1>5, <2>2
  <2>3. QED
    BY <2>1, <2>2
<1>7. QED
  BY <1>1, <1>2, <1>5, <1>6 DEF Restorable

----------------------------------------------------------------------------
\* Who completes what is pending, and lists it.
LEMMA Completes ==
  ASSUME Restorable, TypeOK', minted' = minted, now' >= now, created' = created,
         journal' = Recovered, index \cup trash \cup AllPending \subseteq index' \cup trash',
         \/ snapshot' = snapshot
         \/ snapshot' = [journal |-> journal', index |-> index', trash |-> trash'],
         \A m \in sent' : \/ m \in sent
                          \/ /\ m.cert \in DOMAIN minted
                             /\ m.src = minted[m.cert].src
                             /\ m.tx = minted[m.cert].tx /\ m.csr = minted[m.cert].csr
  PROVE  Restorable'
<1>1. DOMAIN journal' = DOMAIN journal /\ DOMAIN journal' \subseteq created'
  BY RecoveredFacts DEF Restorable, Sound
<1>2. ASSUME NEW c \in DOMAIN journal, NEW i \in Recovered[c].issuances
      PROVE  i.published /\ i.cert \in Certificates(c)
  <2>1. i.cert \in {k.cert : k \in Recovered[c].issuances}
    BY <1>2
  <2>2. ~ i.published => i.cert \in {k.cert : k \in {n \in Recovered[c].issuances : ~ n.published}}
    BY <1>2
  <2>3. QED
    BY <2>1, <2>2, RecoveredFacts DEF Restorable
<1>3. QED
  BY <1>1, <1>2, Settled

LEMMA CreateRestorable ==
  ASSUME Restorable, NEW c \in Challenges, NEW option \in Options, Create(c, option)
  PROVE  Restorable'
<1>1. /\ index' = index \cup AllPending
      /\ UNCHANGED <<now, trash, minted, dns, inventory, edits, sent, snapshot, restores>>
  BY DEF Create, Recover, world
<1>2. index' \in SUBSET Certs /\ now' >= now
  BY <1>1, PendingIsTyped DEF Restorable, TypeOK
<1>3. CASE Cardinality(DOMAIN Pruned) >= Capacity
  <2>1. journal' = Recovered /\ created' = created
    BY <1>3 DEF Create
  <2>2. TypeOK'
    BY <1>1, <1>2, <2>1, AfterRecovery DEF Restorable, TypeOK
  <2>3. QED
    BY <1>1, <1>2, <2>1, <2>2, Completes
<1>4. CASE ~ Cardinality(DOMAIN Pruned) >= Capacity
  <2> DEFINE new == [ranges |-> option.ranges, suffixes |-> option.suffixes,
                     expires |-> now + Lifetime, revoked |-> FALSE, issuances |-> {}]
  <2>1. /\ DOMAIN journal' = DOMAIN Pruned \cup {c}
        /\ journal'[c] = new
        /\ \A d \in DOMAIN Pruned : d # c => journal'[d] = Pruned[d]
        /\ journal' = [d \in DOMAIN journal' |-> journal'[d]]
        /\ created' = created \cup {c}
    BY <1>4 DEF Create
  <2>2. new \in Challenge /\ new.issuances = {}
    BY Times, Inputs DEF Challenge, Restorable, TypeOK
  <2>3. \A d \in DOMAIN journal' : journal'[d] \in Challenge
    BY <2>1, <2>2, PrunedFacts DEF Restorable
  <2>4. DOMAIN journal' \subseteq Challenges \cap created'
    BY <2>1, PrunedFacts DEF Restorable, TypeOK, Sound
  <2>5. journal' \in [DOMAIN journal' -> Challenge]
    BY <2>1, <2>3
  <2>6. TypeOK'
    BY <1>1, <1>2, <2>1, <2>4, <2>5 DEF Restorable, TypeOK
  <2>7. ASSUME NEW d \in DOMAIN journal', NEW i \in journal'[d].issuances
        PROVE  d \in DOMAIN journal /\ i.published /\ i.cert \in Certificates(d)
    <3>1. d # c /\ d \in DOMAIN Pruned /\ i \in Pruned[d].issuances
      BY <2>1, <2>2, <2>7
    <3>2. QED
      BY <3>1, PrunedFacts DEF Restorable
  <2>8. AllPending \subseteq index' \cup trash' /\ index \cup trash \subseteq index' \cup trash'
    BY <1>1
  <2>9. created \subseteq created' /\ DOMAIN journal' \subseteq created'
    BY <2>1, <2>4
  <2>10. QED
    BY <1>1, <1>2, <2>6, <2>7, <2>8, <2>9, Settled
<1>5. QED
  BY <1>3, <1>4

LEMMA PruneRestorable ==
  ASSUME Restorable, Prune
  PROVE  Restorable'
<1>full. CASE journal' = Recovered
  <2>1. /\ index' = index \cup AllPending
        /\ UNCHANGED <<now, trash, minted, dns, inventory, edits, sent, created, snapshot, restores>>
    BY DEF Prune, Recover, world
  <2>2. TypeOK' /\ now' >= now
    BY <1>full, <2>1, AfterRecovery, PendingIsTyped DEF Restorable, TypeOK
  <2>3. QED
    BY <1>full, <2>1, <2>2, Completes
<1> SUFFICES ASSUME journal' = Pruned PROVE Restorable'
  BY <1>full DEF Prune
<1>1. /\ index' = index \cup AllPending /\ journal' = Pruned
      /\ UNCHANGED <<now, trash, minted, dns, inventory, edits, sent, created, snapshot, restores>>
  BY DEF Prune, Recover, world
<1>2. index' \in SUBSET Certs /\ now' >= now
  BY <1>1, PendingIsTyped DEF Restorable, TypeOK
<1>3. /\ DOMAIN journal' \subseteq DOMAIN journal
      /\ journal' = [d \in DOMAIN journal' |-> journal'[d]]
      /\ \A d \in DOMAIN journal' : journal'[d] \in Challenge
  BY <1>1, PrunedFacts DEF Restorable, Pruned
<1>4. journal' \in [DOMAIN journal' -> Challenge]
  BY <1>3
<1>5. DOMAIN journal' \subseteq Challenges \cap created'
  BY <1>1, <1>3 DEF Restorable, TypeOK, Sound
<1>6. TypeOK'
  BY <1>1, <1>2, <1>4, <1>5 DEF Restorable, TypeOK
<1>7. ASSUME NEW d \in DOMAIN journal', NEW i \in journal'[d].issuances
      PROVE  d \in DOMAIN journal /\ i.published /\ i.cert \in Certificates(d)
  BY <1>1, <1>7, PrunedFacts DEF Restorable
<1>8. AllPending \subseteq index' \cup trash' /\ index \cup trash \subseteq index' \cup trash'
  BY <1>1
<1>9. created \subseteq created' /\ DOMAIN journal' \subseteq created'
  BY <1>1, <1>5
<1>10. QED
  BY <1>1, <1>2, <1>6, <1>7, <1>8, <1>9, Settled

LEMMA RevokeRestorable ==
  ASSUME Restorable, NEW c \in Challenges, Revoke(c) PROVE Restorable'
<1>1. /\ UNCHANGED <<now, index, trash, minted, dns, inventory, edits, sent, created, snapshot,
                     restores>>
      /\ c \in DOMAIN journal /\ DOMAIN journal' = DOMAIN journal
      /\ journal'[c] = [journal[c] EXCEPT !.revoked = TRUE]
      /\ \A d \in DOMAIN journal : d # c => journal'[d] = journal[d]
      /\ journal' = [d \in DOMAIN journal' |-> journal'[d]]
  BY DEF Revoke, world
<1>2. \A d \in DOMAIN journal :
        journal'[d] \in Challenge /\ journal'[d].issuances = journal[d].issuances
  BY <1>1, Entries DEF Restorable, Challenge
<1>3. journal' \in [DOMAIN journal' -> Challenge]
  BY <1>1, <1>2
<1>4. TypeOK' /\ now' >= now
  BY <1>1, <1>3 DEF Restorable, TypeOK
<1>5. DOMAIN journal' \subseteq created'
  BY <1>1 DEF Restorable, Sound
<1>6. QED
  BY <1>1, <1>2, <1>4, <1>5, Settled

LEMMA DeleteChallengeRestorable ==
  ASSUME Restorable, NEW c \in Challenges, DeleteChallenge(c) PROVE Restorable'
<1>1. /\ UNCHANGED <<now, index, trash, minted, dns, inventory, edits, sent, created, snapshot,
                     restores>>
      /\ DOMAIN journal' \subseteq DOMAIN journal
      /\ \A d \in DOMAIN journal' : journal'[d] = journal[d]
      /\ journal' = [d \in DOMAIN journal' |-> journal'[d]]
  BY DEF DeleteChallenge, world
<1>2. journal' \in [DOMAIN journal' -> Challenge]
  BY <1>1, Entries DEF Restorable
<1>3. TypeOK' /\ now' >= now
  BY <1>1, <1>2 DEF Restorable, TypeOK
<1>4. DOMAIN journal' \subseteq created'
  BY <1>1 DEF Restorable, Sound
<1>5. QED
  BY <1>1, <1>3, <1>4, Settled

LEMMA DeleteCertRestorable ==
  ASSUME Restorable, NEW x \in Certs, DeleteCert(x) PROVE Restorable'
<1>1. /\ UNCHANGED <<now, minted, dns, inventory, edits, sent, created, snapshot, restores>>
      /\ journal' = Recovered
      /\ index' = (index \cup AllPending) \ {x} /\ trash' = trash \cup {x}
  BY DEF DeleteCert, world
<1>2. TypeOK' /\ now' >= now
  BY <1>1, AfterRecovery, PendingIsTyped DEF Restorable, TypeOK
<1>3. QED
  BY <1>1, <1>2, Completes

LEMMA RetryRestorable ==
  ASSUME Restorable, NEW c \in Challenges, NEW tx \in Transactions, NEW csr \in Csrs,
         NEW src \in Sources, Retry(c, tx, csr, src)
  PROVE  Restorable'
<1>1. /\ UNCHANGED <<now, trash, minted, dns, inventory, edits, created, snapshot, restores>>
      /\ journal' = Recovered /\ index' = index \cup AllPending
      /\ c \in DOMAIN journal
  BY DEF Retry, Recover, Accepts, world
<1>2. PICK x \in Given(c, tx, csr, src) :
        IF x \in index'
        THEN sent' = sent \cup {[cert |-> x, tx |-> tx, csr |-> csr, src |-> src]}
        ELSE sent' = sent
  BY DEF Retry
<1>3. x \in DOMAIN minted /\ minted[x].tx = tx /\ minted[x].csr = csr /\ minted[x].src = src
  BY <1>1 DEF Given, Restorable, Sound, Certificates
<1>4. \A m \in sent' : m \in sent \/ m = [cert |-> x, tx |-> tx, csr |-> csr, src |-> src]
  BY <1>2
<1>5. TypeOK' /\ now' >= now
  <2>1. sent' \subseteq [cert : Certs, tx : Transactions, csr : Csrs, src : Sources]
    BY <1>3, <1>4 DEF Restorable, TypeOK
  <2>2. QED
    BY <1>1, <2>1, AfterRecovery, PendingIsTyped DEF Restorable, TypeOK
<1>6. \A m \in sent' : \/ m \in sent
                      \/ /\ m.cert \in DOMAIN minted
                         /\ m.src = minted[m.cert].src
                         /\ m.tx = minted[m.cert].tx /\ m.csr = minted[m.cert].csr
  BY <1>3, <1>4
<1>7. QED
  BY <1>1, <1>5, <1>6, Completes

LEMMA EndEarlyRestorable ==
  ASSUME Restorable, EndEarly PROVE Restorable'
<1>1. UNCHANGED <<now, trash, minted, dns, inventory, edits, sent, created, snapshot, restores>>
  BY DEF EndEarly, world
<1>2. PICK listed \in SUBSET AllPending :
        /\ index' = index \cup listed
        /\ journal' = journal \/ (listed = AllPending /\ journal' = Recovered)
  BY DEF EndEarly
<1>3. CASE journal' = journal
  <2>1. TypeOK' /\ now' >= now
    BY <1>1, <1>2, <1>3, PendingIsTyped DEF Restorable, TypeOK
  <2>2. DOMAIN journal' \subseteq created'
    BY <1>1, <1>3 DEF Restorable, Sound
  <2>3. QED
    BY <1>1, <1>2, <1>3, <2>1, <2>2, Settled
<1>4. CASE listed = AllPending /\ journal' = Recovered
  <2>1. TypeOK' /\ now' >= now
    BY <1>1, <1>2, <1>4, AfterRecovery, PendingIsTyped DEF Restorable, TypeOK
  <2>2. QED
    BY <1>1, <1>2, <1>4, <2>1, Completes
<1>5. QED
  BY <1>2, <1>3, <1>4

LEMMA BackupRestorable ==
  ASSUME Restorable, Backup PROVE Restorable'
<1>1. /\ UNCHANGED <<now, trash, minted, dns, inventory, edits, sent, created, restores>>
      /\ journal' = Recovered /\ index' = index \cup AllPending
      /\ snapshot' = [journal |-> journal', index |-> index', trash |-> trash']
  BY DEF Backup, Recover, world
<1>2. TypeOK' /\ now' >= now
  BY <1>1, AfterRecovery, PendingIsTyped DEF Restorable, TypeOK
<1>3. QED
  BY <1>1, <1>2, Completes

\* A backup brings back files that agree with each other.
LEMMA RestoreRestorable ==
  ASSUME Restorable, Restore PROVE Restorable'
<1>1. /\ UNCHANGED <<now, minted, dns, inventory, edits, sent, created, snapshot>>
      /\ snapshot # None /\ restores < MaxRestores /\ restores' = restores + 1
      /\ journal' = snapshot.journal /\ index' = snapshot.index /\ trash' = snapshot.trash
  BY DEF Restore, world
<1>2. Sound(journal', index', trash', minted', created')
  BY <1>1 DEF Restorable
<1>3. restores' \in 0 .. MaxRestores
  BY <1>1, Times DEF Restorable, TypeOK
<1>4. TypeOK'
  BY <1>1, <1>2, <1>3 DEF Restorable, TypeOK, Sound
<1>5. QED
  BY <1>1, <1>2, <1>4 DEF Restorable, StaysWithSource

LEMMA WorldRestorable ==
  ASSUME Restorable, Tick \/ Change PROVE Restorable'
<1>1. UNCHANGED <<minted, journal, index, trash, sent, created, snapshot, restores>>
  BY DEF Tick, Change, Readdress, EditDevice, store
<1>2. now' >= now /\ now' \in 0 .. MaxTime
  BY Times DEF Tick, Change, Readdress, EditDevice, Restorable, TypeOK
<1>3. dns' \in [Names -> Sources \cup {None}] /\ inventory' \in [Sources -> SUBSET Names]
  BY DEF Tick, Change, Readdress, EditDevice, world, Restorable, TypeOK
<1>4. edits' \in 0 .. MaxEdits
  BY Times DEF Tick, Change, Readdress, EditDevice, world, Restorable, TypeOK
<1>5. TypeOK'
  BY <1>1, <1>2, <1>3, <1>4 DEF Restorable, TypeOK
<1>6. DOMAIN journal' \subseteq created'
  BY <1>1 DEF Restorable, Sound
<1>7. QED
  BY <1>1, <1>2, <1>5, <1>6, Settled

----------------------------------------------------------------------------
\* The new issuance is the newest, and all others are on record.
LEMMA GrantRestorable ==
  ASSUME Restorable, NEW c \in Challenges, NEW tx \in Transactions, NEW csr \in Csrs,
         NEW src \in Sources, Grant(c, tx, csr, src)
  PROVE  Restorable'
<1>1. /\ UNCHANGED <<now, trash, created, dns, inventory, edits, snapshot, restores>>
      /\ c \in DOMAIN journal
  BY DEF Grant, Grantable, Accepts, world
<1> DEFINE names == Named(src, journal[c].suffixes, Asks[csr])
           cert == [challenge |-> c, tx |-> tx, csr |-> csr, src |-> src, used |-> now,
                    names |-> names]
<1>2. PICK x \in Certs \ DOMAIN minted, published \in {"committed", "listed", "marked"} :
        /\ minted' = [y \in DOMAIN minted \cup {x} |-> IF y = x THEN cert ELSE minted[y]]
        /\ journal' = [Recovered EXCEPT ![c].issuances =
                          @ \cup {[cert |-> x, published |-> published = "marked"]}]
        /\ index' = index \cup AllPending \cup (IF published = "committed" THEN {} ELSE {x})
        /\ sent' = IF published = "marked"
                   THEN sent \cup {[cert |-> x, tx |-> tx, csr |-> csr, src |-> src]} ELSE sent
  BY DEF Grant, Answers
<1>3. names \in SUBSET Names
  BY <1>1, Entries, Inputs DEF Named, Restorable, TypeOK, Challenge
<1>4. cert \in Certificate
  BY <1>3 DEF Certificate, Restorable, TypeOK
<1>5. /\ DOMAIN minted' = DOMAIN minted \cup {x} /\ minted'[x] = cert
      /\ \A y \in DOMAIN minted : minted'[y] = minted[y]
      /\ minted' \in [DOMAIN minted' -> Certificate]
  BY <1>2, <1>4 DEF Restorable, TypeOK
<1>6. \A y \in DOMAIN minted' : minted'[y].used <= now /\ minted'[y].used \in Nat /\ now \in Nat
  BY <1>5 DEF Restorable, TypeOK, Certificate
<1> HIDE DEF names, cert
<1>p. PICK p \in BOOLEAN : p = (published = "marked")
  OBVIOUS
<1>7. /\ DOMAIN journal' = DOMAIN journal /\ journal' \in [DOMAIN journal' -> Challenge]
      /\ \A d \in DOMAIN journal : d # c => journal'[d] = Recovered[d]
      /\ journal'[c].issuances = Recovered[c].issuances \cup {[cert |-> x, published |-> p]}
  <2>1. journal' = [Recovered EXCEPT ![c].issuances = @ \cup {[cert |-> x, published |-> p]}]
    BY <1>2, <1>p
  <2>2. TypeOK
    BY DEF Restorable
  <2>3. QED
    BY <1>1, <2>1, <2>2, Granted
<1>8. ASSUME NEW d \in DOMAIN journal, NEW i \in Recovered[d].issuances
      PROVE  /\ i.published /\ i.cert \in DOMAIN minted
             /\ i.cert \in index' \cup trash'
  <2>1. i.cert \in {k.cert : k \in Recovered[d].issuances}
    BY <1>8
  <2>2. ~ i.published => i.cert \in {k.cert : k \in {n \in Recovered[d].issuances : ~ n.published}}
    BY <1>8
  <2>3. i.published /\ i.cert \in Certificates(d)
    BY <2>1, <2>2, RecoveredFacts DEF Restorable
  <2>4. PICK k \in journal[d].issuances : k.cert = i.cert
    BY <2>3 DEF Certificates
  <2>5. k.cert \in index \cup trash \cup AllPending
    BY <2>4 DEF Restorable, Sound, AllPending, Pending
  <2>6. QED
    BY <1>1, <1>2, <2>3, <2>4, <2>5 DEF Restorable, Sound
<1>9. ASSUME NEW d \in DOMAIN journal', NEW i \in journal'[d].issuances
      PROVE  /\ i.cert \in DOMAIN minted'
             /\ i.published => i.cert \in index' \cup trash'
             /\ ~ i.published => d = c /\ i.cert = x
  <2>1. CASE i \in Recovered[d].issuances
    BY <1>5, <1>7, <1>8, <2>1
  <2>2. CASE d = c /\ i = [cert |-> x, published |-> p]
    BY <1>2, <1>p, <1>5, <2>2
  <2>3. QED
    BY <1>7, <1>9, <2>1, <2>2
<1>10. ASSUME NEW d \in DOMAIN journal', NEW i \in journal'[d].issuances, ~ i.published,
              NEW k \in journal'[d].issuances
       PROVE  minted'[k.cert].used <= minted'[i.cert].used
  <2>1. minted'[i.cert].used = now
    BY <1>5, <1>9, <1>10 DEF cert
  <2>2. QED
    BY <1>6, <1>9, <2>1
<1>11. sent' \subseteq [cert : Certs, tx : Transactions, csr : Csrs, src : Sources]
  BY <1>2 DEF Restorable, TypeOK
<1>12. TypeOK'
  BY <1>1, <1>2, <1>5, <1>7, <1>11, PendingIsTyped DEF Restorable, TypeOK
<1>13. Sound(journal', index', trash', minted', created')
  BY <1>1, <1>7, <1>9, <1>10, <1>12 DEF Sound, Restorable, TypeOK
<1>14. snapshot' # None =>
         Sound(snapshot'.journal, snapshot'.index, snapshot'.trash, minted', created')
  BY <1>1, <1>5, Later DEF Restorable
<1>15. StaysWithSource'
  <2> SUFFICES ASSUME NEW m \in sent'
               PROVE  /\ m.cert \in DOMAIN minted' /\ m.src = minted'[m.cert].src
                      /\ m.tx = minted'[m.cert].tx /\ m.csr = minted'[m.cert].csr
    BY DEF StaysWithSource
  <2>1. CASE m \in sent
    BY <1>5, <2>1 DEF Restorable, StaysWithSource
  <2>2. CASE m = [cert |-> x, tx |-> tx, csr |-> csr, src |-> src]
    BY <1>5, <2>2 DEF cert
  <2>3. QED
    BY <1>2, <2>1, <2>2
<1>16. QED
  BY <1>1, <1>6, <1>12, <1>13, <1>14, <1>15 DEF Restorable

LEMMA StepRestorable ==
  ASSUME Restorable, [Next]_vars PROVE Restorable'
<1>1. CASE Administer
  BY <1>1, CreateRestorable, PruneRestorable, RevokeRestorable, DeleteChallengeRestorable, DeleteCertRestorable
    DEF Administer
<1>2. CASE Enroll
  BY <1>2, RetryRestorable, GrantRestorable DEF Enroll
<1>3. CASE EndEarly \/ Backup \/ Restore
  BY <1>3, EndEarlyRestorable, BackupRestorable, RestoreRestorable
<1>4. CASE Tick \/ Change
  BY <1>4, WorldRestorable
<1>5. CASE UNCHANGED vars
  <2>1. UNCHANGED <<now, journal, index, trash, minted, dns, inventory, sent, created, snapshot,
                    restores, edits>>
    BY <1>5 DEF vars, store, world
  <2>2. QED
    BY <2>1 DEF Restorable, TypeOK, StaysWithSource
<1>6. QED
  BY <1>1, <1>2, <1>3, <1>4, <1>5 DEF Next

\* The journal agrees with the certificates beside it, in place and in every backup
\* (recover, pruneShared, stageBackup).
THEOREM AlwaysRestorable == Spec => []Restorable
<1>1. Init => Restorable
  BY InitRestorable
<1>2. Restorable /\ [Next]_vars => Restorable'
  BY StepRestorable
<1>3. QED
  BY <1>1, <1>2, PTL DEF Spec

\* What the journal calls published is listed or in the trash (validateBackup).
THEOREM PublishedIsOnRecord == Spec => []PublishedIsAccounted
<1>1. Restorable => PublishedIsAccounted
  <2> SUFFICES ASSUME Restorable, NEW c \in DOMAIN journal, NEW x \in Certificates(c) \ Pending(c)
               PROVE  x \in index \cup trash
    BY DEF PublishedIsAccounted
  <2>1. PICK i \in journal[c].issuances : i.cert = x
    BY DEF Certificates
  <2>2. i.published
    BY <2>1 DEF Pending
  <2>3. QED
    BY <2>1, <2>2 DEF Restorable, Sound
<1>2. QED
  BY <1>1, AlwaysRestorable, PTL

\* A certificate is only ever sent to the source, for the transaction and the CSR, that
\* it was made for (enrollShared, scep_shared.go:429).
THEOREM SourceNeverMoves == Spec => []StaysWithSource
<1>1. Restorable => StaysWithSource
  BY DEF Restorable
<1>2. QED
  BY <1>1, AlwaysRestorable, PTL

----------------------------------------------------------------------------
\* Pruning spares what is pending, because it is the newest.
LEMMA PrunedKeepsPending ==
  ASSUME Restorable, NEW c \in DOMAIN journal, NEW x \in Pending(c)
  PROVE  c \in DOMAIN Pruned /\ x \in {i.cert : i \in Pruned[c].issuances}
<1>1. PICK i \in journal[c].issuances : ~ i.published /\ i.cert = x
  BY DEF Pending
<1>2. \A y \in Certificates(c) : minted[y].used <= minted[i.cert].used
  BY <1>1 DEF Certificates, Restorable, Sound
<1>3. i \in Kept(c) /\ Kept(c) # {}
  BY <1>1, <1>2 DEF Kept
<1>4. c \in DOMAIN Pruned /\ Pruned[c] = [journal[c] EXCEPT !.issuances = Marked(Kept(c))]
  BY <1>3 DEF Pruned
<1>5. journal[c] \in Challenge /\ Kept(c) \in SUBSET Issuance
  BY Entries DEF Restorable, Kept
<1>6. Pruned[c].issuances = Marked(Kept(c))
  <2>1. Marked(Kept(c)) \in SUBSET Issuance
    BY <1>5, MarkedFacts
  <2> DEFINE e == [journal[c] EXCEPT !.issuances = Marked(Kept(c))]
  <2>2. e.issuances = Marked(Kept(c))
    BY <1>5, <2>1, WithIssuances
  <2>3. QED
    BY <1>4, <2>2
<1>7. {k.cert : k \in Marked(Kept(c))} = {k.cert : k \in Kept(c)}
  BY <1>5, MarkedFacts
<1>8. x \in {k.cert : k \in Kept(c)}
  BY <1>1, <1>3
<1>9. QED
  BY <1>4, <1>6, <1>7, <1>8

LEMMA PendingStays ==
  ASSUME Restorable, [Next]_vars, NEW c \in DOMAIN journal, NEW x \in Pending(c)
  PROVE  restores' # restores \/ (c \in DOMAIN journal' /\ x \in Certificates(c)')
<1>1. x \in Certificates(c)
  BY DEF Pending, Certificates
<1>2. CASE journal' = journal
  BY <1>1, <1>2 DEF Certificates
<1>3. CASE journal' = Recovered
  BY <1>1, <1>3, AfterRecovery DEF Restorable
<1>4. ASSUME NEW d \in Challenges, NEW option \in Options, Create(d, option)
      PROVE  c \in DOMAIN journal' /\ x \in Certificates(c)'
  <2>1. CASE Cardinality(DOMAIN Pruned) >= Capacity
    BY <1>3, <1>4, <2>1, AfterRecovery, <1>1 DEF Create, Restorable
  <2>2. CASE ~ Cardinality(DOMAIN Pruned) >= Capacity
    <3>1. c \in DOMAIN Pruned /\ x \in {i.cert : i \in Pruned[c].issuances}
      BY PrunedKeepsPending
    <3>2. c # d
      BY <1>4 DEF Create, Restorable, Sound
    <3>3. c \in DOMAIN journal' /\ journal'[c] = Pruned[c]
      BY <1>4, <2>2, <3>1, <3>2 DEF Create
    <3>4. QED
      BY <3>1, <3>3 DEF Certificates
  <2>3. QED
    BY <2>1, <2>2
<1>5. ASSUME NEW d \in Challenges, Revoke(d)
      PROVE  c \in DOMAIN journal' /\ x \in Certificates(c)'
  <2>1. c \in DOMAIN journal' /\ journal'[c].issuances = journal[c].issuances
    BY <1>5, Entries DEF Revoke, Restorable, Challenge
  <2>2. QED
    BY <1>1, <2>1 DEF Certificates
<1>6. ASSUME NEW d \in Challenges, DeleteChallenge(d)
      PROVE  c \in DOMAIN journal' /\ x \in Certificates(c)'
  <2>1. c # d
    BY <1>6 DEF DeleteChallenge
  <2>2. c \in DOMAIN journal' /\ journal'[c] = journal[c]
    BY <1>6, <2>1 DEF DeleteChallenge
  <2>3. QED
    BY <1>1, <2>2 DEF Certificates
<1>7. ASSUME NEW d \in Challenges, NEW tx \in Transactions, NEW csr \in Csrs, NEW src \in Sources,
             Grant(d, tx, csr, src)
      PROVE  c \in DOMAIN journal' /\ x \in Certificates(c)'
  <2>1. d \in DOMAIN journal
    BY <1>7 DEF Grant, Grantable, Accepts
  <2>2. PICK y \in Certs \ DOMAIN minted, published \in {"committed", "listed", "marked"} :
          journal' = [Recovered EXCEPT ![d].issuances =
                         @ \cup {[cert |-> y, published |-> published = "marked"]}]
    BY <1>7 DEF Grant
  <2>3. PICK p \in BOOLEAN : p = (published = "marked")
    OBVIOUS
  <2>4. journal' = [Recovered EXCEPT ![d].issuances = @ \cup {[cert |-> y, published |-> p]}]
    BY <2>2, <2>3
  <2>5. TypeOK
    BY DEF Restorable
  <2>6. /\ DOMAIN journal' = DOMAIN journal
        /\ \A e \in DOMAIN journal :
             Certificates(e)' = Certificates(e) \cup (IF e = d THEN {y} ELSE {})
    BY <2>1, <2>4, <2>5, Granted
  <2>7. QED
    BY <1>1, <2>6
<1>8. CASE Prune
  <2>1. c \in DOMAIN Pruned /\ x \in {i.cert : i \in Pruned[c].issuances}
    BY PrunedKeepsPending
  <2>2. journal' = Pruned \/ journal' = Recovered
    BY <1>8 DEF Prune
  <2>3. QED
    BY <1>3, <2>1, <2>2 DEF Certificates
<1>9. CASE Administer
  BY <1>3, <1>4, <1>5, <1>6, <1>9, <1>8 DEF Administer, DeleteCert
<1>10. CASE Enroll
  BY <1>3, <1>7, <1>10 DEF Enroll, Retry
<1>11. CASE EndEarly
  BY <1>2, <1>3, <1>11 DEF EndEarly
<1>12. CASE Backup
  BY <1>3, <1>12 DEF Backup
<1>13. CASE Restore
  BY <1>13 DEF Restore, Restorable, TypeOK
<1>14. CASE Tick \/ Change \/ UNCHANGED vars
  BY <1>2, <1>14 DEF Tick, Change, Readdress, EditDevice, vars, store
<1>15. QED
  BY <1>9, <1>10, <1>11, <1>12, <1>13, <1>14 DEF Next

\* No operation drops an issuance that recovery still has to publish; only a restore,
\* which replaces the journal, can (pruneShared, deleteChallenge).
THEOREM PendingIsKept == Spec => PendingKept
<1>1. ASSUME Restorable, [Next]_vars
      PROVE  \A x \in AllPending : x \in Journaled' \/ restores' # restores
  <2> SUFFICES ASSUME NEW x \in AllPending, restores' = restores PROVE x \in Journaled'
    OBVIOUS
  <2>1. PICK c \in DOMAIN journal : x \in Pending(c)
    BY DEF AllPending
  <2>2. c \in DOMAIN journal' /\ x \in Certificates(c)'
    BY <1>1, <2>1, PendingStays
  <2>3. QED
    BY <2>2 DEF Journaled
<1>2. QED
  BY <1>1, AlwaysRestorable, PTL DEF Spec, PendingKept
=============================================================================
