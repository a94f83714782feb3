-------------------------- MODULE SharedChallenge --------------------------
(***************************************************************************)
(* Shared SCEP challenges (scep_shared.go): one secret for many devices,   *)
(* each of which is known by the address that it calls from and by names   *)
(* that DNS or the inventory give to that address.                         *)
(*                                                                         *)
(* Every operation runs under scepMu, so an action is a whole operation;   *)
(* where it is cut short, by an error or by the death of the process, it   *)
(* leaves one of the files that it writes behind the others.  ScepJournal  *)
(* has the writes one by one.                                              *)
(*                                                                         *)
(* A certificate is a number; what it says, and for whom it was made, is   *)
(* in minted.  A request is a transaction and a CSR with its signer.       *)
(***************************************************************************)
EXTENDS Naturals, FiniteSets

CONSTANTS
  Challenges, Transactions, Csrs, Sources, Names,
  Asks,          \* the names that a CSR asks for
  Options,       \* the ranges and the suffixes that an administrator may choose:
                 \* as the sources and the names that are in them
  MaxNames,      \* sharedMaxNames
  Capacity,      \* 10000
  Window,        \* sharedRateWindow
  Retention,     \* scepRetention
  Lifetime,      \* bounds: of a challenge,
  MaxTime, MaxCerts, MaxEdits, MaxRestores,   \* of the clock, certificates, changes of
                 \* DNS and the inventory, restores
  None

Certs == 1 .. MaxCerts

ASSUME Times ==
  /\ Window \in Nat /\ Retention \in Nat /\ Window <= Retention /\ Lifetime \in Nat
  /\ MaxTime \in Nat /\ MaxCerts \in Nat /\ MaxEdits \in Nat /\ MaxRestores \in Nat
ASSUME Inputs ==
  /\ Asks \in [Csrs -> SUBSET Names]
  /\ Options \subseteq [ranges : SUBSET Sources, suffixes : SUBSET Names]
  /\ None \notin Sources

VARIABLES
  now,
  journal,     \* scep.json: the shared challenges
  index, trash,  \* the certificates that are listed, and those that were deleted
  minted,      \* what the certificates say
  dns, inventory,  \* the address of a name, the names of the devices at an address
  sent,        \* history: replies with a certificate, and to whom
  created,     \* history: every challenge that was made
  snapshot, restores, edits

store == <<journal, index, trash>>
world == <<dns, inventory, edits>>
vars == <<now, store, minted, world, sent, created, snapshot, restores>>

Issuance == [cert : Certs, published : BOOLEAN]
Challenge == [ranges : SUBSET Sources, suffixes : SUBSET Names, expires : Nat,
              revoked : BOOLEAN, issuances : SUBSET Issuance]
Certificate == [challenge : Challenges, tx : Transactions, csr : Csrs,
                src : Sources, names : SUBSET Names, used : Nat]

TypeOK ==
  /\ now \in 0 .. MaxTime
  /\ DOMAIN journal \subseteq Challenges /\ journal \in [DOMAIN journal -> Challenge]
  /\ index \in SUBSET Certs /\ trash \in SUBSET Certs
  /\ DOMAIN minted \subseteq Certs /\ minted \in [DOMAIN minted -> Certificate]
  /\ dns \in [Names -> Sources \cup {None}]
  /\ inventory \in [Sources -> SUBSET Names]
  /\ sent \subseteq [cert : Certs, tx : Transactions, csr : Csrs, src : Sources]
  /\ created \subseteq Challenges
  /\ restores \in 0 .. MaxRestores /\ edits \in 0 .. MaxEdits

Init ==
  /\ now = 0
  /\ journal = [c \in {} |-> None]
  /\ index = {} /\ trash = {}
  /\ minted = [x \in {} |-> None]
  /\ dns = [n \in Names |-> None] /\ inventory = [s \in Sources |-> {}]
  /\ sent = {} /\ created = {}
  /\ snapshot = None /\ restores = 0 /\ edits = 0

----------------------------------------------------------------------------
Expired(c) == now > journal[c].expires
Certificates(c) == {i.cert : i \in journal[c].issuances}
Journaled == UNION {Certificates(c) : c \in DOMAIN journal}
Identity(x) == <<minted[x].src, minted[x].names>>

\* What recover completes: the issuances that are not marked as published.
Pending(c) == {i.cert : i \in {j \in journal[c].issuances : ~ j.published}}
AllPending == UNION {Pending(c) : c \in DOMAIN journal}
Marked(S) == {[cert |-> i.cert, published |-> TRUE] : i \in S}
Recovered == [c \in DOMAIN journal |-> [journal[c] EXCEPT !.issuances = Marked(@)]]

Fresh(x) == now < minted[x].used + Retention

\* Mutant of Kept: the newest is enough.
KeptNewest(c) ==
  {i \in journal[c].issuances :
     \A y \in Certificates(c) :
       Identity(y) = Identity(i.cert) => minted[y].used <= minted[i.cert].used}
\* pruneShared, after the recovery: what is fresh, and the newest of an identity.
Kept(c) ==
  {i \in journal[c].issuances :
     \/ Fresh(i.cert)
     \/ \A y \in Certificates(c) :
          Identity(y) = Identity(i.cert) => minted[y].used <= minted[i.cert].used}
Pruned ==
  LET stays == {c \in DOMAIN journal : now < journal[c].expires + Retention \/ Kept(c) # {}}
  IN [c \in stays |-> [journal[c] EXCEPT !.issuances = Marked(Kept(c))]]

\* Mutant of Recover: what is pending is marked, and not listed.
MarkOnly == UNCHANGED index
\* What recover does to the index before the rest of an operation.
Recover == index' = index \cup AllPending

\* sharedNames: every name that is asked for must belong to the source, through the
\* inventory or through DNS; who asks for none gets those that the inventory has.
Named(src, suffixes, asked) ==
  IF suffixes = {} \/ asked # {} THEN (IF suffixes = {} THEN {} ELSE asked)
  ELSE inventory[src] \cap suffixes
NamesRefused(src, suffixes, asked) ==
  \/ Cardinality(Named(src, suffixes, asked)) > MaxNames
  \/ \E n \in Named(src, suffixes, asked) :
       n \notin suffixes \/ (n \notin inventory[src] /\ dns[n] # src)

----------------------------------------------------------------------------
(* The administrator.                                                      *)

\* sharedChallenge; the secret is random.  At capacity the pruned journal is not
\* saved, but what was recovered is.
Create(c, option) ==
  /\ c \notin created
  /\ Recover
  /\ IF Cardinality(DOMAIN Pruned) >= Capacity
     THEN journal' = Recovered /\ UNCHANGED created
     ELSE /\ journal' = [d \in DOMAIN Pruned \cup {c} |->
                IF d = c THEN [ranges |-> option.ranges, suffixes |-> option.suffixes,
                               expires |-> now + Lifetime, revoked |-> FALSE, issuances |-> {}]
                ELSE Pruned[d]]
          /\ created' = created \cup {c}
  /\ UNCHANGED <<now, trash, minted, world, sent, snapshot, restores>>

\* challenge: one that is for a single use is made, and the shared ones are pruned too.
Prune ==
  /\ Recover
  /\ journal' = IF Cardinality(DOMAIN Pruned) >= Capacity THEN Recovered ELSE Pruned
  /\ UNCHANGED <<now, trash, minted, world, sent, created, snapshot, restores>>

Revoke(c) ==
  /\ c \in DOMAIN journal
  /\ journal' = [journal EXCEPT ![c].revoked = TRUE]
  /\ UNCHANGED <<now, index, trash, minted, world, sent, created, snapshot, restores>>

\* Mutant of DeleteChallenge: unpublished issuances do not hold it back.
DeletePending(c) ==
  /\ c \in DOMAIN journal /\ (journal[c].revoked \/ Expired(c))
  /\ journal' = [d \in DOMAIN journal \ {c} |-> journal[d]]
  /\ UNCHANGED <<now, index, trash, minted, world, sent, created, snapshot, restores>>
\* Only revoked or expired challenges are deleted, and none that recover still needs.
DeleteChallenge(c) ==
  /\ c \in DOMAIN journal /\ (journal[c].revoked \/ Expired(c))
  /\ Pending(c) = {}
  /\ journal' = [d \in DOMAIN journal \ {c} |-> journal[d]]
  /\ UNCHANGED <<now, index, trash, minted, world, sent, created, snapshot, restores>>

\* Store.DeleteCert, after reconcileSCEP.
DeleteCert(x) ==
  /\ x \in index \cup AllPending
  /\ journal' = Recovered
  /\ index' = (index \cup AllPending) \ {x} /\ trash' = trash \cup {x}
  /\ UNCHANGED <<now, minted, world, sent, created, snapshot, restores>>

----------------------------------------------------------------------------
(* A device.                                                               *)

\* The certificate that a request was given and may be given again.
\* Mutant of Given: the source is not compared.
GivenAnywhere(c, tx, csr, src) ==
  {x \in Certificates(c) : minted[x].tx = tx /\ minted[x].csr = csr /\ Fresh(x)}
Given(c, tx, csr, src) ==
  {x \in Certificates(c) :
     minted[x].tx = tx /\ minted[x].csr = csr /\ minted[x].src = src /\ Fresh(x)}

Accepts(c, src) ==
  /\ c \in DOMAIN journal
  /\ ~ journal[c].revoked /\ ~ Expired(c) /\ src \in journal[c].ranges

\* A retry: the stored certificate, or a refusal when it has been deleted.
Retry(c, tx, csr, src) ==
  /\ Accepts(c, src)
  /\ journal' = Recovered /\ Recover
  /\ \E x \in Given(c, tx, csr, src) :
       IF x \in index'
       THEN sent' = sent \cup {[cert |-> x, tx |-> tx, csr |-> csr, src |-> src]}
       ELSE UNCHANGED sent
  /\ UNCHANGED <<now, trash, minted, world, created, snapshot, restores>>

\* Mutant of Limited: an issuance that is not published does not count.
LimitedByPublished(c, identity) ==
  \E x \in Certificates(c) \ Pending(c) :
    Identity(x) = identity /\ now < minted[x].used + Window
Limited(c, identity) ==
  \E x \in Certificates(c) : Identity(x) = identity /\ now < minted[x].used + Window

Grantable(c, tx, csr, src) ==
  LET suffixes == journal[c].suffixes
  IN /\ Accepts(c, src) /\ Given(c, tx, csr, src) = {}
     /\ ~ NamesRefused(src, suffixes, Asks[csr])
     /\ ~ Limited(c, <<src, Named(src, suffixes, Asks[csr])>>)

Answers(published) == published = "marked"

\* The issuance is committed; published says how far the projection then gets: not
\* at all, into the index, or with its mark into the journal.  Only then is there a
\* reply.
Grant(c, tx, csr, src) ==
  /\ Certs \ DOMAIN minted # {}
  /\ Grantable(c, tx, csr, src)
  /\ \E x \in Certs \ DOMAIN minted, published \in {"committed", "listed", "marked"} :
       /\ \A y \in Certs \ DOMAIN minted : x <= y
       /\ minted' = [y \in DOMAIN minted \cup {x} |->
            IF y = x THEN [challenge |-> c, tx |-> tx, csr |-> csr, src |-> src, used |-> now,
                           names |-> Named(src, journal[c].suffixes, Asks[csr])]
            ELSE minted[y]]
       /\ journal' = [Recovered EXCEPT ![c].issuances =
                         @ \cup {[cert |-> x, published |-> published = "marked"]}]
       /\ index' = index \cup AllPending \cup (IF published = "committed" THEN {} ELSE {x})
       /\ sent' = IF Answers(published)
                  THEN sent \cup {[cert |-> x, tx |-> tx, csr |-> csr, src |-> src]} ELSE sent
  /\ UNCHANGED <<now, trash, world, created, snapshot, restores>>

\* An operation ends in its recover, or after it (an error, the death of the
\* process, a refusal): some of the pending certificates are listed, and if all are
\* their marks may be saved.
EndEarly ==
  /\ AllPending # {}
  /\ \E listed \in SUBSET AllPending :
       /\ index' = index \cup listed
       /\ journal' = journal \/ (listed = AllPending /\ journal' = Recovered)
  /\ UNCHANGED <<now, trash, minted, world, sent, created, snapshot, restores>>

----------------------------------------------------------------------------
(* Backup and restore, time, and the names of the network.                 *)

Backup ==
  /\ MaxRestores > 0 /\ snapshot = None
  /\ journal' = Recovered /\ Recover
  /\ snapshot' = [journal |-> journal', index |-> index', trash |-> trash]
  /\ UNCHANGED <<now, trash, minted, world, sent, created, restores>>

\* stageBackup revokes the single-use challenges that are unused, and no shared one.
Restore ==
  /\ snapshot # None /\ restores < MaxRestores /\ restores' = restores + 1
  /\ journal' = snapshot.journal /\ index' = snapshot.index /\ trash' = snapshot.trash
  /\ UNCHANGED <<now, minted, world, sent, created, snapshot>>

Tick ==
  /\ now < MaxTime /\ now' = now + 1
  /\ UNCHANGED <<store, minted, world, sent, created, snapshot, restores>>

Readdress(n) ==
  /\ edits < MaxEdits /\ edits' = edits + 1
  /\ \E s \in Sources \cup {None} : dns' = [dns EXCEPT ![n] = s]
  /\ UNCHANGED <<now, store, minted, inventory, sent, created, snapshot, restores>>

EditDevice(s) ==
  /\ edits < MaxEdits /\ edits' = edits + 1
  /\ \E names \in SUBSET Names : inventory' = [inventory EXCEPT ![s] = names]
  /\ UNCHANGED <<now, store, minted, dns, sent, created, snapshot, restores>>

Administer ==
  \/ \E c \in Challenges :
       (\E option \in Options : Create(c, option)) \/ Revoke(c) \/ DeleteChallenge(c)
  \/ \E x \in Certs : DeleteCert(x)
  \/ Prune

Enroll ==
  \E c \in Challenges, tx \in Transactions, csr \in Csrs, src \in Sources :
    Retry(c, tx, csr, src) \/ Grant(c, tx, csr, src)

Change == (\E n \in Names : Readdress(n)) \/ (\E s \in Sources : EditDevice(s))

Next == Administer \/ Enroll \/ EndEarly \/ Backup \/ Restore \/ Tick \/ Change

Spec == Init /\ [][Next]_vars
----------------------------------------------------------------------------
\* What the journal remembers; SharedChallengeProofs shows that it is inductive while
\* nothing is restored.  Numbers are given in the order of time, and no challenge
\* comes back.
InOrder ==
  /\ \A x \in DOMAIN minted : \A y \in Certs : y < x => y \in DOMAIN minted
  /\ \A x, y \in DOMAIN minted : x < y => minted[x].used <= minted[y].used
  /\ \A x \in DOMAIN minted : minted[x].used <= now
  /\ DOMAIN journal \subseteq created
  /\ \A x \in DOMAIN minted : minted[x].challenge \in created
\* What is fresh is in the journal of its challenge, unless that is gone.
Remembered ==
  /\ \A c \in DOMAIN journal : \A x \in Certificates(c) :
       x \in DOMAIN minted /\ minted[x].challenge = c
  /\ \A x \in DOMAIN minted :
       minted[x].challenge \in DOMAIN journal /\ Fresh(x) => x \in Certificates(minted[x].challenge)
\* "Each identity (source address plus its verified names) gets at most one issuance
\* per ten minutes per shared challenge" (README.md:211-212): whatever was pruned,
\* failed or retried in between.
RateWindow ==
  \A x, y \in DOMAIN minted :
    x < y /\ minted[x].challenge = minted[y].challenge /\ Identity(x) = Identity(y)
      => minted[y].used >= minted[x].used + Window

\* "A same-transaction retry from the same source, with the same CSR and signer,
\* returns the stored certificate" (README.md:212-214): never a second one within the
\* retention.
OnePerRequest ==
  \A x, y \in DOMAIN minted :
    /\ x < y /\ minted[x].challenge = minted[y].challenge /\ minted[x].src = minted[y].src
    /\ minted[x].tx = minted[y].tx /\ minted[x].csr = minted[y].csr
    => minted[y].used >= minted[x].used + Retention

\* "The source must match: a retry never moves a certificate" (scep_shared.go:429).
StaysWithSource ==
  \A m \in sent : /\ m.cert \in DOMAIN minted
                  /\ m.src = minted[m.cert].src
                  /\ m.tx = minted[m.cert].tx /\ m.csr = minted[m.cert].csr

\* A certificate that was sent is listed, or was deleted on purpose (enrollShared
\* commits and publishes before it returns the DER).
DeliveredOnRecord == \A m \in sent : m.cert \in index \cup trash

\* A deleted certificate is never listed again, although its issuance may still be in
\* the journal (DeleteCert reconciles first, publish does not ask).
NoResurrection == index \cap trash = {}

\* The limits that README.md:211-214 promises, unless a restore has forgotten what was
\* issued since the backup (enrollShared, pruneShared).
Limits == restores = 0 => RateWindow /\ OnePerRequest

\* What enrollShared decides from the pruned journal is what it would decide from
\* everything that was ever issued, and nothing else is listed or sent: until a
\* restore the module implements the ledger.
Ledger == INSTANCE SharedLedger
            WITH issued <- minted, listed <- index, withdrawn <- trash, delivered <- sent
ImplementsLedger ==
  Ledger!Init /\ [][Ledger!Next \/ restores' > 0]_<<now, minted, index, trash, sent>>

\* What is listed or in the trash was made, and nothing that is deleted is pending.
Accounts == index \cup trash \subseteq DOMAIN minted /\ AllPending \cap trash = {}
IInv ==
  /\ TypeOK /\ InOrder /\ Remembered /\ Accounts
  /\ RateWindow /\ OnePerRequest /\ StaysWithSource /\ DeliveredOnRecord /\ NoResurrection

\* No operation drops an issuance that is not published (pruneShared,
\* deleteChallenge: "so recovery can publish them", scep_store.go:422).
PendingKept == [][\A x \in AllPending : x \in Journaled' \/ restores' # restores]_vars

\* What the journal calls published is listed or in the trash, also when both come
\* out of a backup (validateBackup, backup_validate.go:255-265).
PublishedIsAccounted ==
  \A c \in DOMAIN journal : Certificates(c) \ Pending(c) \subseteq index \cup trash
=============================================================================
