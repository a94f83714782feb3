-------------------------- MODULE ScepJournalProofs --------------------------
(***************************************************************************)
(* Proofs about ScepJournal, for every number of challenges, requesters    *)
(* and CAs and every placement of storage errors and process crashes.      *)
(***************************************************************************)
EXTENDS ScepJournal, TLAPS

\* A challenge that is present in a journal has an entry there.
LEMMA EntryOf ==
  ASSUME NEW j \in Journal, NEW c \in Challenges, Present(j, c)
  PROVE  j.chal[c] \in Entry
  BY NoneAssumption DEF Journal, Present

\* A used challenge names a certificate.
LEMMA CertOf ==
  ASSUME NEW j \in Journal, NEW c \in Challenges, Used(j, c)
  PROVE  j.chal[c] \in Entry /\ j.chal[c].cert \in Cert
  <1>1. j.chal[c] \in Entry
    BY EntryOf DEF Used
  <1> QED BY <1>1 DEF Used, Entry

\* Replacing the entry of one challenge leaves a journal.
LEMMA SetEntry ==
  ASSUME NEW j \in Journal, NEW c \in Challenges, NEW e \in Entry \cup {None}
  PROVE  [j EXCEPT !.chal[c] = e] \in Journal
  BY DEF Journal

\* Marking a challenge published, or revoked, leaves a journal.
LEMMA MarkEntry ==
  ASSUME NEW j \in Journal, NEW c \in Challenges, Present(j, c)
  PROVE  /\ [j EXCEPT !.chal[c].published = TRUE] \in Journal
         /\ [j EXCEPT !.chal[c].revoked = TRUE] \in Journal
  <1>1. j.chal[c] \in Entry
    BY EntryOf
  <1>2. [j.chal[c] EXCEPT !.published = TRUE] \in Entry
        /\ [j.chal[c] EXCEPT !.revoked = TRUE] \in Entry
    BY <1>1 DEF Entry
  <1> QED BY <1>2 DEF Journal

\* Retention leaves a journal.
LEMMA PruneType ==
  ASSUME NEW j \in Journal
  PROVE  Prune(j) \in Journal
  BY DEF Prune, Journal

\* An operation that moves on or answers is still an operation.
LEMMA GotoType ==
  ASSUME op \in Op, NEW label \in {"recover", "body", "reply"} \cup StorageSteps, Goto(label)
  PROVE  op' \in Op
  BY DEF Goto, Op

LEMMA AnswerType ==
  ASSUME op \in Op, NEW reply \in {"success", "refused", "ok", "error"}, Answer(reply)
  PROVE  op' \in Op
  BY DEF Answer, Op

LEMMA IdleType == Idle \in Op
  BY DEF Idle, Op, Kinds

-----------------------------------------------------------------------------
(* Type correctness *)

LEMMA TypeInit == Init => TypeOK
  BY Bounds, NoneAssumption
     DEF Init, TypeOK, EmptyJournal, Journal, Index, Op, Idle, Kinds, StorageSteps

\* The steps of recovery keep the types.
LEMMA TypeRecovery == TypeOK /\ Recovery => TypeOK'
  <1> SUFFICES ASSUME TypeOK, Recovery PROVE TypeOK'
    OBVIOUS
  <1> USE DEF TypeOK, files, memory, counters
  <1>0. \A c \in Challenges : NextPending(c) => Present(st, c) /\ st.chal[c].cert \in Cert
    BY CertOf DEF NextPending, Pending, Used
  <1>1. CASE RecoverBlocked
    BY <1>1 DEF RecoverBlocked, Answer, Op
  <1>2. CASE ProjectPem
    BY <1>2, <1>0 DEF ProjectPem, Goto, Op, StorageSteps
  <1>3. CASE ProjectIndex
    BY <1>3, <1>0 DEF ProjectIndex, RenameIndex, Goto, Op, StorageSteps, Index
  <1>4. CASE ProjectIndexed
    BY <1>4, <1>0, MarkEntry DEF ProjectIndexed, Mark, Goto, Op, StorageSteps
  <1>5. CASE ProjectSync
    BY <1>5, <1>0, MarkEntry DEF ProjectSync, SyncDir, Mark, Goto, Op, StorageSteps
  <1>6. CASE Recovered
    BY <1>6 DEF Recovered, Goto, Op, StorageSteps
  <1>7. CASE SaveMarks
    BY <1>7 DEF SaveMarks, RenameJournal, Goto, Op, StorageSteps
  <1>8. CASE SyncMarks
    BY <1>8 DEF SyncMarks, SyncDir, Goto, Op, StorageSteps
  <1> QED
    BY <1>1, <1>2, <1>3, <1>4, <1>5, <1>6, <1>7, <1>8 DEF Recovery

\* So do the steps of an enrollment; a grant builds a certificate from the
\* selected CA, the requester and the clock.
LEMMA TypeEnrollment == TypeOK /\ Progress /\ Enrollment => TypeOK'
  <1> SUFFICES ASSUME TypeOK, Progress, Enrollment PROVE TypeOK'
    OBVIOUS
  <1> USE DEF TypeOK, files, memory, counters
  <1>1. ASSUME Deliver, op.kind = "enroll", Used(st, op.chal) PROVE TypeOK'
    <2>1. op.chal \in Challenges /\ op.req \in Requests
      BY <1>1 DEF Progress
    <2>2. st.chal[op.chal].cert \in Cert
      BY <1>1, <2>1, CertOf
    <2> QED BY <1>1, <2>1, <2>2, AnswerType DEF Deliver
  <1>2. CASE Replay
    BY <1>1, <1>2 DEF Replay, CanReplay
  <1>3. CASE Refuse
    BY <1>3 DEF Refuse, Answer, Op
  <1>4. CASE Grant
    <2> DEFINE x == [serial |-> serial + 1, chal |-> op.chal, req |-> op.req,
                     ca |-> st.ca, at |-> now]
               e == [st.chal[op.chal] EXCEPT !.cert = x, !.published = FALSE]
    <2>1. op.chal \in Challenges /\ op.req \in Requests
      BY <1>4 DEF Grant, Progress
    <2>2. st.chal[op.chal] \in Entry /\ st.ca \in CAs
      BY <1>4, <2>1, EntryOf DEF Grant, CanGrant, Known, Entry
    <2>3. x \in Cert /\ serial' \in 0 .. MaxSerial
      BY <1>4, <2>1, <2>2, Bounds DEF Grant, Cert
    <2>4. e \in Entry
      BY <2>2, <2>3 DEF Entry
    <2>5. st' = [st EXCEPT !.chal[op.chal] = e] /\ st' \in Journal
      BY <1>4, <2>1, <2>4, SetEntry DEF Grant
    <2> QED BY <1>4, <2>3, <2>5 DEF Grant, Op, StorageSteps
  <1>5. CASE Reply
    BY <1>1, <1>5 DEF Reply, Progress
  <1> QED
    BY <1>2, <1>3, <1>4, <1>5 DEF Enrollment

\* So do the administrator's steps and the end of an operation.
LEMMA TypeAdministration == TypeOK /\ Progress /\ (Administration \/ Finish) => TypeOK'
  <1> SUFFICES ASSUME TypeOK, Progress, Administration \/ Finish PROVE TypeOK'
    OBVIOUS
  <1> USE DEF TypeOK, files, memory, counters
  <1>1. CASE Create
    <2> DEFINE e == [ca |-> st.ca, expires |-> now + Life, revoked |-> FALSE,
                     cert |-> None, published |-> FALSE]
    <2>1. st.ca \in CAs
      BY <1>1 DEF Create, Progress
    <2>2. e \in Entry
      BY <2>1, Bounds DEF Entry
    <2>3. made + 1 \in Challenges /\ made' \in 0 .. MaxChallenges
      BY <1>1, Bounds DEF Create, Challenges
    <2>4. Prune(st) \in Journal
      BY PruneType
    <2>5. st' = [Prune(st) EXCEPT !.chal[made + 1] = e] /\ st' \in Journal
      BY <1>1, <2>2, <2>3, <2>4, SetEntry DEF Create
    <2> QED BY <1>1, <2>3, <2>5 DEF Create, Goto, Op, StorageSteps
  <1>2. CASE CapacityReached
    BY <1>2 DEF CapacityReached, Answer, Op
  <1>3. CASE Commit
    BY <1>3 DEF Commit, RenameJournal, Goto, Op, StorageSteps
  <1>4. CASE SyncCommit
    <2>1. op' \in Op
      BY <1>4, GotoType, AnswerType DEF SyncCommit
    <2> QED BY <1>4, <2>1 DEF SyncCommit, SyncDir
  <1>5. CASE FindCert
    <2>1. op' \in Op
      BY <1>5, GotoType, AnswerType DEF FindCert, StorageSteps
    <2> QED BY <1>5, <2>1 DEF FindCert
  <1>6. CASE FindCA
    <2>1. {x \in index.certs : x.ca = op.ca} \in SUBSET Cert
      BY DEF Index
    <2>2. op' \in Op
      BY <1>6, <2>1, AnswerType DEF FindCA, Op, StorageSteps
    <2> QED BY <1>6, <2>2 DEF FindCA
  <1>7. CASE TrashCA
    <2>1. CASE CaUsable(op.ca)
      BY <1>7, <2>1 DEF TrashCA, Goto, Op, StorageSteps
    <2>2. CASE ~ CaUsable(op.ca)
      BY <1>7, <2>2, AnswerType DEF TrashCA
    <2> QED BY <2>1, <2>2
  <1>8. CASE TrashPem
    BY <1>8 DEF TrashPem
  <1>9. CASE TrashMoved
    BY <1>9 DEF TrashMoved, Goto, Op, StorageSteps
  <1>10. CASE Unlist
    BY <1>10 DEF Unlist, RenameIndex, Goto, Op, StorageSteps, Index
  <1>11. CASE SyncUnlist
    BY <1>11 DEF SyncUnlist, SyncDir, Answer, Op
  <1>12. CASE StartupDone
    BY <1>12 DEF StartupDone, Answer, Op
  <1>13. CASE Finish
    BY <1>13 DEF Finish, Idle, Op, Kinds
  <1> QED
    BY <1>1, <1>2, <1>3, <1>4, <1>5, <1>6, <1>7, <1>8, <1>9, <1>10, <1>11, <1>12, <1>13
       DEF Administration

\* So does the start of every operation; an edit starts with the journal it will save.
LEMMA TypeCall == TypeOK /\ Call => TypeOK'
  <1> SUFFICES ASSUME TypeOK, Call PROVE TypeOK'
    OBVIOUS
  <1> USE DEF TypeOK, files, memory, counters
  <1>1. ASSUME NEW new \in Op, BeginRecover(new) PROVE TypeOK'
    BY <1>1 DEF BeginRecover, Begin, Op
  <1>2. ASSUME NEW edited \in Journal, BeginEdit(edited) PROVE TypeOK'
    BY <1>2, NoneAssumption DEF BeginEdit, Begin, Idle, Op, Kinds, StorageSteps
  <1>3. CASE \E c \in Challenges, r \in Requests : StartEnroll(c, r)
    <2> PICK c \in Challenges, r \in Requests : StartEnroll(c, r)
      BY <1>3
    <2>1. c \in Nat
      BY Bounds DEF Challenges
    <2>2. [Idle EXCEPT !.kind = "enroll", !.chal = c, !.req = r] \in Op
      BY <2>1, IdleType DEF Op, Kinds
    <2> QED BY <2>2, <1>1 DEF StartEnroll
  <1>4. CASE StartChallenge
    <2> [Idle EXCEPT !.kind = "challenge"] \in Op
      BY DEF Idle, Op, Kinds
    <2> QED BY <1>1, <1>4 DEF StartChallenge
  <1>5. CASE \E c \in Challenges : Revoke(c) \/ DeleteChallenge(c)
    <2> PICK c \in Challenges : Revoke(c) \/ DeleteChallenge(c)
      BY <1>5
    <2>1. Present(journal, c)
      BY DEF Revoke, DeleteChallenge
    <2>2. [journal EXCEPT !.chal[c].revoked = TRUE] \in Journal
          /\ [journal EXCEPT !.chal[c] = None] \in Journal
      BY <2>1, MarkEntry, SetEntry
    <2> QED BY <2>2, <1>2 DEF Revoke, DeleteChallenge
  <1>6. CASE SetAllowDES
    BY <1>6, <1>2 DEF SetAllowDES
  <1>7. CASE \E k \in CAs : SelectCA(k) \/ StartDeleteCA(k)
    <2> PICK k \in CAs : SelectCA(k) \/ StartDeleteCA(k)
      BY <1>7
    <2>1. [journal EXCEPT !.ca = k] \in Journal
      BY DEF Journal
    <2>2. [Idle EXCEPT !.kind = "deleteCA", !.ca = k] \in Op
      BY DEF Idle, Op, Kinds
    <2> QED BY <2>1, <2>2, <1>1, <1>2 DEF SelectCA, StartDeleteCA
  <1>8. ASSUME NEW x \in Cert, StartDeleteCert(x) PROVE TypeOK'
    <2> [Idle EXCEPT !.kind = "deleteCert", !.del = {x}] \in Op
      BY DEF Idle, Op, Kinds
    <2> QED BY <1>1, <1>8 DEF StartDeleteCert
  <1>9. CASE \E c \in Challenges : Used(journal, c) /\ StartDeleteCert(journal.chal[c].cert)
    BY <1>8, <1>9, CertOf
  <1>10. CASE \E x \in index.certs : StartDeleteCert(x)
    BY <1>8, <1>10 DEF Index
  <1> QED
    BY <1>3, <1>4, <1>5, <1>6, <1>7, <1>9, <1>10 DEF Call

\* Every step keeps the types.
LEMMA TypeNext == TypeOK /\ Progress /\ [Next]_vars => TypeOK'
  <1> SUFFICES ASSUME TypeOK, Progress, [Next]_vars PROVE TypeOK'
    OBVIOUS
  <1>1. CASE Step
    BY <1>1, TypeRecovery, TypeEnrollment, TypeAdministration DEF Step
  <1>2. CASE Call
    BY <1>2, TypeCall
  <1> USE DEF TypeOK, files, memory, counters
  <1>3. CASE StorageError
    <2>1. faults' \in 0 .. MaxFaults
      BY <1>3, Bounds DEF StorageError
    <2> QED BY <1>3, <2>1, AnswerType DEF StorageError
  <1>4. CASE Restart
    BY <1>4, NoneAssumption DEF Restart, Idle, Op, Kinds
  <1>5. CASE Outage
    BY <1>5, FlakyAssumption DEF Outage
  <1>6. CASE Tick
    BY <1>6, Bounds DEF Tick
  <1>7. CASE Crash
    <2>1. crashes' \in 0 .. MaxCrashes
      BY <1>7, Bounds DEF Crash
    <2> QED BY <1>7, <2>1, IdleType DEF Crash
  <1>8. CASE UNCHANGED vars
    BY <1>8 DEF vars
  <1> QED
    BY <1>1, <1>2, <1>3, <1>4, <1>5, <1>6, <1>7, <1>8 DEF Next, Work

-----------------------------------------------------------------------------
(* The inductive invariant, without types and in the groups its proof uses *)

Recorded ==
  /\ Accounts(journal) /\ Accounts(st)
  /\ SingleUse /\ RetryBinding /\ DeliveredOnRecord

\* What Recorded speaks of, apart from the working copy.
record == <<journal, index, trash, delivered, made, caDirs>>

LEMMA IInvParts == IInv <=> TypeOK /\ Recorded /\ Progress /\ NoResurrection
  BY DEF IInv, Recorded

\* A step that leaves the records alone keeps what is said of them.
LEMMA QuietRecord ==
  Recorded /\ UNCHANGED record /\ (st' = st \/ st' = journal) => Recorded'
  <1> SUFFICES ASSUME Recorded, UNCHANGED record, st' = st \/ st' = journal
               PROVE  Recorded'
    OBVIOUS
  <1> USE DEF Recorded, record
  <1>1. Issued' = Issued
    BY DEF Issued
  <1>2. Accounts(journal)'
    BY <1>1 DEF Accounts, Present, Used, Pending
  <1>3. Accounts(st)'
    BY <1>1 DEF Accounts, Present, Used, Pending
  <1>4. SingleUse' /\ RetryBinding' /\ DeliveredOnRecord'
    BY <1>1 DEF SingleUse, RetryBinding, DeliveredOnRecord
  <1> QED BY <1>2, <1>3, <1>4

\* The certificate that recovery works on is named by its own challenge, is not in
\* the trash, and is in the journal as well.
LEMMA PendingCert ==
  ASSUME IInv, op.pc \in RecoverySteps, NEW c \in Challenges, NextPending(c)
  PROVE  /\ st.chal[c].cert \in Cert /\ st.chal[c].cert.chal = c
         /\ st.chal[c].cert \notin trash
         /\ Used(journal, c) /\ journal.chal[c].cert = st.chal[c].cert
  <1>1. Used(st, c) /\ ~ st.chal[c].published
    BY DEF NextPending, Pending
  <1>2. st.chal[c].cert \in Cert
    BY <1>1, CertOf DEF IInv, TypeOK
  <1>3. st.chal[c].cert.chal = c /\ st.chal[c].cert \notin trash
    BY <1>1 DEF IInv, Accounts, Used
  <1>4. Used(journal, c) /\ journal.chal[c].cert = st.chal[c].cert
    BY <1>1 DEF IInv, Progress, Agrees, Used
  <1> QED BY <1>2, <1>3, <1>4

\* Recovery works on one challenge at a time.
LEMMA NextUnique ==
  ASSUME NEW c \in Challenges, NEW d \in Challenges, NextPending(c), NextPending(d)
  PROVE  c = d
  BY Bounds DEF NextPending, Challenges

\* Marking a challenge published whose certificate is listed changes nothing else.
LEMMA MarkKeeps ==
  ASSUME IInv, op.pc \in RecoverySteps, UNCHANGED record,
         NEW c \in Challenges, NextPending(c), st.chal[c].cert \in index.certs, Mark(c)
  PROVE  /\ Recorded'
         /\ \A d \in Challenges :
              /\ Present(st, d)' <=> Present(st, d)
              /\ Present(st, d) => (st.chal[d].cert)' = st.chal[d].cert
  <1>1. st \in Journal /\ Present(st, c)
    BY DEF IInv, TypeOK, NextPending, Pending, Used
  <1>2. st.chal[c] \in Entry /\ [st.chal[c] EXCEPT !.published = TRUE] \in Entry
    BY <1>1, EntryOf DEF Entry
  <1>3. /\ st'.chal[c] = [st.chal[c] EXCEPT !.published = TRUE]
        /\ st'.chal[c] # None
        /\ \A d \in Challenges \ {c} : st'.chal[d] = st.chal[d]
    BY <1>1, <1>2, NoneAssumption DEF Mark, Journal
  <1>4. \A d \in Challenges :
          /\ Present(st, d)' <=> Present(st, d)
          /\ Present(st, d) => /\ (st.chal[d].cert)' = st.chal[d].cert
                               /\ (st.chal[d].ca)' = st.chal[d].ca
                               /\ st.chal[d].published => (st.chal[d].published)'
    BY <1>1, <1>2, <1>3 DEF Present, Entry
  <1>5. \A d \in Challenges :
          Present(st, d) /\ (st.chal[d].published)' => d = c \/ st.chal[d].published
    BY <1>3
  <1>6. Issued' = Issued
    BY DEF Issued, record
  <1>7. Accounts(st)'
    <2>1. \A x \in Issued : x.chal \in Challenges
      BY DEF IInv, TypeOK, Issued, Index, Cert
    <2>2. \A d \in Challenges : Used(st, d)' <=> Used(st, d)
      BY <1>4 DEF Used
    <2>3. \A d \in Challenges : Pending(st, d)' => Pending(st, d)
      BY <1>4, <2>2 DEF Pending, Used
    <2>4. \A d \in Challenges :
            Used(st, d)' /\ (st.chal[d].published)' =>
              (st.chal[d].cert)' \in (index.certs \cup trash)'
      BY <1>4, <1>5, <2>2 DEF IInv, Accounts, Used, record
    <2>5. \A x \in trash' : Present(st, x.chal)' => (st.chal[x.chal].published)'
      BY <1>4, <2>1 DEF IInv, Accounts, record, Issued
    <2>6. \A d \in Challenges : Pending(st, d)' => (st.chal[d].ca)' \in caDirs'
      BY <1>4, <2>3 DEF IInv, Accounts, record, Pending, Used
    <2>7. \A x \in Issued' : Present(st, x.chal)' => (st.chal[x.chal].cert)' = x
      BY <1>4, <1>6, <2>1 DEF IInv, Accounts
    <2>8. /\ \A d \in Challenges : Present(st, d)' => d <= made'
          /\ \A d \in Challenges : Used(st, d)' => (st.chal[d].cert.chal)' = d
          /\ \A x \in Issued' : x.chal <= made'
      BY <1>4, <1>6, <2>2 DEF IInv, Accounts, record, Used
    <2> QED BY <2>4, <2>5, <2>6, <2>7, <2>8 DEF Accounts
  <1>8. Accounts(journal)'
    BY <1>6 DEF IInv, Accounts, Present, Used, Pending, record
  <1>9. SingleUse' /\ RetryBinding' /\ DeliveredOnRecord'
    BY <1>6 DEF IInv, SingleUse, RetryBinding, DeliveredOnRecord, record
  <1> QED BY <1>4, <1>7, <1>8, <1>9 DEF Recorded

\* The steps of recovery keep the invariant.
LEMMA InvRecovery == IInv /\ Recovery => (Recorded /\ Progress /\ NoResurrection)'
  <1> SUFFICES ASSUME IInv, Recovery
               PROVE  Recorded' /\ Progress' /\ NoResurrection'
    OBVIOUS
  <1> USE DEF files, memory, counters
  <1>0. Recorded /\ Progress /\ NoResurrection /\ TypeOK /\ op \in Op
    BY IInvParts DEF TypeOK
  <1>1. CASE RecoverBlocked
    <2>1. Recorded' /\ NoResurrection'
      BY <1>0, <1>1, QuietRecord DEF RecoverBlocked, record, NoResurrection
    <2>2. Progress'
      BY <1>0, <1>1 DEF RecoverBlocked, Answer, Op, Progress, RecoverySteps, TrashSteps,
         Agrees, Used, Present
    <2> QED BY <2>1, <2>2
  <1>2. CASE ProjectPem
    <2> PICK c \in Challenges : NextPending(c) /\ pems' = pems \cup {st.chal[c].cert}
      BY <1>2 DEF ProjectPem
    <2>0. op.pc = "recover" /\ UNCHANGED <<record, st>> /\ op' = [op EXCEPT !.pc = "index"]
      BY <1>2 DEF ProjectPem, Goto, record
    <2>1. Recorded'
      BY <1>0, <2>0, QuietRecord
    <2>2. NoResurrection'
      BY <1>0, <2>0, PendingCert DEF record, NoResurrection, RecoverySteps
    <2>3. \A d \in Challenges : NextPending(d)' => (st.chal[d].cert)' \in pems'
      BY <2>0, NextUnique DEF NextPending, Pending, Used, Present
    <2>4. Progress'
      BY <1>0, <2>0, <2>3 DEF Progress, Op, RecoverySteps, TrashSteps, Agrees, Used,
         Present, record
    <2> QED BY <2>1, <2>2, <2>4
  <1>3. CASE ProjectIndex
    <2> PICK c \in Challenges :
          /\ NextPending(c) /\ st.chal[c].cert \notin index.certs
          /\ RenameIndex([index EXCEPT !.certs = @ \cup {st.chal[c].cert}])
      BY <1>3 DEF ProjectIndex
    <2> DEFINE x == st.chal[c].cert
    <2>0. /\ op.pc = "index" /\ op' = [op EXCEPT !.pc = "indexSync"]
          /\ UNCHANGED <<journal, st, trash, pems, delivered, made, caDirs>>
          /\ index'.certs = index.certs \cup {x}
      BY <1>0, <1>3 DEF ProjectIndex, RenameIndex, Goto, Index, TypeOK
    <2>1. /\ x \in Cert /\ x.chal = c /\ x \notin trash
          /\ Used(st, c) /\ Used(journal, c) /\ journal.chal[c].cert = x
      BY <2>0, PendingCert DEF RecoverySteps, NextPending, Pending
    <2>2. Issued' = Issued \cup {x}
      BY <2>0 DEF Issued
    <2>3. \A y \in Issued : y.chal = c => y = x
      BY <1>0, <2>1 DEF Recorded, Accounts, Used
    <2>4. x.chal <= made
      BY <1>0, <2>1 DEF Recorded, Accounts, Used
    <2>5. Accounts(journal)' /\ Accounts(st)'
      BY <1>0, <2>0, <2>1, <2>2, <2>4 DEF Recorded, Accounts, Present, Used, Pending
    <2>6. SingleUse' /\ RetryBinding' /\ DeliveredOnRecord'
      BY <1>0, <2>0, <2>1, <2>2, <2>3
         DEF Recorded, SingleUse, RetryBinding, DeliveredOnRecord
    <2>7. x \in pems
      BY <1>0, <2>0 DEF Progress
    <2>8. NoResurrection'
      BY <1>0, <2>0, <2>1 DEF NoResurrection
    <2>9. \A d \in Challenges : NextPending(d)' => (st.chal[d].cert)' \in index'.certs
      BY <2>0, NextUnique DEF NextPending, Pending, Used, Present
    <2>10. Progress'
      BY <1>0, <2>0, <2>9 DEF Progress, Op, RecoverySteps, TrashSteps, Agrees, Used, Present
    <2> QED BY <2>5, <2>6, <2>8, <2>10 DEF Recorded
  <1>4. ASSUME op.pc \in RecoverySteps, NEW c \in Challenges, NextPending(c), Mark(c),
               st.chal[c].cert \in index.certs, UNCHANGED <<record, pems>>,
               Goto("recover")
        PROVE  Recorded' /\ Progress' /\ NoResurrection'
    <2>0. op' = [op EXCEPT !.pc = "recover"]
      BY <1>4 DEF Goto
    <2>1. /\ Recorded'
          /\ \A d \in Challenges :
               /\ Present(st, d)' <=> Present(st, d)
               /\ Present(st, d) => (st.chal[d].cert)' = st.chal[d].cert
      BY <1>4, MarkKeeps
    <2>2. NoResurrection'
      BY <1>0, <1>4 DEF NoResurrection, record
    <2>3. Agrees'
      BY <1>0, <1>4, <2>1 DEF Progress, Agrees, record, Present
    <2>4. st'.ca = st.ca
      BY <1>0, <1>4 DEF Mark, TypeOK, Journal
    <2>5. Progress'
      BY <1>0, <1>4, <2>0, <2>1, <2>3, <2>4
         DEF Progress, Op, RecoverySteps, TrashSteps, record, Used
    <2> QED BY <2>1, <2>2, <2>5
  <1>5. CASE ProjectIndexed
    BY <1>4, <1>5 DEF ProjectIndexed, RecoverySteps, record
  <1>6. CASE ProjectSync
    <2>1. PICK c \in Challenges : NextPending(c) /\ Mark(c)
      BY <1>6 DEF ProjectSync
    <2>2. st.chal[c].cert \in index.certs
      BY <1>0, <1>6, <2>1 DEF ProjectSync, Progress
    <2> QED BY <1>4, <1>6, <2>1, <2>2 DEF ProjectSync, SyncDir, RecoverySteps, record
  <1>7. CASE Recovered
    <2>0. /\ op.pc = "recover" /\ \A c \in Challenges : ~ Pending(st, c)
          /\ UNCHANGED <<record, pems, st>>
          /\ op' = [op EXCEPT !.pc = IF st # journal THEN "mark" ELSE op.then]
      BY <1>7 DEF Recovered, Goto, record
    <2>1. Recorded' /\ NoResurrection'
      BY <1>0, <2>0, QuietRecord DEF record, NoResurrection
    <2>2. \A c \in Challenges : ~ Pending(st, c)'
      BY <2>0 DEF Pending, Used, Present
    <2>3. Progress'
      BY <1>0, <2>0, <2>2 DEF Progress, Op, RecoverySteps, TrashSteps, Agrees, Used,
         Present, record
    <2> QED BY <2>1, <2>3
  <1>8. CASE SaveMarks
    <2>0. /\ op.pc = "mark" /\ journal' = st
          /\ UNCHANGED <<index, trash, delivered, made, caDirs, pems, st>>
          /\ op' = [op EXCEPT !.pc = "markSync"]
      BY <1>8 DEF SaveMarks, RenameJournal, Goto
    <2>1. Issued' = Issued
      BY <2>0 DEF Issued
    <2>2. Recorded'
      BY <1>0, <2>0, <2>1 DEF Recorded, Accounts, Present, Used, Pending, SingleUse,
         RetryBinding, DeliveredOnRecord
    <2>3. NoResurrection'
      BY <1>0, <2>0 DEF NoResurrection
    <2>4. Progress'
      BY <1>0, <2>0 DEF Progress, Op, RecoverySteps, TrashSteps, Used, Present, Pending
    <2> QED BY <2>2, <2>3, <2>4
  <1>9. CASE SyncMarks
    <2>0. op.pc = "markSync" /\ UNCHANGED <<record, pems, st>>
          /\ op' = [op EXCEPT !.pc = op.then]
      BY <1>9 DEF SyncMarks, SyncDir, Goto, record
    <2>1. Recorded' /\ NoResurrection'
      BY <1>0, <2>0, QuietRecord DEF record, NoResurrection
    <2>2. Progress'
      BY <1>0, <2>0 DEF Progress, Op, RecoverySteps, TrashSteps, Used, Present, Pending,
         record
    <2> QED BY <2>1, <2>2
  <1> QED
    BY <1>1, <1>2, <1>3, <1>5, <1>6, <1>7, <1>8, <1>9 DEF Recovery

\* A step of an operation that changes no record and keeps the copy.
LEMMA QuietStep ==
  ASSUME IInv, UNCHANGED <<record, pems, st>>
  PROVE  Recorded' /\ NoResurrection'
  <1>1. Recorded /\ NoResurrection
    BY IInvParts
  <1>2. Recorded'
    BY <1>1, QuietRecord
  <1>3. NoResurrection'
    BY <1>1 DEF NoResurrection, record
  <1> QED BY <1>2, <1>3

\* An operation that answers leaves nothing to be kept but its request.
LEMMA AnswerProgress ==
  ASSUME Progress, op \in Op, NEW reply, Answer(reply), UNCHANGED <<caDirs, st, trash>>
  PROVE  Progress'
  BY DEF Answer, Op, Progress, RecoverySteps, TrashSteps, Used, Present

\* An enrollment that was granted or replayed reports a certificate that is listed.
LEMMA Delivered ==
  ASSUME IInv, Replay \/ Reply
  PROVE  LET x == st.chal[op.chal].cert
         IN /\ x \in Cert /\ x \in index.certs /\ x.req = op.req
            /\ delivered' = delivered \cup {[to |-> op.req, cert |-> x]}
  <1>1. CASE Replay
    <2>1. op.chal \in Challenges /\ Used(st, op.chal)
      BY <1>1 DEF Replay, CanReplay, IInv, Progress
    <2>2. st.chal[op.chal].cert \in Cert
      BY <2>1, CertOf DEF IInv, TypeOK
    <2> QED BY <1>1, <2>2 DEF Replay, CanReplay, Deliver
  <1>2. CASE Reply
    <2>1. /\ op.chal \in Challenges /\ Used(st, op.chal) /\ ~ Pending(st, op.chal)
          /\ st.chal[op.chal].cert.req = op.req /\ st.chal[op.chal].cert \notin trash
      BY <1>2 DEF Reply, IInv, Progress
    <2>2. st.chal[op.chal].cert \in Cert
      BY <2>1, CertOf DEF IInv, TypeOK
    <2>3. st.chal[op.chal].cert \in index.certs
      BY <2>1 DEF IInv, Accounts, Pending
    <2> QED BY <1>2, <2>1, <2>2, <2>3 DEF Reply, Deliver
  <1> QED BY <1>1, <1>2

\* The steps of an enrollment keep the invariant.
LEMMA InvEnrollment == IInv /\ Enrollment => (Recorded /\ Progress /\ NoResurrection)'
  <1> SUFFICES ASSUME IInv, Enrollment
               PROVE  Recorded' /\ Progress' /\ NoResurrection'
    OBVIOUS
  <1> USE DEF files, memory, counters
  <1>0. Recorded /\ Progress /\ NoResurrection /\ TypeOK /\ op \in Op
    BY IInvParts DEF TypeOK
  <1>1. CASE Replay \/ Reply
    <2> DEFINE x == st.chal[op.chal].cert
    <2>0. /\ UNCHANGED <<journal, index, trash, made, caDirs, pems, st>>
          /\ Answer("success")
      BY <1>1 DEF Replay, Reply, Deliver
    <2>1. /\ x \in Cert /\ x \in index.certs /\ x.req = op.req
          /\ delivered' = delivered \cup {[to |-> op.req, cert |-> x]}
      BY <1>1, Delivered
    <2>2. Issued' = Issued
      BY <2>0, <2>1 DEF Issued
    <2>3. Accounts(journal)' /\ Accounts(st)' /\ SingleUse'
      BY <1>0, <2>0, <2>2 DEF Recorded, Accounts, Present, Used, Pending, SingleUse
    <2>4. RetryBinding' /\ DeliveredOnRecord'
      BY <1>0, <2>0, <2>1 DEF Recorded, RetryBinding, DeliveredOnRecord
    <2>5. NoResurrection'
      BY <1>0, <2>0 DEF NoResurrection
    <2>6. Progress'
      BY <1>0, <2>0, AnswerProgress
    <2> QED BY <2>3, <2>4, <2>5, <2>6 DEF Recorded
  <1>2. CASE Refuse
    <2>0. UNCHANGED <<record, pems, st>> /\ Answer("refused")
      BY <1>2 DEF Refuse, record
    <2> QED BY <1>0, <2>0, QuietStep, AnswerProgress DEF record
  <1>3. CASE Grant
    <2> DEFINE c == op.chal
               x == [serial |-> serial + 1, chal |-> c, req |-> op.req, ca |-> st.ca,
                     at |-> now]
               e == [st.chal[c] EXCEPT !.cert = x, !.published = FALSE]
    <2>0. /\ UNCHANGED <<record, pems>>
          /\ st' = [st EXCEPT !.chal[c] = e]
          /\ op' = [op EXCEPT !.pc = "commit", !.then = "reply"]
          /\ op.pc = "body" /\ op.kind = "enroll"
      BY <1>3 DEF Grant, record
    <2>1. /\ c \in Challenges /\ op.req \in Requests /\ st.ca \in caDirs
          /\ st = journal /\ \A d \in Challenges : ~ Pending(st, d)
      BY <1>0, <2>0 DEF Progress, RecoverySteps
    <2>2. Present(st, c) /\ st.chal[c].cert = None /\ st.chal[c].ca = st.ca
      BY <1>3 DEF Grant, CanGrant, Known, Used
    <2>3. st.chal[c] \in Entry
      BY <1>0, <2>1, <2>2, EntryOf DEF TypeOK
    <2>4. x # None
      <3>1. x \in Cert
        BY <1>0, <1>3, <2>1, <2>2, <2>3, Bounds DEF Grant, Cert, Entry, TypeOK
      <3> QED BY <3>1, NoneAssumption
    <2>5. e # None /\ e.cert = x /\ e.published = FALSE /\ e.ca = st.ca
      <3>1. x \in Cert
        BY <1>0, <1>3, <2>1, <2>2, <2>3, Bounds DEF Grant, Cert, Entry, TypeOK
      <3>2. e \in Entry
        BY <2>3, <3>1 DEF Entry
      <3> QED BY <2>2, <2>3, <3>2, NoneAssumption DEF Entry
    <2>6. /\ st'.chal[c] = e /\ st'.ca = st.ca
          /\ \A d \in Challenges \ {c} : st'.chal[d] = st.chal[d]
      BY <1>0, <2>0, <2>1 DEF TypeOK, Journal
    <2>7. \A y \in Issued : y.chal # c /\ y \in Cert
      <3>1. Issued \subseteq Cert
        BY <1>0 DEF TypeOK, Issued, Index
      <3>2. \A y \in Issued : y.chal = c => y = None
        BY <1>0, <2>2 DEF Recorded, Accounts
      <3> QED BY <3>1, <3>2, NoneAssumption
    <2>8. Issued' = Issued
      BY <2>0 DEF Issued, record
    <2>9. Accounts(journal)' /\ SingleUse' /\ RetryBinding' /\ DeliveredOnRecord'
      BY <1>0, <2>0, <2>8 DEF Recorded, Accounts, Present, Used, Pending, SingleUse,
         RetryBinding, DeliveredOnRecord, record
    <2>10. Accounts(st)'
      <3>1. \A y \in Issued : y.chal \in Challenges \ {c}
        BY <2>7 DEF Cert
      <3>2. \A d \in Challenges : Present(st, d)' <=> Present(st, d)
        BY <2>2, <2>5, <2>6 DEF Present
      <3>3. /\ \A d \in Challenges : Present(st, d)' => d <= made'
            /\ \A d \in Challenges : Used(st, d)' => (st.chal[d].cert.chal)' = d
            /\ \A y \in Issued' : y.chal <= made'
        BY <1>0, <2>0, <2>5, <2>6, <2>8, <3>2 DEF Recorded, Accounts, Used, record
      <3>4. /\ \A y \in Issued' : Present(st, y.chal)' => (st.chal[y.chal].cert)' = y
            /\ \A y \in trash' : Present(st, y.chal)' => (st.chal[y.chal].published)'
        <4>1. trash \subseteq Issued
          BY DEF Issued
        <4> QED BY <1>0, <2>0, <2>6, <2>8, <3>1, <3>2, <4>1 DEF Recorded, Accounts, record
      <3>5. /\ \A d \in Challenges :
                 Used(st, d)' /\ (st.chal[d].published)' =>
                   (st.chal[d].cert)' \in (index.certs \cup trash)'
            /\ \A d \in Challenges : Pending(st, d)' => (st.chal[d].ca)' \in caDirs'
        BY <1>0, <2>0, <2>1, <2>5, <2>6
           DEF Recorded, Accounts, Used, Pending, Present, record
      <3> QED BY <3>3, <3>4, <3>5 DEF Accounts
    <2>11. NoResurrection'
      BY <1>0, <2>0 DEF NoResurrection, record
    <2>12. x \notin trash
      BY <2>7 DEF Issued
    <2>13. KeepsPending'
      BY <2>0, <2>1 DEF KeepsPending, Pending, Used, Present, record
    <2>14. op'.kind = "enroll" /\ op'.chal = c /\ op'.req = op.req /\ op'.pc = "commit"
      BY <1>0, <2>0 DEF Op
    <2>15. Used(st', c) /\ st'.chal[c].cert = x /\ x.req = op.req
      BY <2>4, <2>5, <2>6 DEF Used, Present
    <2>16. Progress'
      BY <2>0, <2>1, <2>6, <2>12, <2>13, <2>14, <2>15
         DEF Progress, RecoverySteps, TrashSteps, record, Used, Present
    <2> QED BY <2>9, <2>10, <2>11, <2>16 DEF Recorded
  <1> QED
    BY <1>1, <1>2, <1>3 DEF Enrollment

\* The administrator's steps keep the invariant.
LEMMA InvAdministration ==
  IInv /\ Administration => (Recorded /\ Progress /\ NoResurrection)'
  <1> SUFFICES ASSUME IInv, Administration
               PROVE  Recorded' /\ Progress' /\ NoResurrection'
    OBVIOUS
  <1> USE DEF files, memory, counters
  <1>0. Recorded /\ Progress /\ NoResurrection /\ TypeOK /\ op \in Op
    BY IInvParts DEF TypeOK
  <1>1. CASE Create
    <2> DEFINE m == made + 1
               e == [ca |-> st.ca, expires |-> now + Life, revoked |-> FALSE,
                     cert |-> None, published |-> FALSE]
    <2>0. /\ UNCHANGED <<journal, index, trash, delivered, caDirs, pems>>
          /\ st' = [Prune(st) EXCEPT !.chal[m] = e]
          /\ op' = [op EXCEPT !.pc = "commit"] /\ made' = m
          /\ op.pc = "body" /\ op.kind = "challenge" /\ made < MaxChallenges
      BY <1>1 DEF Create, Goto
    <2>1. st.ca \in caDirs /\ st = journal /\ \A d \in Challenges : ~ Pending(st, d)
      BY <1>0, <2>0 DEF Progress, RecoverySteps
    <2>2. m \in Challenges /\ m > made /\ made \in Nat
      BY <1>0, <2>0, Bounds DEF Challenges, TypeOK
    <2>3. e \in Entry /\ e # None
      <3>1. st.ca \in CAs
        BY <1>0, <2>1 DEF TypeOK
      <3>2. now + Life \in Nat
        BY <1>0, Bounds DEF TypeOK
      <3>3. e \in Entry
        BY <3>1, <3>2 DEF Entry
      <3> QED BY <3>3, NoneAssumption
    <2>4. /\ st'.chal[m] = e /\ st'.ca = st.ca
          /\ \A d \in Challenges \ {m} : st'.chal[d] = st.chal[d] \/ st'.chal[d] = None
      BY <1>0, <2>0, <2>2 DEF TypeOK, Journal, Prune
    <2>5. Issued' = Issued /\ \A y \in Issued : y.chal # m /\ y.chal \in Challenges
      <3>1. Issued \subseteq Cert
        BY <1>0 DEF TypeOK, Issued, Index
      <3>2. \A y \in Issued : y.chal # m
        BY <1>0, <2>2, <3>1 DEF Recorded, Accounts, Cert, Challenges
      <3> QED BY <2>0, <3>1, <3>2 DEF Issued, Cert
    <2>6. \A d \in Challenges : d <= made => d <= made'
      BY <2>0, <2>2 DEF Challenges
    <2>7. \A y \in Issued : y.chal <= made'
      BY <1>0, <2>5, <2>6 DEF Recorded, Accounts
    <2>8. Accounts(journal)' /\ SingleUse' /\ RetryBinding' /\ DeliveredOnRecord'
      BY <1>0, <2>0, <2>5, <2>6, <2>7
         DEF Recorded, Accounts, Present, Used, Pending, SingleUse, RetryBinding,
             DeliveredOnRecord
    <2>9. Accounts(st)'
      <3>1. \A d \in Challenges \ {m} : Present(st, d)' => st'.chal[d] = st.chal[d]
        BY <2>4 DEF Present
      <3>2. \A d \in Challenges : Used(st, d)' => d # m
        BY <2>3, <2>4 DEF Used
      <3>3. m <= made'
        BY <2>0, <2>2
      <3>4. \A d \in Challenges : Present(st, d)' => d <= made'
        BY <1>0, <2>6, <3>1, <3>3 DEF Recorded, Accounts, Present
      <3>5. \A d \in Challenges : Used(st, d)' =>
              /\ (st.chal[d].cert.chal)' = d
              /\ (st.chal[d].published)' =>
                   (st.chal[d].cert)' \in (index.certs \cup trash)'
        BY <1>0, <2>0, <3>1, <3>2 DEF Recorded, Accounts, Present, Used
      <3>6. \A d \in Challenges : Pending(st, d)' => (st.chal[d].ca)' \in caDirs'
        BY <1>0, <2>0, <2>1, <3>1, <3>2 DEF Pending, Present, Used
      <3>7. /\ \A y \in Issued' : Present(st, y.chal)' => (st.chal[y.chal].cert)' = y
            /\ \A y \in trash' : Present(st, y.chal)' => (st.chal[y.chal].published)'
        <4>1. trash \subseteq Issued
          BY DEF Issued
        <4> QED
          BY <1>0, <2>0, <2>5, <3>1, <4>1 DEF Recorded, Accounts, Present
      <3> QED BY <2>5, <2>7, <3>4, <3>5, <3>6, <3>7 DEF Accounts
    <2>10. NoResurrection'
      BY <1>0, <2>0 DEF NoResurrection
    <2>11. KeepsPending'
      BY <2>0, <2>1 DEF KeepsPending, Pending, Used, Present
    <2>12. op.then # "reply"
      BY <1>0, <2>0 DEF Progress
    <2>13. Progress'
      BY <1>0, <2>0, <2>1, <2>4, <2>11, <2>12 DEF Op, Progress, RecoverySteps, TrashSteps
    <2> QED BY <2>8, <2>9, <2>10, <2>13 DEF Recorded
  <1>2. CASE CapacityReached
    <2>0. UNCHANGED <<record, pems, st>> /\ Answer("error")
      BY <1>2 DEF CapacityReached, record
    <2> QED BY <1>0, <2>0, QuietStep, AnswerProgress DEF record
  <1>3. CASE Commit
    <2>0. /\ op.pc = "commit" /\ journal' = st
          /\ UNCHANGED <<index, trash, delivered, made, caDirs, pems, st>>
          /\ op' = [op EXCEPT !.pc = "commitSync"]
      BY <1>3 DEF Commit, RenameJournal, Goto
    <2>1. Issued' = Issued
      BY <2>0 DEF Issued
    <2>2. Recorded'
      BY <1>0, <2>0, <2>1 DEF Recorded, Accounts, Present, Used, Pending, SingleUse,
         RetryBinding, DeliveredOnRecord
    <2>3. NoResurrection'
      BY <1>0, <2>0 DEF NoResurrection
    <2>4. Progress'
      BY <1>0, <2>0 DEF Progress, Op, RecoverySteps, TrashSteps, Used, Present
    <2> QED BY <2>2, <2>3, <2>4
  <1>4. CASE SyncCommit
    <2>0. UNCHANGED <<record, pems, st>> /\ op.pc = "commitSync"
      BY <1>4 DEF SyncCommit, SyncDir, record
    <2>1. CASE op.kind = "enroll"
      <3>1. op' = [op EXCEPT !.pc = "recover"]
        BY <1>4, <2>1 DEF SyncCommit, Goto
      <3>2. Agrees'
        BY <1>0, <2>0 DEF Progress, RecoverySteps, Agrees, record, Present
      <3>3. Progress'
        BY <1>0, <2>0, <3>1, <3>2
           DEF Progress, Op, RecoverySteps, TrashSteps, Used, Present, record
      <3> QED BY <2>0, <3>3, QuietStep
    <2>2. CASE op.kind # "enroll"
      BY <1>0, <1>4, <2>0, <2>2, QuietStep, AnswerProgress DEF SyncCommit, record
    <2> QED BY <2>1, <2>2
  <1>5. CASE FindCert
    <2>0. UNCHANGED <<record, pems, st>> /\ op.pc = "body" /\ op.kind = "deleteCert"
      BY <1>5 DEF FindCert, record
    <2>1. CASE op.del \subseteq index.certs
      <3>1. op' = [op EXCEPT !.pc = "trash"]
        BY <1>5, <2>1 DEF FindCert, Goto
      <3>2. Progress'
        BY <1>0, <2>0, <2>1, <3>1 DEF Progress, Op, RecoverySteps, TrashSteps, Deletions,
           Used, Present, Pending, record
      <3> QED BY <2>0, <3>2, QuietStep
    <2>2. CASE ~ (op.del \subseteq index.certs)
      BY <1>0, <1>5, <2>0, <2>2, QuietStep, AnswerProgress DEF FindCert, record
    <2> QED BY <2>1, <2>2
  <1>6. CASE FindCA
    <2>0. UNCHANGED <<record, pems, st>> /\ op.pc = "body" /\ op.kind = "deleteCA"
      BY <1>6 DEF FindCA, record
    <2>1. CASE CaUsable(op.ca) /\ op.ca \in index.cas
      <3>1. op' = [op EXCEPT !.pc = "trashCA", !.del = {x \in index.certs : x.ca = op.ca}]
        BY <1>6, <2>1 DEF FindCA
      <3>2. op'.del \subseteq index.certs
        BY <1>0, <3>1 DEF Op
      <3>3. Progress'
        BY <1>0, <2>0, <3>1, <3>2 DEF Progress, Op, RecoverySteps, TrashSteps, Deletions,
           Used, Present, Pending, record
      <3> QED BY <2>0, <3>3, QuietStep
    <2>2. CASE ~ (CaUsable(op.ca) /\ op.ca \in index.cas)
      BY <1>0, <1>6, <2>0, <2>2, QuietStep, AnswerProgress DEF FindCA, record
    <2> QED BY <2>1, <2>2
  <1>7. CASE TrashCA
    <2>0. /\ UNCHANGED <<journal, index, pems, trash, st, delivered, made>>
          /\ op.pc = "trashCA"
      BY <1>7 DEF TrashCA
    <2>1. CASE CaUsable(op.ca)
      <3>0. op' = [op EXCEPT !.pc = "trash"]
        BY <1>7, <2>1 DEF TrashCA, Goto
      <3>1. /\ \A c \in Challenges : ~ Pending(st, c)
            /\ st = journal /\ op.kind \in Deletions
        BY <1>0, <2>0 DEF Progress, RecoverySteps, TrashSteps
      <3>2. Issued' = Issued
        BY <2>0 DEF Issued
      <3>3. Recorded'
        BY <1>0, <2>0, <3>1, <3>2 DEF Recorded, Accounts, Present, Used, Pending,
           SingleUse, RetryBinding, DeliveredOnRecord
      <3>4. NoResurrection'
        BY <1>0, <2>0 DEF NoResurrection
      <3>5. Progress'
        BY <1>0, <2>0, <3>0, <3>1 DEF Progress, Op, RecoverySteps, TrashSteps, Deletions,
           Used, Present, Pending
      <3> QED BY <3>3, <3>4, <3>5
    <2>2. CASE ~ CaUsable(op.ca)
      <3>1. UNCHANGED <<record, pems, st>> /\ Answer("error")
        BY <1>7, <2>2 DEF TrashCA, record
      <3> QED BY <1>0, <3>1, QuietStep, AnswerProgress DEF record
    <2> QED BY <2>1, <2>2
  <1>8. CASE TrashPem
    <2>0. /\ UNCHANGED <<record, st, op>> /\ pems' \subseteq pems /\ op.pc = "trash"
      BY <1>8 DEF TrashPem, record
    <2>1. Recorded'
      BY <1>0, <2>0, QuietRecord
    <2>2. NoResurrection'
      BY <1>0, <2>0 DEF NoResurrection, record
    <2>3. Progress'
      BY <1>0, <2>0 DEF Progress, RecoverySteps, TrashSteps, Used, Present, Pending, record
    <2> QED BY <2>1, <2>2, <2>3
  <1>9. CASE TrashMoved
    <2>0. /\ UNCHANGED <<record, pems, st>> /\ op.pc = "trash" /\ op.del \cap pems = {}
          /\ op' = [op EXCEPT !.pc = "unlist"]
      BY <1>9 DEF TrashMoved, record, Goto
    <2>1. Progress'
      BY <1>0, <2>0 DEF Progress, Op, RecoverySteps, TrashSteps, Deletions, Used, Present,
         Pending, record
    <2> QED BY <2>0, <2>1, QuietStep
  <1>10. CASE Unlist
    <2>0. /\ UNCHANGED <<journal, pems, st, delivered, made, caDirs>>
          /\ index'.certs = index.certs \ op.del /\ trash' = trash \cup op.del
          /\ op.pc = "unlist" /\ op' = [op EXCEPT !.pc = "unlistSync"]
      BY <1>10 DEF Unlist, RenameIndex, Goto
    <2>1. /\ op.del \subseteq index.certs /\ op.del \cap pems = {} /\ st = journal
          /\ op.kind \in Deletions /\ \A c \in Challenges : ~ Pending(st, c)
      BY <1>0, <2>0 DEF Progress, RecoverySteps, TrashSteps
    <2>2. /\ (index.certs \cup trash)' = index.certs \cup trash
          /\ Issued' = Issued
      BY <2>0, <2>1 DEF Issued
    <2>3. \A x \in op.del : Present(st, x.chal) => st.chal[x.chal].published
      <3> SUFFICES ASSUME NEW x \in op.del, Present(st, x.chal)
                   PROVE  st.chal[x.chal].published
        OBVIOUS
      <3>1. x \in Issued /\ x \in Cert
        BY <1>0, <2>1 DEF Issued, TypeOK, Index
      <3>2. st.chal[x.chal].cert = x
        BY <1>0, <3>1 DEF Recorded, Accounts
      <3> QED BY <2>1, <3>1, <3>2, NoneAssumption DEF Pending, Used, Cert
    <2>4. Accounts(st)'
      BY <1>0, <2>0, <2>2, <2>3 DEF Recorded, Accounts, Present, Used, Pending
    <2>5. Accounts(journal)'
      BY <1>0, <2>0, <2>1, <2>2, <2>3 DEF Recorded, Accounts, Present, Used, Pending
    <2>6. SingleUse' /\ RetryBinding' /\ DeliveredOnRecord'
      BY <1>0, <2>0, <2>2 DEF Recorded, SingleUse, RetryBinding, DeliveredOnRecord
    <2>7. NoResurrection'
      BY <1>0, <2>0, <2>1 DEF NoResurrection
    <2>8. op.then # "reply"
      BY <1>0, <2>1 DEF Progress, Deletions
    <2>9. Progress'
      BY <1>0, <2>0, <2>1, <2>8 DEF Progress, Op, RecoverySteps, TrashSteps, Deletions
    <2> QED BY <2>4, <2>5, <2>6, <2>7, <2>9 DEF Recorded
  <1>11. CASE SyncUnlist
    <2>0. UNCHANGED <<record, pems, st>> /\ Answer("ok")
      BY <1>11 DEF SyncUnlist, SyncDir, record
    <2> QED BY <1>0, <2>0, QuietStep, AnswerProgress DEF record
  <1>12. CASE StartupDone
    <2>0. UNCHANGED <<record, pems, st>> /\ Answer("ok")
      BY <1>12 DEF StartupDone, record
    <2> QED BY <1>0, <2>0, QuietStep, AnswerProgress DEF record
  <1> QED
    BY <1>1, <1>2, <1>3, <1>4, <1>5, <1>6, <1>7, <1>8, <1>9, <1>10, <1>11, <1>12
       DEF Administration

\* The start of an operation keeps the invariant, and so does an edit that removes or
\* revokes an unused challenge or selects another CA.
LEMMA InvCall == IInv /\ Call => (Recorded /\ Progress /\ NoResurrection)'
  <1> SUFFICES ASSUME IInv, Call
               PROVE  Recorded' /\ Progress' /\ NoResurrection'
    OBVIOUS
  <1> USE DEF files, memory, counters
  <1>0. Recorded /\ Progress /\ NoResurrection /\ TypeOK
    BY IInvParts
  <1>1. ASSUME NEW new \in Op, BeginRecover(new), new.then = "body",
               new.kind \in {"enroll", "challenge"} => journal.ca \in caDirs,
               new.kind = "enroll" => new.chal \in Challenges /\ new.req \in Requests
        PROVE  Recorded' /\ Progress' /\ NoResurrection'
    <2>0. /\ UNCHANGED <<record, pems>> /\ st' = journal
          /\ op' = [new EXCEPT !.pc = "recover"]
      BY <1>1 DEF BeginRecover, Begin, record
    <2>1. Recorded' /\ NoResurrection'
      BY <1>0, <2>0, QuietRecord DEF record, NoResurrection
    <2>2. Progress'
      BY <1>1, <2>0 DEF Op, Progress, RecoverySteps, TrashSteps, Agrees, Present, record
    <2> QED BY <2>1, <2>2
  <1>2. ASSUME NEW edited \in Journal, BeginEdit(edited),
               \A c \in Challenges :
                 \/ edited.chal[c] = journal.chal[c]
                 \/ ~ Used(journal, c) /\ Present(journal, c) /\ ~ Used(edited, c)
        PROVE  Recorded' /\ Progress' /\ NoResurrection'
    <2>0. /\ UNCHANGED <<record, pems>> /\ st' = edited
          /\ op' = [[Idle EXCEPT !.kind = "admin"] EXCEPT !.pc = "commit"]
      BY <1>2 DEF BeginEdit, Begin, record
    <2>1. Issued' = Issued
      BY <2>0 DEF Issued, record
    <2>2. Issued \subseteq Cert /\ trash \subseteq Issued
      BY <1>0 DEF TypeOK, Issued, Index
    <2>3. \A y \in Issued : y.chal \in Challenges /\ y # None
      BY <2>2, NoneAssumption DEF Cert
    <2>4. Accounts(journal)' /\ SingleUse' /\ RetryBinding' /\ DeliveredOnRecord'
      BY <1>0, <2>0, <2>1 DEF Recorded, Accounts, Present, Used, Pending, SingleUse,
         RetryBinding, DeliveredOnRecord, record
    <2>5. \A c \in Challenges : Used(edited, c) => edited.chal[c] = journal.chal[c]
      BY <1>2
    <2>6. \A y \in Issued : Present(edited, y.chal) =>
            edited.chal[y.chal] = journal.chal[y.chal]
      BY <1>0, <1>2, <2>3 DEF Recorded, Accounts, Used
    <2>7. Accounts(st)'
      BY <1>0, <1>2, <2>0, <2>1, <2>2, <2>3, <2>5, <2>6
         DEF Recorded, Accounts, Used, Present, Pending, record
    <2>8. NoResurrection'
      BY <1>0, <2>0 DEF NoResurrection, record
    <2>9. KeepsPending'
      BY <1>2, <2>0 DEF KeepsPending, Pending, Used, Present, record
    <2>10. Progress'
      BY <2>0, <2>9 DEF Progress, Idle, RecoverySteps, TrashSteps
    <2> QED BY <2>4, <2>7, <2>8, <2>10 DEF Recorded
  <1>3. CASE \E c \in Challenges, r \in Requests : StartEnroll(c, r)
    <2> PICK c \in Challenges, r \in Requests : StartEnroll(c, r)
      BY <1>3
    <2>1. c \in Nat
      BY Bounds DEF Challenges
    <2>2. [Idle EXCEPT !.kind = "enroll", !.chal = c, !.req = r] \in Op
      BY <2>1, IdleType DEF Op, Kinds
    <2>3. journal.ca \in caDirs
      BY DEF StartEnroll, Ready, CaUsable
    <2> QED BY <2>2, <2>3, <1>1 DEF StartEnroll, Idle
  <1>4. CASE StartChallenge
    <2>1. [Idle EXCEPT !.kind = "challenge"] \in Op
      BY DEF Idle, Op, Kinds
    <2> QED BY <2>1, <1>1, <1>4 DEF StartChallenge, CaUsable, Idle
  <1>5. CASE \E c \in Challenges : Revoke(c) \/ DeleteChallenge(c)
    <2> PICK c \in Challenges : Revoke(c) \/ DeleteChallenge(c)
      BY <1>5
    <2>1. journal \in Journal /\ Present(journal, c) /\ ~ Used(journal, c)
      BY <1>0 DEF Revoke, DeleteChallenge, TypeOK
    <2> DEFINE revoked == [journal EXCEPT !.chal[c].revoked = TRUE]
               removed == [journal EXCEPT !.chal[c] = None]
    <2>2. revoked \in Journal /\ removed \in Journal
      BY <2>1, MarkEntry, SetEntry
    <2>3. /\ ~ Used(removed, c)
          /\ \A d \in Challenges \ {c} : removed.chal[d] = journal.chal[d]
      BY <2>1 DEF Used, Present, Journal
    <2>4. /\ ~ Used(revoked, c)
          /\ \A d \in Challenges \ {c} : revoked.chal[d] = journal.chal[d]
      <3>1. journal.chal[c] \in Entry
        BY <2>1, EntryOf
      <3> QED BY <2>1, <3>1 DEF Used, Present, Journal, Entry
    <2> QED BY <2>1, <2>2, <2>3, <2>4, <1>2 DEF Revoke, DeleteChallenge
  <1>6. CASE SetAllowDES
    BY <1>0, <1>6, <1>2 DEF SetAllowDES, TypeOK
  <1>7. CASE \E k \in CAs : SelectCA(k) \/ StartDeleteCA(k)
    <2> PICK k \in CAs : SelectCA(k) \/ StartDeleteCA(k)
      BY <1>7
    <2> DEFINE selected == [journal EXCEPT !.ca = k]
    <2>1. selected \in Journal /\ selected.chal = journal.chal
      BY <1>0 DEF TypeOK, Journal
    <2>2. [Idle EXCEPT !.kind = "deleteCA", !.ca = k] \in Op
      BY DEF Idle, Op, Kinds
    <2> QED BY <2>1, <2>2, <1>1, <1>2 DEF SelectCA, StartDeleteCA, Idle
  <1>8. ASSUME NEW x \in Cert, StartDeleteCert(x)
        PROVE  Recorded' /\ Progress' /\ NoResurrection'
    <2>1. [Idle EXCEPT !.kind = "deleteCert", !.del = {x}] \in Op
      BY DEF Idle, Op, Kinds
    <2> QED BY <2>1, <1>1, <1>8 DEF StartDeleteCert, Idle
  <1>9. CASE \E c \in Challenges : Used(journal, c) /\ StartDeleteCert(journal.chal[c].cert)
    BY <1>0, <1>8, <1>9, CertOf DEF TypeOK
  <1>10. CASE \E x \in index.certs : StartDeleteCert(x)
    BY <1>0, <1>8, <1>10 DEF TypeOK, Index
  <1> QED
    BY <1>3, <1>4, <1>5, <1>6, <1>7, <1>9, <1>10 DEF Call

LEMMA InvInit == Init => IInv
  <1> SUFFICES ASSUME Init PROVE IInv
    OBVIOUS
  <1>1. TypeOK
    BY TypeInit
  <1>2. Issued = {}
    BY DEF Init, Issued
  <1>3. \A c \in Challenges : ~ Present(journal, c) /\ ~ Present(st, c)
    BY DEF Init, EmptyJournal, Present
  <1>4. Recorded
    BY <1>2, <1>3 DEF Recorded, Accounts, Used, Pending, Issued, SingleUse, RetryBinding,
       DeliveredOnRecord
  <1>5. Progress
    BY <1>3 DEF Init, Progress, Idle, RecoverySteps, TrashSteps, Used, Pending
  <1>6. NoResurrection
    BY DEF Init, NoResurrection
  <1> QED BY <1>1, <1>4, <1>5, <1>6, IInvParts

\* Every step keeps the invariant: those of the operation in progress, the start of
\* another, a storage error, the death of the process and its restart, the clock.
LEMMA InvNext == IInv /\ [Next]_vars => IInv'
  <1> SUFFICES ASSUME IInv, [Next]_vars PROVE IInv'
    OBVIOUS
  <1>0. Recorded /\ Progress /\ NoResurrection /\ TypeOK /\ op \in Op
    BY IInvParts DEF TypeOK
  <1>1. TypeOK'
    BY <1>0, TypeNext
  <1> SUFFICES Recorded' /\ Progress' /\ NoResurrection'
    BY <1>1 DEF IInv, Recorded
  <1> USE DEF files, memory, counters
  <1>2. CASE Recovery \/ Enrollment \/ Administration \/ Call
    BY <1>2, InvRecovery, InvEnrollment, InvAdministration, InvCall
  <1>3. CASE Finish \/ Crash
    <2>0. /\ UNCHANGED <<journal, index, trash, delivered, caDirs, pems, made>>
          /\ st' = journal /\ op' = Idle
      BY <1>3 DEF Finish, Crash
    <2>1. Recorded' /\ NoResurrection'
      BY <1>0, <2>0, QuietRecord DEF record, NoResurrection
    <2>2. Progress'
      BY <2>0 DEF Progress, Idle, RecoverySteps, TrashSteps
    <2> QED BY <2>1, <2>2
  <1>4. CASE StorageError
    <2>0. UNCHANGED <<record, pems, st>> /\ Answer("error")
      BY <1>4 DEF StorageError, record
    <2> QED BY <1>0, <2>0, QuietStep, AnswerProgress DEF record
  <1>5. CASE Restart
    <2>0. /\ UNCHANGED <<record, pems>> /\ st' = journal
          /\ op' = [Idle EXCEPT !.kind = "startup", !.pc = "recover"]
      BY <1>5 DEF Restart, record
    <2>1. Recorded' /\ NoResurrection'
      BY <1>0, <2>0, QuietRecord DEF record, NoResurrection
    <2>2. Progress'
      BY <2>0 DEF Progress, Idle, RecoverySteps, TrashSteps, Agrees, Present, record
    <2> QED BY <2>1, <2>2
  <1>6. CASE Outage \/ Tick \/ UNCHANGED vars
    <2>0. UNCHANGED <<record, pems, st, op>>
      BY <1>6 DEF Outage, Tick, vars, record
    <2>1. Progress'
      BY <1>0, <2>0 DEF Progress, RecoverySteps, TrashSteps, Agrees, KeepsPending,
         NextPending, Pending, Used, Present, record
    <2> QED BY <2>0, <2>1, QuietStep
  <1> QED
    BY <1>2, <1>3, <1>4, <1>5, <1>6 DEF Next, Work, Step

-----------------------------------------------------------------------------
(* Theorems *)

\* What the journal, the working copy and the projection say of each other holds at
\* every step of every operation, whatever fails and whenever the process dies.
THEOREM Invariant == Spec => []IInv
  BY InvInit, InvNext, PTL DEF Spec

\* The journal, the index and the operation in progress always have their types.
THEOREM TypeCorrect == Spec => []TypeOK
  BY Invariant, PTL DEF IInv

\* enroll and recover: a challenge authorizes at most one certificate over all
\* retries, storage errors, deletions, retention and restarts.
THEOREM ChallengesAreSingleUse == Spec => []SingleUse
  BY Invariant, PTL DEF IInv

\* enroll: a certificate is sent to the requester it was issued to and to no other.
THEOREM RetriesAreBound == Spec => []RetryBinding
  BY Invariant, PTL DEF IInv

\* DeleteCert, DeleteCA and recover: a deleted certificate is never listed or
\* projected again.
THEOREM DeletionIsFinal == Spec => []NoResurrection
  BY Invariant, PTL DEF IInv

\* enroll: a success reply is sent only for a certificate that is on record.
THEOREM RepliesAreOnRecord == Spec => []DeliveredOnRecord
  BY Invariant, PTL DEF IInv

\* DeleteCA: the CA of a committed, unpublished issuance is never deleted.
THEOREM PendingIsRecoverable == Spec => []Recoverable
  <1>1. IInv => Recoverable
    BY DEF IInv, Accounts, Recoverable
  <1> QED BY <1>1, Invariant, PTL

\* scep.json is replaced by the copy an operation worked on, or not at all.
LEMMA JournalSteps == [Next]_vars => SaveMarks \/ Commit \/ journal' = journal
  <1> USE DEF files, memory, counters
  <1>1. Recovery => SaveMarks \/ journal' = journal
    BY DEF Recovery, RecoverBlocked, ProjectPem, ProjectIndex, RenameIndex,
       ProjectIndexed, ProjectSync, SyncDir, Recovered, SyncMarks
  <1>2. Enrollment => journal' = journal
    BY DEF Enrollment, Replay, Refuse, Grant, Reply, Deliver
  <1>3. Administration => Commit \/ journal' = journal
    BY DEF Administration, Create, CapacityReached, SyncCommit, SyncDir, FindCert,
       FindCA, TrashCA, TrashPem, TrashMoved, Unlist, RenameIndex, SyncUnlist, StartupDone
  <1>4. Call => journal' = journal
    BY DEF Call, StartEnroll, StartChallenge, Revoke, DeleteChallenge, SetAllowDES,
       SelectCA, StartDeleteCA, StartDeleteCert, BeginRecover, BeginEdit, Begin
  <1>5. Finish \/ StorageError \/ Restart \/ Outage \/ Tick \/ Crash \/ UNCHANGED vars
          => journal' = journal
    BY DEF Finish, StorageError, Restart, Outage, Tick, Crash, vars
  <1> QED BY <1>1, <1>2, <1>3, <1>4, <1>5 DEF Next, Work, Step

\* save, prune, revoke and delete: no journal that replaces another drops or changes
\* an issuance that is still to be published.
THEOREM PendingIsKept == Spec => PendingKept
  <1> DEFINE Kept == \A c \in Challenges :
                       Pending(journal, c) =>
                         /\ Present(journal', c)
                         /\ journal'.chal[c].cert = journal.chal[c].cert
  <1>1. IInv /\ [Next]_vars => [Kept]_vars
    <2> SUFFICES ASSUME IInv, [Next]_vars PROVE Kept
      OBVIOUS
    <2>0. Progress
      BY DEF IInv
    <2>1. CASE journal' = journal
      BY <2>1 DEF Pending, Used
    <2>2. CASE SaveMarks
      BY <2>0, <2>2 DEF SaveMarks, RenameJournal, Progress, RecoverySteps, Agrees,
         Pending, Used
    <2>3. CASE Commit
      BY <2>0, <2>3 DEF Commit, RenameJournal, Progress, KeepsPending
    <2> QED BY <2>1, <2>2, <2>3, JournalSteps
  <1>2. Spec => [][Kept]_vars
    BY <1>1, Invariant, PTL DEF Spec
  <1> QED BY <1>2 DEF PendingKept

\* The steps an observer of the inventory, the trash and the replies can see.
LEMMA VisibleSteps ==
  [Next]_vars =>
    ProjectIndex \/ Unlist \/ Replay \/ Reply \/ UNCHANGED <<index, trash, delivered>>
  <1> USE DEF files, memory, counters
  <1>1. Recovery => ProjectIndex \/ UNCHANGED <<index, trash, delivered>>
    BY DEF Recovery, RecoverBlocked, ProjectPem, ProjectIndexed, ProjectSync, SyncDir,
       Recovered, SaveMarks, RenameJournal, SyncMarks
  <1>2. Enrollment => Replay \/ Reply \/ UNCHANGED <<index, trash, delivered>>
    BY DEF Enrollment, Refuse, Grant
  <1>3. Administration => Unlist \/ UNCHANGED <<index, trash, delivered>>
    BY DEF Administration, Create, CapacityReached, Commit, RenameJournal, SyncCommit,
       SyncDir, FindCert, FindCA, TrashCA, TrashPem, TrashMoved, SyncUnlist, StartupDone
  <1>4. Call => UNCHANGED <<index, trash, delivered>>
    BY DEF Call, StartEnroll, StartChallenge, Revoke, DeleteChallenge, SetAllowDES,
       SelectCA, StartDeleteCA, StartDeleteCert, BeginRecover, BeginEdit, Begin
  <1>5. Finish \/ StorageError \/ Restart \/ Outage \/ Tick \/ Crash \/ UNCHANGED vars
          => UNCHANGED <<index, trash, delivered>>
    BY DEF Finish, StorageError, Restart, Outage, Tick, Crash, vars
  <1> QED BY <1>1, <1>2, <1>3, <1>4, <1>5 DEF Next, Work, Step

\* recover lists one certificate at a time, which the journal and the PEM file hold
\* already and which no other certificate of its challenge precedes.
LEMMA ListedCert ==
  ASSUME IInv, ProjectIndex
  PROVE  \E x \in Cert :
           /\ index'.certs = index.certs \cup {x} /\ UNCHANGED <<trash, delivered>>
           /\ x \in pems /\ x \notin index.certs \cup trash
           /\ Used(journal, x.chal) /\ journal.chal[x.chal].cert = x
           /\ \A y \in index.certs \cup trash : y.chal # x.chal
  <1> PICK c \in Challenges :
        /\ NextPending(c) /\ st.chal[c].cert \notin index.certs
        /\ RenameIndex([index EXCEPT !.certs = @ \cup {st.chal[c].cert}])
    BY DEF ProjectIndex
  <1> DEFINE x == st.chal[c].cert
  <1>1. /\ x \in Cert /\ x.chal = c /\ x \notin trash
        /\ Used(journal, c) /\ journal.chal[c].cert = x
    BY PendingCert DEF ProjectIndex, RecoverySteps
  <1>2. index'.certs = index.certs \cup {x} /\ UNCHANGED <<trash, delivered>>
    BY DEF ProjectIndex, RenameIndex, IInv, TypeOK, Index
  <1>3. x \in pems
    BY DEF IInv, Progress, ProjectIndex
  <1>4. \A y \in index.certs \cup trash : y.chal # x.chal
    <2>1. \A y \in Issued : y.chal = c => y = x
      BY <1>1 DEF IInv, Accounts, Used
    <2> QED BY <1>1, <2>1 DEF Issued
  <1> QED BY <1>1, <1>2, <1>3, <1>4

\* recover: a certificate is listed only after the journal and its PEM hold it.
THEOREM ListedIsCommitted == Spec => ListedAfterCommit
  <1> DEFINE Committed == \A x \in index'.certs \ index.certs :
                            /\ x \in pems
                            /\ Used(journal, x.chal) /\ journal.chal[x.chal].cert = x
  <1>1. IInv /\ [Next]_vars => [Committed]_vars
    <2> SUFFICES ASSUME IInv, [Next]_vars PROVE Committed
      OBVIOUS
    <2>1. CASE ProjectIndex
      BY <2>1, ListedCert
    <2>2. CASE Unlist
      BY <2>2 DEF Unlist, RenameIndex
    <2>3. CASE Replay \/ Reply
      BY <2>3 DEF Replay, Reply, Deliver, files
    <2> QED BY <2>1, <2>2, <2>3, VisibleSteps
  <1>2. Spec => [][Committed]_vars
    BY <1>1, Invariant, PTL DEF Spec
  <1> QED BY <1>2 DEF ListedAfterCommit

\* The whole of enroll, recover and the deletions, with storage errors and crashes,
\* implements the ledger: one certificate per challenge, final deletions, and replies
\* that carry a listed certificate to its requester.
THEOREM ImplementsTheLedger == Spec => ImplementsLedger
  <1>1. Init => Ledger!Init
    BY DEF Init, Ledger!Init
  <1>2. IInv /\ [Next]_vars => [Ledger!Next]_(Ledger!ledgerVars)
    <2> SUFFICES ASSUME IInv, [Next]_vars
                 PROVE  Ledger!Next \/ UNCHANGED Ledger!ledgerVars
      OBVIOUS
    <2>1. CASE ProjectIndex
      <3> PICK x \in Cert :
            /\ index'.certs = index.certs \cup {x} /\ UNCHANGED <<trash, delivered>>
            /\ x \notin index.certs \cup trash
            /\ \A y \in index.certs \cup trash : y.chal # x.chal
        BY <2>1, ListedCert
      <3>1. Ledger!List(x)
        BY DEF Ledger!List
      <3> QED BY <3>1 DEF Ledger!Next
    <2>2. CASE Unlist
      <3>1. op.del \in SUBSET index.certs
        BY <2>2 DEF Unlist, IInv, Progress, TrashSteps
      <3>2. Ledger!Withdraw(op.del)
        BY <2>2 DEF Unlist, RenameIndex, Ledger!Withdraw
      <3> QED BY <3>1, <3>2 DEF Ledger!Next
    <2>3. CASE Replay \/ Reply
      <3> DEFINE x == st.chal[op.chal].cert
      <3>1. /\ x \in index.certs /\ x.req = op.req
            /\ delivered' = delivered \cup {[to |-> op.req, cert |-> x]}
        BY <2>3, Delivered
      <3>2. UNCHANGED <<index, trash>>
        BY <2>3 DEF Replay, Reply, Deliver, files
      <3>3. Ledger!Deliver(x)
        BY <3>1, <3>2 DEF Ledger!Deliver
      <3> QED BY <3>1, <3>3 DEF Ledger!Next
    <2>4. CASE UNCHANGED <<index, trash, delivered>>
      BY <2>4 DEF Ledger!ledgerVars
    <2> QED BY <2>1, <2>2, <2>3, <2>4, VisibleSteps
  <1> QED BY <1>1, <1>2, Invariant, PTL DEF Spec, ImplementsLedger, Ledger!Spec
=============================================================================
