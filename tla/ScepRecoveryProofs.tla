------------------------- MODULE ScepRecoveryProofs -------------------------
(***************************************************************************)
(* More proofs about ScepJournal: what outlives an operation.  A retry is  *)
(* answered for as long as retention lasts, a startup leaves nothing       *)
(* unpublished, a deleted CA leaves no certificate behind; and what a loss *)
(* of power may roll back agrees with what was replied, listed, deleted.   *)
(***************************************************************************)
EXTENDS ScepJournalProofs

(* What the steps do to one part of the state *)

\* A step leaves the clock alone or advances it.
LEMMA ClockSteps ==
  ASSUME TypeOK, [Next]_vars
  PROVE  now \in Nat /\ now' \in Nat /\ now' >= now
  <1> USE DEF files, memory, counters
  <1>1. Recovery => now' = now
    BY DEF Recovery, RecoverBlocked, ProjectPem, ProjectIndex, RenameIndex, ProjectIndexed,
       ProjectSync, SyncDir, Recovered, SaveMarks, RenameJournal, SyncMarks
  <1>2. Enrollment => now' = now
    BY DEF Enrollment, Replay, Refuse, Grant, Reply, Deliver
  <1>3. Administration => now' = now
    BY DEF Administration, Create, CapacityReached, Commit, RenameJournal, SyncCommit,
       SyncDir, FindCert, FindCA, TrashCA, TrashPem, TrashMoved, Unlist, RenameIndex,
       SyncUnlist, StartupDone
  <1>4. Call => now' = now
    BY DEF Call, StartEnroll, StartChallenge, Revoke, DeleteChallenge, SetAllowDES,
       SelectCA, StartDeleteCA, StartDeleteCert, BeginRecover, BeginEdit, Begin
  <1>5. Finish \/ StorageError \/ Restart \/ Outage \/ Crash \/ UNCHANGED vars => now' = now
    BY DEF Finish, StorageError, Restart, Outage, Crash, vars
  <1>6. Tick => now' = now + 1
    BY DEF Tick
  <1>7. now \in Nat /\ (now' = now \/ now' = now + 1)
    BY <1>1, <1>2, <1>3, <1>4, <1>5, <1>6, Bounds DEF Next, Work, Step, TypeOK
  <1> QED BY <1>7

\* The steps that change the copy other than by loading scep.json.
Edits ==
  \/ Grant \/ Create
  \/ \E c \in Challenges : Revoke(c) \/ DeleteChallenge(c)
  \/ \E k \in CAs : SelectCA(k)

LEMMA CopySteps ==
  [Next]_vars => ProjectIndexed \/ ProjectSync \/ Edits \/ st' = st \/ st' = journal
  <1> USE DEF files, memory, counters
  <1>1. Recovery => ProjectIndexed \/ ProjectSync \/ st' = st
    BY DEF Recovery, RecoverBlocked, ProjectPem, ProjectIndex, RenameIndex, Recovered,
       SaveMarks, RenameJournal, SyncMarks
  <1>2. Enrollment => Grant \/ st' = st
    BY DEF Enrollment, Replay, Refuse, Reply, Deliver
  <1>3. Administration => Create \/ st' = st
    BY DEF Administration, CapacityReached, Commit, RenameJournal, SyncCommit, FindCert,
       FindCA, TrashCA, TrashPem, TrashMoved, Unlist, RenameIndex, SyncUnlist, StartupDone
  <1>4. Call => Edits \/ st' = journal
    BY DEF Call, Edits, StartEnroll, StartChallenge, SetAllowDES, StartDeleteCA,
       StartDeleteCert, BeginRecover, BeginEdit
  <1>5. Finish \/ StorageError \/ Restart \/ Outage \/ Tick \/ Crash \/ UNCHANGED vars
          => st' = st \/ st' = journal
    BY DEF Finish, StorageError, Restart, Outage, Tick, Crash, vars
  <1> QED BY <1>1, <1>2, <1>3, <1>4, <1>5 DEF Next, Work, Step, Edits

\* A CA directory is moved away by the deletion of that CA, and by nothing else.
LEMMA DirSteps == [Next]_vars => TrashCA \/ caDirs' = caDirs
  <1> USE DEF files, memory, counters
  <1>1. Recovery => caDirs' = caDirs
    BY DEF Recovery, RecoverBlocked, ProjectPem, ProjectIndex, RenameIndex, ProjectIndexed,
       ProjectSync, SyncDir, Recovered, SaveMarks, RenameJournal, SyncMarks
  <1>2. Enrollment => caDirs' = caDirs
    BY DEF Enrollment, Replay, Refuse, Grant, Reply, Deliver
  <1>3. Administration => TrashCA \/ caDirs' = caDirs
    BY DEF Administration, Create, CapacityReached, Commit, RenameJournal, SyncCommit,
       SyncDir, FindCert, FindCA, TrashPem, TrashMoved, Unlist, RenameIndex, SyncUnlist,
       StartupDone
  <1>4. Call => caDirs' = caDirs
    BY DEF Call, StartEnroll, StartChallenge, Revoke, DeleteChallenge, SetAllowDES,
       SelectCA, StartDeleteCA, StartDeleteCert, BeginRecover, BeginEdit, Begin
  <1>5. Finish \/ StorageError \/ Restart \/ Outage \/ Tick \/ Crash \/ UNCHANGED vars
          => caDirs' = caDirs
    BY DEF Finish, StorageError, Restart, Outage, Tick, Crash, vars
  <1> QED BY <1>1, <1>2, <1>3, <1>4, <1>5 DEF Next, Work, Step

\* Only a publication issues: a reply carries a certificate that is listed, a
\* deletion moves one to the trash.
LEMMA IssuedSteps ==
  ASSUME IInv, [Next]_vars
  PROVE  ProjectIndex \/ Issued' = Issued
  <1>1. CASE Unlist
    <2>1. op.del \subseteq index.certs
      BY <1>1 DEF Unlist, IInv, Progress, TrashSteps
    <2> QED BY <1>1, <2>1 DEF Unlist, RenameIndex, Issued
  <1>2. CASE Replay \/ Reply
    BY <1>2, Delivered DEF Replay, Reply, Deliver, files, Issued
  <1>3. CASE UNCHANGED <<index, trash, delivered>>
    BY <1>3 DEF Issued
  <1> QED BY <1>1, <1>2, <1>3, VisibleSteps

\* The certificates that were issued are typed.
LEMMA IssuedType ==
  ASSUME TypeOK
  PROVE  Issued \subseteq Cert /\ \A x \in Issued : x.chal \in Challenges /\ x # None
  <1>1. Issued \subseteq Cert
    BY DEF TypeOK, Issued, Index
  <1> QED BY <1>1, NoneAssumption DEF Cert
-----------------------------------------------------------------------------
(* What a journal remembers *)

\* Two journals that hold the same certificates under the same CAs remember the same.
LEMMA SameMemory ==
  ASSUME TypeOK, NEW j \in Journal, NEW k \in Journal, Remembers(j),
         \A c \in Challenges :
           /\ Used(j, c) => Used(k, c)
           /\ Used(k, c) => /\ Used(j, c) => k.chal[c].cert = j.chal[c].cert
                                             /\ k.chal[c].ca = j.chal[c].ca
                            /\ ~ Used(j, c) => k.chal[c].cert.ca = k.chal[c].ca,
         \A x \in Issued : Present(j, x.chal) => Used(j, x.chal)
  PROVE  Remembers(k)
  <1>1. \A x \in Issued : now < x.at + Retention => Present(k, x.chal)
    BY IssuedType DEF Remembers, Used
  <1>2. \A c \in Challenges : Used(k, c) => k.chal[c].cert.ca = k.chal[c].ca
    BY DEF Remembers
  <1> QED BY <1>1, <1>2 DEF Remembers

\* An issued certificate whose challenge is present uses it.
LEMMA IssuedUsed ==
  ASSUME TypeOK, NEW j, Accounts(j)
  PROVE  \A x \in Issued : Present(j, x.chal) => Used(j, x.chal) /\ j.chal[x.chal].cert = x
  BY IssuedType DEF Accounts, Used

\* Time only shortens what is left of the retention.
LEMMA TimeForgets ==
  ASSUME TypeOK, [Next]_vars, NEW x \in Cert, now' < x.at + Retention
  PROVE  now < x.at + Retention
  <1>1. x.at \in Nat /\ Retention \in Nat
    BY Bounds DEF Cert
  <1>2. now \in Nat /\ now' \in Nat /\ now' >= now
    BY ClockSteps
  <1> QED BY <1>1, <1>2

\* An edit of the journal keeps what it remembers: a grant adds a certificate of the
\* challenge's own CA, retention keeps what is used and fresh, and revoking, deleting
\* and selecting leave the used challenges alone.
LEMMA EditsRemember ==
  ASSUME KInv, Edits, TypeOK'
  PROVE  Remembers(st') /\ UNCHANGED <<now, journal, index, trash, delivered>>
  <1> USE DEF files, memory, counters
  <1>0. /\ IInv /\ TypeOK /\ Progress /\ Accounts(journal) /\ Accounts(st)
        /\ Remembers(journal) /\ Remembers(st) /\ journal \in Journal /\ st \in Journal
        /\ st' \in Journal
    BY DEF KInv, IInv, TypeOK
  <1>1. /\ \A x \in Issued : Present(journal, x.chal) => Used(journal, x.chal)
        /\ \A x \in Issued : Present(st, x.chal) => Used(st, x.chal)
    BY <1>0, IssuedUsed
  <1>2. CASE Grant
    <2> DEFINE c == op.chal
               x == [serial |-> serial + 1, chal |-> c, req |-> op.req, ca |-> st.ca,
                     at |-> now]
               e == [st.chal[c] EXCEPT !.cert = x, !.published = FALSE]
    <2>1. c \in Challenges
      BY <1>0, <1>2 DEF Grant, Progress
    <2>2. Present(st, c) /\ ~ Used(st, c) /\ st.chal[c].ca = st.ca /\ st.chal[c] \in Entry
      BY <1>0, <1>2, <2>1, EntryOf DEF Grant, CanGrant, Known
    <2>3. st' = [st EXCEPT !.chal[c] = e]
      BY <1>2 DEF Grant
    <2>4. /\ st'.chal[c].cert = x /\ st'.chal[c].ca = st.ca
          /\ \A d \in Challenges \ {c} : st'.chal[d] = st.chal[d]
      BY <1>0, <2>1, <2>2, <2>3 DEF Journal, Entry
    <2>5. \A d \in Challenges :
            /\ Used(st, d) => Used(st', d)
            /\ Used(st', d) => /\ Used(st, d) => st'.chal[d].cert = st.chal[d].cert
                                                 /\ st'.chal[d].ca = st.chal[d].ca
                               /\ ~ Used(st, d) => st'.chal[d].cert.ca = st'.chal[d].ca
      BY <2>2, <2>4 DEF Used, Present
    <2>6. Remembers(st')
      BY <1>0, <1>1, <2>5, SameMemory
    <2> QED BY <1>2, <2>6 DEF Grant
  <1>3. CASE Create
    <2> DEFINE m == made + 1
               e == [ca |-> st.ca, expires |-> now + Life, revoked |-> FALSE,
                     cert |-> None, published |-> FALSE]
    <2>1. m \in Challenges /\ m > made /\ made \in Nat
      BY <1>0, <1>3, Bounds DEF Create, Challenges, TypeOK
    <2>2. /\ st'.chal[m].cert = None
          /\ \A d \in Challenges \ {m} :
               st'.chal[d] = IF Keep(st, d) THEN st.chal[d] ELSE None
      <3>1. st' = [Prune(st) EXCEPT !.chal[m] = e] /\ Prune(st) \in Journal
        BY <1>0, <1>3, PruneType DEF Create
      <3>2. Prune(st).chal = [d \in Challenges |-> IF Keep(st, d) THEN st.chal[d] ELSE None]
        BY <1>0 DEF Prune, Journal
      <3> QED BY <2>1, <3>1, <3>2 DEF Journal
    <2>3. \A x \in Issued : x.chal # m
      BY <1>0, <2>1, IssuedType DEF Accounts, Challenges
    <2>4. \A x \in Issued : now < x.at + Retention => Present(st', x.chal)
      <3> SUFFICES ASSUME NEW x \in Issued, now < x.at + Retention
                   PROVE  Present(st', x.chal)
        OBVIOUS
      <3>1. x.chal \in Challenges \ {m}
        BY <1>0, <2>3, IssuedType
      <3>2. Used(st, x.chal) /\ st.chal[x.chal].cert = x
        BY <1>0, IssuedUsed DEF Remembers
      <3>3. Keep(st, x.chal)
        BY <3>2 DEF Keep
      <3> QED BY <2>2, <3>1, <3>2, <3>3 DEF Used, Present
    <2>5. \A d \in Challenges : Used(st', d) => st'.chal[d] = st.chal[d] /\ Used(st, d)
      BY <2>2 DEF Used, Present
    <2>6. \A d \in Challenges : Used(st', d) => st'.chal[d].cert.ca = st'.chal[d].ca
      BY <1>0, <2>5 DEF Remembers
    <2> QED BY <1>3, <2>4, <2>6 DEF Create, Remembers
  <1>4. ASSUME NEW edited \in Journal, BeginEdit(edited),
               \A c \in Challenges :
                 \/ edited.chal[c] = journal.chal[c]
                 \/ ~ Used(journal, c) /\ ~ Used(edited, c)
        PROVE  Remembers(st') /\ UNCHANGED <<now, journal, index, trash, delivered>>
    <2>1. st' = edited /\ UNCHANGED <<now, journal, index, trash, delivered>>
      BY <1>4 DEF BeginEdit, Begin
    <2>2. \A c \in Challenges :
            /\ Used(journal, c) => Used(edited, c)
            /\ Used(edited, c) => /\ Used(journal, c)
                                  /\ edited.chal[c] = journal.chal[c]
      BY <1>4 DEF Used, Present
    <2> QED BY <1>0, <1>1, <2>1, <2>2, SameMemory
  <1>5. CASE \E c \in Challenges : Revoke(c) \/ DeleteChallenge(c)
    <2> PICK c \in Challenges : Revoke(c) \/ DeleteChallenge(c)
      BY <1>5
    <2>1. Present(journal, c) /\ ~ Used(journal, c)
      BY DEF Revoke, DeleteChallenge
    <2> DEFINE revoked == [journal EXCEPT !.chal[c].revoked = TRUE]
               removed == [journal EXCEPT !.chal[c] = None]
    <2>2. revoked \in Journal /\ removed \in Journal
      BY <1>0, <2>1, MarkEntry, SetEntry
    <2>3. /\ ~ Used(removed, c)
          /\ \A d \in Challenges \ {c} : removed.chal[d] = journal.chal[d]
      BY <1>0, <2>1 DEF Used, Present, Journal
    <2>4. /\ ~ Used(revoked, c)
          /\ \A d \in Challenges \ {c} : revoked.chal[d] = journal.chal[d]
      <3>1. journal.chal[c] \in Entry
        BY <1>0, <2>1, EntryOf
      <3> QED BY <1>0, <2>1, <3>1 DEF Used, Present, Journal, Entry
    <2> QED BY <2>1, <2>2, <2>3, <2>4, <1>4 DEF Revoke, DeleteChallenge
  <1>6. CASE \E k \in CAs : SelectCA(k)
    <2> PICK k \in CAs : SelectCA(k)
      BY <1>6
    <2>1. /\ [journal EXCEPT !.ca = k] \in Journal
          /\ [journal EXCEPT !.ca = k].chal = journal.chal
      BY <1>0 DEF Journal
    <2> QED BY <2>1, <1>4 DEF SelectCA
  <1> QED BY <1>2, <1>3, <1>5, <1>6 DEF Edits
\* A certificate that is published is the journal's and the copy's.
LEMMA ListedRemembered ==
  ASSUME IInv, ProjectIndex
  PROVE  \E x \in Cert : /\ Issued' = Issued \cup {x} /\ index'.certs = index.certs \cup {x}
                         /\ Present(journal, x.chal) /\ Present(st, x.chal)
                         /\ st.chal[x.chal].cert = x /\ Pending(st, x.chal)
                         /\ x.chal \in Challenges
                         /\ UNCHANGED <<journal, st, caDirs, trash, delivered>>
                         /\ index'.cas = index.cas
  <1> PICK c \in Challenges :
        /\ NextPending(c) /\ st.chal[c].cert \notin index.certs
        /\ RenameIndex([index EXCEPT !.certs = @ \cup {st.chal[c].cert}])
    BY DEF ProjectIndex
  <1> DEFINE x == st.chal[c].cert
  <1>1. x \in Cert /\ x.chal = c /\ Used(journal, c) /\ Pending(st, c)
    BY PendingCert DEF ProjectIndex, RecoverySteps, NextPending
  <1>2. /\ index'.certs = index.certs \cup {x} /\ index'.cas = index.cas
        /\ UNCHANGED <<journal, st, caDirs, trash, delivered>>
    BY DEF ProjectIndex, RenameIndex, IInv, TypeOK, Index, memory
  <1>3. Issued' = Issued \cup {x}
    BY <1>2 DEF Issued
  <1> QED BY <1>1, <1>2, <1>3 DEF Used, Pending

\* Marking a challenge published changes neither certificates nor CAs.
LEMMA MarkRemembers ==
  ASSUME KInv, NEW c \in Challenges, NextPending(c), Mark(c)
  PROVE  Remembers(st')
  <1>1. /\ TypeOK /\ st \in Journal /\ Accounts(st) /\ Remembers(st) /\ Present(st, c)
    BY DEF KInv, IInv, TypeOK, NextPending, Pending, Used
  <1>2. st' = [st EXCEPT !.chal[c].published = TRUE] /\ st' \in Journal
    BY <1>1, MarkEntry DEF Mark
  <1>3. st.chal[c] \in Entry
    BY <1>1, EntryOf
  <1>4. /\ st'.chal[c] = [st.chal[c] EXCEPT !.published = TRUE]
        /\ \A d \in Challenges \ {c} : st'.chal[d] = st.chal[d]
    BY <1>1, <1>2 DEF Journal
  <1>5. [st.chal[c] EXCEPT !.published = TRUE] # None
    BY <1>3, NoneAssumption DEF Entry
  <1>6. /\ Used(st', c) <=> Used(st, c)
        /\ st'.chal[c].cert = st.chal[c].cert /\ st'.chal[c].ca = st.chal[c].ca
    BY <1>1, <1>3, <1>4, <1>5 DEF Used, Present, Entry
  <1>7. \A x \in Issued : Present(st, x.chal) => Used(st, x.chal)
    BY <1>1, IssuedUsed
  <1>8. \A d \in Challenges : /\ Used(st', d) <=> Used(st, d)
                              /\ Used(st, d) => /\ st'.chal[d].cert = st.chal[d].cert
                                                /\ st'.chal[d].ca = st.chal[d].ca
    BY <1>4, <1>6 DEF Used, Present
  <1> QED BY <1>1, <1>2, <1>7, <1>8, SameMemory

\* Every step keeps what the journal and its copy remember.
LEMMA MemoryKept ==
  KInv /\ [Next]_vars => Remembers(journal)' /\ Remembers(st)'
  <1> SUFFICES ASSUME KInv, [Next]_vars PROVE Remembers(journal)' /\ Remembers(st)'
    OBVIOUS
  <1>0. /\ IInv /\ TypeOK /\ TypeOK' /\ Remembers(journal) /\ Remembers(st)
    BY InvNext DEF KInv, IInv
  <1>1. \A x \in Cert : now' < x.at + Retention => now < x.at + Retention
    BY <1>0, TimeForgets
  <1>2. Issued \subseteq Cert
    BY <1>0, IssuedType
  <1>3. ASSUME NEW j, Remembers(j)
        PROVE  \A x \in Issued : now' < x.at + Retention => Present(j, x.chal)
    BY <1>1, <1>2, <1>3 DEF Remembers
  <1>4. CASE ProjectIndex
    <2> PICK x \in Cert :
          /\ Issued' = Issued \cup {x} /\ UNCHANGED <<journal, st>>
          /\ Present(journal, x.chal) /\ Present(st, x.chal)
      BY <1>0, <1>4, ListedRemembered
    <2>1. Remembers(journal)'
      BY <1>0, <1>3 DEF Remembers, Used, Present
    <2>2. Remembers(st)'
      BY <1>0, <1>3 DEF Remembers, Used, Present
    <2> QED BY <2>1, <2>2
  <1>5. CASE Issued' = Issued
    <2>1. Remembers(journal)'
      <3>1. journal' = journal \/ journal' = st
        BY JournalSteps DEF SaveMarks, Commit, RenameJournal
      <3> QED BY <1>0, <1>3, <1>5, <3>1 DEF Remembers, Used, Present
    <2>2. ASSUME Remembers(st') PROVE Remembers(st)'
      BY <1>3, <1>5, <2>2 DEF Remembers, Used, Present
    <2>3. Remembers(st')
      <3>1. CASE Edits
        BY <1>0, <3>1, EditsRemember
      <3>2. CASE ProjectIndexed \/ ProjectSync
        BY <1>0, <3>2, MarkRemembers DEF ProjectIndexed, ProjectSync
      <3> QED BY <1>0, <3>1, <3>2, CopySteps
    <2> QED BY <2>1, <2>2, <2>3
  <1> QED BY <1>0, <1>4, <1>5, IssuedSteps

-----------------------------------------------------------------------------
(* Deletions leave no certificate of a deleted CA behind *)

\* The index is changed by a publication and by the end of a deletion.
LEMMA OrphansKept == KInv /\ [Next]_vars => NoOrphans' /\ Removes'
  <1> SUFFICES ASSUME KInv, [Next]_vars PROVE NoOrphans' /\ Removes'
    OBVIOUS
  <1> USE DEF files, memory, counters
  <1>0. /\ IInv /\ TypeOK /\ Accounts(st) /\ Remembers(st) /\ Removes /\ NoOrphans
        /\ op \in Op /\ index \in Index /\ caDirs \subseteq CAs
    BY DEF KInv, IInv, TypeOK
  <1>1. CASE ProjectIndex
    <2> PICK x \in Cert :
          /\ index'.certs = index.certs \cup {x} /\ index'.cas = index.cas
          /\ st.chal[x.chal].cert = x /\ Pending(st, x.chal) /\ x.chal \in Challenges
          /\ caDirs' = caDirs
      BY <1>0, <1>1, ListedRemembered
    <2>1. x.ca \in caDirs
      BY <1>0 DEF Accounts, Remembers, Pending
    <2>2. op.pc = "index" /\ op' = [op EXCEPT !.pc = "indexSync"]
      BY <1>1 DEF ProjectIndex, Goto
    <2>3. NoOrphans'
      BY <1>0, <2>1 DEF NoOrphans, Removes
    <2>4. Removes'
      BY <1>0, <2>2 DEF Removes, Op, TrashSteps
    <2> QED BY <2>3, <2>4
  <1>2. CASE Unlist
    <2>1. /\ index'.cas = index.cas \ {op.ca} /\ index'.certs = index.certs \ op.del
          /\ op.pc = "unlist" /\ op' = [op EXCEPT !.pc = "unlistSync"]
          /\ caDirs' = caDirs
      BY <1>2 DEF Unlist, RenameIndex, Goto
    <2>2. op.ca \notin caDirs /\ {x \in index.certs : x.ca = op.ca} \subseteq op.del
      BY <1>0, <2>1 DEF Removes, TrashSteps
    <2>3. NoOrphans'
      BY <1>0, <2>1, <2>2 DEF NoOrphans
    <2>4. Removes'
      BY <1>0, <2>1, <2>2 DEF Removes, Op, TrashSteps
    <2> QED BY <2>3, <2>4
  <1>3. CASE FindCA
    <2>1. op.pc = "body" /\ op.kind = "deleteCA" /\ UNCHANGED <<index, caDirs>>
      BY <1>3 DEF FindCA
    <2>2. op'.kind = op.kind /\ (\/ op'.pc = "done"
                                 \/ /\ op'.pc = "trashCA" /\ op'.ca = op.ca
                                    /\ op'.del = {x \in index.certs : x.ca = op.ca})
      BY <1>0, <1>3 DEF FindCA, Answer, Op
    <2>3. NoOrphans'
      BY <1>0, <2>1 DEF NoOrphans
    <2>4. Removes'
      BY <1>0, <2>1, <2>2 DEF Removes, TrashSteps
    <2> QED BY <2>3, <2>4
  <1>4. CASE TrashCA
    <2>1. op.pc = "trashCA" /\ index' = index
      BY <1>4 DEF TrashCA
    <2>2. /\ op'.kind = op.kind /\ op'.ca = op.ca /\ op'.del = op.del
          /\ \/ op'.pc = "done" /\ caDirs' = caDirs
             \/ op'.pc = "trash" /\ caDirs' = caDirs \ {op.ca}
      BY <1>0, <1>4 DEF TrashCA, Goto, Answer, Op
    <2>3. NoOrphans'
      BY <1>0, <2>1 DEF NoOrphans
    <2>4. Removes'
      BY <1>0, <2>1, <2>2 DEF Removes, TrashSteps
    <2> QED BY <2>3, <2>4
  <1>5. CASE FindCert
    <2>1. op.pc = "body" /\ op.kind = "deleteCert" /\ UNCHANGED <<index, caDirs>>
      BY <1>5 DEF FindCert
    <2>2. op'.kind = op.kind /\ op'.ca = op.ca /\ op'.pc \in {"trash", "done"}
      BY <1>0, <1>5 DEF FindCert, Goto, Answer, Op
    <2>3. \A x \in index.certs : x.ca # None
      BY <1>0, NoneAssumption DEF Index, Cert
    <2>4. op.ca = None /\ None \notin caDirs
      BY <1>0, <2>1, NoneAssumption DEF Removes
    <2>5. NoOrphans'
      BY <1>0, <2>1 DEF NoOrphans
    <2>6. Removes'
      BY <1>0, <2>1, <2>2, <2>3, <2>4 DEF Removes, TrashSteps
    <2> QED BY <2>5, <2>6
  <1>6. CASE TrashMoved
    <2>1. /\ op.pc = "trash" /\ op' = [op EXCEPT !.pc = "unlist"]
          /\ UNCHANGED <<index, caDirs>>
      BY <1>6 DEF TrashMoved, Goto
    <2>2. NoOrphans'
      BY <1>0, <2>1 DEF NoOrphans
    <2>3. Removes'
      BY <1>0, <2>1 DEF Removes, TrashSteps, Op
    <2> QED BY <2>2, <2>3
  <1>7. ASSUME UNCHANGED <<index, caDirs>>,
               \/ op' = op
               \/ /\ op'.kind = "deleteCert" => op'.ca = None
                  /\ op'.pc \notin TrashSteps
        PROVE  NoOrphans' /\ Removes'
    <2>1. NoOrphans'
      BY <1>0, <1>7 DEF NoOrphans
    <2>2. Removes'
      BY <1>0, <1>7 DEF Removes, TrashSteps
    <2> QED BY <2>1, <2>2
  <1>8. ASSUME UNCHANGED <<index, caDirs>>, op'.kind = op.kind, op'.ca = op.ca,
               op'.pc \notin TrashSteps
        PROVE  NoOrphans' /\ Removes'
    BY <1>0, <1>7, <1>8 DEF Removes
  <1>9. ASSUME UNCHANGED <<index, caDirs>>, NEW label, label \notin TrashSteps, Goto(label)
        PROVE  NoOrphans' /\ Removes'
    BY <1>0, <1>8, <1>9 DEF Goto, Op
  <1>9a. ASSUME UNCHANGED <<index, caDirs>>, NEW reply, Answer(reply)
         PROVE  NoOrphans' /\ Removes'
    BY <1>0, <1>8, <1>9a DEF Answer, Op, TrashSteps
  <1>10. CASE Recovery
    <2>1. op.then \notin TrashSteps
      BY <1>0 DEF Op, TrashSteps
    <2>2. CASE RecoverBlocked
      BY <2>2, <1>9a DEF RecoverBlocked
    <2>3. CASE ProjectPem
      BY <2>3, <1>9 DEF ProjectPem, TrashSteps
    <2>4. CASE ProjectIndexed
      BY <2>4, <1>9 DEF ProjectIndexed, TrashSteps
    <2>5. CASE ProjectSync
      BY <2>5, <1>9 DEF ProjectSync, SyncDir, TrashSteps
    <2>6. CASE Recovered
      BY <2>1, <2>6, <1>9 DEF Recovered, TrashSteps
    <2>7. CASE SaveMarks
      BY <2>7, <1>9 DEF SaveMarks, RenameJournal, TrashSteps
    <2>8. CASE SyncMarks
      BY <2>1, <2>8, <1>9 DEF SyncMarks, SyncDir, TrashSteps
    <2> QED
      BY <1>1, <1>10, <2>2, <2>3, <2>4, <2>5, <2>6, <2>7, <2>8 DEF Recovery
  <1>11. CASE Enrollment
    <2>1. CASE Replay \/ Reply
      BY <2>1, <1>9a DEF Replay, Reply, Deliver
    <2>2. CASE Refuse
      BY <2>2, <1>9a DEF Refuse
    <2>3. CASE Grant
      BY <1>0, <2>3, <1>8 DEF Grant, Op, TrashSteps
    <2> QED BY <1>11, <2>1, <2>2, <2>3 DEF Enrollment
  <1>12. CASE Administration
    <2>1. CASE Create
      BY <2>1, <1>9 DEF Create, TrashSteps
    <2>2. CASE CapacityReached
      BY <2>2, <1>9a DEF CapacityReached
    <2>3. CASE Commit
      BY <2>3, <1>9 DEF Commit, RenameJournal, TrashSteps
    <2>4. CASE SyncCommit
      BY <2>4, <1>9, <1>9a DEF SyncCommit, SyncDir, TrashSteps
    <2>5. CASE TrashPem
      BY <2>5, <1>7 DEF TrashPem
    <2>6. CASE SyncUnlist
      BY <2>6, <1>9a DEF SyncUnlist, SyncDir
    <2>7. CASE StartupDone
      BY <2>7, <1>9a DEF StartupDone
    <2> QED
      BY <1>2, <1>3, <1>4, <1>5, <1>6, <1>12, <2>1, <2>2, <2>3, <2>4, <2>5, <2>6, <2>7
         DEF Administration
  <1>13. CASE Call
    <2>1. ASSUME NEW new, NEW label, Begin(new, label), new.kind = "deleteCert" => new.ca = None,
                 new \in Op, label \notin TrashSteps
          PROVE  NoOrphans' /\ Removes'
      BY <1>7, <2>1 DEF Begin, Op
    <2>2. ASSUME NEW new \in Op, BeginRecover(new), new.kind = "deleteCert" => new.ca = None
          PROVE  NoOrphans' /\ Removes'
      BY <2>1, <2>2 DEF BeginRecover, TrashSteps
    <2>3. ASSUME NEW edited, BeginEdit(edited) PROVE NoOrphans' /\ Removes'
      <3>1. [Idle EXCEPT !.kind = "admin"] \in Op
        BY DEF Idle, Op, Kinds
      <3> QED BY <2>1, <2>3, <3>1 DEF BeginEdit, TrashSteps, Idle
    <2>4. CASE \E c \in Challenges, r \in Requests : StartEnroll(c, r)
      <3> PICK c \in Challenges, r \in Requests : StartEnroll(c, r)
        BY <2>4
      <3>1. c \in Nat
        BY Bounds DEF Challenges
      <3>2. [Idle EXCEPT !.kind = "enroll", !.chal = c, !.req = r] \in Op
        BY <3>1, IdleType DEF Op, Kinds
      <3> QED BY <3>2, <2>2 DEF StartEnroll, Idle
    <2>5. CASE StartChallenge
      <3>1. [Idle EXCEPT !.kind = "challenge"] \in Op
        BY DEF Idle, Op, Kinds
      <3> QED BY <3>1, <2>2, <2>5 DEF StartChallenge, Idle
    <2>6. CASE SetAllowDES \/ \E c \in Challenges : Revoke(c) \/ DeleteChallenge(c)
      BY <2>3, <2>6 DEF SetAllowDES, Revoke, DeleteChallenge
    <2>7. ASSUME NEW k \in CAs, SelectCA(k) \/ StartDeleteCA(k)
          PROVE  NoOrphans' /\ Removes'
      <3>1. [Idle EXCEPT !.kind = "deleteCA", !.ca = k] \in Op
        BY DEF Idle, Op, Kinds
      <3> QED BY <3>1, <2>2, <2>3, <2>7 DEF SelectCA, StartDeleteCA, Idle
    <2>8. ASSUME NEW x \in Cert, StartDeleteCert(x) PROVE NoOrphans' /\ Removes'
      <3>1. [Idle EXCEPT !.kind = "deleteCert", !.del = {x}] \in Op
        BY DEF Idle, Op, Kinds
      <3> QED BY <3>1, <2>2, <2>8 DEF StartDeleteCert, Idle
    <2>9. CASE \E c \in Challenges : Used(journal, c) /\ StartDeleteCert(journal.chal[c].cert)
      BY <1>0, <2>8, <2>9, CertOf DEF TypeOK
    <2>10. CASE \E x \in index.certs : StartDeleteCert(x)
      BY <1>0, <2>8, <2>10 DEF Index
    <2> QED
      BY <1>13, <2>4, <2>5, <2>6, <2>7, <2>9, <2>10 DEF Call
  <1>14. CASE StorageError
    BY <1>14, <1>9a DEF StorageError
  <1>15. CASE Finish \/ Crash \/ Restart
    <2>1. UNCHANGED <<index, caDirs>>
      BY <1>15 DEF Finish, Crash, Restart
    <2>2. op' = Idle \/ op' = [Idle EXCEPT !.kind = "startup", !.pc = "recover"]
      BY <1>15 DEF Finish, Crash, Restart
    <2>3. op'.kind # "deleteCert" /\ op'.pc \notin TrashSteps
      <3>1. CASE op' = Idle
        BY <3>1 DEF Idle, TrashSteps
      <3>2. CASE op' = [Idle EXCEPT !.kind = "startup", !.pc = "recover"]
        BY <3>2 DEF Idle, TrashSteps
      <3> QED BY <2>2, <3>1, <3>2
    <2> QED BY <2>1, <2>3, <1>7
  <1>16. CASE Outage \/ Tick \/ UNCHANGED vars
    BY <1>16, <1>7 DEF Outage, Tick, vars
  <1> QED
    BY <1>10, <1>11, <1>12, <1>13, <1>14, <1>15, <1>16 DEF Next, Work, Step

-----------------------------------------------------------------------------
(* Replies *)

\* A reply is given at the end of the operation: by a refusal, by a completed
\* startup, or by a step that gives neither of these two answers.
LEMMA ReplySteps ==
  ASSUME KInv, [Next]_vars
  PROVE  /\ Replies'
         /\ \/ Refuse \/ StartupDone \/ op' = op
            \/ /\ op'.reply # "refused"
               /\ op'.kind = "startup" => op'.reply # "ok"
  <1> DEFINE Quiet == op'.reply # "refused" /\ (op'.kind = "startup" => op'.reply # "ok")
             Edit == {"enroll", "challenge", "admin"}
  <1> SUFFICES Replies' /\ (Refuse \/ StartupDone \/ op' = op \/ Quiet)
    OBVIOUS
  <1> USE DEF files, memory, counters
  <1>0. op \in Op /\ Replies /\ Progress
    BY DEF KInv, IInv, TypeOK
  <1>1. ASSUME op' = op PROVE Replies'
    BY <1>0, <1>1 DEF Replies
  <1>2. ASSUME NEW label, Goto(label), op.pc # "done",
               label \in {"commit", "commitSync"} => op.kind \in Edit,
               label = "unlistSync" => op.kind \in Deletions
        PROVE  Replies' /\ Quiet
    BY <1>0, <1>2 DEF Replies, Goto, Op
  <1>3. ASSUME NEW reply, Answer(reply)
        PROVE  /\ Replies' /\ op'.reply = reply /\ op'.kind = op.kind
    BY <1>0, <1>3 DEF Replies, Answer, Op
  <1>4. ASSUME op'.reply = "none", op'.pc # "unlistSync",
               op'.pc \in {"commit", "commitSync"} => op'.kind \in Edit
        PROVE  Replies' /\ Quiet
    BY <1>4 DEF Replies
  <1>5. CASE Recovery
    <2>1. op.then \in {"body", "reply"} /\ op.pc # "done"
      BY <1>0, <1>5 DEF Op, Recovery, RecoverBlocked, ProjectPem, ProjectIndex,
         ProjectIndexed, ProjectSync, Recovered, SaveMarks, SyncMarks
    <2>2. RecoverBlocked => Answer("error")
      BY DEF RecoverBlocked
    <2>3. \/ RecoverBlocked
          \/ \E label \in {"recover", "index", "indexSync", "mark", "markSync", "body",
                           "reply"} : Goto(label)
      BY <1>5, <2>1 DEF Recovery, ProjectPem, ProjectIndex, ProjectIndexed, ProjectSync,
         Recovered, SaveMarks, SyncMarks
    <2> QED BY <1>2, <1>3, <2>1, <2>2, <2>3
  <1>6. CASE Enrollment
    <2>1. Replay \/ Reply => Answer("success")
      BY DEF Replay, Reply, Deliver
    <2>2. Refuse => Answer("refused")
      BY DEF Refuse
    <2>3. CASE Grant
      <3>1. op.pc = "body" /\ op.kind = "enroll"
        BY <2>3 DEF Grant
      <3>2. op.reply = "none"
        BY <1>0, <3>1 DEF Replies
      <3>3. op'.reply = "none" /\ op'.pc = "commit" /\ op'.kind = "enroll"
        BY <1>0, <2>3, <3>1, <3>2 DEF Grant, Op
      <3> QED BY <1>4, <3>3
    <2> QED BY <1>3, <1>6, <2>1, <2>2, <2>3 DEF Enrollment
  <1>7. CASE Administration
    <2>1. CASE Create
      BY <2>1, <1>2 DEF Create
    <2>2. CASE CapacityReached
      BY <2>2, <1>3 DEF CapacityReached
    <2>3. CASE Commit
      BY <1>0, <2>3, <1>2 DEF Commit, Replies
    <2>4. CASE SyncCommit
      <3>1. op.pc = "commitSync" /\ op.kind \in Edit
        BY <1>0, <2>4 DEF SyncCommit, Replies
      <3>2. Goto("recover") \/ Answer("ok")
        BY <2>4 DEF SyncCommit
      <3> QED BY <1>2, <1>3, <3>1, <3>2
    <2>5. CASE FindCert
      BY <2>5, <1>2, <1>3 DEF FindCert
    <2>6. CASE FindCA
      <3>1. op.pc = "body" /\ op.kind = "deleteCA"
        BY <2>6 DEF FindCA
      <3>2. op.reply = "none"
        BY <1>0, <3>1 DEF Replies
      <3>3. \/ Answer("error")
            \/ op' = [op EXCEPT !.pc = "trashCA",
                                !.del = {x \in index.certs : x.ca = op.ca}]
        BY <2>6 DEF FindCA
      <3>4. CASE op' = [op EXCEPT !.pc = "trashCA",
                                  !.del = {x \in index.certs : x.ca = op.ca}]
        <4>1. op'.reply = op.reply /\ op'.pc = "trashCA"
          BY <1>0, <3>4 DEF Op
        <4> QED BY <1>4, <3>2, <4>1
      <3> QED BY <1>3, <3>3, <3>4
    <2>7. CASE TrashCA
      BY <2>7, <1>2, <1>3 DEF TrashCA
    <2>8. CASE TrashPem
      BY <2>8, <1>1 DEF TrashPem
    <2>9. CASE TrashMoved
      BY <2>9, <1>2 DEF TrashMoved
    <2>10. CASE Unlist
      BY <1>0, <2>10, <1>2 DEF Unlist, Progress, TrashSteps
    <2>11. CASE SyncUnlist
      <3>1. op.kind \in Deletions /\ Answer("ok")
        BY <1>0, <2>11 DEF SyncUnlist, Replies
      <3> QED BY <1>3, <3>1 DEF Deletions
    <2>12. CASE StartupDone
      BY <2>12, <1>3 DEF StartupDone
    <2> QED
      BY <1>7, <2>1, <2>2, <2>3, <2>4, <2>5, <2>6, <2>7, <2>8, <2>9, <2>10, <2>11, <2>12
         DEF Administration
  <1>8. CASE Call
    <2>1. ASSUME NEW new, BeginRecover(new), new \in Op, new.reply = "none"
          PROVE  Replies' /\ Quiet
      BY <1>4, <2>1 DEF BeginRecover, Begin, Op
    <2>2. ASSUME NEW edited, BeginEdit(edited) PROVE Replies' /\ Quiet
      <3>1. op' = [[Idle EXCEPT !.kind = "admin"] EXCEPT !.pc = "commit"]
        BY <2>2 DEF BeginEdit, Begin
      <3> QED BY <1>4, <3>1 DEF Idle
    <2>3. CASE \E c \in Challenges, r \in Requests : StartEnroll(c, r)
      <3> PICK c \in Challenges, r \in Requests : StartEnroll(c, r)
        BY <2>3
      <3>1. c \in Nat
        BY Bounds DEF Challenges
      <3>2. [Idle EXCEPT !.kind = "enroll", !.chal = c, !.req = r] \in Op
        BY <3>1, IdleType DEF Op, Kinds
      <3> QED BY <3>2, <2>1 DEF StartEnroll, Idle
    <2>4. CASE StartChallenge
      <3>1. [Idle EXCEPT !.kind = "challenge"] \in Op
        BY DEF Idle, Op, Kinds
      <3> QED BY <3>1, <2>1, <2>4 DEF StartChallenge, Idle
    <2>5. CASE SetAllowDES \/ \E c \in Challenges : Revoke(c) \/ DeleteChallenge(c)
      BY <2>2, <2>5 DEF SetAllowDES, Revoke, DeleteChallenge
    <2>6. ASSUME NEW k \in CAs, SelectCA(k) \/ StartDeleteCA(k)
          PROVE  Replies' /\ Quiet
      <3>1. [Idle EXCEPT !.kind = "deleteCA", !.ca = k] \in Op
        BY DEF Idle, Op, Kinds
      <3> QED BY <3>1, <2>1, <2>2, <2>6 DEF SelectCA, StartDeleteCA, Idle
    <2>7. ASSUME NEW x \in Cert, StartDeleteCert(x) PROVE Replies' /\ Quiet
      <3>1. [Idle EXCEPT !.kind = "deleteCert", !.del = {x}] \in Op
        BY DEF Idle, Op, Kinds
      <3> QED BY <3>1, <2>1, <2>7 DEF StartDeleteCert, Idle
    <2>8. journal \in Journal /\ index.certs \subseteq Cert
      BY DEF KInv, IInv, TypeOK, Index
    <2>9. CASE \E c \in Challenges : Used(journal, c) /\ StartDeleteCert(journal.chal[c].cert)
      BY <2>7, <2>8, <2>9, CertOf
    <2>10. CASE \E x \in index.certs : StartDeleteCert(x)
      BY <2>7, <2>8, <2>10
    <2> QED
      BY <1>8, <2>3, <2>4, <2>5, <2>6, <2>9, <2>10 DEF Call
  <1>9. CASE StorageError
    BY <1>9, <1>3 DEF StorageError
  <1>10. CASE Finish \/ Crash \/ Restart
    <2>1. op' = Idle \/ op' = [Idle EXCEPT !.kind = "startup", !.pc = "recover"]
      BY <1>10 DEF Finish, Crash, Restart
    <2>2. CASE op' = Idle
      BY <2>2, <1>4 DEF Idle
    <2>3. CASE op' = [Idle EXCEPT !.kind = "startup", !.pc = "recover"]
      BY <2>3, <1>4 DEF Idle
    <2> QED BY <2>1, <2>2, <2>3
  <1>11. CASE Outage \/ Tick \/ UNCHANGED vars
    BY <1>11, <1>1 DEF Outage, Tick, vars
  <1> QED
    BY <1>5, <1>6, <1>7, <1>8, <1>9, <1>10, <1>11 DEF Next, Work, Step

\* A refusal is right when it is given: the journal still holds what was delivered for
\* the challenge, and enroll would replay it.
LEMMA RefusedRightly ==
  ASSUME KInv, Refuse, NEW d \in delivered,
         d.to = op.req, d.cert.chal = op.chal, d.cert.ca = journal.ca,
         d.cert \in index.certs
  PROVE  ~ (now < d.cert.at + Retention)
  <1> SUFFICES ASSUME now < d.cert.at + Retention PROVE FALSE
    OBVIOUS
  <1> DEFINE x == d.cert
             c == op.chal
  <1>0. /\ TypeOK /\ Accounts(st) /\ Remembers(st) /\ RetryBinding
        /\ op.pc = "body" /\ st = journal /\ ~ CanReplay
    BY DEF KInv, IInv, Progress, RecoverySteps, Refuse
  <1>1. x \in Issued /\ x \in Cert /\ x.chal = c
    BY <1>0, IssuedType DEF Issued
  <1>2. c \in Challenges /\ Present(st, c)
    BY <1>0, <1>1 DEF Remembers, Cert
  <1>3. Used(st, c) /\ st.chal[c].cert = x
    BY <1>0, <1>1, <1>2, IssuedUsed
  <1>4. st.chal[c].ca = st.ca
    BY <1>0, <1>2, <1>3 DEF Remembers
  <1>5. x.req = op.req
    BY <1>0 DEF RetryBinding
  <1>6. x.at \in Nat /\ now \in Nat /\ Retention \in Nat
    BY <1>0, <1>1, Bounds DEF Cert, TypeOK
  <1>7. CanReplay
    BY <1>2, <1>3, <1>4, <1>5, <1>6 DEF CanReplay, Known
  <1> QED BY <1>0, <1>7

\* Every step keeps the replies right: once it has replied an operation waits to
\* release scepMu, and meanwhile only time passes.
LEMMA AnswersKept ==
  KInv /\ [Next]_vars => Replies' /\ RetryAnswered' /\ StartupCompletes'
  <1> SUFFICES ASSUME KInv, [Next]_vars PROVE Replies' /\ RetryAnswered' /\ StartupCompletes'
    OBVIOUS
  <1>0. /\ IInv /\ TypeOK /\ op \in Op /\ Replies /\ RetryAnswered /\ StartupCompletes
        /\ Replies'
    BY ReplySteps DEF KInv, IInv, TypeOK
  <1>1. ASSUME op.pc = "done" PROVE UNCHANGED <<journal, index, delivered>>
    BY <1>1, JournalSteps, VisibleSteps
       DEF SaveMarks, Commit, ProjectIndex, Unlist, Replay, Reply
  <1>2. \A d \in delivered :
          now' < d.cert.at + Retention => now < d.cert.at + Retention
    BY <1>0, TimeForgets DEF TypeOK
  <1>3. RetryAnswered'
    <2>1. CASE Refuse
      <3>1. UNCHANGED <<journal, index, delivered>> /\ op'.req = op.req /\ op'.chal = op.chal
        BY <1>0, <2>1 DEF Refuse, files, Answer, Op
      <3> QED BY <1>2, <2>1, <3>1, RefusedRightly DEF RetryAnswered
    <2>2. CASE op' = op
      <3> SUFFICES ASSUME op.kind = "enroll", op.reply = "refused" PROVE RetryAnswered'
        BY <2>2 DEF RetryAnswered
      <3>1. UNCHANGED <<journal, index, delivered>>
        BY <1>0, <1>1 DEF Replies
      <3> QED BY <1>0, <1>2, <2>2, <3>1 DEF RetryAnswered
    <2>3. CASE StartupDone
      BY <1>0, <2>3 DEF StartupDone, Answer, Op, RetryAnswered
    <2> QED BY <2>1, <2>2, <2>3, ReplySteps DEF RetryAnswered
  <1>4. StartupCompletes'
    <2>1. CASE StartupDone
      <3>1. st = journal /\ journal' = journal /\ \A c \in Challenges : ~ Pending(st, c)
        BY <1>0, <2>1 DEF StartupDone, IInv, Progress, RecoverySteps, files
      <3> QED BY <3>1 DEF StartupCompletes, Pending, Used, Present
    <2>2. CASE op' = op
      <3> SUFFICES ASSUME op.kind = "startup", op.reply = "ok" PROVE StartupCompletes'
        BY <2>2 DEF StartupCompletes
      <3>1. journal' = journal
        BY <1>0, <1>1 DEF Replies
      <3> QED BY <1>0, <2>2, <3>1 DEF StartupCompletes, Pending, Used, Present
    <2>3. CASE Refuse
      BY <1>0, <2>3 DEF Refuse, Answer, Op, StartupCompletes
    <2> QED BY <2>1, <2>2, <2>3, ReplySteps DEF StartupCompletes
  <1> QED BY <1>0, <1>3, <1>4

-----------------------------------------------------------------------------
(* The strengthened invariant and its theorems *)

LEMMA KInvInit == Init => KInv
  <1> SUFFICES ASSUME Init PROVE KInv
    OBVIOUS
  <1>1. IInv
    BY InvInit
  <1>2. Issued = {}
    BY DEF Init, Issued
  <1>3. Remembers(journal) /\ Remembers(st)
    BY <1>2 DEF Remembers, Init, EmptyJournal, Used, Present
  <1>4. Replies /\ Removes /\ RetryAnswered /\ StartupCompletes
    BY DEF Init, Replies, Removes, RetryAnswered, StartupCompletes, Idle, TrashSteps
  <1>5. NoOrphans
    BY DEF Init, NoOrphans
  <1> QED BY <1>1, <1>3, <1>4, <1>5 DEF KInv

LEMMA KInvNext == KInv /\ [Next]_vars => KInv'
  <1>1. KInv /\ [Next]_vars => IInv'
    BY InvNext DEF KInv
  <1> QED BY <1>1, MemoryKept, OrphansKept, AnswersKept DEF KInv

\* On top of IInv: what the journal remembers, how a deletion proceeds and what has
\* been replied holds at every step, whatever fails and whenever the process dies.
THEOREM LastingInvariant == Spec => []KInv
  BY KInvInit, KInvNext, PTL DEF Spec

\* enroll: within the retention period a retry of a request that was answered is not
\* refused, over storage errors, retention runs, edits and restarts.
THEOREM RetriesAreAnswered == Spec => []RetryAnswered
  BY LastingInvariant, PTL DEF KInv

\* recover at startup: a startup that succeeds leaves no issuance unpublished.
THEOREM StartupIsComplete == Spec => []StartupCompletes
  BY LastingInvariant, PTL DEF KInv

\* DeleteCA: no certificate is listed whose CA is not, however a deletion is interrupted.
THEOREM DeletedCAsLeaveNoOrphans == Spec => []NoOrphans
  BY LastingInvariant, PTL DEF KInv

-----------------------------------------------------------------------------
(* Losses of power *)

Syncing == {"commitSync", "markSync", "indexSync", "unlistSync"}

\* The marks that recovery works on are the journal's, and more.
Marked ==
  op.pc \in RecoverySteps =>
    \A c \in Challenges :
      Used(journal, c) /\ journal.chal[c].published => st.chal[c].published

\* One version of each file is held once it is synced, and that is the one in use.
LEMMA Settled ==
  IInv /\ Marked /\ held.journal = {journal} /\ held.index = {index}
    /\ (~ up => op.pc = "free") => Holds
  <1> SUFFICES ASSUME IInv, Marked, held.journal = {journal}, held.index = {index},
                      ~ up => op.pc = "free"
               PROVE  Holds
    OBVIOUS
  <1>1. /\ Accounts(journal)
        /\ \A d \in delivered : d.cert \in index.certs \cup trash
        /\ \A c \in Challenges : Used(journal, c) /\ journal.chal[c].published =>
             journal.chal[c].cert \in index.certs \cup trash
    BY DEF IInv, DeliveredOnRecord, Accounts
  <1>2. /\ journal \in held.journal /\ index \in held.index
        /\ \A j \in held.journal : Accounts(j)
    BY <1>1
  <1>3. \A i \in held.index : i = index
    OBVIOUS
  <1> QED BY <1>1, <1>2, <1>3 DEF Holds, Marked

\* What a step does to the files that a loss of power may roll back.
LEMMA HeldSteps ==
  ASSUME TypeOK, MaxFaults = 0, ~ up => op.pc = "free", Work
  PROVE  \/ SaveMarks \/ Commit \/ ProjectIndex \/ Unlist
         \/ /\ held' = [journal |-> {journal}, index |-> {index}]
            /\ UNCHANGED <<journal, index>>
         \/ UNCHANGED <<held, journal, index>> /\ op.pc \notin Syncing
         \/ UNCHANGED <<held, record, st, op>>
  <1> USE DEF files, memory, counters
  <1> DEFINE Still == UNCHANGED <<held, journal, index>> /\ op.pc \notin Syncing
             Synced == /\ held' = [journal |-> {journal}, index |-> {index}]
                       /\ UNCHANGED <<journal, index>>
  <1>1. Recovery => SaveMarks \/ ProjectIndex \/ Synced \/ Still
    BY DEF Recovery, RecoverBlocked, ProjectPem, ProjectIndexed, ProjectSync, SyncDir,
       Recovered, SyncMarks, Syncing
  <1>2. Enrollment => Still
    BY DEF Enrollment, Replay, Refuse, Grant, Reply, Deliver, Syncing
  <1>3. Administration => Commit \/ Unlist \/ Synced \/ Still
    BY DEF Administration, Create, CapacityReached, SyncCommit, SyncDir, FindCert,
       FindCA, TrashCA, TrashPem, TrashMoved, SyncUnlist, StartupDone, Syncing
  <1>4. Call => Still
    BY DEF Call, StartEnroll, StartChallenge, Revoke, DeleteChallenge, SetAllowDES,
       SelectCA, StartDeleteCA, StartDeleteCert, BeginRecover, BeginEdit, Begin, Syncing
  <1>5. Finish => Still
    BY DEF Finish, Syncing
  <1>6. ~ StorageError
    BY DEF StorageError, TypeOK
  <1>7. Outage \/ Tick => UNCHANGED <<held, record, st, op>>
    BY DEF Outage, Tick, record
  <1>8. Restart => Still
    BY DEF Restart, Syncing
  <1> QED BY <1>1, <1>2, <1>3, <1>4, <1>5, <1>6, <1>7, <1>8 DEF Work, Step

\* An operation runs in a running process only.
LEMMA UpKept ==
  ASSUME ~ up => op.pc = "free", Work
  PROVE  ~ up' => op'.pc = "free"
  <1> SUFFICES ASSUME ~ up' PROVE op'.pc = "free"
    OBVIOUS
  <1> USE DEF files, memory, counters
  <1>1. CASE up
    <2>1. Recovery => up' = up
      BY DEF Recovery, RecoverBlocked, ProjectPem, ProjectIndex, RenameIndex,
         ProjectIndexed, ProjectSync, SyncDir, Recovered, SaveMarks, RenameJournal, SyncMarks
    <2>2. Enrollment => up' = up
      BY DEF Enrollment, Replay, Refuse, Grant, Reply, Deliver
    <2>3. Administration => up' = up
      BY DEF Administration, Create, CapacityReached, Commit, RenameJournal, SyncCommit,
         SyncDir, FindCert, FindCA, TrashCA, TrashPem, TrashMoved, Unlist, RenameIndex,
         SyncUnlist, StartupDone
    <2>4. Call => up' = up
      BY DEF Call, StartEnroll, StartChallenge, Revoke, DeleteChallenge, SetAllowDES,
         SelectCA, StartDeleteCA, StartDeleteCert, BeginRecover, BeginEdit, Begin
    <2>5. Finish \/ StorageError \/ Outage \/ Tick => up' = up
      BY DEF Finish, StorageError, Outage, Tick
    <2>6. ~ Restart
      BY <1>1 DEF Restart
    <2> QED BY <1>1, <2>1, <2>2, <2>3, <2>4, <2>5, <2>6 DEF Work, Step
  <1>2. CASE ~ up
    <2>1. op.pc = "free"
      BY <1>2
    <2>2. ~ Recovery /\ ~ Enrollment /\ ~ Administration /\ ~ Finish
      BY <2>1 DEF Recovery, RecoverBlocked, ProjectPem, ProjectIndex, ProjectIndexed,
         ProjectSync, Recovered, SaveMarks, SyncMarks, Enrollment, Replay, Refuse, Grant,
         Reply, Administration, Create, CapacityReached, Commit, SyncCommit, FindCert,
         FindCA, TrashCA, TrashPem, TrashMoved, Unlist, SyncUnlist, StartupDone, Finish
    <2>3. ~ Call
      BY <1>2 DEF Call, StartEnroll, StartChallenge, Revoke, DeleteChallenge, SetAllowDES,
         SelectCA, StartDeleteCA, StartDeleteCert, BeginRecover, BeginEdit, Begin
    <2>4. ~ Restart
      BY DEF Restart
    <2>5. ~ StorageError
      BY <2>1 DEF StorageError, StorageSteps
    <2>6. Outage \/ Tick => op' = op
      BY DEF Outage, Tick
    <2> QED BY <2>1, <2>2, <2>3, <2>4, <2>5, <2>6 DEF Work, Step
  <1> QED BY <1>1, <1>2

\* A step that recovers either continues or starts from scep.json.
LEMMA RecoverySources ==
  ASSUME IInv, Work, op'.pc \in RecoverySteps
  PROVE  /\ journal' = journal
         /\ \/ st' = journal
            \/ /\ op.pc \in RecoverySteps
               /\ ProjectIndexed \/ ProjectSync \/ st' = st
  <1> USE DEF files, memory, counters, RecoverySteps
  <1> DEFINE Same == /\ journal' = journal
                     /\ st' = journal \/ (st' = st /\ op.pc \in RecoverySteps)
  <1>0. op \in Op /\ Progress
    BY DEF IInv, TypeOK
  <1>1. Recovery => Same \/ ((ProjectIndexed \/ ProjectSync) /\ journal' = journal)
    <2>1. ~ SaveMarks
      BY <1>0 DEF SaveMarks, Goto, Op
    <2>2. ~ SyncMarks
      BY <1>0 DEF SyncMarks, Goto, Op
    <2>3. RecoverBlocked \/ ProjectPem \/ ProjectIndex \/ Recovered => Same
      BY DEF RecoverBlocked, ProjectPem, ProjectIndex, RenameIndex, Recovered
    <2>4. ProjectIndexed \/ ProjectSync => journal' = journal
      BY DEF ProjectIndexed, ProjectSync, SyncDir
    <2> QED BY <2>1, <2>2, <2>3, <2>4 DEF Recovery
  <1>2. ~ Enrollment
    <2>1. ~ Grant
      BY <1>0 DEF Grant, Op
    <2> QED BY <1>0, <2>1 DEF Enrollment, Replay, Refuse, Reply, Deliver, Answer, Op
  <1>3. Administration => Same
    <2>1. SyncCommit => Same
      BY <1>0 DEF SyncCommit, SyncDir, Progress
    <2>2. ~ Create /\ ~ Commit /\ ~ TrashMoved /\ ~ Unlist
      BY <1>0 DEF Create, Commit, TrashMoved, Unlist, Goto, Op
    <2>3. ~ CapacityReached /\ ~ SyncUnlist /\ ~ StartupDone
      BY <1>0 DEF CapacityReached, SyncUnlist, StartupDone, Answer, Op
    <2>4. ~ FindCert /\ ~ TrashCA
      BY <1>0 DEF FindCert, TrashCA, Goto, Answer, Op
    <2>5. ~ FindCA
      <3>1. FindCA => op'.pc \in {"trashCA", "done"}
        BY <1>0 DEF FindCA, Answer, Op
      <3> QED BY <3>1
    <2>6. ~ TrashPem
      BY DEF TrashPem
    <2> QED BY <2>1, <2>2, <2>3, <2>4, <2>5, <2>6 DEF Administration
  <1>4. Call => Same
    <2>1. ASSUME NEW edited, BeginEdit(edited) PROVE FALSE
      <3>1. op' = [[Idle EXCEPT !.kind = "admin"] EXCEPT !.pc = "commit"]
        BY <2>1 DEF BeginEdit, Begin
      <3> QED BY <3>1 DEF Idle
    <2>2. ASSUME NEW new, BeginRecover(new) PROVE Same
      BY <2>2 DEF BeginRecover, Begin
    <2> QED
      BY <2>1, <2>2 DEF Call, StartEnroll, StartChallenge, Revoke, DeleteChallenge,
         SetAllowDES, SelectCA, StartDeleteCA, StartDeleteCert
  <1>5. Finish \/ Restart => Same
    BY DEF Finish, Restart
  <1>6. ~ StorageError
    BY <1>0 DEF StorageError, Answer, Op
  <1>7. Outage \/ Tick => Same
    BY DEF Outage, Tick
  <1>8. ProjectIndexed \/ ProjectSync => op.pc \in RecoverySteps
    BY DEF ProjectIndexed, ProjectSync
  <1>9. Same \/ ((ProjectIndexed \/ ProjectSync) /\ journal' = journal)
    BY <1>1, <1>2, <1>3, <1>4, <1>5, <1>6, <1>7 DEF Work, Step
  <1> QED BY <1>8, <1>9

\* Recovery only adds marks.
LEMMA MarkedKept ==
  ASSUME PInv, Work
  PROVE  Marked'
  <1> SUFFICES ASSUME op'.pc \in RecoverySteps,
                      NEW d \in Challenges, Used(journal, d)', (journal.chal[d].published)'
               PROVE  (st.chal[d].published)'
    BY DEF Marked, RecoverySteps
  <1>0. /\ IInv /\ TypeOK /\ st \in Journal /\ Progress
        /\ op.pc \in RecoverySteps => st.chal[d].published
    <2>1. journal' = journal
      BY RecoverySources DEF PInv
    <2>2. Used(journal, d) /\ journal.chal[d].published
      BY <2>1 DEF Used, Present
    <2> QED BY <2>2 DEF PInv, IInv, TypeOK, Holds
  <1>1. journal' = journal
    BY <1>0, RecoverySources
  <1>2. CASE st' = journal
    BY <1>1, <1>2
  <1>3. CASE op.pc \in RecoverySteps /\ st' = st
    BY <1>0, <1>3
  <1>4. CASE op.pc \in RecoverySteps /\ (ProjectIndexed \/ ProjectSync)
    <2>1. PICK c \in Challenges : NextPending(c) /\ Mark(c)
      BY <1>4 DEF ProjectIndexed, ProjectSync
    <2>2. st.chal[c] \in Entry
      BY <1>0, <2>1, EntryOf DEF NextPending, Pending, Used
    <2>3. /\ st'.chal[c] = [st.chal[c] EXCEPT !.published = TRUE]
          /\ \A e \in Challenges \ {c} : st'.chal[e] = st.chal[e]
      BY <1>0, <2>1 DEF Mark, Journal
    <2>4. CASE d = c
      BY <2>2, <2>3, <2>4 DEF Entry
    <2>5. CASE d # c
      BY <1>0, <1>4, <2>3, <2>5
    <2> QED BY <2>4, <2>5
  <1> QED BY <1>0, <1>2, <1>3, <1>4, RecoverySources

\* What a held journal says stays right while the records do not change.
LEMMA AccountsStay ==
  ASSUME NEW j, Accounts(j), UNCHANGED <<index, trash, delivered, made, caDirs>>
  PROVE  Accounts(j)'
  <1>1. Issued' = Issued
    BY DEF Issued
  <1> QED BY <1>1 DEF Accounts, Present, Used, Pending

\* A step of the process keeps what is held: a file that is renamed leaves one more
\* version, which agrees with the records, until the fsync settles it.
LEMMA HoldsWork ==
  ASSUME PInv, MaxFaults = 0, Work
  PROVE  PInv'
  <1>0. /\ IInv /\ Holds /\ TypeOK /\ Progress /\ Accounts(journal) /\ Accounts(st)
        /\ op \in Op /\ DeliveredOnRecord /\ held \in [journal : SUBSET Journal, index : SUBSET Index]
    BY DEF PInv, IInv, TypeOK
  <1>1. IInv' /\ Marked' /\ (~ up' => op'.pc = "free")
    BY <1>0, InvNext, MarkedKept, UpKept DEF Next, Holds
  <1>2. Accounts(journal)' /\ DeliveredOnRecord'
    BY <1>1 DEF IInv
  <1>3. ASSUME held'.journal = {journal'}, held'.index = {index'}
        PROVE  PInv'
    <2>1. (IInv /\ Marked /\ held.journal = {journal} /\ held.index = {index}
             /\ (~ up => op.pc = "free"))' => Holds'
      BY Settled, PTL
    <2> QED BY <1>1, <1>3, <2>1 DEF PInv
  <1>4. CASE SaveMarks \/ Commit
    <2>1. /\ journal' = st /\ UNCHANGED <<index, trash, delivered, made, caDirs>>
          /\ op.pc \in {"mark", "commit"} /\ held' = [held EXCEPT !.journal = @ \cup {st}]
      <3>1. RenameJournal /\ op.pc \in {"mark", "commit"}
        BY <1>4 DEF SaveMarks, Commit
      <3> QED BY <3>1 DEF RenameJournal, counters
    <2>2. held'.journal = {journal, st} /\ held'.index = {index}
      BY <1>0, <2>1 DEF Holds
    <2>3. op'.pc \in {"markSync", "commitSync"}
      BY <1>0, <1>4 DEF SaveMarks, Commit, Goto, Op
    <2>4. \A j \in held'.journal : Accounts(j)'
      BY <1>0, <2>1, <2>2, AccountsStay
    <2>5. \A i \in held'.index : i = index'
      BY <2>1, <2>2
    <2>6. \A c \in Challenges : Used(journal, c)' /\ (journal.chal[c].published)' =>
            (journal.chal[c].cert)' \in (index.certs \cup trash)'
      BY <1>2 DEF Accounts
    <2>7. Holds'
      BY <1>1, <1>2, <2>1, <2>2, <2>3, <2>4, <2>5, <2>6
         DEF Holds, DeliveredOnRecord, RecoverySteps
    <2> QED BY <1>1, <2>7 DEF PInv
  <1>5. CASE ProjectIndex \/ Unlist
    <2>1. /\ journal' = journal /\ delivered' = delivered /\ op.pc \in {"index", "unlist"}
          /\ held' = [held EXCEPT !.index = @ \cup {index'}]
          /\ op'.pc \in {"indexSync", "unlistSync"}
      BY <1>0, <1>5 DEF ProjectIndex, Unlist, RenameIndex, Goto, Op
    <2>2. held'.journal = {journal} /\ held'.index = {index, index'}
      BY <1>0, <2>1 DEF Holds
    <2>3. index.certs \cup trash \subseteq index'.certs \cup trash'
          /\ trash \subseteq trash'
      <3>1. CASE ProjectIndex
        BY <1>0, <3>1, ListedRemembered
      <3>2. CASE Unlist
        BY <3>2 DEF Unlist, RenameIndex
      <3> QED BY <1>5, <3>1, <3>2
    <2>4. ASSUME NEW i \in held'.index
          PROVE  /\ i.certs \subseteq (index.certs \cup trash)'
                 /\ \A d \in delivered' : d.cert \in (i.certs \cup trash')
                 /\ \A c \in Challenges :
                      Used(journal, c)' /\ (journal.chal[c].published)' =>
                        (journal.chal[c].cert)' \in (i.certs \cup trash')
      <3>1. CASE i = index
        BY <1>0, <2>1, <2>3, <3>1 DEF DeliveredOnRecord, Accounts, Used, Present
      <3>2. CASE i = index'
        BY <1>2, <3>2 DEF DeliveredOnRecord, Accounts
      <3> QED BY <2>2, <3>1, <3>2
    <2>5. \A j \in held'.journal : Accounts(j)'
      <3> SUFFICES ASSUME NEW j \in held'.journal PROVE Accounts(j)'
        OBVIOUS
      <3>1. j = journal'
        BY <2>1, <2>2
      <3> QED BY <1>2, <3>1 DEF Accounts, Used, Present, Pending
    <2>6. /\ (journal \in held.journal /\ index \in held.index)'
          /\ (op.pc \notin {"commitSync", "markSync"} => held.journal = {journal})'
          /\ (op.pc \notin {"indexSync", "unlistSync"} => held.index = {index})'
      BY <2>1, <2>2
    <2>7. Holds'
      BY <1>1, <2>4, <2>5, <2>6 DEF Holds, Marked
    <2> QED BY <1>1, <2>7 DEF PInv
  <1>6. CASE UNCHANGED <<held, journal, index>> /\ op.pc \notin Syncing
    BY <1>0, <1>3, <1>6 DEF Holds, Syncing
  <1>7. CASE UNCHANGED <<held, record, st, op>>
    <2>1. \A j \in held'.journal : Accounts(j)'
      BY <1>0, <1>7, AccountsStay DEF Holds, record
    <2>2. \A i \in held'.index :
            /\ i.certs \subseteq (index.certs \cup trash)'
            /\ \A d \in delivered' : d.cert \in (i.certs \cup trash')
            /\ \A c \in Challenges :
                 Used(journal, c)' /\ (journal.chal[c].published)' =>
                   (journal.chal[c].cert)' \in (i.certs \cup trash')
      BY <1>0, <1>7 DEF Holds, record, Used, Present
    <2>3. /\ (journal \in held.journal /\ index \in held.index)'
          /\ (op.pc \notin {"commitSync", "markSync"} => held.journal = {journal})'
          /\ (op.pc \notin {"indexSync", "unlistSync"} => held.index = {index})'
      BY <1>0, <1>7 DEF Holds, record
    <2>4. (op.pc \in RecoverySteps =>
             \A c \in Challenges :
               Used(journal, c) /\ journal.chal[c].published => st.chal[c].published)'
      BY <1>1 DEF Marked
    <2>5. (~ up => op.pc = "free")'
      BY <1>1
    <2>6. Holds'
      BY ONLY <2>1, <2>2, <2>3, <2>4, <2>5 DEF Holds
    <2> QED BY <1>1, <2>6 DEF PInv
  <1> QED
    BY <1>0, <1>3, <1>4, <1>5, <1>6, <1>7, HeldSteps DEF Holds

\* A loss of power rolls back a rename at most, to a version that agrees with what
\* is on record.
LEMMA HoldsPowerLoss ==
  ASSUME PInv, PowerLoss
  PROVE  PInv'
  <1> USE DEF files, memory, counters
  <1>0. /\ IInv /\ Holds /\ TypeOK /\ NoResurrection /\ SingleUse /\ RetryBinding
        /\ held \in [journal : SUBSET Journal, index : SUBSET Index]
    BY DEF PInv, IInv, TypeOK
  <1>1. /\ journal' \in held.journal /\ index' \in held.index
        /\ held' = [journal |-> {journal'}, index |-> {index'}]
        /\ trash' = trash \ index'.certs /\ st' = journal' /\ op' = Idle /\ up' = FALSE
        /\ UNCHANGED <<now, pems, caDirs, away, delivered, made, serial, faults>>
        /\ keyring' = {} /\ crashes < MaxCrashes /\ crashes' = crashes + 1
    BY DEF PowerLoss
  <1>2. TypeOK'
    <2>1. crashes' \in 0 .. MaxCrashes
      BY <1>0, <1>1, Bounds DEF TypeOK
    <2> QED BY <1>0, <1>1, <2>1, IdleType DEF TypeOK
  <1>3. /\ trash' \subseteq trash /\ index'.certs \subseteq index.certs \cup trash
        /\ (index.certs \cup trash)' = index'.certs \cup trash
        /\ Issued' \subseteq Issued
    BY <1>0, <1>1 DEF Holds, Issued
  <1>4. Accounts(journal')
    BY <1>0, <1>1 DEF Holds
  <1>5. \A c \in Challenges :
          Used(journal, c)' /\ (journal.chal[c].published)' =>
            (journal.chal[c].cert)' \in (index.certs \cup trash)'
    <2>1. CASE journal' = journal
      BY <1>0, <1>1, <1>3, <2>1 DEF Holds, Used, Present
    <2>2. CASE index' = index
      BY <1>3, <1>4, <2>2 DEF Accounts, Used, Present
    <2>3. journal' = journal \/ index' = index
      BY <1>0, <1>1 DEF Holds
    <2> QED BY <2>1, <2>2, <2>3
  <1>6. Accounts(journal)'
    BY <1>1, <1>3, <1>4, <1>5 DEF Accounts, Present, Used, Pending
  <1>7. Accounts(st)'
    BY <1>1, <1>6 DEF Accounts, Present, Used, Pending
  <1>8. SingleUse' /\ RetryBinding'
    BY <1>0, <1>1, <1>3 DEF SingleUse, RetryBinding
  <1>9. NoResurrection'
    BY <1>0, <1>1 DEF NoResurrection
  <1>10. DeliveredOnRecord'
    BY <1>0, <1>1, <1>3 DEF Holds, DeliveredOnRecord
  <1>11. Progress' /\ Marked'
    BY <1>1 DEF Progress, Marked, Idle, RecoverySteps, TrashSteps
  <1>12. IInv'
    BY <1>2, <1>6, <1>7, <1>8, <1>9, <1>10, <1>11 DEF IInv
  <1>13. (IInv /\ Marked /\ held.journal = {journal} /\ held.index = {index}
            /\ (~ up => op.pc = "free"))' => Holds'
    BY Settled, PTL
  <1> QED BY <1>1, <1>11, <1>12, <1>13 DEF PInv, Idle

PowerNext == Work \/ PowerLoss

LEMMA PInvNext == MaxFaults = 0 /\ PInv /\ [PowerNext]_vars => PInv'
  <1> SUFFICES ASSUME MaxFaults = 0, PInv, [PowerNext]_vars PROVE PInv'
    OBVIOUS
  <1>1. CASE UNCHANGED vars
    BY <1>1 DEF vars, files, memory, counters, PInv, IInv, TypeOK, Accounts, Progress,
       Agrees, KeepsPending, NextPending, Pending, Used, Present, Issued, SingleUse,
       RetryBinding, NoResurrection, DeliveredOnRecord, Holds
  <1> QED BY <1>1, HoldsWork, HoldsPowerLoss DEF PowerNext

LEMMA PInvInit == Init => PInv
  <1> SUFFICES ASSUME Init PROVE PInv
    OBVIOUS
  <1>1. IInv
    BY InvInit
  <1>2. Marked
    BY DEF Init, Marked, EmptyJournal, Used, Present
  <1>3. /\ held.journal = {journal} /\ held.index = {index} /\ up
    BY DEF Init
  <1> QED BY <1>1, <1>2, <1>3, Settled DEF PInv

\* Losses of power at any moment, on storage that does not fail otherwise: what is held
\* agrees with the records, and so does what any of them leaves behind.
THEOREM PowerInvariant ==
  ASSUME MaxFaults = 0
  PROVE  PowerSpec => []PInv
  <1>1. PInv /\ [Work \/ PowerLoss]_vars => PInv'
    BY PInvNext DEF PowerNext
  <1> QED BY <1>1, PInvInit, PTL DEF PowerSpec

\* enroll, recover and the deletions: with the fsyncs where they are, a loss of power
\* never makes a challenge authorize a second certificate,
THEOREM PowerSingleUse ==
  ASSUME MaxFaults = 0
  PROVE  PowerSpec => []SingleUse
  BY PowerInvariant, PTL DEF PInv, IInv

\* never writes or lists again what is in the trash,
THEOREM PowerDeletionIsFinal ==
  ASSUME MaxFaults = 0
  PROVE  PowerSpec => []NoResurrection
  BY PowerInvariant, PTL DEF PInv, IInv

\* and never loses a certificate that a client was sent.
THEOREM PowerRepliesAreOnRecord ==
  ASSUME MaxFaults = 0
  PROVE  PowerSpec => []DeliveredOnRecord
  BY PowerInvariant, PTL DEF PInv, IInv

\* recover: the journal entry of a certificate is synced before the certificate is listed.
THEOREM ListingIsDurable ==
  ASSUME MaxFaults = 0
  PROVE  PowerSpec => ListedIsDurable
  <1> DEFINE Durable == up' => \A x \in index'.certs \ index.certs : \A j \in held.journal :
                                 Used(j, x.chal) /\ j.chal[x.chal].cert = x
  <1>1. PInv /\ [Work \/ PowerLoss]_vars => [Durable]_vars
    <2> SUFFICES ASSUME PInv, [Work \/ PowerLoss]_vars PROVE Durable
      OBVIOUS
    <2>1. CASE PowerLoss
      BY <2>1 DEF PowerLoss
    <2>2. CASE ProjectIndex
      <3>1. held.journal = {journal}
        BY <2>2 DEF PInv, Holds, ProjectIndex
      <3> QED BY <2>2, <3>1, ListedCert DEF PInv
    <2>3. CASE Unlist
      BY <2>3 DEF Unlist, RenameIndex
    <2>4. CASE Replay \/ Reply
      BY <2>4 DEF Replay, Reply, Deliver, files
    <2>5. CASE UNCHANGED index
      BY <2>5
    <2>6. PowerLoss \/ [Next]_vars
      BY DEF Next
    <2> QED BY <2>1, <2>2, <2>3, <2>4, <2>5, <2>6, VisibleSteps
  <1>2. PowerSpec => [][Durable]_vars
    BY <1>1, PowerInvariant, PTL DEF PowerSpec
  <1> QED BY <1>2 DEF ListedIsDurable
=============================================================================
