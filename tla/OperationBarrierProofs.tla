---------------------- MODULE OperationBarrierProofs ----------------------
(***************************************************************************)
(* Theorems about OperationBarrier, for any number of connections and      *)
(* accounts, with and without authentication: its inductive invariant and  *)
(* what follows from it.                                                   *)
(***************************************************************************)
EXTENDS OperationBarrier, TLAPS

\* Who is at an exclusive step is alone: the locks say so.
LEMMA Alone ==
  ASSUME Ownership, OneSide, NEW r \in Requests, pc[r] \in Exclusive
  PROVE  /\ leases = {}
         /\ \A q \in Requests \ {r} : pc[q] \notin Handling \cup Exclusive
<1>1. writer = r
  BY DEF Ownership
<1>2. leases = {}
  BY <1>1, Parameters DEF OneSide
<1>3. QED
  BY <1>1, <1>2 DEF Ownership

\* With nobody halfway the two halves of the data are the same.
LEMMA WholeWhenAlone ==
  ASSUME IInv, NEW r \in Requests, pc[r] \in {"body", "copying"}
  PROVE  files = index
<1>1. \A q \in Requests : pc[q] # "halfway"
  BY Alone DEF IInv, Exclusive, Handling
<1>2. ~ stopped
  BY DEF IInv, StoppedServesNothing
<1>3. files \subseteq Requests /\ index \subseteq Requests
  BY DEF IInv, TypeOK
<1>4. QED
  BY <1>1, <1>2, <1>3 DEF IInv, OnlyHalfwayDiffers

LEMMA InitIInv ==
  ASSUME Init PROVE IInv
BY Parameters DEF Init, IInv, TypeOK, Ownership, OneSide, Roles, OnlyHalfwayDiffers, Copied,
  MaintainedByAdmin, StoppedServesNothing, Handling, Exclusive, NoRequest, NoCopy

\* A request enters the barrier, is let in or refused, and leaves.
LEMMA EnterKeeps ==
  ASSUME IInv, NEW r \in Requests,
         Arrive(r) \/ Lease(r) \/ CheckStopped(r) \/ Authenticate(r) \/ Reply(r)
  PROVE  IInv'
<1> USE Parameters DEF IInv, TypeOK, Ownership, OneSide, Roles, OnlyHalfwayDiffers, Copied,
      MaintainedByAdmin, StoppedServesNothing, Handling, Exclusive, locks, process, data,
      Goto, NoRequest, Running
<1>1. CASE Arrive(r)
  BY <1>1 DEF Arrive, Kinds, Restricted
<1>2. CASE Lease(r)
  BY <1>2 DEF Lease
<1>3. CASE CheckStopped(r)
  BY <1>3 DEF CheckStopped, Return
<1>4. CASE Authenticate(r)
  BY <1>4 DEF Authenticate, Maintains
<1>5. CASE Reply(r)
  BY <1>5 DEF Reply, Return
<1>6. QED
  BY <1>1, <1>2, <1>3, <1>4, <1>5

\* An ordinary handler changes data: it holds a lease, so nobody is exclusive.
LEMMA HandleKeeps ==
  ASSUME IInv, NEW r \in Requests,
         WriteFiles(r) \/ WriteIndex(r) \/ AddUser(r) \/ DeleteUser(r)
  PROVE  IInv'
<1> USE Parameters DEF IInv, TypeOK, Ownership, OneSide, Roles, OnlyHalfwayDiffers, Copied,
      MaintainedByAdmin, StoppedServesNothing, Handling, Exclusive, locks, process, data,
      Goto, NoRequest, Running
<1>1. CASE WriteFiles(r)
  BY <1>1 DEF WriteFiles, Toggle
<1>2. CASE WriteIndex(r)
  BY <1>2 DEF WriteIndex, Toggle
<1>3. CASE AddUser(r)
  BY <1>3 DEF AddUser
<1>4. CASE DeleteUser(r)
  BY <1>4 DEF DeleteUser
<1>5. QED
  BY <1>1, <1>2, <1>3, <1>4

\* Maintenance takes the exclusive side, or gives it up, and answers.
LEMMA WaitKeeps ==
  ASSUME IInv, NEW r \in Requests,
         Release(r) \/ Expire(r) \/ GiveUp(r) \/ TryLock(r) \/ Proceed(r) \/ Decline(r) \/ Answer(r)
  PROVE  IInv'
<1> USE Parameters DEF IInv, TypeOK, Ownership, OneSide, Roles, OnlyHalfwayDiffers, Copied,
      MaintainedByAdmin, StoppedServesNothing, Handling, Exclusive, locks, process, data,
      Goto, NoRequest, Running
<1>1. CASE Release(r)
  BY <1>1 DEF Release
<1>2. CASE Expire(r)
  BY <1>2 DEF Expire
<1>3. CASE GiveUp(r)
  BY <1>3 DEF GiveUp
<1>4. CASE TryLock(r)
  BY <1>4 DEF TryLock
<1>5. CASE Proceed(r)
  BY <1>5 DEF Proceed, Permitted
<1>6. CASE Decline(r)
  BY <1>6 DEF Decline, Unlock, Permitted
<1>7. CASE Answer(r)
  BY <1>7 DEF Answer, Return, NoCopy
<1>8. QED
  BY <1>1, <1>2, <1>3, <1>4, <1>5, <1>6, <1>7

\* Maintenance does its work: it is alone.
LEMMA BodyKeeps ==
  ASSUME IInv, NEW r \in Requests,
         CopyFiles(r) \/ CopyIndex(r) \/ CopyFails(r) \/ Activate(r) \/ RollBack(r)
  PROVE  IInv'
<1> USE Parameters DEF IInv, TypeOK, Ownership, OneSide, Roles, OnlyHalfwayDiffers, Copied,
      MaintainedByAdmin, StoppedServesNothing, Handling, Exclusive, locks, process, data,
      Goto, NoRequest, Running
<1>1. CASE CopyFiles(r)
  BY <1>1 DEF CopyFiles
<1>2. CASE CopyIndex(r)
  <2>1. TypeOK'
    BY <1>2 DEF CopyIndex, Unlock
  <2>2. Ownership'
    BY <1>2 DEF CopyIndex, Unlock
  <2>3. OneSide'
    BY <1>2 DEF CopyIndex, Unlock
  <2>4. Roles'
    BY <1>2 DEF CopyIndex, Unlock
  <2>5. OnlyHalfwayDiffers'
    BY <1>2 DEF CopyIndex, Unlock
  <2>6. Copied'
    BY <1>2, WholeWhenAlone DEF CopyIndex, Unlock
  <2>7. MaintainedByAdmin'
    BY <1>2 DEF CopyIndex, Unlock
  <2>8. StoppedServesNothing'
    BY <1>2 DEF CopyIndex, Unlock
  <2>9. QED
    BY <2>1, <2>2, <2>3, <2>4, <2>5, <2>6, <2>7, <2>8
<1>3. CASE CopyFails(r)
  BY <1>3 DEF CopyFails, Unlock, NoCopy
<1>4. CASE Activate(r)
  BY <1>4 DEF Activate, Unlock
<1>5. CASE RollBack(r)
  BY <1>5 DEF RollBack, Unlock
<1>6. QED
  BY <1>1, <1>2, <1>3, <1>4, <1>5

\* main() touches neither locks nor data.
LEMMA MainKeeps ==
  ASSUME IInv, Main \/ UNCHANGED vars
  PROVE  IInv'
<1>1. /\ UNCHANGED <<pc, request, leases, writer, backupMu, expired, stopped>>
      /\ UNCHANGED <<restart, admins, files, index, copy>>
      /\ main' \in {"serving", "closingScep", "closingGui", "exited"}
      /\ late' \in BOOLEAN
  BY DEF IInv, TypeOK, Main, Shutdown, ShutdownTimeout, ScepDrained, Exit, vars, locks, process,
    data
<1>2. TypeOK'
  BY <1>1 DEF IInv, TypeOK
<1>3. (Ownership /\ OneSide /\ Roles)'
  BY <1>1 DEF IInv, Ownership, OneSide, Roles
<1>4. (OnlyHalfwayDiffers /\ Copied)'
  BY <1>1 DEF IInv, OnlyHalfwayDiffers, Copied
<1>5. (MaintainedByAdmin /\ StoppedServesNothing)'
  BY <1>1 DEF IInv, MaintainedByAdmin, StoppedServesNothing
<1>6. QED
  BY <1>2, <1>3, <1>4, <1>5 DEF IInv

\* The invariant: locks have owners, readers exclude the writer, only halfway handlers
\* leave the data in two minds.
THEOREM Invariant == Spec => []IInv
<1>1. ASSUME IInv, [Next]_vars PROVE IInv'
  <2>1. CASE \E r \in Requests : Enter(r)
    BY <1>1, <2>1, EnterKeeps DEF Enter
  <2>2. CASE \E r \in Requests : Handle(r)
    BY <1>1, <2>2, HandleKeeps DEF Handle
  <2>3. CASE \E r \in Requests : Release(r) \/ Expire(r)
    BY <1>1, <2>3, WaitKeeps
  <2>4. CASE \E r \in Requests : Maintain(r)
    BY <1>1, <2>4, WaitKeeps, BodyKeeps DEF Maintain
  <2>5. CASE Main \/ UNCHANGED vars
    BY <1>1, <2>5, MainKeeps
  <2>6. QED
    BY <1>1, <2>1, <2>2, <2>3, <2>4, <2>5 DEF Next, Terminated
<1>2. QED
  BY <1>1, InitIInv, PTL DEF Spec

\* Every variable keeps its type.
THEOREM TypeCorrect == Spec => []TypeOK
<1>1. IInv => TypeOK
  BY DEF IInv
<1>2. QED
  BY <1>1, Invariant, PTL

\* Maintenance is alone with the data.
THEOREM MaintenanceIsAlone == Spec => []Exclusion
<1>1. IInv => Exclusion
  BY Alone DEF IInv, Exclusion
<1>2. QED
  BY <1>1, Invariant, PTL

\* No backup holds half of an operation.
THEOREM SnapshotsAreWhole == Spec => []SnapshotIsWhole
<1>1. ASSUME IInv PROVE SnapshotIsWhole
  <2> SUFFICES ASSUME NEW r \in Requests, pc[r] = "answer" PROVE copy.files = copy.index
    BY DEF SnapshotIsWhole
  <2>1. backupMu = r
    BY <1>1 DEF IInv, Ownership
  <2>2. \A q \in Requests : pc[q] # "copying"
    BY <1>1, <2>1 DEF IInv, Ownership, Exclusive
  <2>3. QED
    BY <1>1, <2>2 DEF IInv, Copied
<1>2. QED
  BY <1>1, Invariant, PTL

\* An account that lost its role while it waited does not replace the instance.
THEOREM OnlyAdminsMaintain == Spec => []MaintainedByAdmin
<1>1. IInv => MaintainedByAdmin
  BY DEF IInv
<1>2. QED
  BY <1>1, Invariant, PTL

\* A stopped instance serves nothing.
THEOREM StoppedIsSilent == Spec => []StoppedServesNothing
<1>1. IInv => StoppedServesNothing
  BY DEF IInv
<1>2. QED
  BY <1>1, Invariant, PTL

\* A finished request holds nothing.
THEOREM NothingLeaks == Spec => []NothingLeftBehind
<1>1. IInv => NothingLeftBehind
  BY DEF IInv, Ownership, NothingLeftBehind, Handling, Exclusive
<1>2. QED
  BY <1>1, Invariant, PTL
=============================================================================
