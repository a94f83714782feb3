-------------------------- MODULE EnrollmentLedger --------------------------
(***************************************************************************)
(* What SCEP enrollment promises, with no files, locks or failures: which  *)
(* certificates an observer of the inventory and of the replies can see.   *)
(* ScepJournal is shown to implement it.                                   *)
(***************************************************************************)
CONSTANT Certs   \* records with (at least) the fields chal and req

VARIABLES
  listed,      \* certificates in the inventory
  withdrawn,   \* certificates that were deleted
  delivered    \* successful replies: [to |-> requester, cert |-> certificate]

ledgerVars == <<listed, withdrawn, delivered>>

Init == listed = {} /\ withdrawn = {} /\ delivered = {}

\* A challenge yields one certificate, ever.
List(x) ==
  /\ \A y \in listed \cup withdrawn : y.chal # x.chal
  /\ listed' = listed \cup {x}
  /\ UNCHANGED <<withdrawn, delivered>>

\* A deletion is final.
Withdraw(X) ==
  /\ listed' = listed \ X
  /\ withdrawn' = withdrawn \cup X
  /\ UNCHANGED delivered

\* The first reply and every retry carry the certificate that is listed.
Deliver(x) ==
  /\ delivered' = delivered \cup {[to |-> x.req, cert |-> x]}
  /\ UNCHANGED <<listed, withdrawn>>

Next ==
  \/ \E x \in Certs \ (listed \cup withdrawn) : List(x)
  \/ \E X \in SUBSET listed : Withdraw(X)
  \/ \E x \in listed : Deliver(x)

Spec == Init /\ [][Next]_ledgerVars
=============================================================================
