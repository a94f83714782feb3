---------------------------- MODULE SharedLedger ----------------------------
(***************************************************************************)
(* What shared challenges promise, by a ledger that forgets nothing: who   *)
(* may have a certificate is decided by all that were ever issued.         *)
(* SharedChallenge, whose journal is pruned, cut short and recovered, is   *)
(* shown to implement it until a backup is restored.                       *)
(***************************************************************************)
EXTENDS Naturals

CONSTANTS Window, Retention

VARIABLES
  now,
  issued,      \* every certificate: its challenge, request (tx, csr, src), names, time
  listed,      \* certificates in the inventory
  withdrawn,   \* certificates that were deleted
  delivered    \* successful replies

ledgerVars == <<now, issued, listed, withdrawn, delivered>>

Init ==
  /\ now = 0 /\ issued = [x \in {} |-> {}]
  /\ listed = {} /\ withdrawn = {} /\ delivered = {}

\* An identity waits for the window to pass, and a request that was granted is granted
\* again when its retention is over.
SameIdentity(p, q) == p.challenge = q.challenge /\ p.src = q.src /\ p.names = q.names
SameRequest(p, q) ==
  p.challenge = q.challenge /\ p.src = q.src /\ p.tx = q.tx /\ p.csr = q.csr
Due(p) ==
  \A y \in DOMAIN issued :
    /\ SameIdentity(p, issued[y]) => now >= issued[y].used + Window
    /\ SameRequest(p, issued[y]) => now >= issued[y].used + Retention

Issue(x, p) ==
  /\ x \notin DOMAIN issued
  /\ p.used = now /\ Due(p)
  /\ issued' = [y \in DOMAIN issued \cup {x} |-> IF y = x THEN p ELSE issued[y]]

\* A reply says what was issued, and goes to whom it was issued for.
Reply(x, p) == [cert |-> x, tx |-> p.tx, csr |-> p.csr, src |-> p.src]

\* A request: something may be issued, what was issued and not deleted may be listed,
\* and what is listed may be sent.
Serve ==
  /\ issued' = issued \/ \E x \in DOMAIN issued' : Issue(x, issued'[x])
  /\ listed \subseteq listed' /\ listed' \subseteq listed \cup (DOMAIN issued' \ withdrawn)
  /\ delivered \subseteq delivered'
  /\ delivered' \subseteq delivered \cup {Reply(x, issued'[x]) : x \in listed'}
  /\ UNCHANGED <<now, withdrawn>>

\* A deletion is final; what was issued before may be listed with it.
Withdraw(x) ==
  /\ x \in DOMAIN issued \ withdrawn
  /\ withdrawn' = withdrawn \cup {x} /\ x \notin listed'
  /\ listed \subseteq listed' \cup {x} /\ listed' \subseteq listed \cup (DOMAIN issued \ withdrawn)
  /\ UNCHANGED <<now, issued, delivered>>

Tick == now' = now + 1 /\ UNCHANGED <<issued, listed, withdrawn, delivered>>

Next == Serve \/ Tick \/ \E x \in DOMAIN issued : Withdraw(x)
=============================================================================
