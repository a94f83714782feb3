--------------------------- MODULE MCScepJournal ---------------------------
(* Instances of ScepJournal for TLC. *)
EXTENDS ScepJournal, TLC

CONSTANTS r1, r2, k1, k2

OneRequest == {r1}
TwoRequests == {r1, r2}
OneCA == {k1}
FirstCA == {k1}
TwoCAs == {k1, k2}
NoCAs == {}

RequestSymmetry == Permutations(TwoRequests)
=============================================================================
