------------------------ MODULE MCOperationBarrier ------------------------
(* Constants for the runs of OperationBarrier.                             *)
EXTENDS OperationBarrier, TLC

CONSTANTS g1, g2, s1, alice, bob

ThreeConnections == {g1, g2, s1}
OneScep == {s1}
TwoUsers == {alice, bob}
NoUsers == {}

\* The connections to the GUI, and the accounts, are interchangeable.
GuiSymmetry == {c @@ u : c \in Permutations({g1, g2}), u \in Permutations({alice, bob})}
=============================================================================
