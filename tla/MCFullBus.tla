----------------------------- MODULE MCFullBus -----------------------------
(***************************************************************************)
(* The instance of FullBusStrategy for TLC.                                *)
(***************************************************************************)
EXTENDS FullBusStrategy

CONSTANTS c1, c2, c3, k1, k2

\* Two names, both of which Mojang knows: it lists them in either order.
SomeNames == { "Alex", "Steve" }
FoldSome  == [n \in SomeNames |-> IF n = "Steve" THEN k2 ELSE k1]

Symmetry == Permutations(Calls)

=============================================================================
