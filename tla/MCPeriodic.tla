----------------------------- MODULE MCPeriodic -----------------------------
(***************************************************************************)
(* Instances of PeriodicStrategy for TLC.                                  *)
(***************************************************************************)
EXTENDS PeriodicStrategy

CONSTANTS c1, c2, c3, k1, k2, k3

\* Three names, of which Mojang does not know the last.
SomeNames == { "Alex", "Steve", "Herobrine" }
FoldSome  == [n \in SomeNames |-> CASE n = "Alex" -> k1 [] n = "Steve" -> k2 [] OTHER -> k3]

=============================================================================
