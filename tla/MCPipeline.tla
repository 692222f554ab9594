----------------------------- MODULE MCPipeline -----------------------------
(***************************************************************************)
(* The instance of Pipeline for TLC.                                       *)
(***************************************************************************)
EXTENDS Pipeline

CONSTANTS c1, c2, k1, k2

SomeNames == { "alex", "steve" }
FoldSome  == [n \in SomeNames |-> IF n = "steve" THEN k2 ELSE k1]

=============================================================================
