--------------------------- MODULE MCRemoteUuids ---------------------------
(***************************************************************************)
(* The instance of RemoteUuids for TLC.                                    *)
(***************************************************************************)
EXTENDS RemoteUuids

CONSTANTS c1, h1, h2, k1, k2

SomeNames == { "alex", "steve" }
FoldSome  == [n \in SomeNames |-> IF n = "steve" THEN k2 ELSE k1]

=============================================================================
