------------------------- MODULE MCSeparatedStorage -------------------------
(***************************************************************************)
(* The instance of SeparatedStorage for TLC.                               *)
(***************************************************************************)
EXTENDS SeparatedStorage

CONSTANTS c1, c2, u1, x1, t1

=============================================================================
