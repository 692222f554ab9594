--------------------------- MODULE MCApplication ---------------------------
(***************************************************************************)
(* The instance of Application for TLC.                                    *)
(***************************************************************************)
EXTENDS Application

CONSTANTS e1, e2, a, b, c, p

=============================================================================
