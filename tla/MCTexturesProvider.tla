------------------------- MODULE MCTexturesProvider -------------------------
(***************************************************************************)
(* Instances of TexturesProvider for TLC.                                  *)
(***************************************************************************)
EXTENDS TexturesProvider, TLC

CONSTANTS c1, c2, c3, u1, u2, x1, x2

\* Two spellings of one username, one of another, one that is refused.
TwoNames == { "Alex", "ALEX", "Steve", "no" }
LowerTwo == [n \in TwoNames |-> CASE n \in {"Alex", "ALEX"} -> u1
                                   [] n = "Steve" -> u2
                                   [] OTHER -> NotAllowed]

OneName  == { "Alex" }
LowerOne == [n \in OneName |-> u1]

Symmetry == Permutations(Calls) \cup Permutations(Uuids)

=============================================================================
