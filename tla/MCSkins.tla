------------------------------ MODULE MCSkins ------------------------------
(***************************************************************************)
(* Instances of Skins for TLC.                                             *)
(***************************************************************************)
EXTENDS Skins

CONSTANTS c1, c2, i1, i2, i3

\* Two spellings of one username, and two other usernames.
SomeNames  == { "alex", "ALEX", "steve", "herobrine" }
LowerSome  == [n \in SomeNames |-> IF n = "ALEX" THEN "alex" ELSE n]

\* One client with requests about everything.
Everything == [c \in Clients |-> Ids \X SomeNames]

\* A database that has been empty, and no command that fails.
SmoothSpec == /\ Init /\ skins = [k \in Keys |-> NoSkin]
              /\ [][\E c \in Clients : Handle(c)]_vars

\* Two clients with identities and usernames of their own: the one renames, and
\* hands usernames over between two identities, the other is in the way.
Apart == [c \in Clients |-> IF c = c1 THEN {i1, i3} \X {"alex", "ALEX", "steve"}
                            ELSE {i2} \X {"herobrine"}]

=============================================================================
