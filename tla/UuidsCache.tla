----------------------------- MODULE UuidsCache -----------------------------
(***************************************************************************)
(* What the provider takes the uuids storage for: a cache that may forget  *)
(* an entry at any moment, miss one that is there, and fail, but answers   *)
(* with nothing that was not stored, or was forgotten since.               *)
(*                                                                         *)
(* Nothing here corresponds to code: UuidsStorage is shown to implement it, *)
(* and TexturesProvider makes the same assumptions.                        *)
(***************************************************************************)
CONSTANTS Clients, Usernames, Uuids,
          Absent, \* no entry
          Failed  \* an error

VARIABLES cache,  \* what is remembered
          asked,  \* the username a client asks about, or Absent
          answer  \* what a client was last told

vars == << cache, asked, answer >>

Init == /\ cache \in [Usernames -> Uuids \cup {Absent}]
        /\ asked = [c \in Clients |-> Absent]
        /\ answer = [c \in Clients |-> Absent]

Ask(c, u) == /\ asked[c] = Absent
             /\ asked' = [asked EXCEPT ![c] = u]
             /\ UNCHANGED << cache, answer >>

Tell(c, x) == /\ asked[c] # Absent
              /\ asked' = [asked EXCEPT ![c] = Absent]
              /\ answer' = [answer EXCEPT ![c] = x]

\* The entry, as it is now.
Hit(c) == /\ Tell(c, cache[asked[c]])
          /\ cache[asked[c]] # Absent
          /\ UNCHANGED cache

\* None, or an error. The entry may be lost over it.
Miss(c) == /\ \E x \in {Absent, Failed} : Tell(c, x)
           /\ \/ UNCHANGED cache
              \/ cache' = [cache EXCEPT ![asked[c]] = Absent]

Store(u, x) == /\ cache' = [cache EXCEPT ![u] = x]
               /\ UNCHANGED << asked, answer >>

Forget(S) == /\ cache' = [u \in Usernames |-> IF u \in S THEN Absent ELSE cache[u]]
             /\ UNCHANGED << asked, answer >>

Next == \/ \E c \in Clients : (\E u \in Usernames : Ask(c, u)) \/ Hit(c) \/ Miss(c)
        \/ \E u \in Usernames, x \in Uuids : Store(u, x)
        \/ \E S \in SUBSET Usernames : Forget(S)

Spec == Init /\ [][Next]_vars

=============================================================================
