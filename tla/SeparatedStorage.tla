-------------------------- MODULE SeparatedStorage --------------------------
(***************************************************************************)
(* mojangtextures.SeparatedStorage (src/mojangtextures/storage.go), as     *)
(* newMojangTexturesStorageFactory wires it: TexturesStorage, and next to  *)
(* it the uuids in Redis. Its methods delegate. What both parts share is   *)
(* the time.                                                               *)
(***************************************************************************)
EXTENDS TexturesStorage

CONSTANTS Clients, Usernames, Empty, Absent, Failed, Unexpected, Limit

ASSUME LimitAssumption == Limit \in Nat
ASSUME UuidMarkersAssumption ==
  /\ {Absent, Failed, Unexpected} \cap (Uuids \cup {Empty}) = {} /\ Empty \notin Uuids
  /\ Absent \notin Usernames \cup {Failed, Unexpected} /\ Failed # Unexpected

VARIABLES hash, get, answer

uuidsVars == << hash, get, answer >>
allVars == << vars, uuidsVars >>

InRedis == INSTANCE UuidsStorage WITH Uuids <- Uuids \cup {Empty}

SeparatedInit == Init /\ InRedis!Init

\* GetUuid and StoreUuid.
OfUuids == InRedis!CallNext /\ UNCHANGED vars

\* StoreTextures, with the collector and Stop. (GetTextures changes nothing.)
OfTextures == CallNext /\ UNCHANGED uuidsVars

\* A unit of time passes, for both.
Clock == Time /\ InRedis!Time

SeparatedNext == OfUuids \/ OfTextures \/ Clock

\* Time passes and the collector runs when it can.
SeparatedSpec == /\ SeparatedInit /\ [][SeparatedNext]_allVars
                 /\ WF_allVars(Clock)
                 /\ WF_allVars(Collect /\ UNCHANGED uuidsVars)

-----------------------------------------------------------------------------
(* The properties of the uuids, next to those of the textures *)

\* The uuids in Redis are a cache that answers with what was stored and is not
\* too old.
UuidsCacheSpec == InRedis!UuidsCacheSpec

\* An entry without a timestamp is removed before it is reported.
ReportedIsRemoved == InRedis!ReportedIsRemoved

=============================================================================
