-------------------------- MODULE TexturesStorage --------------------------
(***************************************************************************)
(* mojangtextures.InMemoryTexturesStorage                                  *)
(* (src/mojangtextures/in_memory_textures_storage.go).                     *)
(*                                                                         *)
(* Calls store and get textures under one lock, and a goroutine started by *)
(* the first StoreTextures collects what is too old whenever its ticker    *)
(* ticked. Instead of timestamps the model keeps ages, which nothing       *)
(* distinguishes beyond Duration + 1.                                      *)
(***************************************************************************)
EXTENDS Naturals

CONSTANTS Uuids, Textures,
          NoTextures, \* nil textures, which may be stored
          NoItem,     \* no entry in the map
          Duration,   \* for how long textures are good
          GCPeriod,   \* from tick to tick
          MayStop     \* whether anybody calls Stop (nothing in src does)

ASSUME TimeAssumption == Duration \in Nat /\ GCPeriod \in Nat \ {0}
ASSUME MarkersAssumption ==
  NoTextures \notin Textures
  /\ NoItem \notin [textures : Textures \cup {NoTextures}, age : 0..(Duration + 1)]
ASSUME StopAssumption == MayStop \in BOOLEAN

VARIABLES data,      \* the map
          collector, \* the goroutine of start
          countdown, \* until the ticker ticks
          ticked,    \* a tick is in the ticker's channel, which holds one
          crashed,   \* the process has panicked
          last       \* history: the last StoreTextures of each uuid

vars == << data, collector, countdown, ticked, crashed, last >>

Ages == 0..(Duration + 1)
Item == [textures : Textures \cup {NoTextures}, age : Ages]

\* The types of the variables. The ticker always has a next tick once started.
TypeOK ==
  /\ data \in [Uuids -> Item \cup {NoItem}]
  /\ collector \in {"none", "running", "stopped"}
  /\ countdown \in 0..GCPeriod
  /\ ticked \in BOOLEAN /\ crashed \in BOOLEAN
  /\ last \in [Uuids -> Item \cup {NoItem}]

Init ==
  /\ data = [u \in Uuids |-> NoItem]
  /\ collector = "none"
  /\ countdown = 0
  /\ ticked = FALSE /\ crashed = FALSE
  /\ last = data

\* Mutant of TooOld: the boundary is on the other side.
TooOldAlready(item) == item.age >= Duration

\* getMinimalNotExpiredTimestamp() > item.timestamp
TooOld(item) == item.age > Duration

\* GetTextures, which changes nothing.
GetTextures(u) == IF data[u] = NoItem \/ TooOld(data[u]) THEN NoTextures
                  ELSE data[u].textures

\* StoreTextures, the first one of which starts the goroutine and its ticker.
StoreTextures(u, t) ==
  /\ ~crashed
  /\ data' = [data EXCEPT ![u] = [textures |-> t, age |-> 0]]
  /\ last' = [last EXCEPT ![u] = [textures |-> t, age |-> 0]]
  /\ IF collector = "none"
       THEN collector' = "running" /\ countdown' = GCPeriod
       ELSE UNCHANGED << collector, countdown >>
  /\ UNCHANGED << ticked, crashed >>

\* Mutant of Collect: the comparison is the wrong way round.
CollectFresh ==
  /\ ~crashed
  /\ collector = "running" /\ ticked
  /\ ticked' = FALSE
  /\ data' = [u \in Uuids |-> IF data[u] # NoItem /\ ~TooOld(data[u]) THEN NoItem ELSE data[u]]
  /\ UNCHANGED << collector, countdown, crashed, last >>

\* The goroutine receives a tick: gc.
Collect ==
  /\ ~crashed
  /\ collector = "running" /\ ticked
  /\ ticked' = FALSE
  /\ data' = [u \in Uuids |-> IF data[u] # NoItem /\ TooOld(data[u]) THEN NoItem ELSE data[u]]
  /\ UNCHANGED << collector, countdown, crashed, last >>

\* Stop closes done, which ends the goroutine. A channel that was never made,
\* or is closed already, panics.
Stop ==
  /\ MayStop /\ ~crashed
  /\ IF collector = "running"
       THEN collector' = "stopped" /\ UNCHANGED crashed
       ELSE crashed' = TRUE /\ UNCHANGED collector
  /\ UNCHANGED << data, countdown, ticked, last >>

Older(item) == IF item = NoItem THEN NoItem
               ELSE [item EXCEPT !.age = IF @ > Duration THEN @ ELSE @ + 1]

\* The ticker starts over when it ticks.
NextCountdown == IF countdown = 1 THEN GCPeriod ELSE countdown - 1

\* A unit of time passes. A tick that is not received in time is dropped. (The
\* ticker outlives the goroutine, as nothing stops it.)
Time ==
  /\ ~crashed
  /\ data' = [u \in Uuids |-> Older(data[u])]
  /\ last' = [u \in Uuids |-> Older(last[u])]
  /\ IF collector = "none" THEN UNCHANGED << countdown, ticked >>
     ELSE /\ countdown' = NextCountdown
          /\ ticked' = (ticked \/ countdown = 1)
  /\ UNCHANGED << collector, crashed >>

CallNext == \/ \E u \in Uuids, t \in Textures \cup {NoTextures} : StoreTextures(u, t)
            \/ Collect \/ Stop

Next == CallNext \/ Time

Spec == Init /\ [][Next]_vars

\* Time passes and the goroutine runs when it can.
FairSpec == Spec /\ WF_vars(Time) /\ WF_vars(Collect)

-----------------------------------------------------------------------------
(* Properties *)

\* What a reader gets does not depend on when the collector runs, or whether
\* it runs at all: the textures stored last, as long as they are no older than
\* Duration, to the millisecond.
AgreesWithLastStore ==
  \A u \in Uuids :
    GetTextures(u) = IF last[u] # NoItem /\ last[u].age <= Duration THEN last[u].textures
                     ELSE NoTextures

\* Textures that are never stored again do not stay in memory: unless somebody
\* calls Stop, what is too old is removed or replaced.
OldTexturesLeave ==
  \A u \in Uuids :
    data[u] # NoItem /\ data[u].age > Duration
      ~> data[u] = NoItem \/ data[u].age = 0 \/ collector = "stopped" \/ crashed

=============================================================================
