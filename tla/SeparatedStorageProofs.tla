------------------------ MODULE SeparatedStorageProofs ------------------------
(***************************************************************************)
(* Proofs about SeparatedStorage, for any number of clients, usernames,    *)
(* uuids and textures, any Limit, any Duration and any period of the       *)
(* ticker.                                                                 *)
(***************************************************************************)
EXTENDS SeparatedStorage, TLAPS

-----------------------------------------------------------------------------
(* The textures in memory *)

\* The map has the last store of u, or the collector has removed it, which is
\* then too old and gets no younger.
Kept(u) == \/ data[u] = last[u]
           \/ data[u] = NoItem /\ last[u] # NoItem /\ last[u].age > Duration

TypedItems == /\ data \in [Uuids -> Item \cup {NoItem}]
              /\ last \in [Uuids -> Item \cup {NoItem}]

KeptInv == TypedItems /\ \A u \in Uuids : Kept(u)

\* An item gets older by one, and not younger when it is as old as it can be.
LEMMA OlderItem ==
  ASSUME NEW item \in Item
  PROVE  /\ Older(item) \in Item
         /\ Older(item) # NoItem
         /\ item.age > Duration => Older(item).age > Duration
<1>1. item # NoItem
  BY MarkersAssumption DEF Item, Ages
<1>2. Older(item) \in Item /\ (item.age > Duration => Older(item).age > Duration)
  BY <1>1, TimeAssumption DEF Older, Item, Ages
<1> QED BY <1>2, MarkersAssumption DEF Item, Ages

LEMMA InitKept == Init => KeptInv
  BY DEF Init, KeptInv, TypedItems, Kept

LEMMA NextKept == KeptInv /\ [Next]_vars => KeptInv'
<1> SUFFICES ASSUME KeptInv, [Next]_vars
             PROVE  KeptInv'
  OBVIOUS
<1>1. ASSUME NEW u \in Uuids, NEW t \in Textures \cup {NoTextures}, StoreTextures(u, t)
      PROVE  KeptInv'
  <2>1. [textures |-> t, age |-> 0] \in Item
    BY TimeAssumption DEF Item, Ages
  <2> QED BY <1>1, <2>1 DEF StoreTextures, KeptInv, TypedItems, Kept
<1>2. CASE Collect
  <2>1. TypedItems'
    BY <1>2 DEF Collect, KeptInv, TypedItems
  <2>2. ASSUME NEW v \in Uuids
        PROVE  Kept(v)'
    <3>1. Kept(v)
      BY DEF KeptInv
    <3>2. data'[v] = data[v] \/ (data'[v] = NoItem /\ data[v] # NoItem /\ TooOld(data[v]))
      BY <1>2 DEF Collect, KeptInv, TypedItems
    <3> QED BY <1>2, <3>1, <3>2 DEF Collect, Kept, TooOld
  <2> QED BY <2>1, <2>2 DEF KeptInv
<1>3. CASE Stop
  BY <1>3 DEF Stop, KeptInv, TypedItems, Kept
<1>4. CASE Time
  <2>1. data' = [u \in Uuids |-> Older(data[u])] /\ last' = [u \in Uuids |-> Older(last[u])]
    BY <1>4 DEF Time
  <2>2. Older(NoItem) = NoItem
    BY DEF Older
  <2>3. TypedItems'
    BY <2>1, <2>2, OlderItem DEF KeptInv, TypedItems
  <2>4. ASSUME NEW v \in Uuids
        PROVE  Kept(v)'
    <3>1. Kept(v) /\ last[v] \in Item \cup {NoItem}
      BY DEF KeptInv, TypedItems
    <3> QED BY <2>1, <2>2, <3>1, OlderItem DEF Kept
  <2> QED BY <2>3, <2>4 DEF KeptInv
<1>5. CASE UNCHANGED vars
  BY <1>5 DEF vars, KeptInv, TypedItems, Kept
<1> QED BY <1>1, <1>2, <1>3, <1>4, <1>5 DEF Next, CallNext

\* A step of the storage is one of the textures, or leaves them alone.
LEMMA TexturesSteps == [SeparatedNext]_allVars => [Next]_vars
  BY DEF SeparatedNext, OfUuids, OfTextures, Clock, allVars, Next

\* What a reader gets depends on what was stored last, and not on the collector
\* (in_memory_textures_storage.go:36-58).
THEOREM AgreesWithLastStoreHolds == SeparatedSpec => []AgreesWithLastStore
<1>1. SeparatedInit => KeptInv
  BY InitKept DEF SeparatedInit
<1>2. KeptInv => AgreesWithLastStore
  <2> SUFFICES ASSUME KeptInv, NEW u \in Uuids
               PROVE  GetTextures(u) = IF last[u] # NoItem /\ last[u].age <= Duration
                                       THEN last[u].textures ELSE NoTextures
    BY DEF AgreesWithLastStore
  <2>1. Kept(u) /\ last[u] \in Item \cup {NoItem}
    BY DEF KeptInv, TypedItems
  <2>2. CASE last[u] = NoItem
    BY <2>1, <2>2 DEF Kept, GetTextures
  <2>3. CASE last[u] \in Item
    <3>1. last[u].age \in Nat /\ Duration \in Nat
      BY <2>3, TimeAssumption DEF Item, Ages
    <3> QED BY <2>1, <2>3, <3>1 DEF Kept, GetTextures, TooOld
  <2> QED BY <2>1, <2>2, <2>3
<1>3. KeptInv /\ [SeparatedNext]_allVars => KeptInv'
  BY TexturesSteps, NextKept
<1> QED BY <1>1, <1>2, <1>3, PTL DEF SeparatedSpec

-----------------------------------------------------------------------------
(* The uuids in Redis *)

AllUuids == Uuids \cup {Empty}

\* A value of the hash is an entry, or one of the two that are none.
LEMMA Values ==
  ASSUME NEW entry \in InRedis!Entry
  PROVE  /\ entry.uuid \in AllUuids /\ entry.uuid # Absent
         /\ entry.age \in Nat
         /\ entry # InRedis!Untimed /\ entry # InRedis!NoEntry
  BY UuidMarkersAssumption, LimitAssumption
     DEF InRedis!Entry, InRedis!Untimed, InRedis!NoEntry, AllUuids

AllValues == InRedis!Entry \cup {InRedis!Untimed, InRedis!NoEntry}

LEMMA NoValues == InRedis!Untimed.uuid \notin AllUuids /\ InRedis!NoEntry.uuid \notin AllUuids
  BY UuidMarkersAssumption DEF InRedis!Untimed, InRedis!NoEntry, AllUuids

\* What a unit of time does to a value, and to what the cache remembers of it.
LEMMA OlderValue ==
  ASSUME NEW v \in AllValues
  PROVE  /\ InRedis!Older(v) \in AllValues
         /\ InRedis!Remembered(InRedis!Older(v)) \in {InRedis!Remembered(v), Absent}
<1>1. CASE v \in InRedis!Entry
  <2>1. CASE v.age <= Limit
    <3>1. InRedis!Older(v) = [uuid |-> v.uuid, age |-> v.age + 1]
      BY <1>1, <2>1, LimitAssumption DEF InRedis!Entry, InRedis!Older
    <3>2. v.age + 1 \in 0..(Limit + 1)
      BY <1>1, <2>1, LimitAssumption DEF InRedis!Entry
    <3> QED BY <1>1, <2>1, <3>1, <3>2 DEF AllValues, InRedis!Entry, InRedis!Remembered
  <2>2. CASE ~(v.age <= Limit)
    BY <2>2 DEF InRedis!Older, AllValues
  <2> QED BY <2>1, <2>2
<1>2. CASE v \in {InRedis!Untimed, InRedis!NoEntry}
  BY <1>2, NoValues DEF InRedis!Older, AllValues, AllUuids
<1> QED BY <1>1, <1>2 DEF AllValues

LEMMA InitTypes == SeparatedInit => InRedis!TypeOK
  BY DEF SeparatedInit, InRedis!Init, InRedis!TypeOK

LEMMA NextTypes == InRedis!TypeOK /\ [SeparatedNext]_allVars => InRedis!TypeOK'
<1> SUFFICES ASSUME InRedis!TypeOK, [SeparatedNext]_allVars
             PROVE  InRedis!TypeOK'
  OBVIOUS
<1> USE DEF InRedis!TypeOK
<1>1. ASSUME NEW c \in Clients, NEW u \in Usernames, InRedis!GetUuid(c, u)
      PROVE  InRedis!TypeOK'
  BY <1>1 DEF InRedis!GetUuid
<1>2. ASSUME NEW c \in Clients, InRedis!HGet(c)
      PROVE  InRedis!TypeOK'
  BY <1>2 DEF InRedis!HGet, InRedis!Read, InRedis!Return, InRedis!Then, InRedis!Idle
<1>3. ASSUME NEW c \in Clients, InRedis!HDel(c)
      PROVE  InRedis!TypeOK'
  BY <1>3 DEF InRedis!HDel, InRedis!Return
<1>4. ASSUME NEW u \in Usernames, NEW x \in AllUuids, InRedis!StoreUuid(u, x)
      PROVE  InRedis!TypeOK'
  BY <1>4, LimitAssumption DEF InRedis!StoreUuid, InRedis!Entry, AllUuids
<1>5. CASE InRedis!Time
  BY <1>5, OlderValue DEF InRedis!Time, AllValues
<1>6. CASE UNCHANGED uuidsVars
  BY <1>6 DEF uuidsVars
<1> QED BY <1>1, <1>2, <1>3, <1>4, <1>5, <1>6
        DEF SeparatedNext, OfUuids, OfTextures, Clock, allVars, InRedis!CallNext, AllUuids

-----------------------------------------------------------------------------
(* The refinement of UuidsCache *)

LEMMA InitRefines == SeparatedInit => InRedis!Cache!Init
<1> SUFFICES ASSUME SeparatedInit
             PROVE  InRedis!Cache!Init
  OBVIOUS
<1>1. \A u \in Usernames : InRedis!Remembered(hash[u]) = Absent
  BY NoValues DEF SeparatedInit, InRedis!Init, InRedis!Remembered, AllUuids
<1>2. \A c \in Clients : get[c].username = Absent /\ answer[c] # Unexpected /\ answer[c] = Absent
  BY UuidMarkersAssumption DEF SeparatedInit, InRedis!Init, InRedis!Idle
<1> QED BY <1>1, <1>2 DEF InRedis!Cache!Init

\* What a call returns is the answer of the cache.
LEMMA Tells ==
  ASSUME InRedis!TypeOK, NEW c \in Clients, get[c].at # "idle",
         NEW x \in AllUuids \cup {Absent, Failed, Unexpected}, InRedis!Return(c, x)
  PROVE  /\ get[c].username \in Usernames
         /\ InRedis!Cache!Tell(c, IF x = Unexpected THEN Failed ELSE x)
<1>1. get[c] # InRedis!Idle /\ get[c].username \in Usernames
  BY DEF InRedis!TypeOK, InRedis!Idle
<1>2. InRedis!Idle.username = Absent /\ Absent \notin Usernames
  BY UuidMarkersAssumption DEF InRedis!Idle
<1> QED BY <1>1, <1>2 DEF InRedis!Return, InRedis!TypeOK, InRedis!Cache!Tell

\* A call that goes on to its second command is no step of the cache.
LEMMA Quiet ==
  ASSUME InRedis!TypeOK, UNCHANGED hash, NEW c \in Clients, NEW l, InRedis!Then(c, l)
  PROVE  UNCHANGED InRedis!Cache!vars
  BY DEF InRedis!Then, InRedis!TypeOK, InRedis!Idle, InRedis!Cache!vars

LEMMA HGetRefines ==
  ASSUME InRedis!TypeOK, NEW c \in Clients, InRedis!HGet(c)
  PROVE  [InRedis!Cache!Next]_(InRedis!Cache!vars)
<1> DEFINE entry == hash[get[c].username]
<1>1. get[c].at # "idle" /\ get[c].username \in Usernames /\ UNCHANGED hash
  BY DEF InRedis!HGet, InRedis!TypeOK, InRedis!Idle
<1>2. ASSUME NEW x \in {Absent, Failed}, InRedis!Return(c, x)
      PROVE  InRedis!Cache!Next
  <2>1. InRedis!Cache!Tell(c, x)
    BY <1>1, <1>2, Tells, UuidMarkersAssumption
  <2>2. InRedis!Cache!Miss(c)
    BY <1>1, <2>1 DEF InRedis!Cache!Miss
  <2> QED BY <2>2 DEF InRedis!Cache!Next
<1>3. ASSUME NEW x \in AllUuids, entry.uuid = x, ~InRedis!TooOld(entry), InRedis!Return(c, x)
      PROVE  InRedis!Cache!Next
  <2>1. InRedis!Cache!Tell(c, x)
    BY <1>1, <1>3, Tells, UuidMarkersAssumption DEF AllUuids
  <2>2. InRedis!Remembered(entry) = x /\ x # Absent
    <3>1. entry \in InRedis!Entry
      BY <1>1, <1>3, NoValues DEF InRedis!TypeOK
    <3> QED BY <1>3, <3>1, Values, LimitAssumption DEF InRedis!Remembered, InRedis!TooOld, AllUuids
  <2>3. InRedis!Cache!Hit(c)
    BY <1>1, <2>1, <2>2 DEF InRedis!Cache!Hit, InRedis!Cache!Tell
  <2> QED BY <2>3 DEF InRedis!Cache!Next
<1>4. ASSUME NEW l, InRedis!Then(c, l)
      PROVE  UNCHANGED InRedis!Cache!vars
  BY <1>1, <1>4, Quiet
<1> QED BY <1>2, <1>3, <1>4 DEF InRedis!HGet, InRedis!Read, AllUuids

LEMMA HDelRefines ==
  ASSUME InRedis!TypeOK, NEW c \in Clients, InRedis!HDel(c)
  PROVE  InRedis!Cache!Next
<1>1. get[c].at # "idle" /\ get[c].username \in Usernames
  BY DEF InRedis!HDel, InRedis!TypeOK, InRedis!Idle
<1>2. PICK x \in {Absent, Unexpected, Failed} : InRedis!Return(c, x)
  BY DEF InRedis!HDel
<1>3. \E y \in {Absent, Failed} : InRedis!Cache!Tell(c, y)
  BY <1>1, <1>2, Tells, UuidMarkersAssumption
<1>4. CASE UNCHANGED hash
  <2>1. InRedis!Cache!Miss(c)
    BY <1>1, <1>3, <1>4 DEF InRedis!Cache!Miss
  <2> QED BY <2>1 DEF InRedis!Cache!Next
<1>5. CASE hash' = [hash EXCEPT ![get[c].username] = InRedis!NoEntry]
  <2>1. \A u \in Usernames :
          InRedis!Remembered(hash'[u]) = IF u = get[c].username THEN Absent
                                         ELSE InRedis!Remembered(hash[u])
    BY <1>1, <1>5, NoValues DEF InRedis!TypeOK, InRedis!Remembered, AllUuids
  <2>2. InRedis!Cache!Miss(c)
    BY <1>1, <1>3, <2>1 DEF InRedis!Cache!Miss
  <2> QED BY <2>2 DEF InRedis!Cache!Next
<1> QED BY <1>4, <1>5 DEF InRedis!HDel

LEMMA StepRefines == InRedis!TypeOK /\ [SeparatedNext]_allVars => [InRedis!Cache!Next]_(InRedis!Cache!vars)
<1> SUFFICES ASSUME InRedis!TypeOK, [SeparatedNext]_allVars
             PROVE  [InRedis!Cache!Next]_(InRedis!Cache!vars)
  OBVIOUS
<1>1. ASSUME NEW c \in Clients, NEW u \in Usernames, InRedis!GetUuid(c, u)
      PROVE  InRedis!Cache!Next
  <2>1. get[c].username = Absent
    BY <1>1 DEF InRedis!GetUuid, InRedis!TypeOK, InRedis!Idle
  <2>2. InRedis!Cache!Ask(c, u)
    BY <1>1, <2>1 DEF InRedis!GetUuid, InRedis!TypeOK, InRedis!Cache!Ask
  <2> QED BY <2>2 DEF InRedis!Cache!Next
<1>2. ASSUME NEW u \in Usernames, NEW x \in AllUuids, InRedis!StoreUuid(u, x)
      PROVE  InRedis!Cache!Next
  <2>1. \A v \in Usernames :
          InRedis!Remembered(hash'[v]) = IF v = u THEN x ELSE InRedis!Remembered(hash[v])
    BY <1>2, LimitAssumption DEF InRedis!StoreUuid, InRedis!TypeOK, InRedis!Remembered, AllUuids
  <2>2. InRedis!Cache!Store(u, x)
    BY <1>2, <2>1 DEF InRedis!StoreUuid, InRedis!Cache!Store
  <2> QED BY <2>2 DEF InRedis!Cache!Next, AllUuids
<1>3. ASSUME InRedis!Time
      PROVE  InRedis!Cache!Next
  <2> DEFINE S == { u \in Usernames : InRedis!Remembered(hash'[u]) = Absent }
  <2>1. \A u \in Usernames : InRedis!Remembered(hash'[u]) \in {InRedis!Remembered(hash[u]), Absent}
    BY <1>3, OlderValue DEF InRedis!Time, InRedis!TypeOK, AllValues
  <2>2. InRedis!Cache!Forget(S)
    BY <1>3, <2>1 DEF InRedis!Time, InRedis!Cache!Forget
  <2> QED BY <2>2 DEF InRedis!Cache!Next
<1>4. CASE UNCHANGED uuidsVars
  BY <1>4 DEF uuidsVars, InRedis!Cache!vars
<1> QED BY <1>1, <1>2, <1>3, <1>4, HGetRefines, HDelRefines
        DEF SeparatedNext, OfUuids, OfTextures, Clock, allVars, InRedis!CallNext, AllUuids

\* The uuids in Redis are a cache that answers with nothing that was not stored,
\* or was forgotten since.
THEOREM UuidsCacheHolds == SeparatedSpec => UuidsCacheSpec
<1>1. InRedis!TypeOK /\ [SeparatedNext]_allVars => InRedis!TypeOK'
  BY NextTypes
<1>2. InRedis!TypeOK /\ [SeparatedNext]_allVars => [InRedis!Cache!Next]_(InRedis!Cache!vars)
  BY StepRefines
<1> QED BY InitTypes, InitRefines, <1>1, <1>2, PTL
        DEF SeparatedSpec, UuidsCacheSpec, InRedis!UuidsCacheSpec, InRedis!Cache!Spec

-----------------------------------------------------------------------------
(* What is reported has been removed *)

Reports(c) == answer'[c] = Unexpected /\ get[c].at # "idle" /\ get'[c].at = "idle"

LEMMA ReportRemoves ==
  ASSUME InRedis!TypeOK, [SeparatedNext]_allVars, NEW c \in Clients, Reports(c)
  PROVE  hash'[get[c].username] # InRedis!Untimed
<1>1. get'[c] # get[c]
  BY DEF Reports
<1>2. ASSUME NEW d \in Clients, InRedis!HGet(d) \/ InRedis!HDel(d) \/ \E u \in Usernames : InRedis!GetUuid(d, u)
      PROVE  d = c
  BY <1>1, <1>2 DEF InRedis!HGet, InRedis!Read, InRedis!HDel, InRedis!GetUuid, InRedis!Return,
                    InRedis!Then, InRedis!TypeOK
<1>3. ~ \E u \in Usernames : InRedis!GetUuid(c, u)
  BY DEF InRedis!GetUuid, Reports
<1>4. ASSUME InRedis!HGet(c)
      PROVE  FALSE
  <2>1. \A x : InRedis!Return(c, x) => x = Unexpected
    BY DEF InRedis!Return, InRedis!TypeOK, Reports
  <2>2. ASSUME NEW l \in {"hdel", "hdelUntimed"}, InRedis!Then(c, l)
        PROVE  FALSE
    <3>1. get[c] \in [at : {"hget", "hdel", "hdelUntimed"}, username : Usernames]
      BY DEF Reports, InRedis!TypeOK, InRedis!Idle
    <3>2. get'[c] = [get[c] EXCEPT !.at = l]
      BY <2>2 DEF InRedis!Then, InRedis!TypeOK
    <3>3. get'[c].at = l
      BY <3>1, <3>2
    <3> QED BY <3>3 DEF Reports
  <2> QED BY <1>4, <2>1, <2>2, UuidMarkersAssumption DEF InRedis!HGet, InRedis!Read
<1>5. InRedis!HDel(c)
  <2>1. ~InRedis!Time /\ ~ UNCHANGED uuidsVars
        /\ \A u \in Usernames, x \in AllUuids : ~InRedis!StoreUuid(u, x)
    BY <1>1 DEF InRedis!Time, uuidsVars, InRedis!StoreUuid
  <2> QED BY <1>2, <1>3, <1>4, <2>1
          DEF SeparatedNext, OfUuids, OfTextures, Clock, allVars, InRedis!CallNext, AllUuids
<1>6. get[c].username \in Usernames
  BY DEF Reports, InRedis!TypeOK, InRedis!Idle
<1>7. ~InRedis!Return(c, Failed)
  BY UuidMarkersAssumption DEF InRedis!Return, InRedis!TypeOK, Reports
<1>8. hash' = [hash EXCEPT ![get[c].username] = InRedis!NoEntry]
  BY <1>5, <1>7 DEF InRedis!HDel
<1> QED BY <1>6, <1>8, UuidMarkersAssumption DEF InRedis!TypeOK, InRedis!NoEntry, InRedis!Untimed

\* Nobody is told about an entry without a timestamp that is still there.
THEOREM ReportedIsRemovedHolds == SeparatedSpec => ReportedIsRemoved
<1>1. InRedis!TypeOK /\ [SeparatedNext]_allVars => InRedis!TypeOK'
  BY NextTypes
<1>2. InRedis!TypeOK /\ [SeparatedNext]_allVars
        => [\A c \in Clients : Reports(c) => hash'[get[c].username] # InRedis!Untimed]_(InRedis!vars)
  BY ReportRemoves
<1> QED BY InitTypes, <1>1, <1>2, PTL
        DEF SeparatedSpec, ReportedIsRemoved, InRedis!ReportedIsRemoved, Reports

=============================================================================
