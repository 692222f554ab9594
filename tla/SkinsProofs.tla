----------------------------- MODULE SkinsProofs -----------------------------
(***************************************************************************)
(* Proofs about Skins, for any number of clients, identities and usernames:*)
(* while no two clients are about one identity or one username, whatever   *)
(* each of them does, and whichever of its commands fail, its records stay *)
(* reachable, and its deletions delete. That the variables keep their types*)
(* needs no such condition.                                                *)
(***************************************************************************)
EXTENDS Skins, TLAPS

\* The identities and the keys that the requests of a client are about, and
\* that no two clients have any in common.
OwnIds(c)  == { s[1] : s \in Scope[c] }
OwnKeys(c) == { Lower[s[2]] : s \in Scope[c] }

ScopesApart ==
  \A c, d \in Clients : c # d =>
    OwnIds(c) \cap OwnIds(d) = {} /\ OwnKeys(c) \cap OwnKeys(d) = {}

-----------------------------------------------------------------------------
(* The inductive invariant *)

\* A handler as in TypeOK; without identities or usernames there is no request,
\* and what is chosen for one that is over is none of them.
Request == [at : {"out", "findHash", "findSkin", "findName", "removeHash", "removeSkin",
                  "removeId", "removeFind", "removeName", "save"},
            op : {"none", "post", "deleteId", "deleteName"},
            id : Ids \cup {NoHandler.id}, name : Names \cup {NoHandler.name},
            read : Names \cup {NoName},
            skin : Skin \cup {NoSkin}, victim : Skin \cup {NoSkin}]

Types ==
  /\ skins \in [Keys -> Record \cup {NoSkin}]
  /\ hash \in [Ids -> Names \cup {NoName}]
  /\ client \in [Clients -> Request]

\* What is stored is in the scope of one client, and where its username says.
DataIsOwned ==
  /\ \A k \in Keys : skins[k] # NoSkin =>
       /\ Lower[skins[k].name] = k
       /\ \E c \in Clients : k \in OwnKeys(c) /\ skins[k].user \in OwnIds(c)
  /\ \A i \in Ids : hash[i] # NoName =>
       \E c \in Clients : i \in OwnIds(c) /\ Lower[hash[i]] \in OwnKeys(c)

\* A record that is found, and where those of identity u can be.
Whole(k) == skins[k] # NoSkin /\ skins[k].whole
OnlyAt(u, K) == \A k \in Keys : Whole(k) /\ skins[k].user = u => k \in K

\* A skin, or none, is in the scope of c.
Owns(c, s) ==
  s # NoSkin => /\ s.user \in OwnIds(c) /\ Lower[s.name] \in OwnKeys(c)
                /\ s.old # NoName => Lower[s.old] \in OwnKeys(c)

Removing == {"removeHash", "removeSkin", "removeId"}
Replacing == Removing \cup {"removeFind", "removeName", "save"}

\* What a handler works on is in its scope.
Scoped(c) ==
  LET h == client[c]
  IN  /\ h.op \in {"post", "deleteId"} => h.id \in OwnIds(c)
      /\ h.op \in {"post", "deleteName"} => h.name \in Names /\ Lower[h.name] \in OwnKeys(c)
      /\ Owns(c, h.skin) /\ Owns(c, h.victim)
      /\ h.read # NoName => Lower[h.read] \in OwnKeys(c)

\* Where a handler of each kind is, and what it has by then.
Staged(c) ==
  LET h == client[c]
  IN  /\ h.at # "out" => h.op # "none"
      /\ h.op = "deleteId" => h.at \in {"findHash", "findSkin"} \cup Removing
      /\ h.op = "deleteName" => h.at \in {"findName"} \cup Removing
      /\ h.at \in Replacing => h.skin # NoSkin
      /\ h.at = "removeName" => h.victim # NoSkin
      /\ h.at \in {"findHash", "findSkin", "findName", "removeHash", "removeSkin"} =>
           h.victim = NoSkin
      /\ h.at \in {"findSkin", "removeSkin"} => h.read # NoName

\* What a handler knows of the records it has read: nobody else has changed
\* them since.
\*   - It looks for the username only when its identity has no record.
\*   - Saving its skin replaces all records of the skin's identity.
\*   - Removing by identity removes the record of that identity, if there is one.
\*   - Removing by username removes all records of the identity found there.
\*   - A DELETE still has the record that its request is about.
Informed(c) ==
  LET h == client[c]
  IN  /\ h.at = "findSkin" => h.read = hash[h.id]
      /\ h.at = "removeSkin" => h.read = hash[Target(c)]
      /\ h.at = "findName" /\ h.op = "post" => OnlyAt(h.id, {})
      /\ h.op = "post" /\ h.at \in Replacing =>
           OnlyAt(h.skin.user, {Lower[h.skin.name]} \cup
                               (IF h.skin.old = NoName THEN {} ELSE {Lower[h.skin.old]}))
      /\ h.at = "removeId" =>
           OnlyAt(Target(c), IF h.victim = NoSkin THEN {} ELSE {Lower[h.victim.name]})
      /\ h.at = "removeName" => OnlyAt(h.victim.user, {Lower[h.victim.name]})
      /\ h.op = "deleteId" /\ h.at \in Removing =>
           hash[h.id] # NoName /\ Find(Lower[hash[h.id]]) = h.skin
      /\ h.op = "deleteName" /\ h.at \in Removing => Find(Lower[h.name]) = h.skin

IInv == /\ Types /\ DataIsOwned /\ RecordsAreReachable
        /\ \A c \in Clients : Scoped(c) /\ Staged(c) /\ Informed(c)

-----------------------------------------------------------------------------
(* Scopes and records *)

LEMMA Scopes ==
  ASSUME NEW c \in Clients
  PROVE  /\ OwnIds(c) \subseteq Ids /\ OwnKeys(c) \subseteq Keys
         /\ \A s \in Scope[c] : /\ s[1] \in Ids /\ s[2] \in Names
                                /\ s[1] \in OwnIds(c) /\ Lower[s[2]] \in OwnKeys(c)
  BY ScopeAssumption DEF OwnIds, OwnKeys, Keys

LEMMA KeyTypes == \A n \in Names : Lower[n] \in Keys
  BY DEF Keys

\* What findByUsername finds.
LEMMA FindFacts ==
  ASSUME Types, NEW k \in Keys
  PROVE  /\ Whole(k) => /\ Find(k) \in Skin /\ Find(k) # NoSkin
                        /\ Find(k).user = skins[k].user /\ Find(k).name = skins[k].name
                        /\ Find(k).old = skins[k].name
                        /\ skins[k] \in Record
         /\ ~ Whole(k) => Find(k) = NoSkin
<1>1. CASE Whole(k)
  <2>1. skins[k] \in Record
    BY <1>1 DEF Types, Whole
  <2>2. Find(k) = [user |-> skins[k].user, name |-> skins[k].name, old |-> skins[k].name]
    BY <1>1 DEF Find, Whole
  <2>3. Find(k) \in Skin
    BY <2>1, <2>2 DEF Record, Skin
  <2>4. Find(k) # NoSkin
    BY <2>3, NoSkinAssumption
  <2> QED BY <1>1, <2>1, <2>2, <2>3, <2>4
<1>2. CASE ~ Whole(k)
  BY <1>2 DEF Find, Whole
<1> QED BY <1>1, <1>2

\* RecordsAreReachable without Find, before and after a step.
Reachable ==
  \A k \in Keys : Whole(k) => hash[skins[k].user] # NoName /\ Lower[hash[skins[k].user]] = k

LEMMA ReachableRecords == Types => (RecordsAreReachable <=> Reachable)
  BY FindFacts DEF RecordsAreReachable, Reachable

LEMMA NextReachableRecords == Types' => (RecordsAreReachable' <=> Reachable')
  BY ReachableRecords, PTL

\* An identity has the record its username in the hash leads to, or none.
LEMMA OnlyRecord ==
  ASSUME IInv, NEW u
  PROVE  OnlyAt(u, IF hash[u] = NoName THEN {} ELSE {Lower[hash[u]]})
  BY ReachableRecords DEF IInv, OnlyAt, Reachable

\* What a client finds under its own keys is its own.
LEMMA FoundIsOwn ==
  ASSUME IInv, ScopesApart, NEW c \in Clients, NEW k \in OwnKeys(c), Find(k) # NoSkin
  PROVE  /\ k \in Keys /\ Whole(k)
         /\ Find(k) \in Skin /\ Owns(c, Find(k))
         /\ Find(k).user = skins[k].user
         /\ Find(k).old = Find(k).name /\ Lower[Find(k).name] = k
         /\ OnlyAt(Find(k).user, {k})
<1>1. k \in Keys /\ Whole(k)
  BY Scopes, FindFacts DEF IInv
<1>2. /\ Find(k) \in Skin /\ Find(k).user = skins[k].user
      /\ Find(k).name = skins[k].name /\ Find(k).old = skins[k].name
  BY <1>1, FindFacts DEF IInv
<1>3. Lower[skins[k].name] = k
  BY <1>1 DEF IInv, DataIsOwned, Whole
<1>4. skins[k].user \in OwnIds(c)
  BY <1>1 DEF IInv, DataIsOwned, Whole, ScopesApart
<1>5. OnlyAt(skins[k].user, {k})
  BY <1>1, ReachableRecords DEF IInv, OnlyAt, Reachable
<1> QED BY <1>1, <1>2, <1>3, <1>4, <1>5 DEF Owns

\* The hash leads an identity of a client to one of its keys.
LEMMA HashIsOwn ==
  ASSUME IInv, ScopesApart, NEW c \in Clients, NEW i \in OwnIds(c), hash[i] # NoName
  PROVE  hash[i] \in Names /\ Lower[hash[i]] \in OwnKeys(c)
<1>1. i \in Ids
  BY Scopes
<1>2. hash[i] \in Names
  BY <1>1 DEF IInv, Types
<1>3. PICK d \in Clients : i \in OwnIds(d) /\ Lower[hash[i]] \in OwnKeys(d)
  BY <1>1 DEF IInv, DataIsOwned
<1>4. d = c
  BY <1>3 DEF ScopesApart
<1> QED BY <1>2, <1>3, <1>4

-----------------------------------------------------------------------------
(* Handlers *)

HandlerOK(c) == Scoped(c) /\ Staged(c) /\ Informed(c)

Labels == {"out", "findHash", "findSkin", "findName", "removeHash", "removeSkin",
           "removeId", "removeFind", "removeName", "save"}

\* A handler becomes h, and the others stay.
LEMMA Becomes ==
  ASSUME Types, NEW c \in Clients, NEW h \in Request, client' = [client EXCEPT ![c] = h]
  PROVE  /\ client'[c] = h /\ \A d \in Clients \ {c} : client'[d] = client[d]
         /\ client' \in [Clients -> Request]
  BY DEF Types

LEMMA GoesTo ==
  ASSUME Types, NEW c \in Clients, NEW l \in Labels, Goto(c, l)
  PROVE  /\ client'[c].at = l
         /\ client'[c].op = client[c].op /\ client'[c].id = client[c].id
         /\ client'[c].name = client[c].name /\ client'[c].read = client[c].read
         /\ client'[c].skin = client[c].skin /\ client'[c].victim = client[c].victim
         /\ \A d \in Clients \ {c} : client'[d] = client[d]
         /\ client' \in [Clients -> Request]
<1> DEFINE h == [client[c] EXCEPT !.at = l]
<1>1. client[c] \in Request
  BY DEF Types
<1>2. /\ h \in Request /\ h.at = l
      /\ h.op = client[c].op /\ h.id = client[c].id /\ h.name = client[c].name
      /\ h.read = client[c].read /\ h.skin = client[c].skin /\ h.victim = client[c].victim
  BY <1>1 DEF Request, Labels
<1>3. client' = [client EXCEPT ![c] = h]
  BY DEF Goto
<1> HIDE DEF h
<1> QED BY <1>2, <1>3, Becomes

LEMMA NoHandlerType ==
  /\ NoHandler \in Request
  /\ NoHandler.at = "out" /\ NoHandler.op = "none"
  /\ NoHandler.read = NoName /\ NoHandler.skin = NoSkin /\ NoHandler.victim = NoSkin
  BY DEF NoHandler, Request

\* A handler that ends has nothing to know.
LEMMA Ends ==
  ASSUME Types, NEW c \in Clients, End(c)
  PROVE  /\ HandlerOK(c)'
         /\ \A d \in Clients \ {c} : client'[d] = client[d]
         /\ client' \in [Clients -> Request]
<1>1. /\ client'[c] = NoHandler /\ \A d \in Clients \ {c} : client'[d] = client[d]
      /\ client' \in [Clients -> Request]
  BY NoHandlerType, Becomes DEF End
<1>2. Scoped(c)'
  BY <1>1, NoHandlerType DEF Scoped, Owns
<1>3. Staged(c)'
  BY <1>1, NoHandlerType DEF Staged, Removing, Replacing
<1>4. Informed(c)'
  BY <1>1, NoHandlerType DEF Informed, Removing, Replacing
<1> QED BY <1>1, <1>2, <1>3, <1>4 DEF HandlerOK

\* After a removal, done or failed, a POST can save: its skin replaces the same
\* records, of which there are fewer at most.
LEMMA Removed ==
  ASSUME IInv, NEW c \in Clients, client[c].at \in Replacing, AfterRemoval(c),
         \A k \in Keys : skins'[k] = skins[k] \/ skins'[k] = NoSkin
  PROVE  /\ HandlerOK(c)'
         /\ \A d \in Clients \ {c} : client'[d] = client[d]
         /\ client' \in [Clients -> Request]
<1>1. CASE client[c].op # "post"
  BY <1>1, Ends DEF AfterRemoval, IInv
<1>2. CASE client[c].op = "post"
  <2>1. Goto(c, "save") /\ "save" \in Labels
    BY <1>2 DEF AfterRemoval, Labels
  <2>2. /\ client'[c].at = "save" /\ client'[c].op = "post" /\ client'[c].id = client[c].id
        /\ client'[c].name = client[c].name /\ client'[c].read = client[c].read
        /\ client'[c].skin = client[c].skin /\ client'[c].victim = client[c].victim
        /\ \A d \in Clients \ {c} : client'[d] = client[d]
        /\ client' \in [Clients -> Request]
    BY <1>2, <2>1, GoesTo DEF IInv
  <2>3. Scoped(c)'
    BY <1>2, <2>2 DEF IInv, Scoped, Owns
  <2>4. Staged(c)'
    BY <2>2 DEF IInv, Staged, Removing, Replacing
  <2>5. \A u, K : OnlyAt(u, K) => OnlyAt(u, K)'
    BY DEF OnlyAt, Whole
  <2>6. Informed(c)'
    BY <1>2, <2>2, <2>5 DEF IInv, Informed, Removing, Replacing
  <2> QED BY <2>2, <2>3, <2>4, <2>6 DEF HandlerOK
<1> QED BY <1>1, <1>2

-----------------------------------------------------------------------------
(* The steps of a handler *)

\* A step of c changes what is in its scope, and every other handler stays.
ChangesOwn(c) ==
  /\ \A d \in Clients \ {c} : client'[d] = client[d]
  /\ \A i \in Ids \ OwnIds(c) : hash'[i] = hash[i]
  /\ \A k \in Keys \ OwnKeys(c) : skins'[k] = skins[k]
  /\ \A k \in Keys : Whole(k)' => skins'[k] = skins[k] \/ skins'[k].user \in OwnIds(c)

\* What the others know stays true.
LEMMA OthersKeep ==
  ASSUME IInv, ScopesApart, NEW c \in Clients, ChangesOwn(c), NEW d \in Clients \ {c}
  PROVE  HandlerOK(d)'
<1> DEFINE h == client[d]
<1>1. client'[d] = h /\ Scoped(d) /\ Staged(d) /\ Informed(d) /\ h \in Request
  BY DEF ChangesOwn, IInv, Types
<1>2. Scoped(d)' /\ Staged(d)'
  BY <1>1 DEF Scoped, Staged, Owns
<1>3. ASSUME NEW i \in OwnIds(d)
      PROVE  i \in Ids /\ hash'[i] = hash[i]
  BY Scopes DEF ScopesApart, ChangesOwn
<1>4. ASSUME NEW k \in OwnKeys(d)
      PROVE  Find(k)' = Find(k)
  <2>1. skins'[k] = skins[k]
    BY Scopes DEF ScopesApart, ChangesOwn
  <2> QED BY <2>1 DEF Find
<1>5. ASSUME NEW u \in OwnIds(d), NEW K, OnlyAt(u, K)
      PROVE  OnlyAt(u, K)'
  <2> SUFFICES ASSUME NEW k \in Keys, Whole(k)', skins'[k].user = u
               PROVE  k \in K
    BY DEF OnlyAt
  <2>1. skins'[k] = skins[k]
    BY DEF ChangesOwn, ScopesApart
  <2>2. Whole(k)
    BY <2>1 DEF Whole
  <2> QED BY <1>5, <2>1, <2>2 DEF OnlyAt
<1>6. h.at \in Removing => Target(d) \in OwnIds(d) /\ Target(d)' = Target(d)
  BY <1>1 DEF Target, Scoped, Staged, Owns, Removing, Replacing
<1>7. h.at = "findSkin" => h.id \in OwnIds(d)
  BY <1>1 DEF Scoped, Staged, Request, Removing
<1>8. Informed(d)'
  <2>1. h.at = "findSkin" => h.read = hash'[h.id]
    BY <1>1, <1>3, <1>7 DEF Informed
  <2>2. h.at = "removeSkin" => h.read = hash'[Target(d)']
    BY <1>1, <1>3, <1>6 DEF Informed, Removing
  <2>3. h.at = "findName" /\ h.op = "post" => OnlyAt(h.id, {})'
    BY <1>1, <1>5 DEF Informed, Scoped
  <2>4. h.op = "post" /\ h.at \in Replacing =>
          OnlyAt(h.skin.user, {Lower[h.skin.name]} \cup
                              (IF h.skin.old = NoName THEN {} ELSE {Lower[h.skin.old]}))'
    <3>1. h.at \in Replacing => h.skin.user \in OwnIds(d)
      BY <1>1 DEF Scoped, Staged, Owns
    <3> QED BY <1>1, <1>5, <3>1 DEF Informed
  <2>5. h.at = "removeId" =>
          OnlyAt(Target(d), IF h.victim = NoSkin THEN {} ELSE {Lower[h.victim.name]})'
    <3>1. CASE h.at = "removeId"
      <4>1. PICK u : u = Target(d)
        OBVIOUS
      <4>2. u \in OwnIds(d) /\ Target(d)' = u
        BY <1>6, <3>1, <4>1 DEF Removing
      <4>3. OnlyAt(u, IF h.victim = NoSkin THEN {} ELSE {Lower[h.victim.name]})
        BY <1>1, <3>1, <4>1 DEF Informed
      <4>4. OnlyAt(u, IF h.victim = NoSkin THEN {} ELSE {Lower[h.victim.name]})'
        BY <1>1, <1>5, <4>2, <4>3
      <4> QED BY <4>2, <4>4
    <3> QED BY <3>1
  <2>6. h.at = "removeName" => OnlyAt(h.victim.user, {Lower[h.victim.name]})'
    <3>1. h.at = "removeName" => h.victim.user \in OwnIds(d)
      BY <1>1 DEF Scoped, Staged, Owns
    <3> QED BY <1>1, <1>5, <3>1 DEF Informed
  <2>7. h.op = "deleteId" /\ h.at \in Removing =>
          hash'[h.id] # NoName /\ Find(Lower[hash[h.id]])' = h.skin
    <3>1. CASE h.op = "deleteId" /\ h.at \in Removing
      <4>1. /\ h.id \in OwnIds(d) /\ hash[h.id] # NoName
            /\ Find(Lower[hash[h.id]]) = h.skin
        BY <1>1, <3>1 DEF Scoped, Informed
      <4>2. PICK k : k = Lower[hash[h.id]]
        OBVIOUS
      <4>3. k \in OwnKeys(d)
        BY <4>1, <4>2, HashIsOwn
      <4>4. Find(k)' = h.skin
        BY <1>4, <4>1, <4>2, <4>3
      <4>5. hash'[h.id] = hash[h.id]
        BY <1>3, <4>1
      <4> QED BY <1>1, <4>1, <4>2, <4>4, <4>5
    <3> QED BY <3>1
  <2>8. h.op = "deleteName" /\ h.at \in Removing => Find(Lower[h.name])' = h.skin
    BY <1>1, <1>4 DEF Scoped, Informed
  <2> QED BY <1>1, <2>1, <2>2, <2>3, <2>4, <2>5, <2>6, <2>7, <2>8 DEF Informed
<1> QED BY <1>2, <1>8 DEF HandlerOK

\* What a step of c has to show.
LEMMA StepKeeps ==
  ASSUME IInv, ScopesApart, NEW c \in Clients, ChangesOwn(c), HandlerOK(c)',
         Types', DataIsOwned', Reachable'
  PROVE  IInv'
<1>1. \A d \in Clients : HandlerOK(d)'
  BY OthersKeep
<1> QED BY <1>1, NextReachableRecords DEF IInv, HandlerOK

\* What a step that only reads has to show.
LEMMA ReadKeeps ==
  ASSUME IInv, ScopesApart, NEW c \in Clients, HandlerOK(c)', UNCHANGED << skins, hash >>,
         client' \in [Clients -> Request],
         \A d \in Clients \ {c} : client'[d] = client[d]
  PROVE  IInv'
<1>1. ChangesOwn(c)
  BY DEF ChangesOwn
<1>2. Types' /\ DataIsOwned'
  BY DEF IInv, Types, DataIsOwned
<1>3. Reachable'
  BY ReachableRecords DEF IInv, Reachable, Whole
<1> QED BY <1>1, <1>2, <1>3, StepKeeps

LEMMA ReadOnly ==
  ASSUME UNCHANGED << skins, hash >>
  PROVE  /\ \A u, K : OnlyAt(u, K)' <=> OnlyAt(u, K)
         /\ \A k : Find(k)' = Find(k)
  BY DEF OnlyAt, Whole, Find

\* The handler of a request that begins.
LEMMA Begins ==
  ASSUME NEW c \in Clients, NEW op \in {"post", "deleteId", "deleteName"},
         NEW l \in {"findHash", "findName"},
         NEW i \in Ids \cup {NoHandler.id}, NEW n \in Names \cup {NoHandler.name},
         Begin(c, op, i, n, l)
  PROVE  \E h \in Request :
           /\ client' = [client EXCEPT ![c] = h]
           /\ h.at = l /\ h.op = op /\ h.id = i /\ h.name = n
           /\ h.read = NoName /\ h.skin = NoSkin /\ h.victim = NoSkin
           /\ UNCHANGED << skins, hash >>
<1> DEFINE h == [NoHandler EXCEPT !.at = l, !.op = op, !.id = i, !.name = n]
<1>1. /\ h \in Request
      /\ h.at = l /\ h.op = op /\ h.id = i /\ h.name = n
      /\ h.read = NoName /\ h.skin = NoSkin /\ h.victim = NoSkin
  BY NoHandlerType DEF Request
<1>2. client' = [client EXCEPT ![c] = h] /\ UNCHANGED << skins, hash >>
  BY DEF Begin
<1> HIDE DEF h
<1> QED BY <1>1, <1>2

\* A request begins.
LEMMA BeginStep ==
  ASSUME IInv, ScopesApart, NEW c \in Clients, Post(c) \/ DeleteById(c) \/ DeleteByName(c)
  PROVE  IInv'
<1>1. PICK h \in Request :
        /\ client' = [client EXCEPT ![c] = h]
        /\ \/ h.op = "post" /\ h.at = "findHash"
           \/ h.op = "deleteId" /\ h.at = "findHash"
           \/ h.op = "deleteName" /\ h.at = "findName"
        /\ h.op \in {"post", "deleteId"} => h.id \in OwnIds(c)
        /\ h.op \in {"post", "deleteName"} => h.name \in Names /\ Lower[h.name] \in OwnKeys(c)
        /\ h.read = NoName /\ h.skin = NoSkin /\ h.victim = NoSkin
        /\ UNCHANGED << skins, hash >>
  <2>1. CASE Post(c)
    <3>1. PICK t \in Scope[c] : Begin(c, "post", t[1], t[2], "findHash")
      BY <2>1 DEF Post
    <3>2. t[1] \in OwnIds(c) /\ t[1] \in Ids /\ t[2] \in Names /\ Lower[t[2]] \in OwnKeys(c)
      BY Scopes
    <3> QED BY <3>1, <3>2, Begins
  <2>2. CASE DeleteById(c)
    <3>1. PICK t \in Scope[c] : Begin(c, "deleteId", t[1], NoHandler.name, "findHash")
      BY <2>2 DEF DeleteById
    <3>2. t[1] \in OwnIds(c) /\ t[1] \in Ids
      BY Scopes
    <3> QED BY <3>1, <3>2, Begins
  <2>3. CASE DeleteByName(c)
    <3>1. PICK t \in Scope[c] : Begin(c, "deleteName", NoHandler.id, t[2], "findName")
      BY <2>3 DEF DeleteByName
    <3>2. t[2] \in Names /\ Lower[t[2]] \in OwnKeys(c)
      BY Scopes
    <3> QED BY <3>1, <3>2, Begins
  <2> QED BY <2>1, <2>2, <2>3
<1>2. /\ client'[c] = h /\ \A d \in Clients \ {c} : client'[d] = client[d]
      /\ client' \in [Clients -> Request]
  BY <1>1, Becomes DEF IInv
<1>3. Scoped(c)'
  BY <1>1, <1>2 DEF Scoped, Owns
<1>4. Staged(c)'
  BY <1>1, <1>2 DEF Staged, Removing, Replacing
<1>5. Informed(c)'
  BY <1>1, <1>2 DEF Informed, Removing, Replacing
<1> QED BY <1>1, <1>2, <1>3, <1>4, <1>5, ReadKeeps DEF HandlerOK

\* A POST goes on to look for its username, when its identity has no record.
LEMMA NotFound ==
  ASSUME IInv, ScopesApart, NEW c \in Clients, NotFoundById(c), UNCHANGED << skins, hash >>,
         client[c].at \in {"findHash", "findSkin"}, OnlyAt(client[c].id, {})
  PROVE  IInv'
<1>1. CASE client[c].op = "post"
  <2>1. Goto(c, "findName") /\ "findName" \in Labels
    BY <1>1 DEF NotFoundById, Labels
  <2>2. /\ client'[c].at = "findName" /\ client'[c].op = "post" /\ client'[c].id = client[c].id
        /\ client'[c].name = client[c].name /\ client'[c].read = client[c].read
        /\ client'[c].skin = client[c].skin /\ client'[c].victim = client[c].victim
        /\ \A d \in Clients \ {c} : client'[d] = client[d]
        /\ client' \in [Clients -> Request]
    BY <1>1, <2>1, GoesTo DEF IInv
  <2>3. Scoped(c)'
    BY <1>1, <2>2 DEF IInv, Scoped, Owns
  <2>4. Staged(c)'
    BY <2>2 DEF IInv, Staged, Removing, Replacing
  <2>5. Informed(c)'
    BY <2>2, ReadOnly DEF Informed, Removing, Replacing
  <2> QED BY <2>2, <2>3, <2>4, <2>5, ReadKeeps DEF HandlerOK
<1>2. CASE client[c].op # "post"
  <2>1. End(c)
    BY <1>2 DEF NotFoundById
  <2> QED BY <2>1, Ends, ReadKeeps DEF IInv
<1> QED BY <1>1, <1>2

LEMMA FindHashStep ==
  ASSUME IInv, ScopesApart, NEW c \in Clients, FindHash(c)
  PROVE  IInv'
<1> DEFINE n == hash[client[c].id]
<1>1. /\ client[c].at = "findHash" /\ UNCHANGED << skins, hash >>
      /\ client[c].op \in {"post", "deleteId"}
      /\ client[c].id \in OwnIds(c) /\ client[c].id \in Ids
  BY Scopes DEF FindHash, IInv, Types, Request, Scoped, Staged, Removing
<1>2. CASE n = NoName
  <2>1. OnlyAt(client[c].id, {})
    BY <1>2, OnlyRecord
  <2> QED BY <1>1, <1>2, <2>1, NotFound DEF FindHash
<1>3. CASE n # NoName
  <2>1. client' = [client EXCEPT ![c].at = "findSkin", ![c].read = n]
    BY <1>3 DEF FindHash
  <2> DEFINE h == [client[c] EXCEPT !.at = "findSkin", !.read = n]
  <2>2. client[c] \in Request /\ n \in Names
    BY <1>1, <1>3 DEF IInv, Types
  <2>3. /\ h \in Request /\ h.at = "findSkin" /\ h.read = n
        /\ h.op = client[c].op /\ h.id = client[c].id /\ h.name = client[c].name
        /\ h.skin = client[c].skin /\ h.victim = client[c].victim
    BY <2>2 DEF Request
  <2>4. client' = [client EXCEPT ![c] = h]
    BY <2>1 DEF IInv, Types
  <2> HIDE DEF h
  <2>5. /\ client'[c] = h /\ \A d \in Clients \ {c} : client'[d] = client[d]
        /\ client' \in [Clients -> Request]
    BY <2>3, <2>4, Becomes DEF IInv
  <2>6. Lower[n] \in OwnKeys(c)
    BY <1>1, <1>3, HashIsOwn
  <2>7. Scoped(c)'
    BY <2>3, <2>5, <2>6 DEF IInv, Scoped, Owns
  <2>8. Staged(c)'
    BY <1>1, <1>3, <2>3, <2>5 DEF IInv, Staged, Removing, Replacing
  <2>9. Informed(c)'
    BY <1>1, <2>3, <2>5 DEF Informed, Removing, Replacing
  <2> QED BY <1>1, <2>5, <2>7, <2>8, <2>9, ReadKeeps DEF HandlerOK
<1> QED BY <1>2, <1>3

\* A record is found by the identity of the request.
LEMMA FindSkinStep ==
  ASSUME IInv, ScopesApart, NEW c \in Clients, FindSkin(c)
  PROVE  IInv'
<1> DEFINE h == client[c]
           k == Lower[h.read]
           s == Find(k)
<1>1. /\ h.at = "findSkin" /\ UNCHANGED << skins, hash >>
      /\ h \in Request /\ h.op \in {"post", "deleteId"}
      /\ h.id \in OwnIds(c)
      /\ h.read = hash[h.id] /\ h.read # NoName
      /\ h.victim \in Skin \cup {NoSkin}
  BY DEF FindSkin, IInv, Types, Request, Scoped, Staged, Informed, Removing
<1>2. k \in OwnKeys(c) /\ k \in Keys
  BY <1>1, HashIsOwn, Scopes
<1>3. CASE s = NoSkin
  <2>1. ~ Whole(k)
    BY <1>2, <1>3, FindFacts DEF IInv
  <2>2. OnlyAt(h.id, {})
    BY <1>1, <1>2, <2>1, OnlyRecord DEF OnlyAt
  <2> QED BY <1>1, <1>3, <2>2, NotFound DEF FindSkin
<1>4. CASE s # NoSkin
  <2>1. /\ s \in Skin /\ Owns(c, s) /\ s.old = s.name /\ Lower[s.name] = k
        /\ OnlyAt(s.user, {k})
    BY <1>2, <1>4, FoundIsOwn
  <2>2. s.name \in Names /\ s.old # NoName
    BY <2>1, LowerAssumption DEF Skin
  <2>3. CASE h.op = "deleteId"
    <3>1. client' = [client EXCEPT ![c] = [h EXCEPT !.at = "removeHash", !.skin = s]]
      BY <1>4, <2>3 DEF FindSkin, IInv, Types
    <3>2. PICK g \in Request :
            /\ client' = [client EXCEPT ![c] = g]
            /\ g.at = "removeHash" /\ g.skin = s /\ g.op = h.op /\ g.id = h.id
            /\ g.name = h.name /\ g.read = h.read /\ g.victim = h.victim
      <4> DEFINE f == [h EXCEPT !.at = "removeHash", !.skin = s]
      <4>1. /\ f \in Request
            /\ f.at = "removeHash" /\ f.skin = s /\ f.op = h.op /\ f.id = h.id
            /\ f.name = h.name /\ f.read = h.read /\ f.victim = h.victim
        BY <1>1, <2>1 DEF Request
      <4> HIDE DEF f
      <4> QED BY <3>1, <4>1 DEF f
    <3>3. /\ client'[c] = g /\ \A d \in Clients \ {c} : client'[d] = client[d]
          /\ client' \in [Clients -> Request]
      BY <3>2, Becomes DEF IInv
    <3>4. Scoped(c)'
      BY <2>1, <3>2, <3>3 DEF IInv, Scoped, Owns
    <3>5. Staged(c)'
      BY <1>1, <1>4, <2>3, <3>2, <3>3 DEF IInv, Staged, Removing, Replacing
    <3>6. PICK r : r = Lower[hash[h.id]] /\ Find(r) = g.skin
      BY <1>1, <3>2
    <3>7. hash' = hash /\ hash[g.id] # NoName /\ r = Lower[hash'[g.id]] /\ Find(r)' = g.skin
      BY <1>1, <3>2, <3>6, ReadOnly
    <3>8. Find(Lower[hash[g.id]])' = g.skin
      BY <3>7
    <3>9. Informed(c)'
      BY <2>3, <3>2, <3>3, <3>7, <3>8 DEF Informed, Removing, Replacing
    <3> QED BY <1>1, <3>3, <3>4, <3>5, <3>9, ReadKeeps DEF HandlerOK
  <2>4. CASE h.op = "post"
    <3> DEFINE l == IF s.name = h.name THEN "save" ELSE "removeHash"
               new == [s EXCEPT !.name = h.name]
    <3>1. h.name \in Names /\ Lower[h.name] \in OwnKeys(c)
      BY <2>4 DEF IInv, Scoped
    <3>2. new \in Skin /\ new.user = s.user /\ new.name = h.name /\ new.old = s.old
      BY <2>1, <3>1 DEF Skin
    <3> HIDE DEF new
    <3>3. client' = [client EXCEPT ![c] = [h EXCEPT !.at = l, !.skin = new]]
      BY <1>4, <2>4 DEF FindSkin, IInv, Types, new
    <3>4. PICK g \in Request :
            /\ client' = [client EXCEPT ![c] = g]
            /\ g.at = l /\ g.skin = new /\ g.op = h.op /\ g.id = h.id
            /\ g.name = h.name /\ g.read = h.read /\ g.victim = h.victim
      <4> DEFINE f == [h EXCEPT !.at = l, !.skin = new]
      <4>1. /\ f \in Request
            /\ f.at = l /\ f.skin = new /\ f.op = h.op /\ f.id = h.id
            /\ f.name = h.name /\ f.read = h.read /\ f.victim = h.victim
        BY <1>1, <3>2 DEF Request
      <4> HIDE DEF f
      <4> QED BY <3>3, <4>1 DEF f
    <3>5. /\ client'[c] = g /\ \A d \in Clients \ {c} : client'[d] = client[d]
          /\ client' \in [Clients -> Request]
      BY <3>4, Becomes DEF IInv
    <3>6. Scoped(c)'
      BY <1>4, <2>1, <3>1, <3>2, <3>4, <3>5 DEF IInv, Scoped, Owns
    <3>7. new # NoSkin
      BY <3>2, NoSkinAssumption
    <3>8. Staged(c)'
      BY <1>1, <2>4, <3>2, <3>4, <3>5, <3>7 DEF IInv, Staged, Removing, Replacing
    <3>9. OnlyAt(new.user, {Lower[new.name]} \cup {Lower[new.old]})
      BY <2>1, <3>2 DEF OnlyAt
    <3>10. PICK u, K : u = g.skin.user /\ K = {Lower[g.skin.name]} \cup {Lower[g.skin.old]}
      OBVIOUS
    <3>11. OnlyAt(u, K)'
      BY <1>1, <3>4, <3>9, <3>10, ReadOnly
    <3>12. g.skin.old # NoName
      BY <2>1, <2>2, <3>2, <3>4
    <3>13. Informed(c)'
      BY <2>4, <3>4, <3>5, <3>10, <3>11, <3>12 DEF Informed, Removing, Replacing
    <3> QED BY <1>1, <3>5, <3>6, <3>8, <3>13, ReadKeeps DEF HandlerOK
  <2> QED BY <1>1, <2>3, <2>4
<1> QED BY <1>3, <1>4

\* A handler goes on to l with what it has now.
Sets(c, l, r, s, v) ==
  client' = [client EXCEPT ![c] =
               [client[c] EXCEPT !.at = l, !.read = r, !.skin = s, !.victim = v]]

\* What the handler is then.
Moved(c, l, r, s, v) ==
  /\ client'[c].at = l
  /\ client'[c].op = client[c].op /\ client'[c].id = client[c].id
  /\ client'[c].name = client[c].name
  /\ client'[c].read = r /\ client'[c].skin = s /\ client'[c].victim = v
  /\ \A d \in Clients \ {c} : client'[d] = client[d]
  /\ client' \in [Clients -> Request]

LEMMA Moves ==
  ASSUME Types, NEW c \in Clients, NEW l \in Labels, NEW r \in Names \cup {NoName},
         NEW s \in Skin \cup {NoSkin}, NEW v \in Skin \cup {NoSkin},
         Sets(c, l, r, s, v)
  PROVE  Moved(c, l, r, s, v)
<1> DEFINE h == [at |-> l, op |-> client[c].op, id |-> client[c].id, name |-> client[c].name,
                 read |-> r, skin |-> s, victim |-> v]
<1>1. client[c] \in Request
  BY DEF Types
<1>2. /\ h \in Request /\ h.at = l
      /\ h.op = client[c].op /\ h.id = client[c].id /\ h.name = client[c].name
      /\ h.read = r /\ h.skin = s /\ h.victim = v
  BY <1>1 DEF Request, Labels
<1>3. h = [client[c] EXCEPT !.at = l, !.read = r, !.skin = s, !.victim = v]
  <2>1. PICK a, o, i, n, q, t, w :
          client[c] = [at |-> a, op |-> o, id |-> i, name |-> n, read |-> q, skin |-> t,
                       victim |-> w]
    BY <1>1 DEF Request
  <2> DEFINE g == [client[c] EXCEPT !.at = l]
             f == [g EXCEPT !.read = r]
             e == [f EXCEPT !.skin = s]
  <2>2. g = [at |-> l, op |-> o, id |-> i, name |-> n, read |-> q, skin |-> t, victim |-> w]
    BY <2>1
  <2> HIDE DEF g
  <2>3. f = [at |-> l, op |-> o, id |-> i, name |-> n, read |-> r, skin |-> t, victim |-> w]
    BY <2>2
  <2> HIDE DEF f
  <2>4. e = [at |-> l, op |-> o, id |-> i, name |-> n, read |-> r, skin |-> s, victim |-> w]
    BY <2>3
  <2> HIDE DEF e
  <2>5. [e EXCEPT !.victim = v] = h
    BY <2>1, <2>4
  <2>6. [e EXCEPT !.victim = v]
          = [client[c] EXCEPT !.at = l, !.read = r, !.skin = s, !.victim = v]
    BY DEF e, f, g
  <2> QED BY <2>5, <2>6
<1>4. client' = [client EXCEPT ![c] = h]
  BY <1>3 DEF Sets
<1> HIDE DEF h
<1>5. /\ client'[c] = h /\ \A d \in Clients \ {c} : client'[d] = client[d]
      /\ client' \in [Clients -> Request]
  BY <1>2, <1>4, Becomes
<1> QED BY <1>2, <1>5 DEF Moved

\* A record is looked for under the username of the request.
LEMMA FindNameStep ==
  ASSUME IInv, ScopesApart, NEW c \in Clients, FindName(c)
  PROVE  IInv'
<1> DEFINE h == client[c]
<1>1. /\ h.at = "findName" /\ UNCHANGED << skins, hash >>
      /\ h \in Request /\ h.op \in {"post", "deleteName"}
      /\ h.name \in Names /\ Lower[h.name] \in OwnKeys(c) /\ Lower[h.name] \in Keys
      /\ h.read \in Names \cup {NoName} /\ h.victim = NoSkin
      /\ h.op = "post" => h.id \in OwnIds(c) /\ h.id \in Ids /\ OnlyAt(h.id, {})
  <2>1. h.at = "findName" /\ UNCHANGED << skins, hash >> /\ h \in Request
    BY DEF FindName, IInv, Types
  <2>2. h.op \in {"post", "deleteName"} /\ h.victim = NoSkin
    BY <2>1 DEF IInv, Request, Staged, Removing
  <2>3. /\ h.name \in Names /\ Lower[h.name] \in OwnKeys(c)
        /\ h.op = "post" => h.id \in OwnIds(c)
    BY <2>2 DEF IInv, Scoped
  <2>4. h.op = "post" => OnlyAt(h.id, {})
    BY <2>1 DEF IInv, Informed
  <2> QED BY <2>1, <2>2, <2>3, <2>4, Scopes DEF Request
<1>2. PICK k : k = Lower[h.name]
  OBVIOUS
<1>3. PICK s : s = Find(k)
  OBVIOUS
<1>4. k \in OwnKeys(c) /\ k \in Keys
  BY <1>1, <1>2
<1>5. s # NoSkin => /\ s \in Skin /\ Owns(c, s)
                    /\ s.old = s.name /\ Lower[s.name] = k /\ s.old # NoName
  <2>1. s # NoSkin => s \in Skin /\ Owns(c, s) /\ s.old = s.name /\ Lower[s.name] = k
    BY <1>3, <1>4, FoundIsOwn
  <2> QED BY <2>1, LowerAssumption DEF Skin
<1>6. {"save", "removeFind", "removeHash"} \subseteq Labels
  BY DEF Labels
<1>7. CASE h.op = "post" /\ s = NoSkin
  <2>1. PICK t : t = [user |-> h.id, name |-> h.name, old |-> NoName]
    OBVIOUS
  <2>2. t \in Skin /\ t # NoSkin /\ t.user = h.id /\ t.name = h.name /\ t.old = NoName
    BY <1>1, <1>7, <2>1, NoSkinAssumption DEF Skin
  <2>3. client' = [client EXCEPT ![c].at = "save", ![c].skin = t]
    BY <1>2, <1>3, <1>7, <2>1 DEF FindName
  <2>4. Sets(c, "save", h.read, t, h.victim)
    BY <1>1, <2>3 DEF IInv, Types, Request, Sets
  <2>5. /\ client'[c].at = "save" /\ client'[c].op = "post" /\ client'[c].id = h.id
        /\ client'[c].name = h.name
        /\ client'[c].read = h.read /\ client'[c].skin = t /\ client'[c].victim = h.victim
        /\ \A d \in Clients \ {c} : client'[d] = client[d]
        /\ client' \in [Clients -> Request]
    <3>1. Types /\ t \in Skin \cup {NoSkin} /\ "save" \in Labels
      BY <1>6, <2>2 DEF IInv
    <3>2. Moved(c, "save", h.read, t, h.victim)
      BY <1>1, <2>4, <3>1, Moves
    <3> QED BY <1>7, <3>2 DEF Moved
  <2>6. Scoped(c)'
    BY <1>1, <1>7, <2>2, <2>5 DEF IInv, Scoped, Owns
  <2>7. Staged(c)'
    BY <2>2, <2>5 DEF Staged, Removing, Replacing
  <2>8. OnlyAt(t.user, {Lower[t.name]})
    BY <1>1, <1>7, <2>2 DEF OnlyAt
  <2>9. PICK u, K : u = t.user /\ K = {Lower[t.name]} /\ OnlyAt(u, K)'
    BY <1>1, <2>8, ReadOnly
  <2>10. Informed(c)'
    BY <2>2, <2>5, <2>9 DEF Informed, Removing, Replacing
  <2> QED BY <1>1, <2>5, <2>6, <2>7, <2>10, ReadKeeps DEF HandlerOK
<1>8. CASE h.op = "post" /\ s # NoSkin
  <2>1. PICK t : t = [s EXCEPT !.user = h.id]
    OBVIOUS
  <2>2. /\ t \in Skin /\ t # NoSkin /\ t.user = h.id /\ t.name = s.name /\ t.old = s.old
        /\ Owns(c, t)
    BY <1>1, <1>5, <1>8, <2>1, NoSkinAssumption DEF Skin, Owns
  <2>3. client' = [client EXCEPT ![c].at = "removeFind", ![c].skin = t]
    BY <1>2, <1>3, <1>8, <2>1 DEF FindName
  <2>4. Sets(c, "removeFind", h.read, t, h.victim)
    BY <1>1, <2>3 DEF IInv, Types, Request, Sets
  <2>5. /\ client'[c].at = "removeFind" /\ client'[c].op = "post" /\ client'[c].id = h.id
        /\ client'[c].name = h.name
        /\ client'[c].read = h.read /\ client'[c].skin = t /\ client'[c].victim = h.victim
        /\ \A d \in Clients \ {c} : client'[d] = client[d]
        /\ client' \in [Clients -> Request]
    <3>1. Types /\ t \in Skin \cup {NoSkin} /\ "removeFind" \in Labels
      BY <1>6, <2>2 DEF IInv
    <3>2. Moved(c, "removeFind", h.read, t, h.victim)
      BY <1>1, <2>4, <3>1, Moves
    <3> QED BY <1>8, <3>2 DEF Moved
  <2>6. Scoped(c)'
    BY <1>1, <1>8, <2>2, <2>5 DEF IInv, Scoped, Owns
  <2>7. Staged(c)'
    BY <2>2, <2>5 DEF Staged, Removing, Replacing
  <2>8. OnlyAt(t.user, {Lower[t.name]} \cup {Lower[t.old]})
    BY <1>1, <1>8, <2>2 DEF OnlyAt
  <2>9. PICK u, K : u = t.user /\ K = {Lower[t.name]} \cup {Lower[t.old]} /\ OnlyAt(u, K)'
    BY <1>1, <2>8, ReadOnly
  <2>10. Informed(c)'
    BY <1>5, <1>8, <2>2, <2>5, <2>9 DEF Informed, Removing, Replacing
  <2> QED BY <1>1, <2>5, <2>6, <2>7, <2>10, ReadKeeps DEF HandlerOK
<1>9. CASE h.op = "deleteName" /\ s = NoSkin
  <2>1. End(c)
    BY <1>2, <1>3, <1>9 DEF FindName
  <2> QED BY <1>1, <2>1, Ends, ReadKeeps DEF IInv
<1>10. CASE h.op = "deleteName" /\ s # NoSkin
  <2>1. client' = [client EXCEPT ![c].at = "removeHash", ![c].skin = s]
    BY <1>2, <1>3, <1>10 DEF FindName
  <2>2. Sets(c, "removeHash", h.read, s, h.victim)
    BY <1>1, <2>1 DEF IInv, Types, Request, Sets
  <2>3. /\ client'[c].at = "removeHash" /\ client'[c].op = "deleteName" /\ client'[c].id = h.id
        /\ client'[c].name = h.name
        /\ client'[c].read = h.read /\ client'[c].skin = s /\ client'[c].victim = h.victim
        /\ \A d \in Clients \ {c} : client'[d] = client[d]
        /\ client' \in [Clients -> Request]
    <3>1. Types /\ s \in Skin \cup {NoSkin} /\ "removeHash" \in Labels
      BY <1>5, <1>6, <1>10 DEF IInv
    <3>2. Moved(c, "removeHash", h.read, s, h.victim)
      BY <1>1, <2>2, <3>1, Moves
    <3> QED BY <1>10, <3>2 DEF Moved
  <2>4. Scoped(c)'
    BY <1>1, <1>5, <1>10, <2>3 DEF IInv, Scoped, Owns
  <2>5. Staged(c)'
    BY <1>1, <1>10, <2>3 DEF Staged, Removing, Replacing
  <2>6. Find(k)' = s
    BY <1>1, <1>3, ReadOnly
  <2>7. k = Lower[client'[c].name]
    BY <1>2, <2>3
  <2>8. Find(Lower[client[c].name])' = client'[c].skin
    BY <2>3, <2>6, <2>7
  <2>9. Informed(c)'
    BY <2>3, <2>8 DEF Informed, Removing, Replacing
  <2> QED BY <1>1, <2>3, <2>4, <2>5, <2>9, ReadKeeps DEF HandlerOK
<1> QED BY <1>1, <1>7, <1>8, <1>9, <1>10

\* What Informed says of the skin of a POST, and of the record that a DELETE is
\* about.
KnowsSkin(c) ==
  LET h == client[c]
  IN  h.op = "post" /\ h.at \in Replacing =>
        OnlyAt(h.skin.user, {Lower[h.skin.name]} \cup
                            (IF h.skin.old = NoName THEN {} ELSE {Lower[h.skin.old]}))

KnowsDeleted(c) ==
  LET h == client[c]
  IN  /\ h.op = "deleteId" /\ h.at \in Removing =>
           hash[h.id] # NoName /\ Find(Lower[hash[h.id]]) = h.skin
      /\ h.op = "deleteName" /\ h.at \in Removing => Find(Lower[h.name]) = h.skin

\* While a handler looks for what to remove, it knows what it knew.
LEMMA RemovingKnows ==
  ASSUME IInv, NEW c \in Clients, UNCHANGED << skins, hash >>,
         client[c].at \in Replacing, client[c].op = "post" \/ client[c].at \in Removing,
         client'[c].op = client[c].op, client'[c].id = client[c].id,
         client'[c].name = client[c].name, client'[c].skin = client[c].skin
  PROVE  /\ KnowsSkin(c)' /\ KnowsDeleted(c)'
         /\ Target(c)' = Target(c)
<1>1. Informed(c)
  BY DEF IInv
<1>2. KnowsSkin(c)'
  BY <1>1, ReadOnly DEF KnowsSkin, Informed
<1>3. KnowsDeleted(c)'
  <2>1. ASSUME client[c].op = "deleteId"
        PROVE  hash'[client[c].id] # NoName /\ Find(Lower[hash[client[c].id]])' = client[c].skin
    <3>1. PICK k : k = Lower[hash[client[c].id]] /\ Find(k) = client[c].skin
      BY <1>1, <2>1 DEF Informed
    <3>2. hash[client[c].id] # NoName
      BY <1>1, <2>1 DEF Informed
    <3>3. Find(k)' = client[c].skin
      BY <3>1, ReadOnly
    <3>4. k = Lower[hash'[client'[c].id]]
      BY <3>1
    <3> QED BY <3>2, <3>3, <3>4
  <2>2. ASSUME client[c].op = "deleteName"
        PROVE  Find(Lower[client[c].name])' = client[c].skin
    <3>1. PICK k : k = Lower[client[c].name] /\ Find(k) = client[c].skin
      BY <1>1, <2>2 DEF Informed
    <3>2. Find(k)' = client[c].skin
      BY <3>1, ReadOnly
    <3> QED BY <3>1, <3>2
  <2> QED BY <2>1, <2>2 DEF KnowsDeleted
<1> QED BY <1>2, <1>3 DEF Target

\* The identity that a handler removes is its own.
LEMMA TargetIsOwn ==
  ASSUME IInv, NEW c \in Clients, client[c].at \in Removing
  PROVE  Target(c) \in OwnIds(c) /\ Target(c) \in Ids
<1>1. Target(c) \in OwnIds(c)
  BY DEF Target, IInv, Scoped, Staged, Owns, Replacing
<1> QED BY <1>1, Scopes

LEMMA RemoveHashStep ==
  ASSUME IInv, ScopesApart, NEW c \in Clients, RemoveHash(c)
  PROVE  IInv'
<1> DEFINE h == client[c]
<1>1. PICK n : n = hash[Target(c)]
  OBVIOUS
<1>2. PICK l : l = IF n = NoName THEN "removeId" ELSE "removeSkin"
  OBVIOUS
<1>3. /\ h.at = "removeHash" /\ h.at \in Removing /\ h.at \in Replacing
      /\ UNCHANGED << skins, hash >>
      /\ client' = [client EXCEPT ![c].at = l, ![c].read = n]
  BY <1>1, <1>2 DEF RemoveHash, Removing, Replacing
<1>4. h \in Request /\ h.skin \in Skin \cup {NoSkin} /\ h.victim = NoSkin /\ h.skin # NoSkin
  BY <1>3 DEF IInv, Types, Request, Staged
<1>5. Target(c) \in OwnIds(c) /\ Target(c) \in Ids
  BY <1>3, TargetIsOwn
<1>6. n \in Names \cup {NoName} /\ (n # NoName => Lower[n] \in OwnKeys(c))
  BY <1>1, <1>5, HashIsOwn DEF IInv, Types
<1>7. Sets(c, l, n, h.skin, h.victim)
  BY <1>3, <1>4 DEF IInv, Types, Request, Sets
<1>8. /\ client'[c].at = l /\ client'[c].op = h.op /\ client'[c].id = h.id
      /\ client'[c].name = h.name
      /\ client'[c].read = n /\ client'[c].skin = h.skin /\ client'[c].victim = h.victim
      /\ \A d \in Clients \ {c} : client'[d] = client[d]
      /\ client' \in [Clients -> Request]
  <2>1. /\ Types /\ l \in Labels /\ n \in Names \cup {NoName}
        /\ h.skin \in Skin \cup {NoSkin} /\ h.victim \in Skin \cup {NoSkin}
    BY <1>2, <1>4, <1>6 DEF IInv, Labels
  <2>2. Moved(c, l, n, h.skin, h.victim)
    BY <1>7, <2>1, Moves
  <2> QED BY <2>2 DEF Moved
<1>9. Scoped(c)'
  BY <1>6, <1>8 DEF IInv, Scoped, Owns
<1>10. Staged(c)'
  BY <1>2, <1>3, <1>4, <1>8 DEF IInv, Staged, Removing, Replacing
<1>11. KnowsSkin(c)' /\ KnowsDeleted(c)' /\ Target(c)' = Target(c)
  BY <1>3, <1>8, RemovingKnows
<1>12. l = "removeSkin" => n = hash'[Target(c)']
  BY <1>1, <1>3, <1>11
<1>13. l = "removeId" => OnlyAt(Target(c), {})'
  <2>1. PICK u : u = Target(c)
    OBVIOUS
  <2>2. l = "removeId" => OnlyAt(u, {})
    BY <1>1, <1>2, <2>1, OnlyRecord
  <2>3. l = "removeId" => OnlyAt(u, {})'
    BY <1>3, <2>2, ReadOnly
  <2> QED BY <1>11, <2>1, <2>3
<1>14. Informed(c)'
  BY <1>2, <1>4, <1>8, <1>11, <1>12, <1>13
     DEF Informed, KnowsSkin, KnowsDeleted, Removing, Replacing
<1> QED BY <1>3, <1>8, <1>9, <1>10, <1>14, ReadKeeps DEF HandlerOK

LEMMA RemoveSkinStep ==
  ASSUME IInv, ScopesApart, NEW c \in Clients, RemoveSkin(c)
  PROVE  IInv'
<1> DEFINE h == client[c]
<1>1. PICK k : k = Lower[h.read]
  OBVIOUS
<1>2. PICK v : v = Find(k)
  OBVIOUS
<1>3. /\ h.at = "removeSkin" /\ h.at \in Removing /\ h.at \in Replacing
      /\ UNCHANGED << skins, hash >>
      /\ client' = [client EXCEPT ![c].at = "removeId", ![c].victim = v]
  BY <1>1, <1>2 DEF RemoveSkin, Removing, Replacing
<1>4. /\ h \in Request /\ h.skin \in Skin \cup {NoSkin} /\ h.skin # NoSkin
      /\ h.read \in Names \cup {NoName}
  BY <1>3 DEF IInv, Types, Request, Staged
<1>5. h.read # NoName /\ h.read = hash[Target(c)] /\ k \in OwnKeys(c)
  BY <1>1, <1>3 DEF IInv, Staged, Informed, Scoped
<1>6. v # NoSkin => v \in Skin /\ Owns(c, v) /\ Lower[v.name] = k
  BY <1>2, <1>5, FoundIsOwn
<1>7. Sets(c, "removeId", h.read, h.skin, v)
  BY <1>3, <1>4 DEF IInv, Types, Request, Sets
<1>8. /\ client'[c].at = "removeId" /\ client'[c].op = h.op /\ client'[c].id = h.id
      /\ client'[c].name = h.name
      /\ client'[c].read = h.read /\ client'[c].skin = h.skin /\ client'[c].victim = v
      /\ \A d \in Clients \ {c} : client'[d] = client[d]
      /\ client' \in [Clients -> Request]
  <2>1. /\ Types /\ "removeId" \in Labels
        /\ h.read \in Names \cup {NoName} /\ h.skin \in Skin \cup {NoSkin}
        /\ v \in Skin \cup {NoSkin}
    BY <1>4, <1>6 DEF IInv, Labels
  <2>2. PICK q, s : q = h.read /\ s = h.skin
    OBVIOUS
  <2>3. Sets(c, "removeId", q, s, v)
    BY <1>7, <2>2
  <2>4. /\ q \in Names \cup {NoName} /\ s \in Skin \cup {NoSkin}
    BY <2>1, <2>2
  <2>5. /\ client'[c].at = "removeId"
        /\ client'[c].op = client[c].op /\ client'[c].id = client[c].id
        /\ client'[c].name = client[c].name
        /\ client'[c].read = q /\ client'[c].skin = s /\ client'[c].victim = v
        /\ \A d \in Clients \ {c} : client'[d] = client[d]
        /\ client' \in [Clients -> Request]
    <3>1. Moved(c, "removeId", q, s, v)
      BY <2>1, <2>3, <2>4, Moves
    <3> QED BY <3>1 DEF Moved
  <2> QED BY <2>2, <2>5
<1>9. Scoped(c)'
  BY <1>6, <1>8 DEF IInv, Scoped, Owns
<1>10. Staged(c)'
  BY <1>3, <1>4, <1>8 DEF IInv, Staged, Removing, Replacing
<1>11. KnowsSkin(c)' /\ KnowsDeleted(c)' /\ Target(c)' = Target(c)
  BY <1>3, <1>8, RemovingKnows
<1>12. PICK u, K : /\ u = Target(c)
                   /\ K = IF v = NoSkin THEN {} ELSE {Lower[v.name]}
  OBVIOUS
<1>13. OnlyAt(u, K)
  <2>1. OnlyAt(u, {k})
    BY <1>1, <1>5, <1>12, OnlyRecord
  <2>2. v = NoSkin => ~ Whole(k)
    BY <1>2, <1>5, Scopes, FindFacts DEF IInv
  <2> QED BY <1>6, <1>12, <2>1, <2>2 DEF OnlyAt
<1>14. OnlyAt(Target(c), IF client[c].victim = NoSkin THEN {}
                         ELSE {Lower[client[c].victim.name]})'
  <2>1. OnlyAt(u, K)'
    BY <1>3, <1>13, ReadOnly
  <2>2. u = Target(c)' /\ K = IF client'[c].victim = NoSkin THEN {}
                              ELSE {Lower[client'[c].victim.name]}
    BY <1>8, <1>11, <1>12
  <2> QED BY <2>1, <2>2
<1>15. Informed(c)'
  BY <1>8, <1>11, <1>14 DEF Informed, KnowsSkin, KnowsDeleted, Removing, Replacing
<1> QED BY <1>3, <1>8, <1>9, <1>10, <1>15, ReadKeeps DEF HandlerOK

LEMMA RemoveFindStep ==
  ASSUME IInv, ScopesApart, NEW c \in Clients, RemoveFind(c)
  PROVE  IInv'
<1> DEFINE h == client[c]
<1>1. PICK k : k = Lower[h.name]
  OBVIOUS
<1>2. PICK v : v = Find(k)
  OBVIOUS
<1>3. h.at = "removeFind" /\ h.at \in Replacing /\ UNCHANGED << skins, hash >>
  BY DEF RemoveFind, Replacing
<1>4. /\ h \in Request /\ h.skin \in Skin \cup {NoSkin} /\ h.skin # NoSkin
      /\ h.read \in Names \cup {NoName}
  BY <1>3 DEF IInv, Types, Request, Staged
<1>5. h.op = "post"
  BY <1>3, <1>4 DEF IInv, Request, Staged, Removing
<1>6. CASE v = NoSkin
  <2>1. AfterRemoval(c)
    BY <1>1, <1>2, <1>6 DEF RemoveFind
  <2> QED BY <1>3, <2>1, Removed, ReadKeeps
<1>7. CASE v # NoSkin
  <2>1. k \in OwnKeys(c)
    BY <1>1, <1>5 DEF IInv, Scoped
  <2>2. v \in Skin /\ Owns(c, v) /\ OnlyAt(v.user, {Lower[v.name]})
    BY <1>2, <1>7, <2>1, FoundIsOwn
  <2>3. client' = [client EXCEPT ![c].at = "removeName", ![c].victim = v]
    BY <1>1, <1>2, <1>7 DEF RemoveFind
  <2>4. Sets(c, "removeName", h.read, h.skin, v)
    BY <1>4, <2>3 DEF IInv, Types, Request, Sets
  <2>5. /\ client'[c].at = "removeName" /\ client'[c].op = h.op /\ client'[c].id = h.id
        /\ client'[c].name = h.name
        /\ client'[c].read = h.read /\ client'[c].skin = h.skin /\ client'[c].victim = v
        /\ \A d \in Clients \ {c} : client'[d] = client[d]
        /\ client' \in [Clients -> Request]
    <3>1. Types /\ "removeName" \in Labels /\ v \in Skin \cup {NoSkin}
      BY <2>2 DEF IInv, Labels
    <3>2. Moved(c, "removeName", h.read, h.skin, v)
      BY <1>4, <2>4, <3>1, Moves
    <3> QED BY <3>2 DEF Moved
  <2>6. Scoped(c)'
    BY <2>2, <2>5 DEF IInv, Scoped, Owns
  <2>7. Staged(c)'
    BY <1>4, <1>5, <1>7, <2>5 DEF Staged, Removing, Replacing
  <2>8. KnowsSkin(c)'
    BY <1>3, <1>5, <2>5, RemovingKnows
  <2>9. OnlyAt(v.user, {Lower[v.name]})'
    BY <1>3, <2>2, ReadOnly
  <2>10. Informed(c)'
    BY <1>5, <2>5, <2>8, <2>9 DEF Informed, KnowsSkin, Removing, Replacing
  <2> QED BY <1>3, <2>5, <2>6, <2>7, <2>10, ReadKeeps DEF HandlerOK
<1> QED BY <1>6, <1>7

\* A handler is over, or saves without having removed.
LEMMA FailStep ==
  ASSUME IInv, ScopesApart, NEW c \in Clients, Fail(c)
  PROVE  IInv'
<1>1. CASE client[c].at \in {"findHash", "findSkin", "findName", "save"}
  <2>1. End(c)
    BY <1>1 DEF Fail
  <2> QED BY <2>1, Ends, ReadKeeps DEF Fail, IInv
<1>2. CASE client[c].at \notin {"findHash", "findSkin", "findName", "save"}
  <2>1. client[c].at \in Replacing
    BY <1>2 DEF Fail, IInv, Types, Request, Removing, Replacing
  <2> QED BY <1>2, <2>1, Removed, ReadKeeps DEF Fail
<1> QED BY <1>1, <1>2

\* A transaction that removes records of c and cleans up the hash of one of its
\* identities: all records of that identity are gone.
LEMMA RemovalKeeps ==
  ASSUME IInv, ScopesApart, NEW c \in Clients, client[c].at \in Replacing, AfterRemoval(c),
         NEW u \in OwnIds(c), hash' = [hash EXCEPT ![u] = NoName],
         skins' \in [Keys -> Record \cup {NoSkin}],
         \A k \in Keys : \/ skins'[k] = skins[k]
                         \/ k \in OwnKeys(c) /\ skins'[k] = NoSkin,
         \A k \in Keys : Whole(k)' => skins'[k].user # u
  PROVE  IInv'
<1>1. u \in Ids
  BY Scopes
<1>2. hash \in [Ids -> Names \cup {NoName}]
  BY DEF IInv, Types
<1>3. hash' \in [Ids -> Names \cup {NoName}] /\ \A i \in Ids \ {u} : hash'[i] = hash[i]
  BY <1>2
<1>4. hash'[u] = NoName
  BY <1>1, <1>2
<1>5. /\ HandlerOK(c)'
      /\ \A d \in Clients \ {c} : client'[d] = client[d]
      /\ client' \in [Clients -> Request]
  BY Removed
<1>6. \A k \in Keys : skins'[k] # NoSkin => skins'[k] = skins[k]
  OBVIOUS
<1>7. ChangesOwn(c)
  <2>1. \A k \in Keys \ OwnKeys(c) : skins'[k] = skins[k]
    OBVIOUS
  <2>2. \A k \in Keys : Whole(k)' => skins'[k] = skins[k]
    BY <1>6 DEF Whole
  <2> QED BY <1>3, <1>5, <2>1, <2>2 DEF ChangesOwn
<1>8. Types'
  BY <1>3, <1>5 DEF Types
<1>9. DataIsOwned'
  BY <1>3, <1>4, <1>6 DEF IInv, DataIsOwned
<1>10. Reachable'
  <2> SUFFICES ASSUME NEW k \in Keys, Whole(k)'
               PROVE  hash'[skins'[k].user] # NoName /\ Lower[hash'[skins'[k].user]] = k
    BY DEF Reachable
  <2>1. skins'[k] = skins[k] /\ Whole(k)
    BY <1>6 DEF Whole
  <2>2. skins[k].user \in Ids /\ skins[k].user # u
    BY <2>1, FindFacts DEF IInv, Record
  <2> QED BY <1>3, <2>1, <2>2, ReachableRecords DEF IInv, Reachable
<1> QED BY <1>5, <1>7, <1>8, <1>9, <1>10, StepKeeps

\* What is removed by identity is the record of that identity, if there is one.
LEMMA RemoveIdStep ==
  ASSUME IInv, ScopesApart, NEW c \in Clients, RemoveId(c)
  PROVE  IInv'
<1> DEFINE h == client[c]
           v == h.victim
<1>1. PICK u : u = Target(c)
  OBVIOUS
<1>2. /\ h.at = "removeId" /\ h.at \in Removing /\ h.at \in Replacing /\ AfterRemoval(c)
      /\ hash' = [hash EXCEPT ![u] = NoName]
      /\ skins' = IF v = NoSkin THEN skins ELSE [skins EXCEPT ![Lower[v.name]] = NoSkin]
  BY <1>1 DEF RemoveId, Removing, Replacing
<1>3. u \in OwnIds(c)
  BY <1>1, <1>2, TargetIsOwn
<1>4. v # NoSkin => Lower[v.name] \in OwnKeys(c)
  BY DEF IInv, Scoped, Owns
<1>5. skins \in [Keys -> Record \cup {NoSkin}]
  BY DEF IInv, Types
<1>6. /\ skins' \in [Keys -> Record \cup {NoSkin}]
      /\ \A k \in Keys : \/ skins'[k] = skins[k]
                         \/ k \in OwnKeys(c) /\ skins'[k] = NoSkin
  BY <1>2, <1>4, <1>5
<1>7. OnlyAt(u, IF v = NoSkin THEN {} ELSE {Lower[v.name]})
  BY <1>1, <1>2 DEF IInv, Informed
<1>8. ASSUME NEW k \in Keys, Whole(k)'
      PROVE  skins'[k].user # u
  <2>1. skins'[k] # NoSkin /\ skins'[k] = skins[k] /\ Whole(k)
    BY <1>6, <1>8 DEF Whole
  <2>2. v # NoSkin => k # Lower[v.name]
    BY <1>2, <1>5, <2>1
  <2> QED BY <1>7, <2>1, <2>2 DEF OnlyAt
<1> QED BY <1>2, <1>3, <1>6, <1>8, RemovalKeeps

\* What is removed by username is the only record of its identity.
LEMMA RemoveNameStep ==
  ASSUME IInv, ScopesApart, NEW c \in Clients, RemoveName(c)
  PROVE  IInv'
<1> DEFINE h == client[c]
           v == h.victim
<1>1. PICK u : u = v.user
  OBVIOUS
<1>2. /\ h.at = "removeName" /\ h.at \in Replacing /\ AfterRemoval(c)
      /\ hash' = [hash EXCEPT ![u] = NoName]
      /\ skins' = [skins EXCEPT ![Lower[v.name]] = NoSkin]
  BY <1>1 DEF RemoveName, Removing, Replacing
<1>3. u \in OwnIds(c) /\ Lower[v.name] \in OwnKeys(c)
  BY <1>1, <1>2 DEF IInv, Scoped, Staged, Owns
<1>4. skins \in [Keys -> Record \cup {NoSkin}]
  BY DEF IInv, Types
<1>5. /\ skins' \in [Keys -> Record \cup {NoSkin}]
      /\ \A k \in Keys : \/ skins'[k] = skins[k]
                         \/ k \in OwnKeys(c) /\ skins'[k] = NoSkin
  BY <1>2, <1>3, <1>4
<1>6. OnlyAt(u, {Lower[v.name]})
  BY <1>1, <1>2 DEF IInv, Informed
<1>7. ASSUME NEW k \in Keys, Whole(k)'
      PROVE  skins'[k].user # u
  <2>1. skins'[k] # NoSkin /\ skins'[k] = skins[k] /\ Whole(k)
    BY <1>5, <1>7 DEF Whole
  <2>2. k # Lower[v.name]
    BY <1>2, <1>4, <2>1
  <2> QED BY <1>6, <2>1, <2>2 DEF OnlyAt
<1> QED BY <1>2, <1>3, <1>5, <1>7, RemovalKeeps

\* A skin is saved over all records of its identity.
LEMMA SaveStep ==
  ASSUME IInv, ScopesApart, NEW c \in Clients, Save(c)
  PROVE  IInv'
<1>1. PICK s : s = client[c].skin
  OBVIOUS
<1>2. PICK u, n : u = s.user /\ n = s.name
  OBVIOUS
<1>3. /\ client[c].at = "save" /\ client[c].at \in Replacing /\ End(c)
      /\ skins' = Stored(s) /\ hash' = [hash EXCEPT ![u] = n]
  BY <1>1, <1>2 DEF Save, Removing, Replacing
<1>4. s \in Skin /\ s # NoSkin /\ u \in OwnIds(c) /\ Lower[n] \in OwnKeys(c)
  BY <1>1, <1>2, <1>3 DEF IInv, Types, Request, Scoped, Staged, Owns
<1>5. /\ u \in Ids /\ n \in Names /\ Lower[n] \in Keys /\ n # NoName
      /\ s.old # NoName => Lower[s.old] \in OwnKeys(c)
  BY <1>1, <1>2, <1>4, KeyTypes, LowerAssumption DEF Skin, IInv, Scoped, Owns
<1>6. client[c].op = "post"
  BY <1>3 DEF IInv, Types, Request, Staged, Removing
<1>7. OnlyAt(u, {Lower[n]} \cup (IF s.old = NoName THEN {} ELSE {Lower[s.old]}))
  BY <1>1, <1>2, <1>3, <1>6 DEF IInv, Informed
<1> DEFINE r == [user |-> u, name |-> n, whole |-> TRUE]
<1>8. r \in Record /\ r # NoSkin /\ r.user = u /\ r.name = n /\ r.whole
  <2>1. r \in Record /\ r.user = u /\ r.name = n /\ r.whole
    BY <1>5 DEF Record
  <2> QED BY <2>1, NoSkinAssumption
<1> HIDE DEF r
<1>9. /\ skins' \in [Keys -> Record \cup {NoSkin}]
      /\ skins'[Lower[n]] = r
      /\ \A k \in Keys \ {Lower[n]} :
           skins'[k] = IF s.old # NoName /\ k = Lower[s.old] THEN NoSkin ELSE skins[k]
  <2>1. skins' = [k \in Keys |->
                    IF k = Lower[n] THEN r
                    ELSE IF s.old # NoName /\ k = Lower[s.old] THEN NoSkin ELSE skins[k]]
    BY <1>2, <1>3 DEF Stored, r
  <2>2. \A k \in Keys : skins[k] \in Record \cup {NoSkin}
    BY DEF IInv, Types
  <2> QED BY <1>5, <1>8, <2>1, <2>2
<1>10. /\ hash' \in [Ids -> Names \cup {NoName}] /\ hash'[u] = n
       /\ \A i \in Ids \ {u} : hash'[i] = hash[i]
  <2>1. hash \in [Ids -> Names \cup {NoName}]
    BY DEF IInv, Types
  <2> QED BY <1>3, <1>5, <2>1
<1>11. /\ HandlerOK(c)'
       /\ \A d \in Clients \ {c} : client'[d] = client[d]
       /\ client' \in [Clients -> Request]
  BY <1>3, Ends DEF IInv
<1>12. Types'
  BY <1>9, <1>10, <1>11 DEF Types
<1>13. ASSUME NEW k \in Keys \ {Lower[n]}, skins'[k] # NoSkin
       PROVE  skins'[k] = skins[k] /\ (s.old # NoName => k # Lower[s.old])
  BY <1>9, <1>13
<1>14. ChangesOwn(c)
  <2>1. \A i \in Ids \ OwnIds(c) : hash'[i] = hash[i]
    BY <1>4, <1>10
  <2>2. \A k \in Keys \ OwnKeys(c) : skins'[k] = skins[k]
    BY <1>4, <1>5, <1>9
  <2>3. \A k \in Keys : Whole(k)' => skins'[k] = skins[k] \/ skins'[k].user \in OwnIds(c)
    BY <1>4, <1>8, <1>9, <1>13 DEF Whole
  <2> QED BY <1>11, <2>1, <2>2, <2>3 DEF ChangesOwn
<1>15. DataIsOwned'
  <2>1. ASSUME NEW k \in Keys, skins'[k] # NoSkin
        PROVE  /\ Lower[skins'[k].name] = k
               /\ \E d \in Clients : k \in OwnKeys(d) /\ skins'[k].user \in OwnIds(d)
    <3>1. CASE k = Lower[n]
      BY <1>4, <1>8, <1>9, <3>1
    <3>2. CASE k # Lower[n]
      BY <1>13, <2>1, <3>2 DEF IInv, DataIsOwned
    <3> QED BY <3>1, <3>2
  <2>2. ASSUME NEW i \in Ids, hash'[i] # NoName
        PROVE  \E d \in Clients : i \in OwnIds(d) /\ Lower[hash'[i]] \in OwnKeys(d)
    <3>1. CASE i = u
      BY <1>4, <1>10, <3>1
    <3>2. CASE i # u
      BY <1>10, <2>2, <3>2 DEF IInv, DataIsOwned
    <3> QED BY <3>1, <3>2
  <2> QED BY <2>1, <2>2 DEF DataIsOwned
<1>16. Reachable'
  <2> SUFFICES ASSUME NEW k \in Keys, Whole(k)'
               PROVE  hash'[skins'[k].user] # NoName /\ Lower[hash'[skins'[k].user]] = k
    BY DEF Reachable
  <2>1. CASE k = Lower[n]
    BY <1>5, <1>8, <1>9, <1>10, <2>1
  <2>2. CASE k # Lower[n]
    <3>1. skins'[k] = skins[k] /\ Whole(k) /\ (s.old # NoName => k # Lower[s.old])
      BY <1>13, <2>2 DEF Whole
    <3>2. skins[k].user # u /\ skins[k].user \in Ids
      BY <1>7, <2>2, <3>1, FindFacts DEF OnlyAt, IInv, Record
    <3> QED BY <1>10, <3>1, <3>2, ReachableRecords DEF IInv, Reachable
  <2> QED BY <2>1, <2>2
<1> QED BY <1>11, <1>12, <1>14, <1>15, <1>16, StepKeeps

-----------------------------------------------------------------------------
(* The invariant *)

\* Nothing is found in the initial state.
LEMMA InitIInv == Init => IInv
<1> SUFFICES ASSUME Init
             PROVE  IInv
  OBVIOUS
<1>1. client \in [Clients -> Request] /\ \A c \in Clients : client[c] = NoHandler
  BY NoHandlerType DEF Init
<1>2. /\ skins \in [Keys -> Record \cup {NoSkin}]
      /\ hash \in [Ids -> Names \cup {NoName}]
      /\ \A k \in Keys : ~ Whole(k)
      /\ DataIsOwned
  <2>1. CASE /\ skins = [k \in Keys |-> NoSkin]
             /\ hash = [i \in Ids |-> NoName]
    BY <2>1 DEF Whole, DataIsOwned
  <2>2. ASSUME NEW c \in Clients, NEW s \in Scope[c],
               skins = [k \in Keys |-> IF k = Lower[s[2]]
                                         THEN [user |-> s[1], name |-> s[2], whole |-> FALSE]
                                         ELSE NoSkin],
               hash = [i \in Ids |-> IF i = s[1] THEN s[2] ELSE NoName]
        PROVE  /\ skins \in [Keys -> Record \cup {NoSkin}]
               /\ hash \in [Ids -> Names \cup {NoName}]
               /\ \A k \in Keys : ~ Whole(k)
               /\ DataIsOwned
    <3>1. /\ s[1] \in Ids /\ s[2] \in Names
          /\ s[1] \in OwnIds(c) /\ Lower[s[2]] \in OwnKeys(c)
      BY Scopes
    <3> DEFINE r == [user |-> s[1], name |-> s[2], whole |-> FALSE]
    <3>2. r \in Record /\ r.user = s[1] /\ r.name = s[2] /\ ~ r.whole
      BY <3>1 DEF Record
    <3> HIDE DEF r
    <3>3. skins = [k \in Keys |-> IF k = Lower[s[2]] THEN r ELSE NoSkin]
      BY <2>2 DEF r
    <3>4. /\ skins \in [Keys -> Record \cup {NoSkin}]
          /\ hash \in [Ids -> Names \cup {NoName}]
      BY <2>2, <3>1, <3>2, <3>3
    <3>5. \A k \in Keys : ~ Whole(k)
      BY <3>2, <3>3 DEF Whole
    <3>6. DataIsOwned
      BY <2>2, <3>1, <3>2, <3>3 DEF DataIsOwned
    <3> QED BY <3>4, <3>5, <3>6
  <2> QED BY <2>1, <2>2 DEF Init
<1>3. Types
  BY <1>1, <1>2 DEF Types
<1>4. RecordsAreReachable
  BY <1>2, <1>3, ReachableRecords DEF Reachable
<1>5. ASSUME NEW c \in Clients
      PROVE  Scoped(c) /\ Staged(c) /\ Informed(c)
  <2>1. Scoped(c)
    BY <1>1, NoHandlerType DEF Scoped, Owns
  <2>2. Staged(c)
    BY <1>1, NoHandlerType DEF Staged, Removing, Replacing
  <2>3. Informed(c)
    BY <1>1, NoHandlerType DEF Informed, Removing, Replacing
  <2> QED BY <2>1, <2>2, <2>3
<1> QED BY <1>2, <1>3, <1>4, <1>5 DEF IInv

LEMMA NextIInv == ScopesApart /\ IInv /\ [Next]_vars => IInv'
<1> SUFFICES ASSUME ScopesApart, IInv, [Next]_vars
             PROVE  IInv'
  OBVIOUS
<1>1. ASSUME NEW c \in Clients, Post(c) \/ DeleteById(c) \/ DeleteByName(c)
      PROVE  IInv'
  BY <1>1, BeginStep
<1>2. ASSUME NEW c \in Clients, FindHash(c)
      PROVE  IInv'
  BY <1>2, FindHashStep
<1>3. ASSUME NEW c \in Clients, FindSkin(c)
      PROVE  IInv'
  BY <1>3, FindSkinStep
<1>4. ASSUME NEW c \in Clients, FindName(c)
      PROVE  IInv'
  BY <1>4, FindNameStep
<1>5. ASSUME NEW c \in Clients, RemoveHash(c)
      PROVE  IInv'
  BY <1>5, RemoveHashStep
<1>6. ASSUME NEW c \in Clients, RemoveSkin(c)
      PROVE  IInv'
  BY <1>6, RemoveSkinStep
<1>7. ASSUME NEW c \in Clients, RemoveId(c)
      PROVE  IInv'
  BY <1>7, RemoveIdStep
<1>8. ASSUME NEW c \in Clients, RemoveFind(c)
      PROVE  IInv'
  BY <1>8, RemoveFindStep
<1>9. ASSUME NEW c \in Clients, RemoveName(c)
      PROVE  IInv'
  BY <1>9, RemoveNameStep
<1>10. ASSUME NEW c \in Clients, Save(c)
       PROVE  IInv'
  BY <1>10, SaveStep
<1>11. ASSUME NEW c \in Clients, Fail(c)
       PROVE  IInv'
  BY <1>11, FailStep
<1>12. CASE UNCHANGED vars
  <2>1. \A u, K : OnlyAt(u, K)' <=> OnlyAt(u, K)
    BY <1>12 DEF vars, OnlyAt, Whole
  <2>2. Types' /\ DataIsOwned' /\ RecordsAreReachable'
    BY <1>12 DEF vars, IInv, Types, DataIsOwned, RecordsAreReachable, Find
  <2>3. ASSUME NEW c \in Clients
        PROVE  Scoped(c)' /\ Staged(c)' /\ Informed(c)'
    <3>1. Scoped(c)' /\ Staged(c)'
      BY <1>12 DEF vars, IInv, Scoped, Staged, Owns
    <3>2. Informed(c)'
      BY <1>12 DEF vars, IInv, Informed, OnlyAt, Whole, Find, Target
    <3> QED BY <3>1, <3>2
  <2> QED BY <2>2, <2>3 DEF IInv
<1> QED BY <1>1, <1>2, <1>3, <1>4, <1>5, <1>6, <1>7, <1>8, <1>9, <1>10, <1>11, <1>12 DEF Next, Handle

\* As long as requests that run at the same time are about different identities
\* and usernames, whatever they do and whichever of their commands fail, the
\* invariant holds.
THEOREM Invariance ==
  ASSUME ScopesApart
  PROVE  Spec => []IInv
<1>1. IInv /\ [Next]_vars => IInv'
  BY NextIInv
<1> QED BY <1>1, InitIInv, PTL DEF Spec

-----------------------------------------------------------------------------
(* What follows *)

\* Every record can be reached through its identity (redis.go:113-217):
\* no sequence of renames, takeovers and deletions, complete or cut off by a
\* failed command, leaves a record that its identity does not lead to.
THEOREM RecordsAreReachableHolds ==
  ASSUME ScopesApart
  PROVE  Spec => []RecordsAreReachable
<1>1. IInv => RecordsAreReachable
  BY DEF IInv
<1> QED BY <1>1, Invariance, PTL

\* The transaction of a DELETE removes the record that its request was about.
LEMMA RemovedIsGone ==
  ASSUME IInv, NEW c \in Clients, RemoveId(c), client[c].op \in {"deleteId", "deleteName"},
         NEW k \in Keys, Find(k) = client[c].skin
  PROVE  Find(k)' = NoSkin
<1> DEFINE v == client[c].victim
<1>1. client[c].at = "removeId" /\ client[c].skin # NoSkin
  BY DEF RemoveId, IInv, Staged, Removing, Replacing
<1>2. Whole(k) /\ skins[k].user = Target(c)
  BY <1>1, FindFacts DEF IInv, Target
<1>3. v # NoSkin /\ k = Lower[v.name]
  BY <1>1, <1>2 DEF IInv, Informed, OnlyAt
<1>4. skins' = [skins EXCEPT ![k] = NoSkin]
  BY <1>3 DEF RemoveId
<1>5. skins'[k] = NoSkin
  BY <1>4 DEF IInv, Types
<1> QED BY <1>5 DEF Find

\* A DELETE that is answered 204 leaves nothing behind that the same DELETE
\* would find (api.go:92-120).
THEOREM DeletedIsGoneHolds ==
  ASSUME ScopesApart
  PROVE  Spec => DeletedIsGone
<1>1. ASSUME IInv, NEW c \in Clients, NEW i \in Ids, NEW n \in Names,
             RemoveId(c), client[c].id = i, client[c].name = n
      PROVE  /\ client[c].op = "deleteId" => FindById(i)' = NoSkin
             /\ client[c].op = "deleteName" => Find(Lower[n])' = NoSkin
  <2>1. client[c].at = "removeId" /\ client[c].at \in Removing
    BY <1>1 DEF RemoveId, Removing
  <2>2. CASE client[c].op = "deleteId"
    <3>1. hash[i] # NoName /\ Find(Lower[hash[i]]) = client[c].skin
      BY <1>1, <2>1, <2>2 DEF IInv, Informed
    <3>2. PICK k : k = Lower[hash[i]]
      OBVIOUS
    <3>3. k \in Keys
      <4>1. hash[i] \in Names
        BY <1>1, <3>1 DEF IInv, Types
      <4> QED BY <3>2, <4>1, KeyTypes
    <3>4. Find(k)' = NoSkin
      BY <1>1, <2>2, <3>1, <3>2, <3>3, RemovedIsGone
    <3>5. hash'[i] = NoName \/ hash'[i] = hash[i]
      BY <1>1 DEF RemoveId, IInv, Types
    <3>6. hash'[i] # NoName => Find(Lower[hash[i]])' = NoSkin
      <4>1. hash'[i] # NoName => k = Lower[hash'[i]]
        BY <3>2, <3>5
      <4> QED BY <3>4, <4>1
    <3>7. FindById(i)' = NoSkin
      BY <3>6 DEF FindById
    <3> QED BY <2>2, <3>7
  <2>3. CASE client[c].op = "deleteName"
    <3>1. Find(Lower[n]) = client[c].skin
      BY <1>1, <2>1, <2>3 DEF IInv, Informed
    <3>2. Lower[n] \in Keys
      BY KeyTypes
    <3>3. PICK k \in Keys : k = Lower[n]
      BY <3>2
    <3>4. Find(k)' = NoSkin
      BY <1>1, <2>3, <3>1, <3>3, RemovedIsGone
    <3> QED BY <2>3, <3>3, <3>4
  <2> QED BY <2>2, <2>3
<1>2. IInv /\ [Next]_vars =>
        [\A c \in Clients, i \in Ids, n \in Names :
           RemoveId(c) /\ client[c].id = i /\ client[c].name = n =>
             /\ client[c].op = "deleteId" => FindById(i)' = NoSkin
             /\ client[c].op = "deleteName" => Find(Lower[n])' = NoSkin]_vars
  BY <1>1
<1> QED BY <1>2, Invariance, PTL DEF Spec, DeletedIsGone

-----------------------------------------------------------------------------
(* Types, whatever the requests are about *)

\* What is read is a username when it is looked up, and a skin is there when one
\* is removed or saved. Other handlers have no say in this.
SafeInv == Types /\ \A c \in Clients : Staged(c)

\* What a step of c has to show.
Proceeds(c) ==
  /\ client' \in [Clients -> Request]
  /\ \A d \in Clients \ {c} : client'[d] = client[d]
  /\ Staged(c)'

Inhabited == Ids # {} /\ Names # {}

\* If there are identities and usernames, a handler always has some.
LEMMA Requests ==
  ASSUME Inhabited
  PROVE  Request = Handler
<1>1. NoHandler.id \in Ids /\ NoHandler.name \in Names
  BY DEF NoHandler, Inhabited
<1> QED BY <1>1 DEF Request, Handler

LEMMA EndProceeds ==
  ASSUME Types, NEW c \in Clients, End(c)
  PROVE  Proceeds(c)
  BY Ends DEF Proceeds, HandlerOK

LEMMA GotoProceeds ==
  ASSUME SafeInv, NEW c \in Clients, client[c].op = "post",
         \/ Goto(c, "findName") /\ client[c].at \in {"findHash", "findSkin"}
         \/ Goto(c, "save") /\ client[c].at \in Replacing
  PROVE  Proceeds(c)
<1>1. PICK l \in {"findName", "save"} :
        /\ Goto(c, l)
        /\ l = "findName" => client[c].at \in {"findHash", "findSkin"}
        /\ l = "save" => client[c].at \in Replacing
  OBVIOUS
<1>2. l \in Labels
  BY DEF Labels
<1> QED BY <1>1, <1>2, GoesTo DEF SafeInv, Proceeds, Staged, Removing, Replacing

LEMMA RemovalProceeds ==
  ASSUME SafeInv, NEW c \in Clients, AfterRemoval(c), client[c].at \in Replacing
  PROVE  Proceeds(c)
  BY EndProceeds, GotoProceeds DEF AfterRemoval, SafeInv

LEMMA NotFoundProceeds ==
  ASSUME SafeInv, NEW c \in Clients, NotFoundById(c), client[c].at \in {"findHash", "findSkin"}
  PROVE  Proceeds(c)
  BY EndProceeds, GotoProceeds DEF NotFoundById, SafeInv

\* A request begins.
LEMMA BeginProceeds ==
  ASSUME SafeInv, NEW c \in Clients, Post(c) \/ DeleteById(c) \/ DeleteByName(c)
  PROVE  Proceeds(c) /\ UNCHANGED << skins, hash >>
<1>1. PICK h \in Request :
        /\ client' = [client EXCEPT ![c] = h]
        /\ \/ h.op = "post" /\ h.at = "findHash"
           \/ h.op = "deleteId" /\ h.at = "findHash"
           \/ h.op = "deleteName" /\ h.at = "findName"
        /\ h.skin = NoSkin /\ h.victim = NoSkin
        /\ UNCHANGED << skins, hash >>
  <2>1. CASE Post(c)
    <3>1. PICK t \in Scope[c] : Begin(c, "post", t[1], t[2], "findHash")
      BY <2>1 DEF Post
    <3>2. t[1] \in Ids /\ t[2] \in Names
      BY Scopes
    <3> QED BY <3>1, <3>2, Begins
  <2>2. CASE DeleteById(c)
    <3>1. PICK t \in Scope[c] : Begin(c, "deleteId", t[1], NoHandler.name, "findHash")
      BY <2>2 DEF DeleteById
    <3>2. t[1] \in Ids
      BY Scopes
    <3> QED BY <3>1, <3>2, Begins
  <2>3. CASE DeleteByName(c)
    <3>1. PICK t \in Scope[c] : Begin(c, "deleteName", NoHandler.id, t[2], "findName")
      BY <2>3 DEF DeleteByName
    <3>2. t[2] \in Names
      BY Scopes
    <3> QED BY <3>1, <3>2, Begins
  <2> QED BY <2>1, <2>2, <2>3
<1>2. /\ client'[c] = h /\ \A d \in Clients \ {c} : client'[d] = client[d]
      /\ client' \in [Clients -> Request]
  BY <1>1, Becomes DEF SafeInv
<1>3. Staged(c)'
  BY <1>1, <1>2 DEF Staged, Removing, Replacing
<1> QED BY <1>1, <1>2, <1>3 DEF Proceeds

\* A handler moves on with what it has read or found, and it has what it needs.
MayMove(c, l, r, s, v) ==
  /\ l \in {"findSkin", "removeHash", "removeSkin", "removeId", "removeFind", "removeName", "save"}
  /\ client[c].op # "none"
  /\ client[c].op = "deleteId" => l \in {"findSkin"} \cup Removing
  /\ client[c].op = "deleteName" => l \in Removing
  /\ l \in Replacing => s # NoSkin
  /\ l = "removeName" => v # NoSkin
  /\ l \in {"findSkin", "removeHash", "removeSkin"} => v = NoSkin
  /\ l \in {"findSkin", "removeSkin"} => r # NoName

LEMMA MoveProceeds ==
  ASSUME Types, NEW c \in Clients, NEW l \in Labels, NEW r \in Names \cup {NoName},
         NEW s \in Skin \cup {NoSkin}, NEW v \in Skin \cup {NoSkin},
         Sets(c, l, r, s, v), MayMove(c, l, r, s, v)
  PROVE  Proceeds(c)
<1>1. Moved(c, l, r, s, v)
  BY Moves
<1>2. Staged(c)'
  BY <1>1 DEF Moved, MayMove, Staged, Removing, Replacing
<1> QED BY <1>1, <1>2 DEF Moved, Proceeds

\* What a handler has.
LEMMA HandlerFacts ==
  ASSUME SafeInv, Inhabited, NEW c \in Clients
  PROVE  /\ Types /\ client[c] \in Handler
         /\ client[c].id \in Ids /\ client[c].name \in Names
         /\ client[c].read \in Names \cup {NoName}
         /\ client[c].skin \in Skin \cup {NoSkin} /\ client[c].victim \in Skin \cup {NoSkin}
         /\ client[c].at \in Replacing => Target(c) \in Ids
         /\ Staged(c)
<1>1. Types /\ client[c] \in Handler /\ Staged(c)
  BY Requests DEF SafeInv, Types
<1>2. client[c].at \in Replacing => Target(c) \in Ids
  BY <1>1 DEF Staged, Target, Handler, Skin
<1> QED BY <1>1, <1>2 DEF Handler

\* Looking for a record, by identity or by username.
LEMMA FindProceeds ==
  ASSUME SafeInv, Inhabited, NEW c \in Clients, FindHash(c) \/ FindSkin(c) \/ FindName(c)
  PROVE  Proceeds(c) /\ UNCHANGED << skins, hash >>
<1> DEFINE h == client[c]
<1>1. /\ Types /\ h \in Handler /\ h.id \in Ids /\ h.name \in Names
      /\ h.read \in Names \cup {NoName}
      /\ h.skin \in Skin \cup {NoSkin} /\ h.victim \in Skin \cup {NoSkin} /\ Staged(c)
  BY HandlerFacts
<1>2. \A n \in Names : Find(Lower[n]) \in Skin \cup {NoSkin}
  BY <1>1, FindFacts, KeyTypes
<1>3. UNCHANGED << skins, hash >>
  BY DEF FindHash, FindSkin, FindName
<1>4. CASE FindHash(c)
  <2>1. h.at = "findHash" /\ h.op \in {"post", "deleteId"} /\ h.victim = NoSkin
    BY <1>1, <1>4 DEF FindHash, Staged, Handler, Removing
  <2>2. CASE hash[h.id] = NoName
    BY <1>4, <2>1, <2>2, NotFoundProceeds DEF FindHash
  <2>3. CASE hash[h.id] # NoName
    <3>1. PICK n \in Names : n = hash[h.id]
      BY <1>1, <2>3 DEF Types
    <3>2. client' = [client EXCEPT ![c].at = "findSkin", ![c].read = n]
      BY <1>4, <2>3, <3>1 DEF FindHash
    <3>3. Sets(c, "findSkin", n, h.skin, h.victim)
      BY <1>1, <3>2 DEF Types, Handler, Sets
    <3>4. MayMove(c, "findSkin", n, h.skin, h.victim) /\ "findSkin" \in Labels
      BY <1>1, <2>1, LowerAssumption DEF MayMove, Labels, Removing, Replacing
    <3> QED BY <1>1, <1>3, <3>3, <3>4, MoveProceeds
  <2> QED BY <2>2, <2>3
<1>5. CASE FindSkin(c)
  <2>1. /\ h.at = "findSkin" /\ h.op \in {"post", "deleteId"} /\ h.victim = NoSkin
        /\ h.read \in Names
    BY <1>1, <1>5 DEF FindSkin, Staged, Handler, Removing
  <2>2. PICK s \in Skin \cup {NoSkin} : s = Find(Lower[h.read])
    BY <1>2, <2>1
  <2>3. CASE s = NoSkin
    BY <1>5, <2>1, <2>2, <2>3, NotFoundProceeds DEF FindSkin
  <2>4. CASE s # NoSkin
    <3>1. PICK l \in {"removeHash", "save"}, t \in Skin :
            /\ client' = [client EXCEPT ![c].at = l, ![c].skin = t]
            /\ h.op = "deleteId" => l = "removeHash"
      <4>1. s \in Skin /\ [s EXCEPT !.name = h.name] \in Skin
        BY <1>1, <2>4 DEF Skin
      <4> QED BY <1>5, <2>2, <2>4, <4>1 DEF FindSkin
    <3>2. Sets(c, l, h.read, t, h.victim)
      BY <1>1, <3>1 DEF Types, Handler, Sets
    <3>3. t # NoSkin
      BY NoSkinAssumption
    <3>4. MayMove(c, l, h.read, t, h.victim) /\ l \in Labels
      BY <2>1, <3>1, <3>3 DEF MayMove, Labels, Removing, Replacing
    <3> QED BY <1>1, <1>3, <3>2, <3>4, MoveProceeds
  <2> QED BY <2>3, <2>4
<1>6. CASE FindName(c)
  <2>1. /\ h.at = "findName" /\ h.op \in {"post", "deleteName"} /\ h.victim = NoSkin
    BY <1>1, <1>6 DEF FindName, Staged, Handler, Removing
  <2>2. PICK s \in Skin \cup {NoSkin} : s = Find(Lower[h.name])
    BY <1>1, <1>2
  <2>3. CASE s = NoSkin /\ h.op # "post"
    BY <1>1, <1>6, <2>2, <2>3, EndProceeds DEF FindName
  <2>4. CASE s # NoSkin \/ h.op = "post"
    <3>1. PICK l \in {"removeHash", "removeFind", "save"}, t \in Skin :
            /\ client' = [client EXCEPT ![c].at = l, ![c].skin = t]
            /\ h.op = "deleteName" => l = "removeHash"
      <4>1. [user |-> h.id, name |-> h.name, old |-> NoName] \in Skin
        BY <1>1 DEF Skin
      <4>2. s # NoSkin => s \in Skin /\ [s EXCEPT !.user = h.id] \in Skin
        BY <1>1 DEF Skin
      <4> QED BY <1>6, <2>1, <2>2, <2>4, <4>1, <4>2 DEF FindName
    <3>2. Sets(c, l, h.read, t, h.victim)
      BY <1>1, <3>1 DEF Types, Handler, Sets
    <3>3. t # NoSkin
      BY NoSkinAssumption
    <3>4. MayMove(c, l, h.read, t, h.victim) /\ l \in Labels
      BY <2>1, <3>1, <3>3 DEF MayMove, Labels, Removing, Replacing
    <3> QED BY <1>1, <1>3, <3>2, <3>4, MoveProceeds
  <2> QED BY <2>3, <2>4
<1> QED BY <1>3, <1>4, <1>5, <1>6

\* Looking for what is removed.
LEMMA LookupProceeds ==
  ASSUME SafeInv, Inhabited, NEW c \in Clients,
         RemoveHash(c) \/ RemoveSkin(c) \/ RemoveFind(c)
  PROVE  Proceeds(c) /\ UNCHANGED << skins, hash >>
<1> DEFINE h == client[c]
<1>1. /\ Types /\ h \in Handler /\ h.name \in Names /\ h.read \in Names \cup {NoName}
      /\ h.skin \in Skin \cup {NoSkin} /\ h.victim \in Skin \cup {NoSkin} /\ Staged(c)
  BY HandlerFacts
<1>2. UNCHANGED << skins, hash >>
  BY DEF RemoveHash, RemoveSkin, RemoveFind
<1>3. CASE RemoveHash(c)
  <2>1. h.at = "removeHash" /\ h.skin # NoSkin /\ h.victim = NoSkin /\ h.op # "none"
    BY <1>1, <1>3 DEF RemoveHash, Staged, Removing, Replacing
  <2>2. PICK n \in Names \cup {NoName} : n = hash[Target(c)]
    BY <1>1, <2>1, HandlerFacts DEF Types, Removing, Replacing
  <2>3. PICK l \in {"removeId", "removeSkin"} :
          /\ client' = [client EXCEPT ![c].at = l, ![c].read = n]
          /\ l = "removeSkin" => n # NoName
    BY <1>3, <2>2 DEF RemoveHash
  <2>4. Sets(c, l, n, h.skin, h.victim)
    BY <1>1, <2>3 DEF Types, Handler, Sets
  <2>5. MayMove(c, l, n, h.skin, h.victim) /\ l \in Labels
    BY <2>1, <2>3 DEF MayMove, Labels, Removing, Replacing
  <2> QED BY <1>1, <1>2, <2>4, <2>5, MoveProceeds
<1>4. CASE RemoveSkin(c)
  <2>1. h.at = "removeSkin" /\ h.skin # NoSkin /\ h.read \in Names /\ h.op # "none"
    BY <1>1, <1>4 DEF RemoveSkin, Staged, Removing, Replacing
  <2>2. PICK v \in Skin \cup {NoSkin} : v = Find(Lower[h.read])
    BY <1>1, <2>1, FindFacts, KeyTypes
  <2>3. client' = [client EXCEPT ![c].at = "removeId", ![c].victim = v]
    BY <1>4, <2>2 DEF RemoveSkin
  <2>4. Sets(c, "removeId", h.read, h.skin, v)
    BY <1>1, <2>3 DEF Types, Handler, Sets
  <2>5. MayMove(c, "removeId", h.read, h.skin, v) /\ "removeId" \in Labels
    BY <2>1 DEF MayMove, Labels, Removing, Replacing
  <2> QED BY <1>1, <1>2, <2>4, <2>5, MoveProceeds
<1>5. CASE RemoveFind(c)
  <2>1. h.at = "removeFind" /\ h.skin # NoSkin /\ h.op = "post"
    BY <1>1, <1>5 DEF RemoveFind, Staged, Handler, Removing, Replacing
  <2>2. PICK v \in Skin \cup {NoSkin} : v = Find(Lower[h.name])
    BY <1>1, FindFacts, KeyTypes
  <2>3. CASE v = NoSkin
    BY <1>2, <1>5, <2>1, <2>2, <2>3, RemovalProceeds DEF RemoveFind, Replacing
  <2>4. CASE v # NoSkin
    <3>1. client' = [client EXCEPT ![c].at = "removeName", ![c].victim = v]
      BY <1>5, <2>2, <2>4 DEF RemoveFind
    <3>2. Sets(c, "removeName", h.read, h.skin, v)
      BY <1>1, <3>1 DEF Types, Handler, Sets
    <3>3. MayMove(c, "removeName", h.read, h.skin, v) /\ "removeName" \in Labels
      BY <2>1, <2>4 DEF MayMove, Labels, Removing, Replacing
    <3> QED BY <1>1, <1>2, <3>2, <3>3, MoveProceeds
  <2> QED BY <2>3, <2>4
<1> QED BY <1>3, <1>4, <1>5

\* Removing and saving, done or failed. What is written has its type.
LEMMA WriteProceeds ==
  ASSUME SafeInv, Inhabited, NEW c \in Clients,
         RemoveId(c) \/ RemoveName(c) \/ Save(c) \/ Fail(c)
  PROVE  /\ Proceeds(c)
         /\ skins' \in [Keys -> Record \cup {NoSkin}]
         /\ hash' \in [Ids -> Names \cup {NoName}]
<1> DEFINE h == client[c]
<1>1. /\ Types /\ h \in Handler /\ h.skin \in Skin \cup {NoSkin} /\ Staged(c)
  BY HandlerFacts
<1>2. CASE RemoveId(c)
  <2>1. AfterRemoval(c) /\ h.at \in Replacing
    BY <1>2 DEF RemoveId, Removing, Replacing
  <2>2. skins' \in [Keys -> Record \cup {NoSkin}] /\ hash' \in [Ids -> Names \cup {NoName}]
    BY <1>1, <1>2 DEF RemoveId, Types
  <2> QED BY <2>1, <2>2, RemovalProceeds
<1>3. CASE RemoveName(c)
  <2>1. AfterRemoval(c) /\ h.at \in Replacing
    BY <1>3 DEF RemoveName, Removing, Replacing
  <2>2. skins' \in [Keys -> Record \cup {NoSkin}] /\ hash' \in [Ids -> Names \cup {NoName}]
    BY <1>1, <1>3 DEF RemoveName, Types
  <2> QED BY <2>1, <2>2, RemovalProceeds
<1>4. CASE Save(c)
  <2>1. h.at = "save" /\ End(c) /\ h.skin \in Skin
    BY <1>1, <1>4 DEF Save, Staged, Replacing
  <2>2. skins' = Stored(h.skin) /\ hash' = [hash EXCEPT ![h.skin.user] = h.skin.name]
    BY <1>4 DEF Save
  <2>3. h.skin.user \in Ids /\ h.skin.name \in Names
    BY <2>1 DEF Skin
  <2>4. [user |-> h.skin.user, name |-> h.skin.name, whole |-> TRUE] \in Record
    BY <2>3 DEF Record
  <2>5. skins' \in [Keys -> Record \cup {NoSkin}]
    BY <1>1, <2>2, <2>4 DEF Stored, Types
  <2>6. hash' \in [Ids -> Names \cup {NoName}]
    BY <1>1, <2>2, <2>3 DEF Types
  <2> QED BY <1>1, <2>1, <2>5, <2>6, EndProceeds
<1>5. CASE Fail(c)
  <2>1. skins' \in [Keys -> Record \cup {NoSkin}] /\ hash' \in [Ids -> Names \cup {NoName}]
    BY <1>1, <1>5 DEF Fail, Types
  <2>2. End(c) \/ (AfterRemoval(c) /\ h.at \in Replacing)
    BY <1>1, <1>5 DEF Fail, Handler, Removing, Replacing
  <2> QED BY <1>1, <2>1, <2>2, EndProceeds, RemovalProceeds
<1> QED BY <1>2, <1>3, <1>4, <1>5

LEMMA NextSafeInv ==
  ASSUME Inhabited, SafeInv, [Next]_vars
  PROVE  SafeInv'
<1>1. ASSUME NEW c \in Clients, Proceeds(c),
             skins' \in [Keys -> Record \cup {NoSkin}], hash' \in [Ids -> Names \cup {NoName}]
      PROVE  SafeInv'
  BY <1>1 DEF Proceeds, SafeInv, Types, Staged
<1>2. ASSUME NEW c \in Clients, Proceeds(c), UNCHANGED << skins, hash >>
      PROVE  SafeInv'
  BY <1>1, <1>2 DEF SafeInv, Types
<1>3. CASE UNCHANGED vars
  BY <1>3 DEF vars, SafeInv, Types, Staged
<1>4. CASE Next
  <2>1. PICK c \in Clients :
          \/ Post(c) \/ DeleteById(c) \/ DeleteByName(c)
          \/ FindHash(c) \/ FindSkin(c) \/ FindName(c)
          \/ RemoveHash(c) \/ RemoveSkin(c) \/ RemoveId(c) \/ RemoveFind(c) \/ RemoveName(c)
          \/ Save(c) \/ Fail(c)
    BY <1>4 DEF Next, Handle
  <2>2. CASE Post(c) \/ DeleteById(c) \/ DeleteByName(c)
    BY <1>2, <2>2, BeginProceeds
  <2>3. CASE FindHash(c) \/ FindSkin(c) \/ FindName(c)
    BY <1>2, <2>3, FindProceeds
  <2>4. CASE RemoveHash(c) \/ RemoveSkin(c) \/ RemoveFind(c)
    BY <1>2, <2>4, LookupProceeds
  <2>5. CASE RemoveId(c) \/ RemoveName(c) \/ Save(c) \/ Fail(c)
    BY <1>1, <2>5, WriteProceeds
  <2> QED BY <2>1, <2>2, <2>3, <2>4, <2>5
<1> QED BY <1>3, <1>4

\* Concurrent requests about the same identities and usernames may leave records
\* that nothing leads to, but whatever they do, what is stored is a record, and
\* the nil that findIdentityOrCleanup may return never reaches SaveSkin
\* (api.go:50-155, redis.go:113-217).
THEOREM TypeCorrect ==
  ASSUME Inhabited
  PROVE  Spec => []TypeOK
<1>1. Init => SafeInv
  BY InitIInv DEF IInv, SafeInv
<1>2. SafeInv /\ [Next]_vars => SafeInv'
  BY NextSafeInv
<1>3. SafeInv => TypeOK
  BY Requests DEF SafeInv, Types, TypeOK, Staged, Replacing, Handler
<1> QED BY <1>1, <1>2, <1>3, PTL DEF Spec
=============================================================================
