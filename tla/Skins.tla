------------------------------- MODULE Skins -------------------------------
(***************************************************************************)
(* The skins repository in Redis (src/db/redis/redis.go) and the API that  *)
(* writes it (src/http/api.go).                                            *)
(*                                                                         *)
(* A skin is stored under its lower-cased username, and a hash leads from  *)
(* its identity to its username. Requests to the API run concurrently. A   *)
(* step is one command to Redis, or one transaction: MULTI to EXEC takes   *)
(* effect as a whole or, when any of its commands fails, not at all. What  *)
(* a skin looks like is left out, the properties are about where it is.    *)
(***************************************************************************)
EXTENDS FiniteSets

CONSTANTS Clients, \* the requests that run at the same time
          Ids,     \* identityId
          Names,   \* usernames, as they are spelled
          Lower,   \* strings.ToLower: the key of a username
          NoName,  \* an empty username
          NoSkin,  \* no record
          Scope    \* the identities and usernames a client's requests are about

Keys == { Lower[n] : n \in Names }

ASSUME LowerAssumption == DOMAIN Lower = Names /\ NoName \notin Names
ASSUME ScopeAssumption == Scope \in [Clients -> SUBSET (Ids \X Names)]

VARIABLES skins,  \* "username:<key>"
          hash,   \* "hash:username-to-account-id": the username of an identity
          client  \* the handler of each client's request

vars == << skins, hash, client >>

\* A stored record. Old ones without a uuid are there, but are not found.
Record == [user : Ids, name : Names, whole : BOOLEAN]

\* A model.Skin in memory.
Skin == [user : Ids, name : Names, old : Names \cup {NoName}]

ASSUME NoSkinAssumption == NoSkin \notin Record \cup Skin

\* A handler: the request, what it read last from the hash, the skin it works
\* on, and the skin it found to remove.
Handler == [at : {"out", "findHash", "findSkin", "findName", "removeHash", "removeSkin",
                  "removeId", "removeFind", "removeName", "save"},
            op : {"none", "post", "deleteId", "deleteName"},
            id : Ids, name : Names, read : Names \cup {NoName},
            skin : Skin \cup {NoSkin}, victim : Skin \cup {NoSkin}]

NoHandler == [at |-> "out", op |-> "none",
              id |-> CHOOSE i \in Ids : TRUE, name |-> CHOOSE n \in Names : TRUE,
              read |-> NoName, skin |-> NoSkin, victim |-> NoSkin]

\* The types of the variables. A handler that saves has a skin to save: the nil
\* that findIdentityOrCleanup may return never reaches SaveSkin.
TypeOK ==
  /\ skins \in [Keys -> Record \cup {NoSkin}]
  /\ hash \in [Ids -> Names \cup {NoName}]
  /\ client \in [Clients -> Handler]
  /\ \A c \in Clients : client[c].at = "save" => client[c].skin \in Skin

\* At most one old record without a uuid, its identity in the hash.
Init ==
  /\ client = [c \in Clients |-> NoHandler]
  /\ \/ /\ skins = [k \in Keys |-> NoSkin]
        /\ hash = [i \in Ids |-> NoName]
     \/ \E c \in Clients : \E s \in Scope[c] :
          /\ skins = [k \in Keys |-> IF k = Lower[s[2]]
                                       THEN [user |-> s[1], name |-> s[2], whole |-> FALSE]
                                       ELSE NoSkin]
          /\ hash = [i \in Ids |-> IF i = s[1] THEN s[2] ELSE NoName]

-----------------------------------------------------------------------------
(* Reading *)

\* findByUsername
Find(k) == IF skins[k] = NoSkin \/ ~skins[k].whole THEN NoSkin
           ELSE [user |-> skins[k].user, name |-> skins[k].name, old |-> skins[k].name]

\* The handler of c goes on to l.
Goto(c, l) == client' = [client EXCEPT ![c].at = l]

End(c) == client' = [client EXCEPT ![c] = NoHandler]

Begin(c, op, i, n, l) ==
  /\ client[c].at = "out"
  /\ client' = [client EXCEPT ![c] = [NoHandler EXCEPT !.at = l, !.op = op, !.id = i, !.name = n]]
  /\ UNCHANGED << skins, hash >>

\* postSkinHandler, deleteSkinByUserIdHandler and deleteSkinByUsernameHandler
\* begin. (A request that is not valid is refused and changes nothing.)
Post(c) == \E s \in Scope[c] : Begin(c, "post", s[1], s[2], "findHash")
DeleteById(c) == \E s \in Scope[c] : Begin(c, "deleteId", s[1], NoHandler.name, "findHash")
DeleteByName(c) == \E s \in Scope[c] : Begin(c, "deleteName", NoHandler.id, s[2], "findName")

\* No record has the identity: a POST looks for the username, a DELETE is
\* answered 404.
NotFoundById(c) == IF client[c].op = "post" THEN Goto(c, "findName") ELSE End(c)

\* findByUserId, first command
FindHash(c) ==
  /\ client[c].at = "findHash"
  /\ LET n == hash[client[c].id]
     IN  IF n = NoName THEN NotFoundById(c)
         ELSE client' = [client EXCEPT ![c].at = "findSkin", ![c].read = n]
  /\ UNCHANGED << skins, hash >>

\* findByUserId, second command. A record with another username is removed
\* and renamed by a POST, one with this username is saved again.
FindSkin(c) ==
  /\ client[c].at = "findSkin"
  /\ LET s == Find(Lower[client[c].read])
         n == client[c].name
     IN  IF s = NoSkin THEN NotFoundById(c)
         ELSE IF client[c].op = "deleteId"
           THEN client' = [client EXCEPT ![c].at = "removeHash", ![c].skin = s]
         ELSE client' = [client EXCEPT ![c].at = IF s.name = n THEN "save" ELSE "removeHash",
                                       ![c].skin = [s EXCEPT !.name = n]]
  /\ UNCHANGED << skins, hash >>

\* findByUsername. A POST takes the record over for its identity, or makes a
\* new one.
FindName(c) ==
  /\ client[c].at = "findName"
  /\ LET s == Find(Lower[client[c].name])
         new == [user |-> client[c].id, name |-> client[c].name, old |-> NoName]
     IN  IF client[c].op = "post"
         THEN client' = IF s = NoSkin
                          THEN [client EXCEPT ![c].at = "save", ![c].skin = new]
                          ELSE [client EXCEPT ![c].at = "removeFind",
                                              ![c].skin = [s EXCEPT !.user = client[c].id]]
         ELSE IF s = NoSkin THEN End(c)
         ELSE client' = [client EXCEPT ![c].at = "removeHash", ![c].skin = s]
  /\ UNCHANGED << skins, hash >>

-----------------------------------------------------------------------------
(* Removing *)

\* What the handler does after a removal, done or failed: a POST saves, a
\* DELETE is over.
AfterRemoval(c) == IF client[c].op = "post" THEN Goto(c, "save") ELSE End(c)

\* The identity given to RemoveSkinByUserId: of a POST its own, of a DELETE
\* the one of the record that was found.
Target(c) == IF client[c].op = "post" THEN client[c].id ELSE client[c].skin.user

\* removeByUserId: findByUserId, first command
RemoveHash(c) ==
  /\ client[c].at = "removeHash"
  /\ LET n == hash[Target(c)]
     IN  client' = [client EXCEPT ![c].at = IF n = NoName THEN "removeId" ELSE "removeSkin",
                                  ![c].read = n]
  /\ UNCHANGED << skins, hash >>

\* removeByUserId: findByUserId, second command
RemoveSkin(c) ==
  /\ client[c].at = "removeSkin"
  /\ client' = [client EXCEPT ![c].at = "removeId", ![c].victim = Find(Lower[client[c].read])]
  /\ UNCHANGED << skins, hash >>

\* Mutant of RemoveId: only the hash is cleaned up.
RemoveIdOnly(c) ==
  /\ client[c].at = "removeId"
  /\ hash' = [hash EXCEPT ![Target(c)] = NoName]
  /\ AfterRemoval(c)
  /\ UNCHANGED skins

\* removeByUserId: HDEL and, if there was a record, DEL
RemoveId(c) ==
  /\ client[c].at = "removeId"
  /\ hash' = [hash EXCEPT ![Target(c)] = NoName]
  /\ LET v == client[c].victim
     IN  skins' = IF v = NoSkin THEN skins ELSE [skins EXCEPT ![Lower[v.name]] = NoSkin]
  /\ AfterRemoval(c)

\* removeByUsername: findByUsername
RemoveFind(c) ==
  /\ client[c].at = "removeFind"
  /\ LET v == Find(Lower[client[c].name])
     IN  IF v = NoSkin THEN AfterRemoval(c)
         ELSE client' = [client EXCEPT ![c].at = "removeName", ![c].victim = v]
  /\ UNCHANGED << skins, hash >>

\* removeByUsername: DEL and HDEL
RemoveName(c) ==
  /\ client[c].at = "removeName"
  /\ LET v == client[c].victim
     IN  /\ skins' = [skins EXCEPT ![Lower[v.name]] = NoSkin]
         /\ hash' = [hash EXCEPT ![v.user] = NoName]
  /\ AfterRemoval(c)

-----------------------------------------------------------------------------
(* Saving *)

\* Mutant of Stored: the record of the old username stays.
StoredKeepingOld(s) ==
  [k \in Keys |->
     IF k = Lower[s.name] THEN [user |-> s.user, name |-> s.name, whole |-> TRUE] ELSE skins[k]]

\* The records after s is saved: DEL of the old username, if it is another
\* one, then SET.
Stored(s) ==
  [k \in Keys |->
     IF k = Lower[s.name] THEN [user |-> s.user, name |-> s.name, whole |-> TRUE]
     ELSE IF s.old # NoName /\ k = Lower[s.old] THEN NoSkin
     ELSE skins[k]]

\* save. (The condition around HSET in the code is always true.)
Save(c) ==
  /\ client[c].at = "save"
  /\ LET s == client[c].skin
     IN  /\ skins' = Stored(s)
         /\ hash' = [hash EXCEPT ![s.user] = s.name]
  /\ End(c)

\* A command or a transaction fails without effect. The handler panics, which
\* answers 500, except that a POST ignores failed removals. (One that fails
\* after it took effect leads to the same states as one that succeeds, and a
\* crash of the process to those of a failure.)
Fail(c) ==
  /\ client[c].at # "out"
  /\ IF client[c].at \in {"findHash", "findSkin", "findName", "save"}
       THEN End(c) ELSE AfterRemoval(c)
  /\ UNCHANGED << skins, hash >>

-----------------------------------------------------------------------------

\* A step of a handler whose commands succeed.
Handle(c) ==
  \/ Post(c) \/ DeleteById(c) \/ DeleteByName(c)
  \/ FindHash(c) \/ FindSkin(c) \/ FindName(c)
  \/ RemoveHash(c) \/ RemoveSkin(c) \/ RemoveId(c) \/ RemoveFind(c) \/ RemoveName(c)
  \/ Save(c)

Next == \E c \in Clients : Handle(c) \/ Fail(c)

Spec == Init /\ [][Next]_vars

-----------------------------------------------------------------------------
(* Properties *)

\* FindSkinByUserId as one step
FindById(i) == IF hash[i] = NoName THEN NoSkin ELSE Find(Lower[hash[i]])

\* Every record can be reached through its identity, so it can be renamed and
\* deleted by it and no identity has two of them: as long as requests come one
\* at a time, or concurrent ones are about different identities and usernames,
\* whatever they do one after another and whichever of their commands fail.
RecordsAreReachable ==
  \A k \in Keys : Find(k) # NoSkin =>
    LET i == Find(k).user IN hash[i] # NoName /\ Lower[hash[i]] = k

\* A DELETE that is answered 204 leaves nothing behind that the same DELETE
\* would find, whatever state earlier renames and failures left the hash in.
DeletedIsGone ==
  [][\A c \in Clients, i \in Ids, n \in Names :
       RemoveId(c) /\ client[c].id = i /\ client[c].name = n =>
         /\ client[c].op = "deleteId" => FindById(i)' = NoSkin
         /\ client[c].op = "deleteName" => Find(Lower[n])' = NoSkin]_vars

-----------------------------------------------------------------------------
(* What the documentation says and the code does not do *)

\* "identityId: Unique record identifier": no two records have the same.
UniqueIdentity ==
  \A j, k \in Keys : Find(j) # NoSkin /\ Find(k) # NoSkin /\ Find(j).user = Find(k).user => j = k

\* "Performs record removal by identity id": the record that is removed for an
\* identity has that identity.
DeletesOwnRecord ==
  [][\A c \in Clients, k \in Keys :
       client[c].op = "deleteId" /\ RemoveId(c) /\ skins[k] # NoSkin /\ skins'[k] = NoSkin
         => skins[k].user = client[c].id]_vars

=============================================================================
