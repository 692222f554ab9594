-------------------------- MODULE TexturesProvider --------------------------
(***************************************************************************)
(* mojangtextures.Provider and its broadcaster                             *)
(* (src/mojangtextures/mojang_textures.go).                                *)
(*                                                                         *)
(* GetForUsername reads two caches. On a miss the calling goroutine        *)
(* registers a channel under its lower-cased username. The first one to    *)
(* register under a username spawns a worker goroutine that asks Mojang,   *)
(* fills the caches and sends one result to everybody registered by then.  *)
(* Calls, workers and deliveries interleave freely. The caches and Mojang  *)
(* are the provider's environment: the uuids cache is in Redis and         *)
(* survives a restart, reads and writes of it may fail, entries of both    *)
(* caches expire at any moment, and Mojang answers what it likes.          *)
(***************************************************************************)
EXTENDS Naturals, Sequences

CONSTANTS Calls,      \* the goroutines that call GetForUsername
          Names,      \* the names they pass, as they spell them
          Usernames,  \* the lower-cased usernames
          Lower,      \* strings.ToLower, NotAllowed for names the regexp refuses
          NotAllowed,
          Uuids,      \* the uuids of Mojang accounts
          NoUuid,     \* the empty uuid: Mojang has no such account
          Absent,     \* no cache entry
          NoTextures, \* nil textures and a nil error
          Failed      \* an error

ASSUME LowerAssumption == Lower \in [Names -> Usernames \cup {NotAllowed}]

\* The markers are told apart from the data and from each other.
ASSUME MarkersAssumption ==
  /\ NotAllowed \notin Usernames
  /\ {NoUuid, Absent, NoTextures, Failed} \cap Uuids = {}
  /\ NoUuid # Absent /\ NoTextures # Absent /\ NoTextures # Failed

\* Somebody calls and there is something to call about.
ASSUME NonEmptyAssumption == Usernames # {}

\* Textures are named by the uuid of the profile they are signed for.
Textures == Uuids \cup {NoTextures}
Results  == Textures \cup {Failed}

VARIABLES pc,         \* where each call is
          key,        \* its lower-cased username
          cached,     \* the uuid it has read from the uuids cache, or NoUuid
          ret,        \* what its last GetForUsername returned
          listeners,  \* broadcaster.listeners: the calls registered per username
          worker,     \* the goroutine spawned by each call
          outbox,     \* results sent to a call's channel and not yet received
          uuidCache,  \* the uuids storage (Redis)
          texCache,   \* the textures storage (memory)
          resolved    \* history: what Mojang said the uuid of a username is

callVars   == << pc, key, cached, ret >>
cacheVars  == << uuidCache, texCache >>
vars == << callVars, listeners, worker, outbox, cacheVars, resolved >>

NoWorker == [pc |-> "none", cached |-> NoUuid, uuid |-> NoUuid, result |-> NoTextures,
             gone |-> NoUuid, asked |-> 0, fetched |-> 0]

\* gone, asked and fetched are history: the uuid Mojang reported as
\* disappeared, and the requests made so far for a uuid and for textures.
Worker == [pc : {"none", "resolve", "storeUuid", "fetch", "storeTextures", "broadcast"},
           cached : Uuids \cup {NoUuid}, uuid : Uuids \cup {NoUuid}, result : Results,
           gone : Uuids \cup {NoUuid}, asked : Nat, fetched : Nat]

CallStates == {"idle", "readUuid", "readTextures", "register", "waiting"}

\* The types of the variables. What a call returns is textures, nil or an
\* error: a missing cache entry is never handed out.
TypeOK ==
  /\ pc \in [Calls -> CallStates]
  /\ key \in [Calls -> Usernames]
  /\ cached \in [Calls -> Uuids \cup {NoUuid}]
  /\ ret \in [Calls -> Results]
  /\ listeners \in [Usernames -> SUBSET Calls]
  /\ worker \in [Calls -> Worker]
  /\ outbox \in [Calls -> Seq(Results)]
  /\ uuidCache \in [Usernames -> Uuids \cup {NoUuid, Absent}]
  /\ texCache \in [Uuids -> Textures \cup {Absent}]
  /\ resolved \in [Usernames -> SUBSET (Uuids \cup {NoUuid})]

Init ==
  /\ pc = [c \in Calls |-> "idle"]
  /\ key = [c \in Calls |-> CHOOSE u \in Usernames : TRUE]
  /\ cached = [c \in Calls |-> NoUuid]
  /\ ret = [c \in Calls |-> NoTextures]
  /\ listeners = [u \in Usernames |-> {}]
  /\ worker = [c \in Calls |-> NoWorker]
  /\ outbox = [c \in Calls |-> << >>]
  /\ uuidCache = [u \in Usernames |-> Absent]
  /\ texCache = [x \in Uuids |-> Absent]
  /\ resolved = [u \in Usernames |-> {}]

-----------------------------------------------------------------------------
(* The calling goroutine *)

Goto(c, l) == pc' = [pc EXCEPT ![c] = l]

Return(c, r) == /\ Goto(c, "idle")
                /\ ret' = [ret EXCEPT ![c] = r]
                /\ cached' = [cached EXCEPT ![c] = NoUuid]

\* GetForUsername begins: a name Mojang would not allow is answered at once.
Call(c, n) ==
  /\ pc[c] = "idle"
  /\ IF Lower[n] = NotAllowed
       THEN Return(c, NoTextures) /\ UNCHANGED key
       ELSE /\ Goto(c, "readUuid")
            /\ key' = [key EXCEPT ![c] = Lower[n]]
            /\ UNCHANGED << ret, cached >>
  /\ UNCHANGED << listeners, worker, outbox, cacheVars, resolved >>

\* getUuidFromCache. The storage may fail. An empty uuid that is found means
\* that there is no such account.
ReadUuid(c) ==
  /\ pc[c] = "readUuid"
  /\ \/ Return(c, Failed)
     \/ /\ uuidCache[key[c]] = NoUuid
        /\ Return(c, NoTextures)
     \/ /\ uuidCache[key[c]] = Absent
        /\ Goto(c, "register") /\ UNCHANGED << ret, cached >>
     \/ /\ uuidCache[key[c]] \in Uuids
        /\ cached' = [cached EXCEPT ![c] = uuidCache[key[c]]]
        /\ Goto(c, "readTextures") /\ UNCHANGED ret
  /\ UNCHANGED << key, listeners, worker, outbox, cacheVars, resolved >>

\* Mutant of ReadTextures: the answer of the textures storage is returned as
\* it is, entry or no entry.
ReadTexturesUnchecked(c) ==
  /\ pc[c] = "readTextures"
  /\ Return(c, texCache[cached[c]])
  /\ UNCHANGED << key, listeners, worker, outbox, cacheVars, resolved >>

\* getTexturesFromCache: stored nil textures and no entry look the same.
ReadTextures(c) ==
  /\ pc[c] = "readTextures"
  /\ IF texCache[cached[c]] \in Uuids
       THEN Return(c, texCache[cached[c]])
       ELSE Goto(c, "register") /\ UNCHANGED << ret, cached >>
  /\ UNCHANGED << key, listeners, worker, outbox, cacheVars, resolved >>

\* What getResult begins with: the textures request if the uuid is known, the
\* uuid request if it is not.
NewWorker(x) == [NoWorker EXCEPT !.pc = IF x = NoUuid THEN "resolve" ELSE "fetch",
                                 !.cached = x, !.uuid = x]

\* Mutant of Register: every listener takes itself for the first.
RegisterAlwaysFirst(c) ==
  /\ pc[c] = "register"
  /\ worker' = [worker EXCEPT ![c] = NewWorker(cached[c])]
  /\ listeners' = [listeners EXCEPT ![key[c]] = @ \cup {c}]
  /\ Goto(c, "waiting")
  /\ UNCHANGED << key, cached, ret, outbox, cacheVars, resolved >>

\* broadcaster.AddListener and, for the first listener, the go statement.
Register(c) ==
  /\ pc[c] = "register"
  /\ worker' = IF listeners[key[c]] = {}
                 THEN [worker EXCEPT ![c] = NewWorker(cached[c])]
                 ELSE worker
  /\ listeners' = [listeners EXCEPT ![key[c]] = @ \cup {c}]
  /\ Goto(c, "waiting")
  /\ UNCHANGED << key, cached, ret, outbox, cacheVars, resolved >>

\* The call receives its result and returns it.
Receive(c) ==
  /\ pc[c] = "waiting" /\ outbox[c] # << >>
  /\ Return(c, Head(outbox[c]))
  /\ outbox' = [outbox EXCEPT ![c] = Tail(@)]
  /\ UNCHANGED << key, listeners, worker, cacheVars, resolved >>

-----------------------------------------------------------------------------
(* The worker goroutine: getResultAndBroadcast, spawned by call w for the   *)
(* username key[w] (w waits for its result, so key[w] stays as it is).      *)

Work(w, r) == worker' = [worker EXCEPT ![w] = r]

Finish(w, r) == [worker[w] EXCEPT !.pc = "broadcast", !.result = r]

\* Mutant of Resolve: the error of getUuid is not looked at, and the nil
\* profile that comes with it is stored as an account that does not exist.
ResolveIgnoringErrors(w) ==
  /\ worker[w].pc = "resolve"
  /\ \/ /\ Work(w, [worker[w] EXCEPT !.pc = "storeUuid", !.uuid = NoUuid, !.asked = @ + 1])
        /\ UNCHANGED resolved
     \/ \E x \in Uuids \cup {NoUuid} :
          /\ Work(w, [worker[w] EXCEPT !.pc = "storeUuid", !.uuid = x, !.asked = @ + 1])
          /\ resolved' = [resolved EXCEPT ![key[w]] = @ \cup {x}]
  /\ UNCHANGED << callVars, listeners, outbox, cacheVars >>

\* Mutant of Resolve: on an error the worker returns before it broadcasts.
ResolveWithoutBroadcast(w) ==
  /\ worker[w].pc = "resolve"
  /\ \/ /\ Work(w, NoWorker)
        /\ UNCHANGED resolved
     \/ \E x \in Uuids \cup {NoUuid} :
          /\ Work(w, [worker[w] EXCEPT !.pc = "storeUuid", !.uuid = x, !.asked = @ + 1])
          /\ resolved' = [resolved EXCEPT ![key[w]] = @ \cup {x}]
  /\ UNCHANGED << callVars, listeners, outbox, cacheVars >>

\* ctx.getUuid: an error ends the flight, an answer goes on to the storage.
Resolve(w) ==
  /\ worker[w].pc = "resolve"
  /\ \/ /\ Work(w, [Finish(w, Failed) EXCEPT !.asked = @ + 1])
        /\ UNCHANGED resolved
     \/ \E x \in Uuids \cup {NoUuid} :
          /\ Work(w, [worker[w] EXCEPT !.pc = "storeUuid", !.uuid = x, !.asked = @ + 1])
          /\ resolved' = [resolved EXCEPT ![key[w]] = @ \cup {x}]
  /\ UNCHANGED << callVars, listeners, outbox, cacheVars >>

\* Storage.StoreUuid, whose error is ignored. No uuid, no textures.
StoreUuid(w) ==
  /\ worker[w].pc = "storeUuid"
  /\ \/ uuidCache' = [uuidCache EXCEPT ![key[w]] = worker[w].uuid]
     \/ UNCHANGED uuidCache
  /\ Work(w, IF worker[w].uuid = NoUuid
               THEN Finish(w, NoTextures)
               ELSE [worker[w] EXCEPT !.pc = "fetch"])
  /\ UNCHANGED << callVars, listeners, outbox, texCache, resolved >>

\* ctx.getTextures answers: textures of the uuid, or nil when the body of the
\* response was not what it should be.
Fetch(w) ==
  /\ worker[w].pc = "fetch"
  /\ \E t \in {worker[w].uuid, NoTextures} :
       Work(w, [worker[w] EXCEPT !.pc = "storeTextures", !.result = t, !.fetched = @ + 1])
  /\ UNCHANGED << callVars, listeners, outbox, cacheVars, resolved >>

\* ctx.getTextures reports an error other than an empty response.
FetchError(w) ==
  /\ worker[w].pc = "fetch"
  /\ Work(w, [Finish(w, Failed) EXCEPT !.fetched = @ + 1])
  /\ UNCHANGED << callVars, listeners, outbox, cacheVars, resolved >>

\* Mutant of FetchEmpty: the retry keeps the uuid it came with.
FetchEmptyKeepingUuid(w) ==
  /\ worker[w].pc = "fetch"
  /\ Work(w, IF worker[w].cached # NoUuid
               THEN [worker[w] EXCEPT !.fetched = @ + 1]
               ELSE [Finish(w, Failed) EXCEPT !.fetched = @ + 1])
  /\ UNCHANGED << callVars, listeners, outbox, cacheVars, resolved >>

\* ctx.getTextures reports an empty response: if the uuid came from the cache
\* the worker starts over without it, otherwise this is an error.
FetchEmpty(w) ==
  /\ worker[w].pc = "fetch"
  /\ Work(w, IF worker[w].cached # NoUuid
               THEN [worker[w] EXCEPT !.pc = "resolve", !.cached = NoUuid, !.uuid = NoUuid,
                                      !.gone = worker[w].uuid, !.fetched = @ + 1]
               ELSE [Finish(w, Failed) EXCEPT !.fetched = @ + 1])
  /\ UNCHANGED << callVars, listeners, outbox, cacheVars, resolved >>

\* Storage.StoreTextures, nil textures included.
StoreTextures(w) ==
  /\ worker[w].pc = "storeTextures"
  /\ texCache' = [texCache EXCEPT ![worker[w].uuid] = worker[w].result]
  /\ Work(w, Finish(w, worker[w].result))
  /\ UNCHANGED << callVars, listeners, outbox, uuidCache, resolved >>

\* Mutant of Broadcast: the listeners are told and stay registered.
BroadcastWithoutRemove(w) ==
  /\ worker[w].pc = "broadcast"
  /\ outbox' = [c \in Calls |-> IF c \in listeners[key[w]]
                                  THEN Append(outbox[c], worker[w].result)
                                  ELSE outbox[c]]
  /\ Work(w, NoWorker)
  /\ UNCHANGED << callVars, listeners, cacheVars, resolved >>

\* Mutant of Broadcast: only the call that spawned the worker is told.
BroadcastToTheFirst(w) ==
  /\ worker[w].pc = "broadcast"
  /\ outbox' = [outbox EXCEPT ![w] = Append(@, worker[w].result)]
  /\ listeners' = [listeners EXCEPT ![key[w]] = @ \ {w}]
  /\ Work(w, NoWorker)
  /\ UNCHANGED << callVars, cacheVars, resolved >>

\* Mutant of Broadcast: the listeners of every username are told.
BroadcastToAll(w) ==
  /\ worker[w].pc = "broadcast"
  /\ outbox' = [c \in Calls |-> IF \E u \in Usernames : c \in listeners[u]
                                  THEN Append(outbox[c], worker[w].result)
                                  ELSE outbox[c]]
  /\ listeners' = [u \in Usernames |-> {}]
  /\ Work(w, NoWorker)
  /\ UNCHANGED << callVars, cacheVars, resolved >>

\* broadcaster.BroadcastAndRemove: one sending goroutine per listener. The
\* worker ends.
Broadcast(w) ==
  /\ worker[w].pc = "broadcast"
  /\ outbox' = [c \in Calls |-> IF c \in listeners[key[w]]
                                  THEN Append(outbox[c], worker[w].result)
                                  ELSE outbox[c]]
  /\ listeners' = [listeners EXCEPT ![key[w]] = {}]
  /\ Work(w, NoWorker)
  /\ UNCHANGED << callVars, cacheVars, resolved >>

-----------------------------------------------------------------------------
(* The environment *)

\* The uuid of u is too old, or was removed from Redis.
ExpireUuid(u) ==
  /\ uuidCache[u] # Absent
  /\ uuidCache' = [uuidCache EXCEPT ![u] = Absent]
  /\ UNCHANGED << callVars, listeners, worker, outbox, texCache, resolved >>

\* The textures of x are out of date.
ExpireTextures(x) ==
  /\ texCache[x] # Absent
  /\ texCache' = [texCache EXCEPT ![x] = Absent]
  /\ UNCHANGED << callVars, listeners, worker, outbox, uuidCache, resolved >>

\* The process dies and is started again: only what is in Redis remains.
Restart ==
  /\ pc' = [c \in Calls |-> "idle"]
  /\ cached' = [c \in Calls |-> NoUuid]
  /\ ret' = [c \in Calls |-> NoTextures]
  /\ listeners' = [u \in Usernames |-> {}]
  /\ worker' = [c \in Calls |-> NoWorker]
  /\ outbox' = [c \in Calls |-> << >>]
  /\ texCache' = [x \in Uuids |-> Absent]
  /\ UNCHANGED << key, uuidCache, resolved >>

-----------------------------------------------------------------------------

CallStep(c) == \/ ReadUuid(c) \/ ReadTextures(c) \/ Register(c) \/ Receive(c)

WorkerStep(w) == \/ Resolve(w) \/ StoreUuid(w)
                 \/ Fetch(w) \/ FetchError(w) \/ FetchEmpty(w)
                 \/ StoreTextures(w) \/ Broadcast(w)

Next == \/ \E c \in Calls : (\E n \in Names : Call(c, n)) \/ CallStep(c) \/ WorkerStep(c)
        \/ \E u \in Usernames : ExpireUuid(u)
        \/ \E x \in Uuids : ExpireTextures(x)
        \/ Restart

Spec == Init /\ [][Next]_vars

\* The scheduler runs every goroutine that can run, requests to Mojang end
\* (the HTTP client of api/mojang has a timeout), and nobody has to call.
Fairness == \A c \in Calls : WF_vars(CallStep(c)) /\ WF_vars(WorkerStep(c))

FairSpec == Spec /\ Fairness

-----------------------------------------------------------------------------
(* Properties *)

Live(w) == worker[w].pc # "none"

\* At most one goroutine works on a username at any time, however calls for
\* it interleave with its broadcast (AddListener and BroadcastAndRemove).
SingleWorker ==
  \A v, w \in Calls : Live(v) /\ Live(w) /\ key[v] = key[w] => v = w

\* Nobody is forgotten and nobody is told twice: a waiting call is either
\* registered under its username with a worker on the way, or has exactly one
\* result coming; no sender is left without a receiver.
NoLostCaller ==
  \A c \in Calls :
    IF pc[c] = "waiting"
      THEN \/ /\ c \in listeners[key[c]] /\ outbox[c] = << >>
              /\ \E w \in listeners[key[c]] : Live(w)
           \/ /\ c \notin listeners[key[c]] /\ Len(outbox[c]) = 1
      ELSE outbox[c] = << >> /\ \A u \in Usernames : c \notin listeners[u]

\* Textures a caller is given were signed for a uuid that Mojang once gave for
\* the username the caller asked about, however cached uuids, cached textures,
\* shared flights and restarts mix.
OwnTextures ==
  \A c \in Calls : pc[c] = "idle" /\ ret[c] \in Uuids => ret[c] \in resolved[key[c]]

\* The caches hold what Mojang said: a uuid under the username it was given
\* for, textures under the uuid they are signed for. Restarts included.
HonestCaches ==
  /\ \A u \in Usernames : uuidCache[u] # Absent => uuidCache[u] \in resolved[u]
  /\ \A x \in Uuids : texCache[x] \in {x, NoTextures, Absent}

\* A flight costs Mojang at most one request for a uuid and two for textures,
\* and the second textures request only follows a uuid request: the retry in
\* getResult cannot repeat itself.
BoundedRequests ==
  \A w \in Calls : /\ worker[w].asked <= 1
                   /\ worker[w].fetched <= 1 + worker[w].asked

\* Every call that waits for a flight is answered.
EveryCallReturns == \A c \in Calls : pc[c] # "idle" ~> pc[c] = "idle"

\* The provider as a single flight: a call is aboard while it waits with
\* nothing on the way, and has its answer from the moment it is sent.
Phase(c) == IF pc[c] = "idle" THEN "out"
            ELSE IF pc[c] # "waiting" THEN "asking"
            ELSE IF outbox[c] = << >> THEN "joined" ELSE "answered"

Told(c) == IF outbox[c] # << >> THEN Head(outbox[c]) ELSE ret[c]

Flight == INSTANCE SingleFlight WITH
  Topics  <- Usernames,
  Answers <- Results,
  phase   <- [c \in Calls |-> Phase(c)],
  topic   <- key,
  answer  <- [c \in Calls |-> Told(c)]

\* The provider implements the single flight: callers that have joined one
\* get the same answer in one step, and no call gets an answer of another
\* flight.
SingleFlightSpec == Flight!Spec

-----------------------------------------------------------------------------
(* What comments and tests of the code say and the code does not do *)

\* "Mojang can respond with an error, but it will still count as a hit,
\* therefore store the result even if textures is nil to prevent 429 error":
\* no worker requests textures for a uuid while nil is stored for it.
NilTexturesAreAHit ==
  [][\A w \in Calls : (Fetch(w) \/ FetchError(w) \/ FetchEmpty(w))
                        => texCache[worker[w].uuid] # NoTextures]_vars

\* "Previously cached UUIDs may disappear. In this case we must invalidate
\* UUID cache for given username": a flight that was told that a cached uuid
\* is gone leaves the cache without it, unless Mojang gave the same uuid again.
GoneUuidIsInvalidated ==
  \A w \in Calls :
    worker[w].pc = "broadcast" /\ worker[w].gone # NoUuid /\ worker[w].uuid # worker[w].gone
      => uuidCache[key[w]] # worker[w].gone

\* TestGetForTheSameUsernames expects one uuid request for two concurrent
\* calls: no flight asks Mojang for a uuid that is in the cache by then
\* (requests made after a cached uuid disappeared are not counted).
NoNeedlessRequest ==
  [][\A w \in Calls : Resolve(w) /\ worker[w].gone = NoUuid
                        => uuidCache[key[w]] = Absent]_vars

=============================================================================
