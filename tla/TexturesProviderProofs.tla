----------------------- MODULE TexturesProviderProofs -----------------------
(***************************************************************************)
(* Proofs about TexturesProvider, for any number of calls, names and       *)
(* accounts. The inductive invariant has two halves: FlightInv is about    *)
(* the broadcaster (who is registered, who works, who is being told), and  *)
(* DataInv about what travels through it (whose uuid, whose textures, how  *)
(* many requests). FlightInv stands on its own, DataInv needs it.          *)
(***************************************************************************)
EXTENDS TexturesProvider, TLAPS

\* A worker that asks for textures or stores them knows the uuid and has what
\* it stores.
WorkersAreReady ==
  \A w \in Calls :
    /\ worker[w].pc \in {"fetch", "storeTextures"} => worker[w].uuid \in Uuids
    /\ worker[w].pc = "storeTextures" => worker[w].result \in {worker[w].uuid, NoTextures}

TypeInv == TypeOK /\ WorkersAreReady

\* A live worker's call is registered under its username until it broadcasts.
WorkersAreRegistered == \A w \in Calls : Live(w) => w \in listeners[key[w]]

\* Whoever is registered waits under its own username with nothing on the way.
ListenersWait ==
  \A u \in Usernames : \A c \in listeners[u] :
    pc[c] = "waiting" /\ key[c] = u /\ outbox[c] = << >>

\* A username with listeners has a worker, and one of them has spawned it.
ListenersAreServed ==
  \A u \in Usernames : listeners[u] # {} => \E w \in listeners[u] : Live(w)

\* Whoever waits is registered or has one result coming, and nobody else has.
WaitersAreHeard ==
  \A c \in Calls :
    /\ pc[c] = "waiting" => c \in listeners[key[c]] \/ Len(outbox[c]) = 1
    /\ pc[c] # "waiting" => outbox[c] = << >>

FlightInv == /\ WorkersAreRegistered
             /\ ListenersWait
             /\ ListenersAreServed
             /\ WaitersAreHeard
             /\ SingleWorker

\* A call holds a uuid only after it read one, and the uuid is its username's.
CachedIsOwn ==
  \A c \in Calls :
    /\ cached[c] # NoUuid => /\ pc[c] \in {"readTextures", "register", "waiting"}
                             /\ cached[c] \in resolved[key[c]]
    /\ pc[c] = "readTextures" => cached[c] # NoUuid

\* What worker k holds is one of the uuids in R, or signed for one.
Own(k, R) ==
  /\ k.pc # "none" /\ k.uuid \in Uuids => k.uuid \in R
  /\ k.pc = "storeUuid" => k.uuid \in R
  /\ k.pc = "broadcast" /\ k.result \in Uuids => k.result \in R

\* A worker holds a uuid of its username and results signed for such a uuid.
WorkIsOwn == \A w \in Calls : Own(worker[w], resolved[key[w]])

\* So is what is on the way to a call.
BoxIsOwn ==
  \A c \in Calls : \A i \in 1..Len(outbox[c]) :
    outbox[c][i] \in Uuids => outbox[c][i] \in resolved[key[c]]

\* Where worker k stands in its sequence of requests.
Counted(k) ==
  /\ k.asked <= 1 /\ k.fetched <= 1 + k.asked
  /\ k.pc = "resolve" => k.cached = NoUuid /\ k.asked = 0 /\ k.fetched <= 1
  /\ k.pc = "storeUuid" => k.cached = NoUuid /\ k.asked = 1 /\ k.fetched <= 1
  /\ k.pc = "fetch" => \/ k.cached # NoUuid /\ k.asked = 0 /\ k.fetched = 0
                       \/ k.cached = NoUuid /\ k.asked = 1 /\ k.fetched <= 1

RequestsCounted == \A w \in Calls : Counted(worker[w])

DataInv == /\ CachedIsOwn
           /\ WorkIsOwn
           /\ BoxIsOwn
           /\ RequestsCounted
           /\ OwnTextures
           /\ HonestCaches

-----------------------------------------------------------------------------

\* The worker a call has before it spawned one, and after, is a worker.
LEMMA NoWorkerType == NoWorker \in Worker
  BY DEF NoWorker, Worker, Results, Textures

\* A worker is spawned with the cached uuid or without one.
LEMMA NewWorkerType == ASSUME NEW x \in Uuids \cup {NoUuid}
                       PROVE  NewWorker(x) \in Worker
  BY NoWorkerType DEF NewWorker, NoWorker, Worker

\* The worker that ends a flight with result r, counting a request or not.
IsFinished(w, r) ==
  \A n \in { Finish(w, r), [Finish(w, r) EXCEPT !.asked = @ + 1],
            [Finish(w, r) EXCEPT !.fetched = @ + 1] } :
    n \in Worker /\ n.pc = "broadcast" /\ n.result = r

\* A worker whose result is there only waits to broadcast it.
LEMMA FinishType ==
  ASSUME TypeOK PROVE \A w \in Calls, r \in Results : IsFinished(w, r)
  <1> SUFFICES ASSUME NEW w \in Calls, NEW r \in Results PROVE IsFinished(w, r)
    OBVIOUS
  <1>1. worker[w] \in Worker
    BY DEF TypeOK
  <1>2. ASSUME NEW k \in Worker
        PROVE  LET n == [k EXCEPT !.pc = "broadcast", !.result = r]
               IN  n \in Worker /\ n.pc = "broadcast" /\ n.result = r
    BY DEF Worker
  <1>3. Finish(w, r) \in Worker /\ Finish(w, r).pc = "broadcast" /\ Finish(w, r).result = r
    BY <1>1, <1>2 DEF Finish
  <1>4. ASSUME NEW k \in Worker
        PROVE  \A n \in { [k EXCEPT !.asked = @ + 1], [k EXCEPT !.fetched = @ + 1] } :
                 n \in Worker /\ n.pc = k.pc /\ n.result = k.result
    BY DEF Worker
  <1> QED BY <1>3, <1>4 DEF IsFinished

\* What the steps of a worker make of its record.
LEMMA WorkerUpdates ==
  ASSUME NEW k \in Worker, NEW x \in Uuids \cup {NoUuid}, NEW r \in Results
  PROVE  /\ [k EXCEPT !.pc = "storeUuid", !.uuid = x, !.asked = @ + 1] \in Worker
         /\ [k EXCEPT !.pc = "storeTextures", !.result = r, !.fetched = @ + 1] \in Worker
         /\ [k EXCEPT !.pc = "resolve", !.cached = NoUuid, !.uuid = NoUuid,
                      !.gone = x, !.fetched = @ + 1] \in Worker
  <1>1. k.asked + 1 \in Nat /\ k.fetched + 1 \in Nat
    BY DEF Worker
  <1>2. [k EXCEPT !.pc = "storeUuid", !.uuid = x, !.asked = @ + 1] \in Worker
    BY <1>1 DEF Worker
  <1>3. [k EXCEPT !.pc = "storeTextures", !.result = r, !.fetched = @ + 1] \in Worker
    BY <1>1 DEF Worker
  <1>4. [k EXCEPT !.pc = "resolve", !.cached = NoUuid, !.uuid = NoUuid,
                  !.gone = x, !.fetched = @ + 1] \in Worker
    BY <1>1 DEF Worker
  <1> QED BY <1>2, <1>3, <1>4

\* Every variable keeps its type: each step of each goroutine, of the caches
\* and of a restart leaves a state the code could hold in memory.
LEMMA TypeStep == TypeInv /\ [Next]_vars => TypeInv'
  <1> SUFFICES ASSUME TypeInv, [Next]_vars PROVE TypeInv'
    OBVIOUS
  <1> USE DEF callVars, cacheVars, Goto, Return, Work
  <1>a. TypeOK /\ WorkersAreReady
    BY DEF TypeInv
  <1>b. ASSUME worker' = worker, TypeOK' PROVE TypeInv'
    BY <1>a, <1>b DEF TypeInv, WorkersAreReady
  \* A step that changes one worker only.
  <1>c. ASSUME NEW w \in Calls, NEW k \in Worker,
               worker' = [worker EXCEPT ![w] = k],
               k.pc \in {"fetch", "storeTextures"} => k.uuid \in Uuids,
               k.pc = "storeTextures" => k.result \in {k.uuid, NoTextures}
        PROVE  worker' \in [Calls -> Worker] /\ WorkersAreReady'
    BY <1>a, <1>c DEF TypeOK, WorkersAreReady
  <1>d. \A w \in Calls : worker[w] \in Worker
    BY <1>a DEF TypeOK
  <1>e. Failed \in Results /\ NoTextures \in Results
    BY DEF Results, Textures
  <1>f. \A w \in Calls, r \in Results : IsFinished(w, r)
    BY <1>a, FinishType
  <1> USE DEF IsFinished
  <1>1. ASSUME NEW c \in Calls, NEW n \in Names, Call(c, n) PROVE TypeInv'
    BY <1>1, <1>a, <1>b, LowerAssumption DEF Call, TypeOK, CallStates, Results, Textures
  <1>2. ASSUME NEW c \in Calls, ReadUuid(c) PROVE TypeInv'
    BY <1>2, <1>a, <1>b DEF ReadUuid, TypeOK, CallStates, Results, Textures
  <1>3. ASSUME NEW c \in Calls, ReadTextures(c) PROVE TypeInv'
    BY <1>3, <1>a, <1>b DEF ReadTextures, TypeOK, CallStates, Results, Textures
  <1>4. ASSUME NEW c \in Calls, Register(c) PROVE TypeInv'
    <2>1. cached[c] \in Uuids \cup {NoUuid}
      BY <1>a DEF TypeOK
    <2>2. worker' \in [Calls -> Worker] /\ WorkersAreReady'
      <3>1. CASE listeners[key[c]] = {}
        <4>1. NewWorker(cached[c]) \in Worker
          BY <2>1, NewWorkerType
        <4>2. /\ NewWorker(cached[c]).pc # "storeTextures"
              /\ NewWorker(cached[c]).pc = "fetch" => NewWorker(cached[c]).uuid \in Uuids
          BY <2>1 DEF NewWorker, NoWorker
        <4> QED BY <1>4, <1>c, <3>1, <4>1, <4>2 DEF Register
      <3>2. CASE listeners[key[c]] # {}
        BY <1>4, <1>a, <3>2 DEF Register, TypeOK, WorkersAreReady
      <3> QED BY <3>1, <3>2
    <2> QED BY <1>4, <1>a, <2>2 DEF Register, TypeOK, CallStates, TypeInv
  <1>5. ASSUME NEW c \in Calls, Receive(c) PROVE TypeInv'
    <2>1. outbox[c] \in Seq(Results) /\ outbox[c] # << >>
      BY <1>5, <1>a DEF Receive, TypeOK
    <2>2. Head(outbox[c]) \in Results /\ Tail(outbox[c]) \in Seq(Results)
      BY <2>1
    <2> QED BY <1>5, <1>a, <1>b, <2>2 DEF Receive, TypeOK, CallStates
  <1>6. ASSUME NEW w \in Calls, Resolve(w) PROVE TypeInv'
    <2>1. worker' \in [Calls -> Worker] /\ WorkersAreReady'
      <3>1. CASE worker' = [worker EXCEPT ![w] = [Finish(w, Failed) EXCEPT !.asked = @ + 1]]
        BY <3>1, <1>c, <1>e, <1>f
      <3>2. ASSUME NEW x \in Uuids \cup {NoUuid},
                   worker' = [worker EXCEPT ![w] = [worker[w] EXCEPT
                                !.pc = "storeUuid", !.uuid = x, !.asked = @ + 1]]
            PROVE  worker' \in [Calls -> Worker] /\ WorkersAreReady'
        <4> DEFINE k == [worker[w] EXCEPT !.pc = "storeUuid", !.uuid = x, !.asked = @ + 1]
        <4>1. k \in Worker /\ k.pc = "storeUuid"
          <5>1. k \in Worker
            BY <1>d, <1>e, WorkerUpdates
          <5> QED BY <1>d, <5>1 DEF Worker
        <4> QED BY <3>2, <4>1, <1>c
      <3> QED BY <1>6, <3>1, <3>2 DEF Resolve
    <2>2. resolved' \in [Usernames -> SUBSET (Uuids \cup {NoUuid})]
      <3>1. CASE UNCHANGED resolved
        BY <1>a, <3>1 DEF TypeOK
      <3>2. ASSUME NEW x \in Uuids \cup {NoUuid},
                   resolved' = [resolved EXCEPT ![key[w]] = @ \cup {x}]
            PROVE  resolved' \in [Usernames -> SUBSET (Uuids \cup {NoUuid})]
        BY <1>a, <3>2 DEF TypeOK
      <3> QED BY <1>6, <3>1, <3>2 DEF Resolve
    <2> QED BY <1>6, <1>a, <2>1, <2>2 DEF Resolve, TypeOK, TypeInv
  <1>7. ASSUME NEW w \in Calls, StoreUuid(w) PROVE TypeInv'
    <2>1. worker' \in [Calls -> Worker] /\ WorkersAreReady'
      <3>1. CASE worker[w].uuid = NoUuid
        BY <1>7, <3>1, <1>c, <1>e, <1>f DEF StoreUuid
      <3>2. CASE worker[w].uuid # NoUuid
        <4> DEFINE k == [worker[w] EXCEPT !.pc = "fetch"]
        <4>1. k \in Worker /\ k.pc = "fetch" /\ k.uuid \in Uuids
          BY <1>d, <3>2 DEF Worker
        <4> QED BY <1>7, <3>2, <4>1, <1>c DEF StoreUuid
      <3> QED BY <3>1, <3>2
    <2>2. worker[w].uuid \in Uuids \cup {NoUuid}
      BY <1>d DEF Worker
    <2> QED BY <1>7, <1>a, <2>1, <2>2 DEF StoreUuid, TypeOK, TypeInv
  <1>8. ASSUME NEW w \in Calls, Fetch(w) PROVE TypeInv'
    <2>1. PICK t \in {worker[w].uuid, NoTextures} :
            worker' = [worker EXCEPT ![w] = [worker[w] EXCEPT
                         !.pc = "storeTextures", !.result = t, !.fetched = @ + 1]]
      BY <1>8 DEF Fetch
    <2> DEFINE k == [worker[w] EXCEPT !.pc = "storeTextures", !.result = t, !.fetched = @ + 1]
    <2>2. worker[w].uuid \in Uuids
      BY <1>8, <1>a DEF Fetch, WorkersAreReady
    <2>3. k \in Worker /\ k.uuid \in Uuids /\ k.result \in {k.uuid, NoTextures}
      <3>1. t \in Results
        BY <2>2, <1>e DEF Results, Textures
      <3>2. k \in Worker
        BY <1>d, <2>2, <3>1, WorkerUpdates
      <3> QED BY <1>d, <2>2, <3>2 DEF Worker
    <2> QED BY <1>8, <1>a, <1>c, <2>1, <2>3 DEF Fetch, TypeOK, TypeInv
  <1>9. ASSUME NEW w \in Calls, FetchError(w) PROVE TypeInv'
    BY <1>9, <1>a, <1>c, <1>e, <1>f DEF FetchError, TypeOK, TypeInv
  <1>10. ASSUME NEW w \in Calls, FetchEmpty(w) PROVE TypeInv'
    <2>1. CASE worker[w].cached # NoUuid
      <3> DEFINE k == [worker[w] EXCEPT !.pc = "resolve", !.cached = NoUuid, !.uuid = NoUuid,
                                        !.gone = worker[w].uuid, !.fetched = @ + 1]
      <3>1. worker[w].uuid \in Uuids \cup {NoUuid}
        BY <1>d DEF Worker
      <3>2. k \in Worker /\ k.pc = "resolve"
        <4>1. k \in Worker
          BY <1>d, <1>e, <3>1, WorkerUpdates
        <4> QED BY <1>d, <4>1 DEF Worker
      <3> QED BY <1>10, <1>a, <1>c, <2>1, <3>2 DEF FetchEmpty, TypeOK, TypeInv
    <2>2. CASE worker[w].cached = NoUuid
      BY <1>10, <1>a, <1>c, <1>e, <1>f, <2>2 DEF FetchEmpty, TypeOK, TypeInv
    <2> QED BY <2>1, <2>2
  <1>11. ASSUME NEW w \in Calls, StoreTextures(w) PROVE TypeInv'
    <2>1. worker[w].uuid \in Uuids /\ worker[w].result \in Textures
      BY <1>11, <1>a DEF StoreTextures, WorkersAreReady, Textures
    <2>2. worker' \in [Calls -> Worker] /\ WorkersAreReady'
      BY <1>11, <1>c, <1>f, <2>1 DEF StoreTextures, Results
    <2> QED BY <1>11, <1>a, <2>1, <2>2 DEF StoreTextures, TypeOK, TypeInv
  <1>12. ASSUME NEW w \in Calls, Broadcast(w) PROVE TypeInv'
    <2>1. worker' \in [Calls -> Worker] /\ WorkersAreReady'
      BY <1>12, <1>c, NoWorkerType DEF Broadcast, NoWorker
    <2>2. \A c \in Calls : Append(outbox[c], worker[w].result) \in Seq(Results)
      BY <1>a, <1>d DEF TypeOK, Worker
    <2> QED BY <1>12, <1>a, <2>1, <2>2 DEF Broadcast, TypeOK, TypeInv
  <1>13. ASSUME NEW u \in Usernames, ExpireUuid(u) PROVE TypeInv'
    BY <1>13, <1>a, <1>b DEF ExpireUuid, TypeOK
  <1>14. ASSUME NEW x \in Uuids, ExpireTextures(x) PROVE TypeInv'
    BY <1>14, <1>a, <1>b DEF ExpireTextures, TypeOK
  <1>15. CASE Restart
    <2>1. worker' \in [Calls -> Worker] /\ WorkersAreReady'
      BY <1>15, NoWorkerType DEF Restart, WorkersAreReady, NoWorker
    <2> QED BY <1>15, <1>a, <1>e, <2>1 DEF Restart, TypeOK, TypeInv, CallStates
  <1>16. CASE UNCHANGED vars
    BY <1>16, <1>a DEF vars, TypeInv, TypeOK, WorkersAreReady
  <1> QED
    BY <1>1, <1>2, <1>3, <1>4, <1>5, <1>6, <1>7, <1>8, <1>9, <1>10, <1>11, <1>12, <1>13,
       <1>14, <1>15, <1>16 DEF Next, CallStep, WorkerStep

\* TypeInv is inductive by itself.
LEMMA TypeInvHolds == Spec => []TypeInv
  <1>1. Init => TypeInv
    BY NonEmptyAssumption, NoWorkerType
       DEF Init, TypeInv, TypeOK, WorkersAreReady, NoWorker, CallStates, Results, Textures
  <1> QED BY <1>1, TypeStep, PTL DEF Spec

\* Every variable of the provider keeps its type, for any number of calls,
\* names and accounts. NoTextures, Failed and the uuids stay apart, so what
\* GetForUsername returns is textures, nil or an error.
THEOREM TypeCorrect == Spec => []TypeOK
  BY TypeInvHolds, PTL DEF TypeInv

-----------------------------------------------------------------------------
(* The broadcaster *)

Waiting(c) == pc[c] = "waiting"

\* A step the broadcaster does not notice: nobody begins or ends to wait, no
\* worker is spawned or ends, nothing is registered or sent.
Quiet == /\ UNCHANGED << listeners, outbox >>
         /\ \A c \in Calls : /\ Waiting(c)' <=> Waiting(c)
                             /\ Live(c)' <=> Live(c)
                             /\ Waiting(c) => key'[c] = key[c]

\* FlightInv cannot be broken by what the broadcaster does not notice.
LEMMA QuietStep == TypeInv /\ FlightInv /\ Quiet => FlightInv'
  <1> SUFFICES ASSUME TypeInv, FlightInv, Quiet PROVE FlightInv'
    OBVIOUS
  <1> USE DEF FlightInv, Quiet, Waiting
  <1>0. key \in [Calls -> Usernames] /\ listeners \in [Usernames -> SUBSET Calls]
    BY DEF TypeInv, TypeOK
  <1>1. \A w \in Calls : Live(w) => Waiting(w) /\ key'[w] = key[w] /\ w \in listeners[key[w]]
    BY <1>0 DEF WorkersAreRegistered, ListenersWait
  <1>2. WorkersAreRegistered'
    BY <1>1 DEF WorkersAreRegistered
  <1>3. ListenersWait'
    BY <1>0 DEF ListenersWait
  <1>4. ListenersAreServed'
    BY <1>0 DEF ListenersAreServed
  <1>5. WaitersAreHeard'
    BY DEF WaitersAreHeard
  <1>6. SingleWorker'
    BY <1>1 DEF SingleWorker
  <1> QED BY <1>2, <1>3, <1>4, <1>5, <1>6

\* A step of a worker that goes on is quiet.
LEMMA QuietWork ==
  ASSUME TypeInv, NEW w \in Calls, NEW k \in Worker, Live(w), k.pc # "none",
         worker' = [worker EXCEPT ![w] = k], UNCHANGED << callVars, listeners, outbox >>
  PROVE  Quiet
  BY DEF Quiet, Live, Waiting, callVars, TypeInv, TypeOK

\* The steps of a worker up to its broadcast are quiet.
LEMMA QuietWorker ==
  ASSUME TypeInv, NEW w \in Calls,
         \/ Resolve(w) \/ StoreUuid(w) \/ Fetch(w) \/ FetchError(w)
         \/ FetchEmpty(w) \/ StoreTextures(w)
  PROVE  Quiet
  <1> USE DEF Work
  <1>1. \A r \in Results : IsFinished(w, r)
    BY FinishType DEF TypeInv
  <1>2. worker[w] \in Worker
    BY DEF TypeInv, TypeOK
  <1>3. Failed \in Results /\ NoTextures \in Results
    BY DEF Results, Textures
  <1>4. CASE Resolve(w)
    <2>1. CASE worker' = [worker EXCEPT ![w] = [Finish(w, Failed) EXCEPT !.asked = @ + 1]]
      BY <1>1, <1>3, <1>4, <2>1, QuietWork DEF Resolve, Live, IsFinished
    <2>2. ASSUME NEW x \in Uuids \cup {NoUuid},
                 worker' = [worker EXCEPT ![w] = [worker[w] EXCEPT
                              !.pc = "storeUuid", !.uuid = x, !.asked = @ + 1]]
          PROVE  Quiet
      <3> DEFINE k == [worker[w] EXCEPT !.pc = "storeUuid", !.uuid = x, !.asked = @ + 1]
      <3>1. k \in Worker
        BY <1>2, <1>3, WorkerUpdates
      <3>2. k.pc # "none"
        BY <1>2 DEF Worker
      <3> QED BY <1>4, <2>2, <3>1, <3>2, QuietWork DEF Resolve, Live
    <2> QED BY <1>4, <2>1, <2>2 DEF Resolve
  <1>5. CASE StoreUuid(w)
    <2>1. [worker[w] EXCEPT !.pc = "fetch"] \in Worker /\ [worker[w] EXCEPT !.pc = "fetch"].pc # "none"
      BY <1>2 DEF Worker
    <2>2. Finish(w, NoTextures) \in Worker /\ Finish(w, NoTextures).pc # "none"
      BY <1>1, <1>3 DEF IsFinished
    <2> QED BY <1>5, <2>1, <2>2, QuietWork DEF StoreUuid, Live
  <1>6. CASE Fetch(w)
    <2>1. PICK t \in {worker[w].uuid, NoTextures} :
            worker' = [worker EXCEPT ![w] = [worker[w] EXCEPT
                         !.pc = "storeTextures", !.result = t, !.fetched = @ + 1]]
      BY <1>6 DEF Fetch
    <2> DEFINE k == [worker[w] EXCEPT !.pc = "storeTextures", !.result = t, !.fetched = @ + 1]
    <2>2. t \in Results
      BY <1>6, <1>3 DEF Fetch, TypeInv, WorkersAreReady, Results, Textures
    <2>3. k \in Worker
      BY <1>2, <2>2, WorkerUpdates
    <2>4. k.pc # "none"
      BY <1>2 DEF Worker
    <2> QED BY <1>6, <2>1, <2>3, <2>4, QuietWork DEF Fetch, Live
  <1>7. CASE FetchError(w)
    BY <1>1, <1>3, <1>7, QuietWork DEF FetchError, Live, IsFinished
  <1>8. CASE FetchEmpty(w)
    <2> DEFINE k == [worker[w] EXCEPT !.pc = "resolve", !.cached = NoUuid, !.uuid = NoUuid,
                                      !.gone = worker[w].uuid, !.fetched = @ + 1]
    <2>1. worker[w].uuid \in Uuids \cup {NoUuid}
      BY <1>2 DEF Worker
    <2>2. k \in Worker
      BY <1>2, <1>3, <2>1, WorkerUpdates
    <2>3. k.pc # "none"
      BY <1>2 DEF Worker
    <2> QED BY <1>1, <1>3, <1>8, <2>2, <2>3, QuietWork DEF FetchEmpty, Live, IsFinished
  <1>9. CASE StoreTextures(w)
    <2>1. worker[w].result \in Results
      BY <1>2 DEF Worker
    <2> QED BY <1>1, <1>9, <2>1, QuietWork DEF StoreTextures, Live, IsFinished
  <1> QED BY <1>4, <1>5, <1>6, <1>7, <1>8, <1>9

\* AddListener and the go statement keep the broadcaster in order: the first
\* to register serves those who come later.
LEMMA RegisterStep ==
  ASSUME TypeInv, FlightInv, NEW c \in Calls, Register(c)
  PROVE  FlightInv'
  <1> USE DEF FlightInv, Register, Goto
  <1>0. TypeOK /\ cached[c] \in Uuids \cup {NoUuid}
    BY DEF TypeInv, TypeOK
  <1> DEFINE u == key[c]
  <1>1. /\ listeners' = [listeners EXCEPT ![u] = @ \cup {c}] /\ u \in Usernames
        /\ pc' = [pc EXCEPT ![c] = "waiting"] /\ pc[c] = "register"
        /\ key' = key /\ outbox' = outbox
    BY <1>0 DEF TypeOK
  <1>2. outbox[c] = << >> /\ ~Live(c)
    BY <1>0, <1>1 DEF WaitersAreHeard, WorkersAreRegistered, ListenersWait, TypeOK
  <1>3. \A w \in Calls : Live(w)' <=> (Live(w) \/ (w = c /\ listeners[u] = {}))
    <2>1. NewWorker(cached[c]).pc # "none"
      BY <1>0 DEF NewWorker, NoWorker
    <2> QED BY <1>0, <1>2, <2>1 DEF Live, TypeOK
  <1>4. WorkersAreRegistered'
    BY <1>0, <1>1, <1>3 DEF WorkersAreRegistered, TypeOK
  <1>5. ListenersWait'
    BY <1>0, <1>1, <1>2 DEF ListenersWait, TypeOK
  <1>6. ListenersAreServed'
    <2> SUFFICES ASSUME NEW v \in Usernames, listeners'[v] # {}
                 PROVE  \E w \in listeners'[v] : Live(w)'
      BY DEF ListenersAreServed
    <2>0. listeners'[v] = IF v = u THEN listeners[v] \cup {c} ELSE listeners[v]
      BY <1>0, <1>1 DEF TypeOK
    <2>1. CASE listeners[v] # {}
      <3>1. PICK w \in listeners[v] : Live(w)
        BY <2>1 DEF ListenersAreServed
      <3>2. w \in Calls /\ w \in listeners'[v]
        BY <1>0, <2>0 DEF TypeOK
      <3>3. Live(w)'
        BY <1>3, <3>1, <3>2
      <3> QED BY <3>2, <3>3
    <2>2. CASE listeners[v] = {}
      <3>1. v = u /\ c \in listeners'[v]
        BY <2>0, <2>2
      <3>2. Live(c)'
        BY <1>3, <2>2, <3>1
      <3> QED BY <3>1, <3>2
    <2> QED BY <2>1, <2>2
  <1>7. WaitersAreHeard'
    BY <1>0, <1>1, <1>2 DEF WaitersAreHeard, TypeOK
  <1>8. SingleWorker'
    <2>1. \A w \in Calls : Live(w) /\ key[w] = u => listeners[u] # {}
      BY DEF WorkersAreRegistered
    <2> QED BY <1>1, <1>3, <2>1 DEF SingleWorker
  <1> QED BY <1>4, <1>5, <1>6, <1>7, <1>8

\* A call that receives its result was not registered any more.
LEMMA ReceiveStep ==
  ASSUME TypeInv, FlightInv, NEW c \in Calls, Receive(c)
  PROVE  FlightInv'
  <1> USE DEF FlightInv, Receive, Return, Goto
  <1>0. TypeOK
    BY DEF TypeInv
  <1>1. /\ \A u \in Usernames : c \notin listeners[u]
        /\ ~Live(c)
        /\ Len(outbox[c]) = 1
    BY <1>0 DEF ListenersWait, WorkersAreRegistered, WaitersAreHeard, TypeOK
  <1>2. outbox'[c] = << >>
    <2>1. outbox[c] \in Seq(Results) /\ outbox'[c] = Tail(outbox[c])
      BY <1>0 DEF TypeOK
    <2>2. Tail(outbox[c]) \in Seq(Results) /\ Len(Tail(outbox[c])) = 0
      BY <1>1, <2>1
    <2>3. \A s \in Seq(Results) : Len(s) = 0 => s = << >>
      OBVIOUS
    <2> QED BY <2>1, <2>2, <2>3
  <1>3. \A d \in Calls \ {c} : pc'[d] = pc[d] /\ outbox'[d] = outbox[d]
    BY <1>0 DEF TypeOK
  <1>4. pc'[c] = "idle" /\ UNCHANGED << key, listeners, worker >>
    BY <1>0 DEF TypeOK
  <1>5. WorkersAreRegistered' /\ SingleWorker'
    BY <1>4 DEF WorkersAreRegistered, SingleWorker, Live
  <1>6. ListenersWait'
    BY <1>0, <1>1, <1>3, <1>4 DEF ListenersWait, TypeOK
  <1>7. ListenersAreServed'
    BY <1>4 DEF ListenersAreServed, Live
  <1>8. WaitersAreHeard'
    BY <1>2, <1>3, <1>4 DEF WaitersAreHeard
  <1> QED BY <1>5, <1>6, <1>7, <1>8

\* BroadcastAndRemove tells every listener once, and leaves neither listeners
\* nor a worker behind.
LEMMA BroadcastStep ==
  ASSUME TypeInv, FlightInv, NEW w \in Calls, Broadcast(w)
  PROVE  FlightInv'
  <1> USE DEF FlightInv, Broadcast, Work, callVars
  <1>0. TypeOK
    BY DEF TypeInv
  <1> DEFINE u == key[w]
  <1>1. u \in Usernames /\ listeners' = [listeners EXCEPT ![u] = {}] /\ UNCHANGED << pc, key >>
    BY <1>0 DEF TypeOK
  <1>2. \A v \in Calls : Live(v)' <=> Live(v) /\ v # w
    BY <1>0 DEF Live, TypeOK, NoWorker
  <1>3. \A c \in Calls : outbox'[c] = IF c \in listeners[u]
                                        THEN Append(outbox[c], worker[w].result)
                                        ELSE outbox[c]
    OBVIOUS
  <1>4. \A c \in listeners[u] : Len(outbox'[c]) = 1 /\ Waiting(c)
    <2> SUFFICES ASSUME NEW c \in listeners[u] PROVE Len(outbox'[c]) = 1 /\ Waiting(c)
      OBVIOUS
    <2>1. c \in Calls /\ outbox[c] = << >> /\ Waiting(c)
      BY <1>0, <1>1 DEF ListenersWait, TypeOK, Waiting
    <2>2. outbox'[c] = Append(<< >>, worker[w].result)
      BY <1>3, <2>1
    <2> QED BY <2>1, <2>2
  <1>5. Live(w)
    BY DEF Live
  <1>6. WorkersAreRegistered'
    BY <1>0, <1>1, <1>2, <1>5 DEF WorkersAreRegistered, SingleWorker, TypeOK
  <1>7. ListenersWait'
    BY <1>0, <1>1, <1>3 DEF ListenersWait, TypeOK
  <1>8. ListenersAreServed'
    <2> SUFFICES ASSUME NEW v \in Usernames, listeners'[v] # {}
                 PROVE  \E d \in listeners'[v] : Live(d)'
      BY DEF ListenersAreServed
    <2>1. v # u /\ listeners'[v] = listeners[v]
      BY <1>0, <1>1 DEF TypeOK
    <2>2. PICK d \in listeners[v] : Live(d)
      BY <2>1 DEF ListenersAreServed
    <2>3. d \in Calls /\ d # w
      BY <1>0, <2>1 , <2>2 DEF ListenersWait, TypeOK
    <2> QED BY <1>2, <2>1, <2>2, <2>3
  <1>9. WaitersAreHeard'
    <2> SUFFICES ASSUME NEW c \in Calls
                 PROVE  /\ pc'[c] = "waiting" => c \in listeners'[key'[c]] \/ Len(outbox'[c]) = 1
                        /\ pc'[c] # "waiting" => outbox'[c] = << >>
      BY DEF WaitersAreHeard
    <2>1. CASE c \in listeners[u]
      BY <1>1, <1>4, <2>1 DEF Waiting
    <2>2. CASE c \notin listeners[u]
      <3>1. outbox'[c] = outbox[c] /\ pc'[c] = pc[c] /\ key'[c] = key[c]
        BY <1>1, <1>3, <2>2
      <3>2. c \in listeners[key[c]] => c \in listeners'[key[c]]
        BY <1>0, <1>1, <2>2 DEF TypeOK
      <3> QED BY <3>1, <3>2 DEF WaitersAreHeard
    <2> QED BY <2>1, <2>2
  <1>10. SingleWorker'
    BY <1>1, <1>2 DEF SingleWorker
  <1> QED BY <1>6, <1>7, <1>8, <1>9, <1>10

\* Every step keeps FlightInv: only Register, Receive, Broadcast and Restart
\* are noticed by the broadcaster.
LEMMA FlightStep == TypeInv /\ FlightInv /\ [Next]_vars => FlightInv'
  <1> SUFFICES ASSUME TypeInv, FlightInv, [Next]_vars PROVE FlightInv'
    OBVIOUS
  <1> USE QuietStep
  <1>0. TypeOK
    BY DEF TypeInv
  <1>1. ASSUME NEW c \in Calls, NEW n \in Names, Call(c, n) PROVE FlightInv'
    BY <1>0, <1>1 DEF Call, Goto, Return, Quiet, Waiting, Live, TypeOK
  <1>2. ASSUME NEW c \in Calls, ReadUuid(c) \/ ReadTextures(c) PROVE FlightInv'
    BY <1>0, <1>2 DEF ReadUuid, ReadTextures, Goto, Return, Quiet, Waiting, Live, TypeOK
  <1>3. ASSUME NEW w \in Calls, WorkerStep(w) PROVE FlightInv'
    BY <1>3, QuietWorker, BroadcastStep DEF WorkerStep
  <1>4. ASSUME NEW u \in Usernames, ExpireUuid(u) PROVE FlightInv'
    BY <1>4 DEF ExpireUuid, callVars, Quiet, Waiting, Live
  <1>5. ASSUME NEW x \in Uuids, ExpireTextures(x) PROVE FlightInv'
    BY <1>5 DEF ExpireTextures, callVars, Quiet, Waiting, Live
  <1>6. CASE Restart
    BY <1>0, <1>6 DEF Restart, FlightInv, WorkersAreRegistered, ListenersWait, ListenersAreServed,
                      WaitersAreHeard, SingleWorker, Live, NoWorker
  <1>7. CASE UNCHANGED vars
    BY <1>7 DEF vars, callVars, Quiet, Waiting, Live
  <1> QED
    BY <1>1, <1>2, <1>3, <1>4, <1>5, <1>6, <1>7, RegisterStep, ReceiveStep DEF Next, CallStep

\* FlightInv holds when nobody has called yet.
LEMMA FlightInit == Init => FlightInv
  BY DEF Init, FlightInv, WorkersAreRegistered, ListenersWait, ListenersAreServed,
         WaitersAreHeard, SingleWorker, Live, NoWorker

\* However calls and broadcasts for one username interleave, at most one
\* goroutine works on it: AddListener and BroadcastAndRemove never let a
\* second first listener in while a worker is alive.
THEOREM SingleWorkerHolds == Spec => []SingleWorker
  BY FlightInit, FlightStep, TypeInvHolds, PTL DEF Spec, FlightInv

\* A caller that waits on its channel is registered with a live worker, or has
\* exactly one result on the way: nobody waits for a broadcast that has gone
\* by, and no sending goroutine is left without a receiver.
THEOREM NoLostCallerHolds == Spec => []NoLostCaller
  <1>1. TypeInv /\ FlightInv => NoLostCaller
    BY DEF TypeInv, TypeOK, FlightInv, WorkersAreRegistered, ListenersWait, ListenersAreServed,
           WaitersAreHeard, NoLostCaller
  <1> QED BY <1>1, FlightInit, FlightStep, TypeInvHolds, PTL DEF Spec

-----------------------------------------------------------------------------
(* What travels through the broadcaster *)

\* A step of worker w that goes on or ends the flight, changes no call and no
\* box, and leaves the caches honest, keeps DataInv.
LEMMA DataWork ==
  ASSUME TypeInv, DataInv, NEW w \in Calls, NEW k \in Worker,
         worker' = [worker EXCEPT ![w] = k], UNCHANGED << callVars, outbox >>,
         \A u \in Usernames : resolved[u] \subseteq resolved'[u],
         Own(k, resolved'[key[w]]), Counted(k), HonestCaches'
  PROVE  DataInv'
  <1> USE DEF DataInv, callVars
  <1>0. TypeOK
    BY DEF TypeInv
  <1>1. \A c \in Calls : key[c] \in Usernames /\ resolved[key[c]] \subseteq resolved'[key[c]]
    BY <1>0 DEF TypeOK
  <1>2. CachedIsOwn'
    BY <1>1 DEF CachedIsOwn
  <1>3. WorkIsOwn'
    BY <1>0, <1>1 DEF WorkIsOwn, Own, TypeOK
  <1>4. BoxIsOwn'
    BY <1>1 DEF BoxIsOwn
  <1>5. RequestsCounted'
    BY <1>0 DEF RequestsCounted, TypeOK
  <1>6. OwnTextures'
    BY <1>1 DEF OwnTextures
  <1> QED BY <1>2, <1>3, <1>4, <1>5, <1>6

\* The fields of a worker's record after each of its steps.
LEMMA WorkerFields ==
  ASSUME NEW k \in Worker, NEW x \in Uuids \cup {NoUuid}, NEW r \in Results
  PROVE  /\ LET n == [k EXCEPT !.pc = "storeUuid", !.uuid = x, !.asked = @ + 1]
            IN  /\ n.pc = "storeUuid" /\ n.uuid = x /\ n.cached = k.cached
                /\ n.asked = k.asked + 1 /\ n.fetched = k.fetched
         /\ LET n == [k EXCEPT !.pc = "storeTextures", !.result = r, !.fetched = @ + 1]
            IN  /\ n.pc = "storeTextures" /\ n.uuid = k.uuid
                /\ n.asked = k.asked /\ n.fetched = k.fetched + 1
         /\ LET n == [k EXCEPT !.pc = "resolve", !.cached = NoUuid, !.uuid = NoUuid,
                               !.gone = x, !.fetched = @ + 1]
            IN  /\ n.pc = "resolve" /\ n.uuid = NoUuid /\ n.cached = NoUuid
                /\ n.asked = k.asked /\ n.fetched = k.fetched + 1
  BY DEF Worker

\* The same for the worker that ends its flight.
LEMMA FinishFields ==
  ASSUME TypeOK, NEW w \in Calls, NEW r \in Results
  PROVE  /\ LET n == Finish(w, r)
            IN  /\ n.uuid = worker[w].uuid
                /\ n.asked = worker[w].asked /\ n.fetched = worker[w].fetched
         /\ LET n == [Finish(w, r) EXCEPT !.asked = @ + 1]
            IN  /\ n.uuid = worker[w].uuid
                /\ n.asked = worker[w].asked + 1 /\ n.fetched = worker[w].fetched
         /\ LET n == [Finish(w, r) EXCEPT !.fetched = @ + 1]
            IN  /\ n.uuid = worker[w].uuid
                /\ n.asked = worker[w].asked /\ n.fetched = worker[w].fetched + 1
  <1>1. worker[w] \in Worker
    BY DEF TypeOK
  <1> QED BY <1>1 DEF Finish, Worker

\* No step of a worker before its broadcast gives it anything foreign to hold,
\* puts anything foreign into a cache, or makes a request too many.
LEMMA DataWorker ==
  ASSUME TypeInv, DataInv, NEW w \in Calls,
         \/ Resolve(w) \/ StoreUuid(w) \/ Fetch(w) \/ FetchError(w)
         \/ FetchEmpty(w) \/ StoreTextures(w)
  PROVE  DataInv'
  <1> USE DEF Work
  <1> DEFINE k == worker[w]
  <1>0. /\ TypeOK /\ WorkersAreReady
        /\ Own(k, resolved[key[w]]) /\ Counted(k) /\ HonestCaches
        /\ k \in Worker /\ key[w] \in Usernames
    BY DEF TypeInv, TypeOK, DataInv, WorkIsOwn, RequestsCounted
  <1>a. k.pc # "none"
    BY DEF Resolve, StoreUuid, Fetch, FetchError, FetchEmpty, StoreTextures
  <1>1. Failed \in Results /\ NoTextures \in Results
        /\ Failed \notin Uuids /\ NoTextures \notin Uuids /\ NoUuid \notin Uuids
    BY MarkersAssumption DEF Results, Textures
  <1>2. /\ k.uuid \in Uuids \cup {NoUuid} /\ k.asked \in Nat /\ k.fetched \in Nat
        /\ k.result \in Results
    BY <1>0 DEF Worker
  \* The flight ends with an error after one more request.
  <1>3. /\ Own([Finish(w, Failed) EXCEPT !.asked = @ + 1], resolved[key[w]])
        /\ Own([Finish(w, Failed) EXCEPT !.fetched = @ + 1], resolved[key[w]])
    <2>1. ASSUME NEW n, n.pc = "broadcast", n.result = Failed, n.uuid = k.uuid
          PROVE  Own(n, resolved[key[w]])
      BY <1>0, <1>1, <1>a, <2>1 DEF Own
    <2>2. /\ [Finish(w, Failed) EXCEPT !.asked = @ + 1].pc = "broadcast"
          /\ [Finish(w, Failed) EXCEPT !.asked = @ + 1].result = Failed
          /\ [Finish(w, Failed) EXCEPT !.fetched = @ + 1].pc = "broadcast"
          /\ [Finish(w, Failed) EXCEPT !.fetched = @ + 1].result = Failed
      BY <1>0, <1>1, FinishType DEF IsFinished
    <2>3. /\ [Finish(w, Failed) EXCEPT !.asked = @ + 1].uuid = k.uuid
          /\ [Finish(w, Failed) EXCEPT !.fetched = @ + 1].uuid = k.uuid
      BY <1>0, <1>1, FinishFields
    <2> QED BY <2>1, <2>2, <2>3
  <1>4. CASE Resolve(w)
    <2>1. CASE /\ worker' = [worker EXCEPT ![w] = [Finish(w, Failed) EXCEPT !.asked = @ + 1]]
               /\ UNCHANGED resolved
      <3> DEFINE n == [Finish(w, Failed) EXCEPT !.asked = @ + 1]
      <3>1. n \in Worker /\ Own(n, resolved[key[w]])
        BY <1>0, <1>1, <1>3, FinishType DEF IsFinished
      <3>2. Counted(n)
        <4>1. n.pc = "broadcast" /\ n.asked = k.asked + 1 /\ n.fetched = k.fetched
          BY <1>0, <1>1, FinishType, FinishFields DEF IsFinished
        <4>2. k.asked = 0 /\ k.fetched <= 1
          BY <1>0, <1>4 DEF Resolve, Counted
        <4> HIDE DEF n
        <4> QED BY <1>2, <4>1, <4>2 DEF Counted
      <3>3. HonestCaches'
        BY <1>0, <1>4, <2>1 DEF Resolve, cacheVars, HonestCaches
      <3> HIDE DEF n
      <3> QED BY <1>4, <2>1, <3>1, <3>2, <3>3, DataWork DEF Resolve, n
    <2>2. ASSUME NEW x \in Uuids \cup {NoUuid},
                 worker' = [worker EXCEPT ![w] = [worker[w] EXCEPT
                              !.pc = "storeUuid", !.uuid = x, !.asked = @ + 1]],
                 resolved' = [resolved EXCEPT ![key[w]] = @ \cup {x}]
          PROVE  DataInv'
      <3> DEFINE n == [worker[w] EXCEPT !.pc = "storeUuid", !.uuid = x, !.asked = @ + 1]
      <3>1. n \in Worker
        BY <1>0, <1>1, WorkerUpdates
      <3>2. /\ n.pc = "storeUuid" /\ n.uuid = x /\ n.cached = k.cached
            /\ n.asked = k.asked + 1 /\ n.fetched = k.fetched
        BY <1>0, <1>1, WorkerFields
      <3>3. x \in resolved'[key[w]] /\ \A u \in Usernames : resolved[u] \subseteq resolved'[u]
        BY <1>0, <2>2 DEF TypeOK
      <3>4. HonestCaches'
        BY <1>0, <1>4, <3>3 DEF Resolve, cacheVars, HonestCaches
      <3>5. k.cached = NoUuid /\ k.asked = 0 /\ k.fetched <= 1
        BY <1>0, <1>4 DEF Resolve, Counted
      <3> HIDE DEF n
      <3>6. Own(n, resolved'[key[w]])
        BY <3>2, <3>3 DEF Own
      <3>7. Counted(n)
        BY <1>2, <3>2, <3>5 DEF Counted
      <3> QED BY <1>4, <2>2, <3>1, <3>3, <3>4, <3>6, <3>7, DataWork DEF Resolve, n
    <2> QED BY <1>4, <2>1, <2>2 DEF Resolve
  <1>5. CASE StoreUuid(w)
    <2>1. HonestCaches'
      BY <1>0, <1>5 DEF StoreUuid, HonestCaches, Own, TypeOK
    <2>2. k.cached = NoUuid /\ k.asked = 1 /\ k.fetched <= 1
      BY <1>0, <1>5 DEF StoreUuid, Counted
    <2>3. CASE k.uuid = NoUuid
      <3> DEFINE n == Finish(w, NoTextures)
      <3>1. n \in Worker /\ n.pc = "broadcast" /\ n.result = NoTextures /\ n.uuid = k.uuid
            /\ n.asked = k.asked /\ n.fetched = k.fetched
        BY <1>0, <1>1, FinishType, FinishFields DEF IsFinished
      <3> HIDE DEF n
      <3>2. Own(n, resolved[key[w]]) /\ Counted(n)
        BY <1>1, <1>2, <2>2, <2>3, <3>1 DEF Own, Counted
      <3> QED BY <1>5, <2>1, <2>3, <3>1, <3>2, DataWork DEF StoreUuid, n
    <2>4. CASE k.uuid # NoUuid
      <3> DEFINE n == [worker[w] EXCEPT !.pc = "fetch"]
      <3>1. n \in Worker /\ n.pc = "fetch" /\ n.uuid = k.uuid /\ n.cached = k.cached
            /\ n.asked = k.asked /\ n.fetched = k.fetched
        BY <1>0 DEF Worker
      <3> HIDE DEF n
      <3>2. Own(n, resolved[key[w]]) /\ Counted(n)
        BY <1>0, <1>1, <1>2, <1>a, <2>2, <2>4, <3>1 DEF Own, Counted
      <3> QED BY <1>5, <2>1, <2>4, <3>1, <3>2, DataWork DEF StoreUuid, n
    <2> QED BY <2>3, <2>4
  <1>6. CASE Fetch(w)
    <2>1. PICK t \in {worker[w].uuid, NoTextures} :
            worker' = [worker EXCEPT ![w] = [worker[w] EXCEPT
                         !.pc = "storeTextures", !.result = t, !.fetched = @ + 1]]
      BY <1>6 DEF Fetch
    <2> DEFINE n == [worker[w] EXCEPT !.pc = "storeTextures", !.result = t, !.fetched = @ + 1]
    <2>2. t \in Results
      BY <1>0, <1>1, <1>6 DEF Fetch, WorkersAreReady, Results, Textures
    <2>3. n \in Worker
      BY <1>0, <2>2, WorkerUpdates
    <2>4. /\ n.pc = "storeTextures" /\ n.uuid = k.uuid
          /\ n.asked = k.asked /\ n.fetched = k.fetched + 1
      BY <1>0, <2>2, WorkerFields
    <2>5. HonestCaches'
      BY <1>0, <1>6 DEF Fetch, cacheVars, HonestCaches
    <2> HIDE DEF n
    <2>6. Own(n, resolved[key[w]]) /\ Counted(n)
      BY <1>0, <1>2, <1>6, <2>4 DEF Fetch, Own, Counted
    <2> QED BY <1>6, <2>1, <2>3, <2>5, <2>6, DataWork DEF Fetch, n
  \* A request for textures that fails for good.
  <1>7. ASSUME k.pc = "fetch",
               worker' = [worker EXCEPT ![w] = [Finish(w, Failed) EXCEPT !.fetched = @ + 1]],
               UNCHANGED << callVars, listeners, outbox, cacheVars, resolved >>
        PROVE  DataInv'
    <2> DEFINE n == [Finish(w, Failed) EXCEPT !.fetched = @ + 1]
    <2>1. n \in Worker /\ Own(n, resolved[key[w]])
      BY <1>0, <1>1, <1>3, FinishType DEF IsFinished
    <2>2. n.pc = "broadcast" /\ n.asked = k.asked /\ n.fetched = k.fetched + 1
      BY <1>0, <1>1, FinishType, FinishFields DEF IsFinished
    <2>3. HonestCaches'
      BY <1>0, <1>7 DEF cacheVars, HonestCaches
    <2> HIDE DEF n
    <2>4. Counted(n)
      BY <1>0, <1>2, <1>7, <2>2 DEF Counted
    <2> QED BY <1>7, <2>1, <2>3, <2>4, DataWork DEF n
  <1>8. CASE FetchError(w)
    BY <1>7, <1>8 DEF FetchError
  <1>9. CASE FetchEmpty(w)
    <2>1. CASE k.cached # NoUuid
      <3> DEFINE n == [worker[w] EXCEPT !.pc = "resolve", !.cached = NoUuid, !.uuid = NoUuid,
                                        !.gone = worker[w].uuid, !.fetched = @ + 1]
      <3>1. n \in Worker
        BY <1>0, <1>1, <1>2, WorkerUpdates
      <3>2. /\ n.pc = "resolve" /\ n.uuid = NoUuid /\ n.cached = NoUuid
            /\ n.asked = k.asked /\ n.fetched = k.fetched + 1
        BY <1>0, <1>1, <1>2, WorkerFields
      <3>3. HonestCaches'
        BY <1>0, <1>9 DEF FetchEmpty, cacheVars, HonestCaches
      <3> HIDE DEF n
      <3>4. Own(n, resolved[key[w]]) /\ Counted(n)
        BY <1>0, <1>1, <1>2, <1>9, <2>1, <3>2 DEF FetchEmpty, Own, Counted
      <3> QED BY <1>9, <2>1, <3>1, <3>3, <3>4, DataWork DEF FetchEmpty, n
    <2>2. CASE k.cached = NoUuid
      BY <1>7, <1>9, <2>2 DEF FetchEmpty
    <2> QED BY <2>1, <2>2
  <1>10. CASE StoreTextures(w)
    <2> DEFINE n == Finish(w, worker[w].result)
    <2>1. k.uuid \in Uuids /\ k.result \in {k.uuid, NoTextures}
      BY <1>0, <1>10 DEF StoreTextures, WorkersAreReady
    <2>2. n \in Worker /\ n.pc = "broadcast" /\ n.result = k.result /\ n.uuid = k.uuid
          /\ n.asked = k.asked /\ n.fetched = k.fetched
      BY <1>0, <1>2, FinishType, FinishFields DEF IsFinished
    <2>3. HonestCaches'
      BY <1>0, <1>10, <2>1 DEF StoreTextures, HonestCaches, TypeOK
    <2> HIDE DEF n
    <2>4. Own(n, resolved[key[w]]) /\ Counted(n)
      BY <1>0, <1>1, <1>2, <1>a, <2>1, <2>2 DEF Own, Counted
    <2> QED BY <1>10, <2>2, <2>3, <2>4, DataWork DEF StoreTextures, n
  <1> QED BY <1>4, <1>5, <1>6, <1>8, <1>9, <1>10

\* A call that begins has nothing left from the one before.
LEMMA DataCall ==
  ASSUME TypeInv, FlightInv, DataInv, NEW c \in Calls, NEW n \in Names, Call(c, n)
  PROVE  DataInv'
  <1> USE DEF DataInv, Call, Goto, Return, cacheVars
  <1>0. TypeOK
    BY DEF TypeInv
  <1>1. outbox[c] = << >> /\ ~Live(c)
    BY <1>0 DEF FlightInv, WaitersAreHeard, WorkersAreRegistered, ListenersWait, TypeOK
  <1>a. cached[c] = NoUuid
    BY DEF CachedIsOwn
  <1>b. /\ UNCHANGED << worker, outbox, resolved, uuidCache, texCache >>
        /\ \A d \in Calls \ {c} : pc'[d] = pc[d] /\ key'[d] = key[d] /\ cached'[d] = cached[d]
                                  /\ ret'[d] = ret[d]
    BY <1>0 DEF TypeOK
  <1>c. /\ cached'[c] = NoUuid /\ pc'[c] \in {"idle", "readUuid"}
        /\ pc'[c] = "idle" => ret'[c] = NoTextures
    BY <1>0, <1>a DEF TypeOK
  <1>2. CachedIsOwn' /\ OwnTextures'
    BY <1>b, <1>c, MarkersAssumption DEF CachedIsOwn, OwnTextures
  <1>3. WorkIsOwn'
    <2>1. worker[c].pc = "none"
      BY <1>1 DEF Live
    <2> QED BY <1>b, <2>1 DEF WorkIsOwn, Own
  <1>4. BoxIsOwn'
    BY <1>1, <1>b DEF BoxIsOwn
  <1>5. RequestsCounted' /\ HonestCaches'
    BY <1>b DEF RequestsCounted, HonestCaches
  <1> QED BY <1>2, <1>3, <1>4, <1>5

\* What a call returns from the caches is its own.
LEMMA DataRead ==
  ASSUME TypeInv, DataInv, NEW c \in Calls, ReadUuid(c) \/ ReadTextures(c)
  PROVE  DataInv'
  <1> USE DEF DataInv, Goto, Return
  <1>0. TypeOK /\ key[c] \in Usernames /\ Failed \notin Uuids /\ NoTextures \notin Uuids
        /\ NoUuid \notin Uuids /\ Absent \notin Uuids
    BY MarkersAssumption DEF TypeInv, TypeOK
  <1>1. /\ UNCHANGED << key, worker, outbox, resolved, uuidCache, texCache >>
        /\ \A d \in Calls \ {c} : pc'[d] = pc[d] /\ cached'[d] = cached[d] /\ ret'[d] = ret[d]
    BY <1>0 DEF TypeOK, ReadUuid, ReadTextures, cacheVars
  <1>2. /\ cached'[c] # NoUuid => /\ pc'[c] \in {"readTextures", "register", "waiting"}
                                  /\ cached'[c] \in resolved[key[c]]
        /\ pc'[c] = "readTextures" => cached'[c] # NoUuid
        /\ pc'[c] = "idle" /\ ret'[c] \in Uuids => ret'[c] \in resolved[key[c]]
    <2>1. CASE ReadUuid(c)
      BY <1>0, <2>1 DEF ReadUuid, TypeOK, CachedIsOwn, HonestCaches
    <2>2. CASE ReadTextures(c)
      <3>1. cached[c] # NoUuid => cached[c] \in resolved[key[c]] /\ cached[c] \in Uuids
        BY <1>0 DEF CachedIsOwn, TypeOK
      <3>2. CASE texCache[cached[c]] \in Uuids /\ cached[c] \in Uuids
        <4>1. texCache[cached[c]] = cached[c]
          BY <1>0, <3>2 DEF HonestCaches
        <4> QED BY <1>0, <2>2, <3>1, <3>2, <4>1 DEF ReadTextures, TypeOK
      <3>3. CASE texCache[cached[c]] \notin Uuids
        BY <1>0, <2>2, <3>1, <3>3 DEF ReadTextures, TypeOK
      <3>4. cached[c] \in Uuids
        BY <1>0, <2>2 DEF ReadTextures, CachedIsOwn, TypeOK
      <3> QED BY <3>2, <3>3, <3>4
    <2> QED BY <2>1, <2>2
  <1>3. CachedIsOwn' /\ OwnTextures'
    BY <1>1, <1>2 DEF CachedIsOwn, OwnTextures
  <1>4. WorkIsOwn' /\ BoxIsOwn' /\ RequestsCounted' /\ HonestCaches'
    BY <1>1 DEF WorkIsOwn, BoxIsOwn, RequestsCounted, HonestCaches
  <1> QED BY <1>3, <1>4

\* The worker that a registering call spawns starts with the call's own uuid.
LEMMA DataRegister ==
  ASSUME TypeInv, FlightInv, DataInv, NEW c \in Calls, Register(c)
  PROVE  DataInv'
  <1> USE DEF DataInv, Register, Goto, cacheVars
  <1>0. TypeOK /\ cached[c] \in Uuids \cup {NoUuid} /\ NoUuid \notin Uuids
    BY MarkersAssumption DEF TypeInv, TypeOK
  <1>1. /\ UNCHANGED << key, cached, ret, outbox, resolved, uuidCache, texCache >>
        /\ \A d \in Calls : pc'[d] = IF d = c THEN "waiting" ELSE pc[d]
        /\ \A d \in Calls : \/ worker'[d] = worker[d]
                            \/ d = c /\ worker'[d] = NewWorker(cached[c])
    BY <1>0 DEF TypeOK
  <1>2. CachedIsOwn' /\ OwnTextures'
    BY <1>1 DEF CachedIsOwn, OwnTextures
  <1>3. Own(NewWorker(cached[c]), resolved[key[c]])
    BY <1>0 DEF CachedIsOwn, Own, NewWorker, NoWorker
  <1>4. Counted(NewWorker(cached[c]))
    BY <1>0 DEF Counted, NewWorker, NoWorker
  <1>5. WorkIsOwn' /\ RequestsCounted'
    BY <1>1, <1>3, <1>4 DEF WorkIsOwn, RequestsCounted
  <1>6. BoxIsOwn' /\ HonestCaches'
    BY <1>1 DEF BoxIsOwn, HonestCaches
  <1> QED BY <1>2, <1>5, <1>6

\* What a call receives is its own.
LEMMA DataReceive ==
  ASSUME TypeInv, FlightInv, DataInv, NEW c \in Calls, Receive(c)
  PROVE  DataInv'
  <1> USE DEF DataInv, Receive, Return, Goto, cacheVars
  <1>0. TypeOK /\ outbox[c] \in Seq(Results) /\ outbox[c] # << >>
    BY DEF TypeInv, TypeOK
  <1>1. /\ UNCHANGED << key, worker, resolved, uuidCache, texCache >>
        /\ \A d \in Calls \ {c} : /\ pc'[d] = pc[d] /\ cached'[d] = cached[d] /\ ret'[d] = ret[d]
                                  /\ outbox'[d] = outbox[d]
        /\ pc'[c] = "idle" /\ cached'[c] = NoUuid
        /\ ret'[c] = Head(outbox[c]) /\ outbox'[c] = Tail(outbox[c])
    BY <1>0 DEF TypeOK
  <1>2. ret'[c] \in Uuids => ret'[c] \in resolved[key[c]]
    <2>1. 1 \in 1..Len(outbox[c]) /\ Head(outbox[c]) = outbox[c][1]
      BY <1>0
    <2> QED BY <1>1, <2>1 DEF BoxIsOwn
  <1>3. CachedIsOwn' /\ OwnTextures'
    BY <1>1, <1>2 DEF CachedIsOwn, OwnTextures
  <1>4. BoxIsOwn'
    <2>1. \A i \in 1..Len(Tail(outbox[c])) :
            i + 1 \in 1..Len(outbox[c]) /\ Tail(outbox[c])[i] = outbox[c][i + 1]
      BY <1>0
    <2>2. \A i \in 1..Len(Tail(outbox[c])) :
            Tail(outbox[c])[i] \in Uuids => Tail(outbox[c])[i] \in resolved[key[c]]
      BY <2>1 DEF BoxIsOwn
    <2> QED BY <1>1, <2>2 DEF BoxIsOwn
  <1>5. WorkIsOwn' /\ RequestsCounted' /\ HonestCaches'
    BY <1>1 DEF WorkIsOwn, RequestsCounted, HonestCaches
  <1> QED BY <1>3, <1>4, <1>5

\* The result of a flight is sent to calls about its username only.
LEMMA DataBroadcast ==
  ASSUME TypeInv, FlightInv, DataInv, NEW w \in Calls, Broadcast(w)
  PROVE  DataInv'
  <1> USE DEF DataInv, Broadcast, Work, callVars, cacheVars
  <1> DEFINE r == worker[w].result
  <1>0. TypeOK /\ worker[w] \in Worker /\ r \in Results /\ key[w] \in Usernames
    BY DEF TypeInv, TypeOK, Worker
  <1>1. /\ UNCHANGED << pc, key, cached, ret, resolved, uuidCache, texCache >>
        /\ \A d \in Calls : worker'[d] = IF d = w THEN NoWorker ELSE worker[d]
        /\ \A d \in Calls : outbox'[d] = IF d \in listeners[key[w]]
                                           THEN Append(outbox[d], r) ELSE outbox[d]
    BY <1>0 DEF TypeOK
  <1>2. CachedIsOwn' /\ OwnTextures' /\ HonestCaches'
    BY <1>1 DEF CachedIsOwn, OwnTextures, HonestCaches
  <1>3. r \in Uuids => r \in resolved[key[w]]
    BY DEF WorkIsOwn, Own
  <1>4. BoxIsOwn'
    <2> SUFFICES ASSUME NEW d \in Calls, NEW i \in 1..Len(outbox'[d]), outbox'[d][i] \in Uuids
                 PROVE  outbox'[d][i] \in resolved[key[d]]
      BY <1>1 DEF BoxIsOwn
    <2>1. CASE d \in listeners[key[w]]
      <3>1. outbox[d] = << >> /\ key[d] = key[w]
        BY <1>0, <2>1 DEF FlightInv, ListenersWait
      <3>2. outbox'[d] = Append(<< >>, r)
        BY <1>1, <2>1, <3>1
      <3>3. outbox'[d][i] = r
        <4>1. << >> \in Seq(Results) /\ i \in 1..Len(Append(<< >>, r))
          BY <3>2
        <4> QED BY <1>0, <3>2, <4>1
      <3> QED BY <1>3, <3>1, <3>3
    <2>2. CASE d \notin listeners[key[w]]
      BY <1>1, <2>2 DEF BoxIsOwn
    <2> QED BY <2>1, <2>2
  <1>5. WorkIsOwn' /\ RequestsCounted'
    <2>1. Own(NoWorker, resolved[key[w]]) /\ Counted(NoWorker)
      BY DEF Own, Counted, NoWorker
    <2> QED BY <1>1, <2>1 DEF WorkIsOwn, RequestsCounted
  <1> QED BY <1>2, <1>4, <1>5

\* Every step keeps DataInv, if FlightInv holds before it.
LEMMA DataStep == TypeInv /\ FlightInv /\ DataInv /\ [Next]_vars => DataInv'
  <1> SUFFICES ASSUME TypeInv, FlightInv, DataInv, [Next]_vars PROVE DataInv'
    OBVIOUS
  <1>0. TypeOK
    BY DEF TypeInv
  <1>1. ASSUME NEW w \in Calls, WorkerStep(w) PROVE DataInv'
    BY <1>1, DataWorker, DataBroadcast DEF WorkerStep
  <1>2. ASSUME NEW c \in Calls, CallStep(c) PROVE DataInv'
    BY <1>2, DataRead, DataRegister, DataReceive DEF CallStep
  \* An entry that expires leaves the cache honest and everything else as it is.
  <1>3. ASSUME UNCHANGED << callVars, worker, outbox, resolved >>, HonestCaches' PROVE DataInv'
    BY <1>3 DEF callVars, DataInv, CachedIsOwn, WorkIsOwn, BoxIsOwn, RequestsCounted, OwnTextures
  <1>4. ASSUME NEW u \in Usernames, ExpireUuid(u) PROVE DataInv'
    BY <1>0, <1>3, <1>4 DEF ExpireUuid, DataInv, HonestCaches, TypeOK
  <1>5. ASSUME NEW x \in Uuids, ExpireTextures(x) PROVE DataInv'
    BY <1>0, <1>3, <1>5 DEF ExpireTextures, DataInv, HonestCaches, TypeOK
  <1>6. CASE Restart
    <2>1. \A R : Own(NoWorker, R) /\ Counted(NoWorker)
      BY DEF Own, Counted, NoWorker
    <2>2. WorkIsOwn' /\ RequestsCounted'
      BY <1>6, <2>1 DEF Restart, WorkIsOwn, RequestsCounted
    <2>3. CachedIsOwn' /\ BoxIsOwn' /\ OwnTextures' /\ HonestCaches'
      BY <1>6, MarkersAssumption
         DEF Restart, DataInv, CachedIsOwn, BoxIsOwn, OwnTextures, HonestCaches
    <2> QED BY <2>2, <2>3 DEF DataInv
  <1>7. CASE UNCHANGED vars
    BY <1>3, <1>7 DEF vars, cacheVars, DataInv, HonestCaches
  <1> QED BY <1>1, <1>2, <1>4, <1>5, <1>6, <1>7, DataCall DEF Next

\* DataInv holds while both caches are empty.
LEMMA DataInit == Init => DataInv
  <1> SUFFICES ASSUME Init PROVE DataInv
    OBVIOUS
  <1>1. \A R : Own(NoWorker, R) /\ Counted(NoWorker)
    BY DEF Own, Counted, NoWorker
  <1>2. WorkIsOwn /\ RequestsCounted
    BY <1>1 DEF Init, WorkIsOwn, RequestsCounted
  <1>3. CachedIsOwn /\ BoxIsOwn /\ OwnTextures /\ HonestCaches
    BY MarkersAssumption DEF Init, CachedIsOwn, BoxIsOwn, OwnTextures, HonestCaches
  <1> QED BY <1>2, <1>3 DEF DataInv

\* Every reachable state satisfies DataInv.
LEMMA DataHolds == Spec => []DataInv
  BY DataInit, DataStep, FlightInit, FlightStep, TypeInvHolds, PTL DEF Spec

\* No caller is ever given textures signed for a uuid that Mojang did not give
\* for the username it asked about.
THEOREM OwnTexturesHolds == Spec => []OwnTextures
  BY DataHolds, PTL DEF DataInv

\* Both caches hold only what Mojang said about the key they hold it under,
\* also when requests are retried, writes fail and the process restarts.
THEOREM HonestCachesHolds == Spec => []HonestCaches
  BY DataHolds, PTL DEF DataInv

\* The retry for a uuid that has disappeared happens at most once per flight.
THEOREM BoundedRequestsHolds == Spec => []BoundedRequests
  <1>1. DataInv => BoundedRequests
    BY DEF DataInv, RequestsCounted, Counted, BoundedRequests
  <1> QED BY <1>1, DataHolds, PTL

-----------------------------------------------------------------------------
(* The provider implements the single flight *)

\* What the calls see does not change.
LEMMA SeenTheSame ==
  ASSUME TypeOK, UNCHANGED << pc, key, ret, outbox >>
  PROVE  UNCHANGED Flight!vars
  BY DEF Flight!vars, Phase, Told

\* A flight that lands: exactly the listeners are aboard.
LEMMA BroadcastLands ==
  ASSUME TypeInv, FlightInv, NEW w \in Calls, Broadcast(w)
  PROVE  Flight!Land(key[w], worker[w].result)
  <1> USE DEF Broadcast, Work, callVars
  <1> DEFINE r == worker[w].result
             u == key[w]
  <1>0. TypeOK /\ r \in Results /\ u \in Usernames
    BY DEF TypeInv, TypeOK, Worker
  <1>1. \A c \in Calls : c \in listeners[u] <=> Phase(c) = "joined" /\ key[c] = u
    <2> SUFFICES ASSUME NEW c \in Calls
                 PROVE  c \in listeners[u] <=> Phase(c) = "joined" /\ key[c] = u
      OBVIOUS
    <2>1. ASSUME c \in listeners[u] PROVE Phase(c) = "joined" /\ key[c] = u
      BY <1>0, <2>1 DEF FlightInv, ListenersWait, Phase
    <2>2. ASSUME Phase(c) = "joined", key[c] = u PROVE c \in listeners[u]
      <3>1. pc[c] = "waiting" /\ outbox[c] = << >>
        BY <2>2 DEF Phase
      <3>2. Len(outbox[c]) # 1
        BY <3>1
      <3> QED BY <2>2, <3>1, <3>2 DEF FlightInv, WaitersAreHeard
    <2> QED BY <2>1, <2>2
  <1>2. Flight!Aboard(u) = listeners[u]
    BY <1>0, <1>1 DEF Flight!Aboard, TypeOK
  <1>3. w \in listeners[u]
    BY DEF FlightInv, WorkersAreRegistered, Live
  <1>4. \A c \in Calls : Phase(c)' = (IF c \in listeners[u] THEN "answered" ELSE Phase(c))
                         /\ Told(c)' = (IF c \in listeners[u] THEN r ELSE Told(c))
    <2> SUFFICES ASSUME NEW c \in Calls
                 PROVE  /\ Phase(c)' = (IF c \in listeners[u] THEN "answered" ELSE Phase(c))
                        /\ Told(c)' = (IF c \in listeners[u] THEN r ELSE Told(c))
      OBVIOUS
    <2>1. CASE c \in listeners[u]
      <3>1. pc[c] = "waiting" /\ outbox[c] = << >>
        BY <1>0, <2>1 DEF FlightInv, ListenersWait
      <3>2. outbox'[c] = Append(<< >>, r) /\ pc'[c] = "waiting"
        BY <2>1, <3>1
      <3>3. outbox'[c] # << >> /\ Head(outbox'[c]) = r
        <4>1. << >> \in Seq(Results) /\ Append(<< >>, r) \in Seq(Results)
              /\ Append(<< >>, r)[1] = r /\ Len(Append(<< >>, r)) = 1
          BY <1>0
        <4> QED BY <3>2, <4>1
      <3> QED BY <2>1, <3>2, <3>3 DEF Phase, Told
    <2>2. CASE c \notin listeners[u]
      <3>1. outbox'[c] = outbox[c] /\ pc'[c] = pc[c] /\ ret'[c] = ret[c]
        BY <2>2
      <3> QED BY <2>2, <3>1 DEF Phase, Told
    <2> QED BY <2>1, <2>2
  <1> QED BY <1>2, <1>3, <1>4 DEF Flight!Land

\* Every step of the provider is one of the single flight, or leaves it alone.
LEMMA FlightNext ==
  TypeInv /\ FlightInv /\ [Next]_vars => [Flight!Next]_(Flight!vars)
  <1> SUFFICES ASSUME TypeInv, FlightInv, [Next]_vars PROVE [Flight!Next]_(Flight!vars)
    OBVIOUS
  <1>0. /\ TypeOK
        /\ \A c \in Calls : pc[c] # "waiting" => outbox[c] = << >>
    BY DEF TypeInv, FlightInv, WaitersAreHeard
  <1> USE DEF Goto, Return, callVars
  \* A step of the call c alone that begins and ends with an empty box.
  <1>a. ASSUME NEW c \in Calls, UNCHANGED outbox, pc[c] # "waiting",
               pc' = [pc EXCEPT ![c] = pc'[c]], ret' = [ret EXCEPT ![c] = ret'[c]]
        PROVE  /\ [d \in Calls |-> Phase(d)]' = [[d \in Calls |-> Phase(d)] EXCEPT ![c] = Phase(c)']
               /\ [d \in Calls |-> Told(d)]' = [[d \in Calls |-> Told(d)] EXCEPT ![c] = ret'[c]]
    <2>1. /\ \A d \in Calls \ {c} : pc'[d] = pc[d] /\ ret'[d] = ret[d]
          /\ outbox' = outbox /\ outbox[c] = << >>
      BY <1>0, <1>a DEF TypeOK
    <2>2. \A d \in Calls \ {c} : Phase(d)' = Phase(d) /\ Told(d)' = Told(d)
      BY <2>1 DEF Phase, Told
    <2>3. Told(c)' = ret'[c]
      BY <2>1 DEF Told
    <2>4. [d \in Calls |-> Phase(d)]' = [[d \in Calls |-> Phase(d)] EXCEPT ![c] = Phase(c)']
      BY <2>2
    <2>5. [d \in Calls |-> Told(d)]' = [[d \in Calls |-> Told(d)] EXCEPT ![c] = ret'[c]]
      BY <2>2, <2>3
    <2> QED BY <2>4, <2>5
  <1>1. ASSUME NEW c \in Calls, NEW n \in Names, Call(c, n) PROVE Flight!Next
    <2>1. CASE Lower[n] = NotAllowed
      <3>1. Flight!AnswerAlone(c, NoTextures)
        <4>1. /\ pc' = [pc EXCEPT ![c] = pc'[c]] /\ pc[c] = "idle" /\ pc'[c] = "idle"
              /\ ret' = [ret EXCEPT ![c] = ret'[c]] /\ ret'[c] = NoTextures
              /\ UNCHANGED << outbox, key >>
          BY <1>0, <1>1, <2>1 DEF Call, TypeOK
        <4> QED BY <1>a, <4>1 DEF Flight!AnswerAlone, Phase
      <3> QED BY <3>1 DEF Flight!Next, Results, Textures
    <2>2. CASE Lower[n] # NotAllowed
      <3>1. Lower[n] \in Usernames
        BY <2>2, LowerAssumption
      <3>2. Flight!Ask(c, Lower[n])
        <4>1. /\ pc' = [pc EXCEPT ![c] = pc'[c]] /\ pc[c] = "idle" /\ pc'[c] = "readUuid"
              /\ ret' = [ret EXCEPT ![c] = ret'[c]] /\ ret'[c] = ret[c]
              /\ UNCHANGED outbox /\ key' = [key EXCEPT ![c] = Lower[n]]
          BY <1>0, <1>1, <2>2 DEF Call, TypeOK
        <4>2. [d \in Calls |-> Told(d)]' = [d \in Calls |-> Told(d)]
          BY <1>0, <1>a, <4>1 DEF Told, TypeOK
        <4> QED BY <1>a, <4>1, <4>2 DEF Flight!Ask, Phase
      <3> QED BY <3>1, <3>2 DEF Flight!Next
    <2> QED BY <2>1, <2>2
  <1>2. ASSUME NEW c \in Calls, ReadUuid(c) \/ ReadTextures(c)
        PROVE  Flight!Next \/ UNCHANGED Flight!vars
    <2>1. CASE pc'[c] = "idle"
      <3>1. Flight!AnswerAlone(c, ret'[c]) /\ ret'[c] \in Results
        <4>1. pc' = [pc EXCEPT ![c] = "idle"] /\ ret' = [ret EXCEPT ![c] = ret'[c]]
              /\ pc[c] \in {"readUuid", "readTextures"} /\ UNCHANGED << outbox, key >>
              /\ ret'[c] \in Results
          BY <1>0, <1>2, <2>1 DEF ReadUuid, ReadTextures, TypeOK, Results, Textures
        <4> QED BY <1>0, <1>a, <4>1 DEF Flight!AnswerAlone, Phase, TypeOK
      <3> QED BY <3>1 DEF Flight!Next
    <2>2. CASE pc'[c] # "idle"
      BY <1>0, <1>2, <2>2 DEF ReadUuid, ReadTextures, Flight!vars, Phase, Told, TypeOK
    <2> QED BY <2>1, <2>2
  <1>3. ASSUME NEW c \in Calls, Register(c) PROVE Flight!Next
    <2>1. Flight!Join(c)
      BY <1>0, <1>3 DEF Register, Flight!Join, Phase, Told, TypeOK
    <2> QED BY <2>1 DEF Flight!Next
  <1>4. ASSUME NEW c \in Calls, Receive(c) PROVE Flight!Next
    <2>1. outbox'[c] = << >>
      <3>1. Len(outbox[c]) = 1 /\ outbox[c] \in Seq(Results)
        BY <1>0, <1>4 DEF Receive, FlightInv, WaitersAreHeard, ListenersWait, TypeOK
      <3>2. Tail(outbox[c]) \in Seq(Results) /\ Len(Tail(outbox[c])) = 0
        <4> DEFINE b == outbox[c]
        <4>1. b \in Seq(Results) /\ Len(b) = 1 /\ b # << >>
          BY <1>4, <3>1 DEF Receive
        <4> HIDE DEF b
        <4>2. Tail(b) \in Seq(Results) /\ Len(Tail(b)) = 0
          BY <4>1
        <4> QED BY <4>2 DEF b
      <3>3. \A s \in Seq(Results) : Len(s) = 0 => s = << >>
        OBVIOUS
      <3> QED BY <1>0, <1>4, <3>2, <3>3 DEF Receive, TypeOK
    <2>2. Flight!Leave(c)
      BY <1>0, <1>4, <2>1 DEF Receive, Flight!Leave, Phase, Told, TypeOK
    <2> QED BY <2>2 DEF Flight!Next
  <1>5. ASSUME NEW w \in Calls, WorkerStep(w) PROVE Flight!Next \/ UNCHANGED Flight!vars
    <2>1. CASE Broadcast(w)
      <3>1. key[w] \in Usernames /\ worker[w].result \in Results
        BY <1>0 DEF TypeOK, Worker
      <3> QED BY <2>1, <3>1, BroadcastLands DEF Flight!Next
    <2>2. CASE ~Broadcast(w)
      BY <1>0, <1>5, <2>2, SeenTheSame
         DEF WorkerStep, Resolve, StoreUuid, Fetch, FetchError, FetchEmpty, StoreTextures
    <2> QED BY <2>1, <2>2
  <1>6. ASSUME NEW u \in Usernames, ExpireUuid(u) PROVE UNCHANGED Flight!vars
    BY <1>0, <1>6, SeenTheSame DEF ExpireUuid
  <1>7. ASSUME NEW x \in Uuids, ExpireTextures(x) PROVE UNCHANGED Flight!vars
    BY <1>0, <1>7, SeenTheSame DEF ExpireTextures
  <1>8. CASE Restart
    <2>1. Flight!Reset
      BY <1>0, <1>8 DEF Restart, Flight!Reset, Phase, Told, Results, Textures
    <2> QED BY <2>1 DEF Flight!Next
  <1>9. CASE UNCHANGED vars
    BY <1>0, <1>9, SeenTheSame DEF vars
  <1> QED
    BY <1>1, <1>2, <1>3, <1>4, <1>5, <1>6, <1>7, <1>8, <1>9 DEF Next, CallStep

\* The provider starts as the single flight does.
LEMMA FlightStart == Init => Flight!Init
  BY NonEmptyAssumption DEF Init, Flight!Init, Phase, Told, Results, Textures

\* The provider is a single flight: whoever has joined a flight of a username
\* gets the one answer it lands with, at the moment it lands, and no call gets
\* the answer of another flight or two answers.
THEOREM ProviderIsSingleFlight == Spec => SingleFlightSpec
  BY FlightStart, FlightNext, FlightInit, FlightStep, TypeInvHolds, PTL
     DEF Spec, SingleFlightSpec, Flight!Spec

-----------------------------------------------------------------------------
(* What calls that wait together are told *)

\* Of two calls that wait for the same username neither is told before the other
\* or something else.
ToldTogether ==
  [][\A c, d \in Calls :
       /\ pc[c] = "waiting" /\ pc[d] = "waiting" /\ key[c] = key[d]
       /\ outbox[c] = << >> /\ outbox[d] = << >>
       /\ outbox'[c] # << >>
       => outbox'[d] = outbox'[c]]_vars

\* So it is, for every two calls: whoever registered while the worker was on its
\* way hears what the one hears that spawned it.
THEOREM ToldTogetherHolds == Spec => ToldTogether
  <1> DEFINE Together(c, d) == /\ pc[c] = "waiting" /\ pc[d] = "waiting" /\ key[c] = key[d]
                               /\ outbox[c] = << >> /\ outbox[d] = << >>
                               /\ outbox'[c] # << >>
  <1>1. ASSUME TypeInv, FlightInv, [Next]_vars, NEW c \in Calls, NEW d \in Calls, Together(c, d)
        PROVE  outbox'[d] = outbox'[c]
    <2>1. PICK w \in Calls : Broadcast(w)
      <3>1. outbox' # outbox
        BY <1>1
      <3>2. \A w \in Calls : ~ Receive(w)
        BY <1>1 DEF Receive, TypeInv, TypeOK
      <3>3. ~ Restart
        BY <1>1 DEF Restart
      <3> QED BY <1>1, <3>1, <3>2, <3>3
              DEF Next, vars, Call, CallStep, ReadUuid, ReadTextures, Register, WorkerStep, Resolve,
                  StoreUuid, Fetch, FetchError, FetchEmpty, StoreTextures, ExpireUuid, ExpireTextures
    <2>2. \A e \in Calls : outbox'[e] = IF e \in listeners[key[w]]
                                          THEN Append(outbox[e], worker[w].result) ELSE outbox[e]
      BY <2>1 DEF Broadcast
    <2>3. c \in listeners[key[w]] /\ key[c] = key[w]
      BY <1>1, <2>2 DEF FlightInv, ListenersWait, TypeInv, TypeOK
    <2>4. d \in listeners[key[d]]
      <3>1. Len(outbox[d]) # 1
        BY <1>1
      <3> QED BY <1>1, <3>1 DEF FlightInv, WaitersAreHeard
    <2> QED BY <1>1, <2>2, <2>3, <2>4
  <1>2. TypeInv /\ FlightInv /\ [Next]_vars
          => [\A c, d \in Calls : Together(c, d) => outbox'[d] = outbox'[c]]_vars
    BY <1>1
  <1> QED BY FlightInit, FlightStep, TypeInvHolds, <1>2, PTL DEF Spec, ToldTogether

=============================================================================
