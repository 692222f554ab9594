----------------------------- MODULE RemoteUuids -----------------------------
(***************************************************************************)
(* Uuids from another process: RemoteApiUuidsProvider                      *)
(* (src/mojangtextures/remote_api_uuids_provider.go) asks a worker         *)
(* (src/http/uuids_worker.go) over HTTP, which asks its batch provider.    *)
(*                                                                         *)
(* The worker is a Server, whose requests are handlers, and its batch      *)
(* provider a UuidExchange, which BatchUuids implements. Connections break *)
(* at any moment (the server's WriteTimeout is shorter than a batch may    *)
(* take), and the client's transport may send a request again on another.  *)
(* The handler of a broken connection runs on.                             *)
(***************************************************************************)
EXTENDS FiniteSets, Naturals

CONSTANTS Clients,  \* the goroutines that call GetUuid
          Handlers, \* bounds what the worker handles at a time
          Names, Fold,
          NoProfile, Failed,
          Batch,
          Nobody    \* the connection is gone

ASSUME BatchAssumption == Batch \in Nat \ {0}
ASSUME NobodyAssumption == Nobody \notin Clients
ASSUME MarkersAssumption ==
  /\ DOMAIN Fold = Names /\ Names # {}
  /\ NoProfile # Failed /\ {NoProfile, Failed} \cap { Fold[n] : n \in Names } = {}

VARIABLES client, asks, got,                      \* the clients
          peer,                                   \* whose connection a handler has
          phase, name, answer,                    \* the worker's provider
          listener, signal, done, main, request   \* the worker's server

clientVars   == << client, asks, got >>
exchangeVars == << phase, name, answer >>
serverVars   == << listener, signal, done, main, request >>
vars == << clientVars, peer, exchangeVars, serverVars >>

Worker   == INSTANCE Server WITH Requests <- Handlers
Provider == INSTANCE UuidExchange WITH Calls <- Handlers

\* The types of the variables. Whoever waits has exactly one connection.
TypeOK ==
  /\ Worker!TypeOK
  /\ client \in [Clients -> {"idle", "sending", "waiting", "settled"}]
  /\ asks \in [Clients -> Names] /\ got \in [Clients -> Provider!Keys \cup {NoProfile, Failed}]
  /\ peer \in [Handlers -> Clients \cup {Nobody}]
  /\ \A c \in Clients : Cardinality({ h \in Handlers : peer[h] = c })
                          = IF client[c] = "waiting" THEN 1 ELSE 0

Someone == CHOOSE n \in Names : TRUE

InitWorker == Worker!Init /\ phase = [h \in Handlers |-> "out"]
                          /\ name = [h \in Handlers |-> Someone]
                          /\ answer = [h \in Handlers |-> NoProfile]

Init == /\ InitWorker
        /\ client = [c \in Clients |-> "idle"]
        /\ asks = [c \in Clients |-> Someone]
        /\ got = [c \in Clients |-> NoProfile]
        /\ peer = [h \in Handlers |-> Nobody]

-----------------------------------------------------------------------------
(* The client *)

\* GetUuid begins, and has not got anything yet.
GetUuid(c, n) ==
  /\ client[c] = "idle"
  /\ client' = [client EXCEPT ![c] = "sending"]
  /\ asks' = [asks EXCEPT ![c] = n]
  /\ got' = [got EXCEPT ![c] = NoProfile]
  /\ UNCHANGED << peer, exchangeVars, serverVars >>

Settle(c, x) == /\ client' = [client EXCEPT ![c] = "settled"]
                /\ got' = [got EXCEPT ![c] = x]
                /\ UNCHANGED asks

\* Mutant of Refused: the request is made until it is answered.
RefusedTryingAgain(c) ==
  /\ client[c] = "sending"
  /\ UNCHANGED vars

\* HttpClient.Do returns an error: there is no connection.
Refused(c) ==
  /\ client[c] = "sending"
  /\ Settle(c, Failed)
  /\ UNCHANGED << peer, exchangeVars, serverVars >>

\* GetUuid returns.
Return(c) ==
  /\ client[c] = "settled"
  /\ client' = [client EXCEPT ![c] = "idle"]
  /\ UNCHANGED << asks, got, peer, exchangeVars, serverVars >>

\* Mutant of Understood: whatever is not a profile means that there is none.
UnderstoodAsNone(status, x, whole) == IF status = 200 /\ whole THEN x ELSE NoProfile

\* What the client makes of a response, whose body may be cut off.
Understood(status, x, whole) ==
  CASE status = 204 -> NoProfile
    [] status = 200 /\ whole -> x
    [] OTHER -> Failed

-----------------------------------------------------------------------------
(* The worker *)

\* Mutant of Accept: the path is set in the url that all requests share, so a
\* handler may be asked about the name of any of them.
AcceptSharedUrl(c, h) ==
  /\ client[c] = "sending"
  /\ Worker!Accept(h)
  /\ \E n \in Names : Provider!Ask(h, n)
  /\ client' = [client EXCEPT ![c] = "waiting"]
  /\ peer' = [peer EXCEPT ![h] = c]
  /\ UNCHANGED << asks, got >>

\* A request reaches the worker, whose handler calls GetUuid.
Accept(c, h) ==
  /\ client[c] = "sending"
  /\ Worker!Accept(h)
  /\ Provider!Ask(h, asks[c])
  /\ client' = [client EXCEPT ![c] = "waiting"]
  /\ peer' = [peer EXCEPT ![h] = c]
  /\ UNCHANGED << asks, got >>

\* Its provider exchanges usernames for uuids.
Exchange(S) ==
  /\ Worker!Serving
  /\ Provider!Exchange(S)
  /\ UNCHANGED << clientVars, peer, serverVars >>

\* The statuses that getUUIDHandler answers with.
Statuses(x) == CASE x = Failed -> {429, 500} [] x = NoProfile -> {204} [] OTHER -> {200}

\* GetUuid has returned and the handler responds, if anybody is there.
Respond(h) ==
  /\ Provider!Leave(h)
  /\ Worker!Answer(h)
  /\ IF peer[h] = Nobody THEN UNCHANGED << clientVars, peer >>
     ELSE /\ \E status \in Statuses(answer[h]), whole \in BOOLEAN :
               Settle(peer[h], Understood(status, answer[h], whole))
          /\ peer' = [peer EXCEPT ![h] = Nobody]

\* A connection breaks: the client is told, or its transport tries another.
Break(h) ==
  /\ peer[h] # Nobody
  /\ \/ Settle(peer[h], Failed)
     \/ client' = [client EXCEPT ![peer[h]] = "sending"] /\ UNCHANGED << asks, got >>
  /\ peer' = [peer EXCEPT ![h] = Nobody]
  /\ UNCHANGED << exchangeVars, serverVars >>

\* The goroutines of StartServer.
Serve == Worker!OwnNext /\ UNCHANGED << clientVars, peer, exchangeVars >>

\* The worker is started again, after all of its connections were closed.
Restart ==
  /\ ~Worker!Serving
  /\ \A h \in Handlers : peer[h] = Nobody
  /\ main' = "serving" /\ listener' = "listening" /\ signal' = "waiting" /\ done' = FALSE
  /\ request' = [h \in Handlers |-> "none"]
  /\ phase' = [h \in Handlers |-> "out"]
  /\ UNCHANGED << clientVars, peer, name, answer >>

Next == \/ \E c \in Clients : \/ \E n \in Names : GetUuid(c, n)
                              \/ \E h \in Handlers : Accept(c, h)
                              \/ Refused(c) \/ Return(c)
        \/ \E S \in SUBSET Handlers : Exchange(S)
        \/ \E h \in Handlers : Respond(h) \/ Break(h)
        \/ Serve \/ Restart

Spec == Init /\ [][Next]_vars

\* Clients and handlers go on when they can. The provider of the worker answers
\* whom it is asked (EveryCallReturns of BatchUuids), and the goroutines of the
\* server run. The connections of a process that has ended are closed.
FairSpec ==
  /\ Spec
  /\ \A c \in Clients : WF_vars(Refused(c) \/ \E h \in Handlers : Accept(c, h)) /\ WF_vars(Return(c))
  /\ \A h \in Handlers : /\ WF_vars(\E S \in SUBSET Handlers : h \in S /\ Exchange(S))
                         /\ WF_vars(Respond(h))
                         /\ WF_vars(~Worker!Serving /\ Break(h))
  /\ WF_vars(Serve /\ ~Worker!ListenFails /\ ~Worker!Signal)

-----------------------------------------------------------------------------
(* Properties *)

Uuids == INSTANCE UuidExchange WITH
  Calls  <- Clients,
  phase  <- [c \in Clients |-> CASE client[c] = "idle" -> "out"
                                 [] client[c] = "settled" -> "settled"
                                 [] OTHER -> "pending"],
  name   <- asks,
  answer <- got

\* Seen from the clients this is the same exchange again: whatever is lost or
\* sent twice, a call is settled once, and told about its own name.
RemoteExchangeSpec == Uuids!Spec

\* "No such account", which is cached for a month, is never the outcome of a
\* failure: some handler of the call's name has heard so from Mojang.
FailureIsNotAbsence ==
  [][\A c \in Clients :
       client[c] # "settled" /\ client'[c] = "settled" /\ got'[c] = NoProfile
         => \E h \in Handlers : peer[h] = c /\ name[h] = asks[c]
                                /\ phase[h] = "settled" /\ answer[h] = NoProfile]_vars

\* A worker that only gets a signal does not end before every request that it
\* accepted has been answered, those included that wait for their batch, and
\* does not panic.
GracefulShutdown == Worker!GracefulShutdown

\* A worker that gets a signal ends.
ShutdownEnds == signal = "got" ~> ~Worker!Serving

\* When connections have stopped breaking, every call of a client returns, by way of
\* workers that fail, end and are started again.
EveryCallReturns ==
  <>[][\A h \in Handlers : ~Break(h)]_vars => \A c \in Clients : client[c] = "sending" ~> client[c] = "idle"

=============================================================================
