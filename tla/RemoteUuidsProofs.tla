-------------------------- MODULE RemoteUuidsProofs --------------------------
(***************************************************************************)
(* Proofs about RemoteUuids, for any number of clients, handlers and names.*)
(***************************************************************************)
EXTENDS RemoteUuids, FiniteSetTheorems, TLAPS

Outcomes == Provider!Keys \cup {NoProfile, Failed}

Typed ==
  /\ client \in [Clients -> {"idle", "sending", "waiting", "settled"}]
  /\ asks \in [Clients -> Names]
  /\ got \in [Clients -> Outcomes]
  /\ peer \in [Handlers -> Clients \cup {Nobody}]
  /\ phase \in [Handlers -> {"out", "pending", "settled"}]
  /\ name \in [Handlers -> Names]
  /\ answer \in [Handlers -> Outcomes]

\* A connection is that of a client that waits on it, and on no other, and its
\* handler asks about the client's name.
Linked ==
  /\ \A h \in Handlers :
       peer[h] # Nobody => /\ client[peer[h]] = "waiting"
                           /\ name[h] = asks[peer[h]]
                           /\ phase[h] # "out"
  /\ \A g, h \in Handlers : peer[g] = peer[h] /\ peer[g] # Nobody => g = h

\* What a handler has been told is about the name it asked about.
Answered == \A h \in Handlers : phase[h] = "settled" => answer[h] \in Provider!Answers(name[h])

IInv == Typed /\ Linked /\ Answered

LEMMA InitIInv == Init => IInv
<1>1. Someone \in Names
  BY MarkersAssumption DEF Someone
<1> QED BY <1>1 DEF Init, InitWorker, Worker!Init, IInv, Typed, Linked, Answered, Outcomes

\* A handler that responds to somebody settles the client of its connection, with
\* what it was told or an error.
LEMMA RespondSettles ==
  ASSUME IInv, NEW h \in Handlers, Respond(h), peer[h] # Nobody
  PROVE  \E x \in {answer[h], Failed} :
           /\ Settle(peer[h], x)
           /\ x = NoProfile => answer[h] = NoProfile
           /\ x \in Provider!Answers(asks[peer[h]])
           /\ got' \in [Clients -> Outcomes]
<1> USE DEF IInv, Typed, Linked, Answered
<1>1. PICK status \in Statuses(answer[h]), whole \in BOOLEAN :
        Settle(peer[h], Understood(status, answer[h], whole))
  BY DEF Respond
<1>2. /\ answer[h] \in Provider!Answers(asks[peer[h]])
      /\ Failed \in Provider!Answers(asks[peer[h]])
  BY DEF Respond, Provider!Leave, Provider!Answers
<1>3. /\ Understood(status, answer[h], whole) \in {answer[h], Failed}
      /\ Understood(status, answer[h], whole) = NoProfile => answer[h] = NoProfile
  BY <1>1, MarkersAssumption DEF Statuses, Understood
<1>4. got' \in [Clients -> Outcomes]
  BY <1>1, <1>3 DEF Settle, Outcomes
<1> QED BY <1>1, <1>2, <1>3, <1>4

LEMMA NextIInv == IInv /\ [Next]_vars => IInv'
<1> SUFFICES ASSUME IInv, [Next]_vars
             PROVE  IInv'
  OBVIOUS
<1> USE NobodyAssumption DEF IInv, Typed, Linked, Answered
<1>1. ASSUME NEW c \in Clients, NEW n \in Names, GetUuid(c, n)
      PROVE  IInv'
  BY <1>1 DEF GetUuid, exchangeVars, Outcomes
<1>2. ASSUME NEW c \in Clients, NEW h \in Handlers, Accept(c, h)
      PROVE  IInv'
  <2>1. \A g \in Handlers : peer[g] # c
    BY <1>2 DEF Accept
  <2> QED BY <1>2, <2>1 DEF Accept, Provider!Ask, Outcomes
<1>3. ASSUME NEW c \in Clients, Refused(c)
      PROVE  IInv'
  BY <1>3 DEF Refused, Settle, exchangeVars, Outcomes
<1>4. ASSUME NEW c \in Clients, Return(c)
      PROVE  IInv'
  BY <1>4 DEF Return, exchangeVars
<1>5. ASSUME NEW S \in SUBSET Handlers, Exchange(S)
      PROVE  IInv'
  BY <1>5 DEF Exchange, Provider!Exchange, Provider!Answers, Provider!Keys, Outcomes, clientVars
<1>6. ASSUME NEW h \in Handlers, Respond(h)
      PROVE  IInv'
  <2>1. /\ phase[h] = "settled" /\ phase' = [phase EXCEPT ![h] = "out"]
        /\ UNCHANGED << name, answer >>
    BY <1>6 DEF Respond, Provider!Leave
  <2>2. CASE peer[h] = Nobody
    BY <1>6, <2>1, <2>2 DEF Respond, clientVars
  <2>3. ASSUME peer[h] # Nobody
        PROVE  IInv'
    <3> DEFINE c == peer[h]
    <3>1. /\ c \in Clients
          /\ peer' = [peer EXCEPT ![h] = Nobody]
          /\ client' = [client EXCEPT ![c] = "settled"]
          /\ UNCHANGED asks
      BY <1>6, <2>3 DEF Respond, Settle
    <3>2. got' \in [Clients -> Outcomes]
      BY <1>6, <2>3, RespondSettles
    <3>3. \A g \in Handlers : g # h => peer[g] # c
      BY <2>3
    <3> HIDE DEF c
    <3>4. Typed'
      BY <2>1, <3>1, <3>2
    <3>5. Linked'
      BY <2>1, <3>1, <3>3
    <3>6. Answered'
      BY <2>1
    <3> QED BY <3>4, <3>5, <3>6
  <2> QED BY <2>2, <2>3
<1>7. ASSUME NEW h \in Handlers, Break(h)
      PROVE  IInv'
  <2> DEFINE c == peer[h]
  <2>1. /\ c \in Clients
        /\ peer' = [peer EXCEPT ![h] = Nobody]
        /\ client' \in { [client EXCEPT ![c] = l] : l \in {"settled", "sending"} }
        /\ UNCHANGED << asks, phase, name, answer >>
    BY <1>7 DEF Break, Settle, exchangeVars
  <2>2. got' \in [Clients -> Outcomes]
    BY <1>7, <2>1 DEF Break, Settle, Outcomes
  <2>3. \A g \in Handlers : g # h => peer[g] # c
    BY <1>7 DEF Break
  <2> HIDE DEF c
  <2>4. Typed'
    BY <2>1, <2>2
  <2>5. Linked'
    BY <2>1, <2>3
  <2>6. Answered'
    BY <2>1
  <2> QED BY <2>4, <2>5, <2>6
<1>8. CASE Serve
  BY <1>8 DEF Serve, clientVars, exchangeVars
<1>9. CASE Restart
  BY <1>9 DEF Restart, clientVars
<1>10. CASE UNCHANGED vars
  BY <1>10 DEF vars, clientVars, exchangeVars
<1> QED BY <1>1, <1>2, <1>3, <1>4, <1>5, <1>6, <1>7, <1>8, <1>9, <1>10 DEF Next

\* The inductive invariant holds.
THEOREM Invariance == Spec => []IInv
<1>1. IInv /\ [Next]_vars => IInv'
  BY NextIInv
<1> QED BY InitIInv, <1>1, PTL DEF Spec

-----------------------------------------------------------------------------
(* The exchange as the clients see it *)

LEMMA InitRefines == Init => Uuids!Init
<1>1. Someone \in Names
  BY MarkersAssumption DEF Someone
<1> QED BY <1>1 DEF Init, Uuids!Init

\* A client that is settled has had an exchange of its own.
LEMMA SettleIsExchange ==
  ASSUME IInv, NEW c \in Clients, client[c] \in {"sending", "waiting"},
         NEW x \in Provider!Answers(asks[c]), Settle(c, x)
  PROVE  Uuids!Next
<1>1. Cardinality({c}) <= Batch
  BY BatchAssumption, FS_Singleton
<1>2. Uuids!Cardinality({c}) = Cardinality({c})
  BY DEF Uuids!Cardinality, Cardinality
<1>3. /\ got' = [d \in Clients |-> IF d \in {c} THEN x ELSE got[d]]
      /\ UNCHANGED asks
  BY DEF Settle, IInv, Typed
<1>4. \/ got' = [d \in Clients |-> IF d \in {c} THEN Failed ELSE got[d]]
      \/ \E found \in SUBSET Uuids!Keys :
           got' = [d \in Clients |->
                     IF d \notin {c} THEN got[d]
                     ELSE IF Fold[asks[d]] \in found THEN Fold[asks[d]] ELSE NoProfile]
  <2>1. CASE x = Failed
    BY <1>3, <2>1
  <2>2. CASE x = Fold[asks[c]]
    <3>1. {x} \in SUBSET Uuids!Keys
      BY <2>2 DEF Uuids!Keys, IInv, Typed
    <3>2. got' = [d \in Clients |->
                    IF d \notin {c} THEN got[d]
                    ELSE IF Fold[asks[d]] \in {x} THEN Fold[asks[d]] ELSE NoProfile]
      BY <1>3, <2>2
    <3> QED BY <3>1, <3>2
  <2>3. CASE x = NoProfile
    <3>1. {} \in SUBSET Uuids!Keys
      OBVIOUS
    <3>2. got' = [d \in Clients |->
                    IF d \notin {c} THEN got[d]
                    ELSE IF Fold[asks[d]] \in {} THEN Fold[asks[d]] ELSE NoProfile]
      BY <1>3, <2>3
    <3> QED BY <3>1, <3>2
  <2> QED BY <2>1, <2>2, <2>3 DEF Provider!Answers
<1>5. Uuids!Exchange({c})
  BY <1>1, <1>2, <1>3, <1>4 DEF Uuids!Exchange, Settle, IInv, Typed
<1> QED BY <1>5 DEF Uuids!Next

\* A step that moves a client from its request to its connection or back is
\* none of the exchange, nor is one that leaves the clients alone.
LEMMA Stutters ==
  ASSUME IInv, UNCHANGED << asks, got >>,
         \/ UNCHANGED client
         \/ \E c \in Clients, l \in {"sending", "waiting"} :
              client[c] \in {"sending", "waiting"} /\ client' = [client EXCEPT ![c] = l]
  PROVE  UNCHANGED Uuids!vars
  BY DEF Uuids!vars, IInv, Typed

LEMMA StepRefines == IInv /\ [Next]_vars => [Uuids!Next]_(Uuids!vars)
<1> SUFFICES ASSUME IInv, [Next]_vars
             PROVE  [Uuids!Next]_(Uuids!vars)
  OBVIOUS
<1>1. ASSUME NEW c \in Clients, NEW n \in Names, GetUuid(c, n)
      PROVE  Uuids!Next
  <2>1. Uuids!Ask(c, n)
    BY <1>1 DEF GetUuid, Uuids!Ask, IInv, Typed
  <2> QED BY <2>1 DEF Uuids!Next
<1>2. ASSUME NEW c \in Clients, NEW h \in Handlers, Accept(c, h)
      PROVE  UNCHANGED Uuids!vars
  BY <1>2, Stutters DEF Accept
<1>3. ASSUME NEW c \in Clients, Refused(c)
      PROVE  Uuids!Next
  BY <1>3, SettleIsExchange DEF Refused, Provider!Answers
<1>4. ASSUME NEW c \in Clients, Return(c)
      PROVE  Uuids!Next
  <2>1. Uuids!Leave(c)
    BY <1>4 DEF Return, Uuids!Leave, IInv, Typed
  <2> QED BY <2>1 DEF Uuids!Next
<1>5. ASSUME NEW S \in SUBSET Handlers, Exchange(S)
      PROVE  UNCHANGED Uuids!vars
  BY <1>5, Stutters DEF Exchange, clientVars
<1>6. ASSUME NEW h \in Handlers, Respond(h)
      PROVE  [Uuids!Next]_(Uuids!vars)
  <2>1. CASE peer[h] = Nobody
    BY <1>6, <2>1, Stutters DEF Respond, clientVars
  <2>2. CASE peer[h] # Nobody
    BY <1>6, <2>2, RespondSettles, SettleIsExchange DEF IInv, Typed, Linked
  <2> QED BY <2>1, <2>2
<1>7. ASSUME NEW h \in Handlers, Break(h)
      PROVE  [Uuids!Next]_(Uuids!vars)
  <2>1. peer[h] \in Clients /\ client[peer[h]] = "waiting"
    BY <1>7 DEF Break, IInv, Typed, Linked
  <2>2. CASE Settle(peer[h], Failed)
    BY <2>1, <2>2, SettleIsExchange DEF Provider!Answers
  <2>3. CASE client' = [client EXCEPT ![peer[h]] = "sending"] /\ UNCHANGED << asks, got >>
    BY <2>1, <2>3, Stutters
  <2> QED BY <1>7, <2>2, <2>3 DEF Break
<1>8. CASE Serve
  BY <1>8, Stutters DEF Serve, clientVars
<1>9. CASE Restart
  BY <1>9, Stutters DEF Restart, clientVars
<1>10. CASE UNCHANGED vars
  BY <1>10, Stutters DEF vars, clientVars
<1> QED BY <1>1, <1>2, <1>3, <1>4, <1>5, <1>6, <1>7, <1>8, <1>9, <1>10 DEF Next

\* Whatever the worker and the connections do, each call of a client is settled
\* once, and told about its own name.
THEOREM RemoteExchangeHolds == Spec => RemoteExchangeSpec
<1>1. IInv /\ [Next]_vars => [Uuids!Next]_(Uuids!vars)
  BY StepRefines
<1> QED BY InitRefines, Invariance, <1>1, PTL DEF Spec, RemoteExchangeSpec, Uuids!Spec

\* A client is told that there is no profile only by a handler that has heard so
\* about the client's name.
THEOREM FailureIsNotAbsenceHolds == Spec => FailureIsNotAbsence
<1> DEFINE Heard(c) == \E h \in Handlers : peer[h] = c /\ name[h] = asks[c]
                                            /\ phase[h] = "settled" /\ answer[h] = NoProfile
           NewlyNone(c) == client[c] # "settled" /\ client'[c] = "settled" /\ got'[c] = NoProfile
<1>1. ASSUME IInv, [Next]_vars, NEW c \in Clients, NewlyNone(c)
      PROVE  Heard(c)
  <2>1. ASSUME NEW d \in Clients, NEW l, client' = [client EXCEPT ![d] = l]
        PROVE  d = c /\ l = "settled"
    BY <1>1, <2>1 DEF IInv, Typed
  <2>2. ASSUME NEW d \in Clients, Settle(d, Failed)
        PROVE  FALSE
    BY <1>1, <2>2, <2>1, MarkersAssumption DEF Settle, IInv, Typed
  <2>3. ~ UNCHANGED client
    BY <1>1
  <2>4. \A d \in Clients, n \in Names : ~GetUuid(d, n)
    BY <2>1 DEF GetUuid
  <2>5. \A d \in Clients, h \in Handlers : ~Accept(d, h)
    BY <2>1 DEF Accept
  <2>6. \A d \in Clients : ~Refused(d) /\ ~Return(d)
    BY <2>1, <2>2 DEF Refused, Return
  <2>7. \A h \in Handlers : ~Break(h)
    BY <1>1, <2>1, <2>2, NobodyAssumption DEF Break, IInv, Typed
  <2>8. /\ \A S \in SUBSET Handlers : ~Exchange(S)
        /\ ~Serve /\ ~Restart /\ ~UNCHANGED vars
    BY <2>3 DEF Exchange, Serve, Restart, vars, clientVars
  <2>9. PICK h \in Handlers : Respond(h)
    BY <1>1, <2>4, <2>5, <2>6, <2>7, <2>8 DEF Next
  <2>10. peer[h] # Nobody
    BY <2>3, <2>9 DEF Respond, clientVars
  <2>11. PICK x \in {answer[h], Failed} : Settle(peer[h], x) /\ (x = NoProfile => answer[h] = NoProfile)
    BY <1>1, <2>9, <2>10, RespondSettles
  <2>12. peer[h] = c /\ got'[c] = x
    BY <1>1, <2>1, <2>10, <2>11 DEF Settle, IInv, Typed
  <2>13. phase[h] = "settled" /\ name[h] = asks[c] /\ answer[h] = NoProfile
    BY <1>1, <2>9, <2>10, <2>11, <2>12 DEF Respond, Provider!Leave, IInv, Linked
  <2> QED BY <2>12, <2>13
<1>2. IInv /\ [Next]_vars => [\A c \in Clients : NewlyNone(c) => Heard(c)]_vars
  BY <1>1
<1> QED BY Invariance, <1>2, PTL DEF Spec, FailureIsNotAbsence

-----------------------------------------------------------------------------
(* The worker's server, with its restarts *)

\* Who may have closed done, and what is over by then. While the listener is
\* closed only the goroutine of the signal can have done so, after the requests.
ServerInv ==
  /\ Worker!TypeOK
  /\ done => listener = "reported" \/ signal = "gone"
  /\ ~Worker!Serving => done
  /\ main = "panicked" => listener = "reported"
  /\ signal \in {"draining", "drained", "gone"} => listener # "listening"
  /\ listener = "closed" => signal \in {"draining", "drained", "gone"}
  /\ listener = "closed" /\ signal # "draining" => Worker!Active = {}

LEMMA InitServer == Init => ServerInv
<1>1. Worker!Init => ServerInv
  BY DEF Worker!Init, ServerInv, Worker!TypeOK, Worker!Serving
<1> QED BY <1>1 DEF Init, InitWorker

\* The server by itself.
LEMMA ServerStep == ServerInv /\ [Worker!Next]_(Worker!vars) => ServerInv'
<1> SUFFICES ASSUME ServerInv, [Worker!Next]_(Worker!vars)
             PROVE  ServerInv'
  OBVIOUS
<1> USE DEF ServerInv, Worker!TypeOK, Worker!Serving
<1>1. ASSUME NEW r \in Handlers, Worker!Accept(r)
      PROVE  ServerInv'
  BY <1>1 DEF Worker!Accept
<1>2. ASSUME NEW r \in Handlers, Worker!Answer(r)
      PROVE  ServerInv'
  <2>1. Worker!Active' \subseteq Worker!Active
    BY <1>2 DEF Worker!Answer, Worker!Active
  <2> QED BY <1>2, <2>1 DEF Worker!Answer
<1>3. CASE Worker!ListenFails
  BY <1>3 DEF Worker!ListenFails
<1>4. CASE Worker!ListenerEnds
  BY <1>4 DEF Worker!ListenerEnds, Worker!CloseDone
<1>5. CASE Worker!Signal
  BY <1>5 DEF Worker!Signal
<1>6. CASE Worker!Shutdown
  BY <1>6 DEF Worker!Shutdown
<1>7. CASE Worker!Drained
  BY <1>7 DEF Worker!Drained, Worker!Active
<1>8. CASE Worker!SignalEnds
  BY <1>8 DEF Worker!SignalEnds, Worker!CloseDone, Worker!Active
<1>9. CASE Worker!Return
  BY <1>9 DEF Worker!Return, Worker!Active
<1>10. CASE UNCHANGED Worker!vars
  BY <1>10 DEF Worker!vars, Worker!Active
<1> QED BY <1>1, <1>2, <1>3, <1>4, <1>5, <1>6, <1>7, <1>8, <1>9, <1>10 DEF Worker!Next, Worker!OwnNext

\* And as the worker uses it, which may start it again.
LEMMA NextServer == ServerInv /\ [Next]_vars => ServerInv'
<1> SUFFICES ASSUME ServerInv, [Next]_vars
             PROVE  ServerInv'
  OBVIOUS
<1>1. CASE [Worker!Next]_(Worker!vars)
  BY <1>1, ServerStep
<1>2. ASSUME NEW c \in Clients, NEW h \in Handlers, Accept(c, h)
      PROVE  Worker!Next
  BY <1>2 DEF Accept, Worker!Next
<1>3. ASSUME NEW h \in Handlers, Respond(h)
      PROVE  Worker!Next
  BY <1>3 DEF Respond, Worker!Next
<1>4. CASE Serve
  BY <1>1, <1>4 DEF Serve, Worker!Next
<1>5. CASE Restart
  BY <1>5 DEF Restart, ServerInv, Worker!TypeOK, Worker!Serving, Worker!Active
<1> QED BY <1>1, <1>2, <1>3, <1>4, <1>5
        DEF Next, GetUuid, Refused, Return, Exchange, Break, vars, serverVars, Worker!vars

\* The worker's shutdowns are graceful, across its restarts, whatever the number
\* of requests and the order in which the goroutines of StartServer go on
\* (http.go:24-45).
THEOREM GracefulShutdownHolds == Spec => []GracefulShutdown
<1>1. ServerInv /\ [Next]_vars => ServerInv'
  BY NextServer
<1>2. ServerInv => GracefulShutdown
  BY DEF ServerInv, Worker!TypeOK, Worker!Serving, GracefulShutdown, Worker!GracefulShutdown
<1> QED BY InitServer, <1>1, <1>2, PTL DEF Spec

-----------------------------------------------------------------------------
(* Clients, connections and the worker together *)

\* Who waits has a connection, and a handler that is being served is one that
\* has asked its provider and not taken the answer yet.
Wired ==
  /\ \A c \in Clients : client[c] = "waiting" => \E h \in Handlers : peer[h] = c
  /\ \A h \in Handlers : request[h] = "active" <=> phase[h] # "out"

LEMMA InitWired == Init => Wired
  BY DEF Init, InitWorker, Worker!Init, Wired

\* A connection that is given up leaves the others, and its client does not wait.
LEMMA Disconnects ==
  ASSUME IInv, Wired, NEW h \in Handlers, peer[h] # Nobody,
         NEW l \in {"sending", "settled"},
         client' = [client EXCEPT ![peer[h]] = l],
         peer' = [peer EXCEPT ![h] = Nobody]
  PROVE  \A c \in Clients : client'[c] = "waiting" => \E g \in Handlers : peer'[g] = c
<1> SUFFICES ASSUME NEW c \in Clients, client'[c] = "waiting"
             PROVE  \E g \in Handlers : peer'[g] = c
  OBVIOUS
<1>1. c # peer[h] /\ client[c] = "waiting"
  BY DEF IInv, Typed
<1>2. PICK g \in Handlers : peer[g] = c
  BY <1>1 DEF Wired
<1> QED BY <1>1, <1>2 DEF IInv, Typed

LEMMA NextWired == IInv /\ ServerInv /\ Wired /\ [Next]_vars => Wired'
<1> SUFFICES ASSUME IInv, ServerInv, Wired, [Next]_vars
             PROVE  Wired'
  OBVIOUS
<1> USE DEF IInv, Typed
<1>1. request \in [Handlers -> {"none", "active"}]
  BY DEF ServerInv, Worker!TypeOK
<1>2. ASSUME NEW c \in Clients, NEW l \in {"sending", "settled", "idle"},
             client' = [client EXCEPT ![c] = l], UNCHANGED << peer, exchangeVars, serverVars >>,
             client[c] # "waiting"
      PROVE  Wired'
  BY <1>2 DEF Wired, exchangeVars, serverVars
<1>3. ASSUME NEW c \in Clients, NEW h \in Handlers, Accept(c, h)
      PROVE  Wired'
  <2>1. /\ client' = [client EXCEPT ![c] = "waiting"] /\ peer' = [peer EXCEPT ![h] = c]
        /\ request' = [request EXCEPT ![h] = "active"] /\ request[h] = "none"
        /\ phase' = [phase EXCEPT ![h] = "pending"]
    BY <1>3 DEF Accept, Worker!Accept, Provider!Ask
  <2>2. peer[h] = Nobody
    BY <1>1, <2>1 DEF Wired, Linked
  <2>3. ASSUME NEW d \in Clients, client'[d] = "waiting"
        PROVE  \E g \in Handlers : peer'[g] = d
    <3>1. CASE d = c
      BY <2>1, <3>1
    <3>2. CASE d # c
      <4>1. PICK g \in Handlers : peer[g] = d
        BY <2>1, <2>3, <3>2 DEF Wired
      <4> QED BY <2>1, <2>2, <4>1, NobodyAssumption
    <3> QED BY <3>1, <3>2
  <2>4. \A g \in Handlers : request'[g] = "active" <=> phase'[g] # "out"
    BY <1>1, <2>1 DEF Wired
  <2> QED BY <2>3, <2>4 DEF Wired
<1>4. ASSUME NEW S \in SUBSET Handlers, Exchange(S)
      PROVE  Wired'
  <2>1. /\ UNCHANGED << client, peer, request >>
        /\ \A h \in Handlers : phase'[h] # "out" <=> phase[h] # "out"
    BY <1>4 DEF Exchange, Provider!Exchange, clientVars, serverVars
  <2> QED BY <2>1 DEF Wired
<1>5. ASSUME NEW h \in Handlers, Respond(h)
      PROVE  Wired'
  <2>1. /\ phase' = [phase EXCEPT ![h] = "out"]
        /\ request' = [request EXCEPT ![h] = "none"]
    BY <1>5 DEF Respond, Provider!Leave, Worker!Answer
  <2>2. \A g \in Handlers : request'[g] = "active" <=> phase'[g] # "out"
    BY <1>1, <2>1 DEF Wired
  <2>3. CASE peer[h] = Nobody
    BY <1>5, <2>2, <2>3 DEF Respond, clientVars, Wired
  <2>4. CASE peer[h] # Nobody
    <3>1. client' = [client EXCEPT ![peer[h]] = "settled"] /\ peer' = [peer EXCEPT ![h] = Nobody]
      BY <1>5, <2>4 DEF Respond, Settle
    <3> QED BY <2>2, <2>4, <3>1, Disconnects DEF Wired
  <2> QED BY <2>3, <2>4
<1>6. ASSUME NEW h \in Handlers, Break(h)
      PROVE  Wired'
  <2>1. /\ peer[h] # Nobody /\ peer' = [peer EXCEPT ![h] = Nobody]
        /\ UNCHANGED << phase, request >>
    BY <1>6 DEF Break, exchangeVars, serverVars
  <2>2. PICK l \in {"sending", "settled"} : client' = [client EXCEPT ![peer[h]] = l]
    BY <1>6 DEF Break, Settle
  <2> QED BY <2>1, <2>2, Disconnects DEF Wired
<1>7. CASE Serve
  <2>1. UNCHANGED << client, peer, phase, request >>
    BY <1>7 DEF Serve, Worker!OwnNext, Worker!ListenFails, Worker!ListenerEnds, Worker!Signal,
                Worker!Shutdown, Worker!Drained, Worker!SignalEnds, Worker!Return,
                clientVars, exchangeVars
  <2> QED BY <2>1 DEF Wired
<1>8. CASE Restart
  BY <1>8 DEF Restart, clientVars, Wired
<1>9. CASE UNCHANGED vars
  BY <1>9 DEF vars, clientVars, exchangeVars, serverVars, Wired
<1>10. ASSUME NEW c \in Clients, (\E n \in Names : GetUuid(c, n)) \/ Refused(c) \/ Return(c)
       PROVE  Wired'
  <2>1. PICK l \in {"sending", "settled", "idle"} :
          /\ client' = [client EXCEPT ![c] = l] /\ UNCHANGED << peer, exchangeVars, serverVars >>
          /\ client[c] # "waiting"
    BY <1>10 DEF GetUuid, Refused, Return, Settle
  <2> QED BY <1>2, <2>1
<1> QED BY <1>3, <1>4, <1>5, <1>6, <1>7, <1>8, <1>9, <1>10 DEF Next

LEMMA WiredHolds == Spec => [](IInv /\ ServerInv /\ Wired)
<1>1. ServerInv /\ [Next]_vars => ServerInv'
  BY NextServer
<1>2. IInv /\ ServerInv /\ Wired /\ [Next]_vars => Wired'
  BY NextWired
<1> QED BY Invariance, InitServer, InitWired, <1>1, <1>2, PTL DEF Spec

\* Whoever waits has exactly one connection, however often its transport has
\* sent the request again.
THEOREM TypeCorrect == Spec => []TypeOK
<1>1. IInv /\ ServerInv /\ Wired => TypeOK
  <2> SUFFICES ASSUME IInv, ServerInv, Wired
               PROVE  TypeOK
    OBVIOUS
  <2>1. ASSUME NEW c \in Clients
        PROVE  Cardinality({ h \in Handlers : peer[h] = c }) = IF client[c] = "waiting" THEN 1 ELSE 0
    <3>1. CASE client[c] = "waiting"
      <4>1. PICK h \in Handlers : peer[h] = c
        BY <3>1 DEF Wired
      <4>2. { g \in Handlers : peer[g] = c } = {h}
        BY <4>1, NobodyAssumption DEF IInv, Linked
      <4> QED BY <3>1, <4>2, FS_Singleton
    <3>2. CASE client[c] # "waiting"
      <4>1. { g \in Handlers : peer[g] = c } = {}
        BY <3>2, NobodyAssumption DEF IInv, Linked
      <4> QED BY <3>2, <4>1, FS_EmptySet
    <3> QED BY <3>1, <3>2
  <2> QED BY <2>1 DEF TypeOK, IInv, Typed, Outcomes, ServerInv
<1> QED BY WiredHolds, <1>1, PTL

\* A worker that has shut down gracefully has left no client waiting: the
\* exchange of each request it accepted was settled and its response sent.
NobodyIsCutOff ==
  ~Worker!Serving /\ listener = "closed" => \A c \in Clients : client[c] # "waiting"

\* So it is, for any number of clients and requests and across restarts.
THEOREM NobodyIsCutOffHolds == Spec => []NobodyIsCutOff
<1>1. IInv /\ ServerInv /\ Wired => NobodyIsCutOff
  <2> SUFFICES ASSUME IInv, ServerInv, Wired, ~Worker!Serving, listener = "closed",
                      NEW c \in Clients, client[c] = "waiting"
               PROVE  FALSE
    BY DEF NobodyIsCutOff
  <2>1. PICK h \in Handlers : peer[h] = c
    BY DEF Wired
  <2>2. request[h] = "active"
    BY <2>1, NobodyAssumption DEF Wired, IInv, Linked
  <2>3. Worker!Active = {}
    BY DEF ServerInv
  <2> QED BY <2>2, <2>3 DEF Worker!Active
<1> QED BY WiredHolds, <1>1, PTL

\* What a client has got, from when its call is settled, is about the name of
\* that call, or a failure.
GotOwn ==
  \A c \in Clients : client[c] = "settled" => got[c] \in Provider!Answers(asks[c])

\* Through a worker too, GetUuid answers about the name it was called with.
THEOREM GotOwnHolds == Spec => []GotOwn
<1>1. Init => GotOwn
  BY DEF Init, GotOwn
<1>2. IInv /\ GotOwn /\ [Next]_vars => GotOwn'
  <2> SUFFICES ASSUME IInv, GotOwn, [Next]_vars
               PROVE  GotOwn'
    OBVIOUS
  <2> USE DEF GotOwn, IInv, Typed, Provider!Answers
  <2>1. ASSUME NEW c \in Clients, NEW x \in Provider!Answers(asks[c]), Settle(c, x)
        PROVE  GotOwn'
    BY <2>1 DEF Settle
  <2>2. ASSUME NEW c \in Clients, NEW l \in {"idle", "sending", "waiting"},
               client' = [client EXCEPT ![c] = l], UNCHANGED got,
               \A d \in Clients \ {c} : asks'[d] = asks[d]
        PROVE  GotOwn'
    BY <2>2
  <2>3. CASE UNCHANGED clientVars
    BY <2>3 DEF clientVars
  <2>4. ASSUME NEW c \in Clients,
               Refused(c) \/ Return(c) \/ (\E n \in Names : GetUuid(c, n))
                          \/ (\E h \in Handlers : Accept(c, h))
        PROVE  GotOwn'
    BY <2>1, <2>2, <2>4 DEF Refused, Return, GetUuid, Accept
  <2>5. ASSUME NEW h \in Handlers, Respond(h)
        PROVE  GotOwn'
    BY <2>1, <2>3, <2>5, RespondSettles DEF Respond
  <2>6. ASSUME NEW h \in Handlers, Break(h)
        PROVE  GotOwn'
    BY <2>1, <2>2, <2>6 DEF Break
  <2> QED BY <2>3, <2>4, <2>5, <2>6 DEF Next, Exchange, Serve, Restart, vars
<1> QED BY Invariance, <1>1, <1>2, PTL DEF Spec

=============================================================================
