---------------------------- MODULE PipelineProofs ----------------------------
(***************************************************************************)
(* Proofs about FullBusStrategy, and about the pipeline of flights over it *)
(* and its timers, for any number of calls and names and any batch.        *)
(***************************************************************************)
EXTENDS Pipeline, BatchUuidsProofs

-----------------------------------------------------------------------------
(* Division *)

\* One more job completes a batch, or does not.
LEMMA DivideMore ==
  ASSUME NEW n \in Nat
  PROVE  (n + 1) \div Batch = IF (n + 1) % Batch = 0 THEN (n \div Batch) + 1 ELSE n \div Batch
  BY BatchAssumption

\* Taking a batch, or what there is of one.
LEMMA DivideCut ==
  ASSUME NEW n \in Nat
  PROVE  (n - (IF Batch > n THEN n ELSE Batch)) \div Batch
           = IF Batch > n THEN 0 ELSE (n \div Batch) - 1
<1>1. CASE Batch > n
  <2>1. n - n = 0
    OBVIOUS
  <2> QED BY <1>1, <2>1, BatchAssumption
<1>2. CASE ~ (Batch > n)
  BY <1>2, BatchAssumption
<1> QED BY <1>1, <1>2

LEMMA DivideType == \A n \in Nat : n \div Batch \in Nat
  BY BatchAssumption

-----------------------------------------------------------------------------
(* FullBusStrategy *)

Signallers == { c \in Calls : call[c] = "signal" }

BusInv == CommonInv /\ IsFiniteSet(Signallers) /\ FullBatchesAreSignalled

\* The steps that only this strategy has keep what the strategies share.
LEMMA OwnStep ==
  ASSUME CommonInv, (\E c \in Calls : Queue(c) \/ Signal(c)) \/ Collect \/ Iterate
  PROVE  CommonInv'
<1>1. ASSUME NEW c \in Calls, Queue(c)
      PROVE  CommonInv'
  <2>1. PICK l \in Blocked : Enqueue(c, l)
    BY <1>1 DEF Queue, Blocked
  <2> QED BY <2>1, EnqueueStep
<1>2. ASSUME NEW c \in Calls, Signal(c)
      PROVE  CommonInv'
  <2>1. /\ call[c] = "signal" /\ driver.at = "select"
        /\ Goto(c, "wait")
        /\ driver' = [at |-> "collect", jobs |-> << >>, left |-> 0]
        /\ UNCHANGED << name, answer, once, queue, consumer, rounds, cancelled, crashed >>
    BY <1>2 DEF Signal, Drive
  <2>2. /\ call' \in [Calls -> Labels]
        /\ \A d \in Calls : call'[d] = IF d = c THEN "wait" ELSE call[d]
    BY <2>1, CallTypes, Moves DEF Labels
  <2>3. TypeOK'
    BY <2>1, <2>2, EmptyJobs DEF CommonInv, TypeOK, Labels
  <2>4. StartedOnce' /\ NothingBeforeStart' /\ StopsWhenCancelled' /\ JobsAreHeld'
    BY <2>1, <2>2 DEF CommonInv, StartedOnce, NothingBeforeStart, StopsWhenCancelled, JobsAreHeld
  <2>5. driver'.jobs = driver.jobs
    BY <2>1 DEF CommonInv, JobsAreHeld
  <2>6. EachOnce'
    BY <2>1, <2>2, <2>5, JobsStay DEF CommonInv, Blocked
  <2> QED BY <2>3, <2>4, <2>6 DEF CommonInv
<1>3. CASE Collect
  BY <1>3, DequeueStep DEF Collect
<1>4. CASE Iterate
  BY <1>4, HandOverStep DEF Iterate
<1> QED BY <1>1, <1>2, <1>3, <1>4

LEMMA InitBus == Init => BusInv
<1> SUFFICES ASSUME Init
             PROVE  BusInv
  OBVIOUS
<1>1. Signallers = {}
  BY DEF Init, Signallers
<1>2. Len(queue) \div Batch = 0
  BY EmptyJobs, BatchAssumption DEF Init
<1>3. Signals = 0
  <2>1. Signals = Cardinality(Signallers) + 0
    BY DEF Init, Signals, Signallers
  <2> QED BY <1>1, <2>1, FS_EmptySet
<1> QED BY <1>1, <1>2, <1>3, CommonInit, FS_EmptySet DEF BusInv, FullBatchesAreSignalled

\* Who signals, as a number.
LEMMA SignalsType ==
  ASSUME BusInv
  PROVE  /\ Cardinality(Signallers) \in Nat
         /\ Signals = Cardinality(Signallers) + (IF driver.at = "collect" THEN 1 ELSE 0)
         /\ Len(queue) \in Nat
         /\ Len(queue) \div Batch \in Nat
         /\ Len(queue) \div Batch <= Signals
<1>1. Len(queue) \in Nat
  BY LenProperties DEF BusInv, CommonInv, TypeOK
<1> QED BY <1>1, DivideType, FS_CardinalityType DEF BusInv, FullBatchesAreSignalled, Signals, Signallers

\* A job completes a batch, and its call is about to signal that, or neither.
LEMMA QueueBus ==
  ASSUME BusInv, NEW c \in Calls, Queue(c)
  PROVE  IsFiniteSet(Signallers)' /\ FullBatchesAreSignalled'
<1> DEFINE full == (Len(queue) + 1) % Batch = 0
           l == IF full THEN "signal" ELSE "wait"
<1>1. /\ call[c] = "queue" /\ Goto(c, l)
      /\ queue' = Append(queue, c)
      /\ UNCHANGED driver
  BY DEF Queue, Enqueue
<1>2. \A d \in Calls : call'[d] = IF d = c THEN l ELSE call[d]
  BY <1>1, CallTypes, Moves DEF BusInv, Labels
<1>3. Len(queue') = Len(queue) + 1
  BY <1>1, AppendProperties DEF BusInv, CommonInv, TypeOK
<1>4. Len(queue') \div Batch = IF full THEN (Len(queue) \div Batch) + 1 ELSE Len(queue) \div Batch
  BY <1>3, DivideMore, SignalsType
<1>5. c \notin Signallers
  BY <1>1 DEF Signallers
<1>6. Signallers' = IF full THEN Signallers \cup {c} ELSE Signallers
  BY <1>1, <1>2 DEF Signallers
<1> HIDE DEF full
<1>7. IsFiniteSet(Signallers)' /\ Cardinality(Signallers') = Cardinality(Signallers) + IF full THEN 1 ELSE 0
  <2>1. CASE full
    BY <1>5, <1>6, <2>1, FS_AddElement DEF BusInv
  <2>2. CASE ~ full
    BY <1>6, <2>2, SignalsType DEF BusInv
  <2> QED BY <2>1, <2>2
<1>8. Signals' = Cardinality(Signallers') + (IF driver.at = "collect" THEN 1 ELSE 0)
  BY <1>1 DEF Signals, Signallers
<1>9. Len(queue') \div Batch <= Signals'
  <2>1. CASE full
    BY <1>4, <1>7, <1>8, <2>1, SignalsType
  <2>2. CASE ~ full
    BY <1>4, <1>7, <1>8, <2>2, SignalsType
  <2> QED BY <2>1, <2>2
<1> QED BY <1>7, <1>9 DEF FullBatchesAreSignalled

\* A signal that is received is one that is to be acted upon.
LEMMA SignalBus ==
  ASSUME BusInv, NEW c \in Calls, Signal(c)
  PROVE  IsFiniteSet(Signallers)' /\ FullBatchesAreSignalled'
<1>1. /\ call[c] = "signal" /\ driver.at = "select" /\ Goto(c, "wait")
      /\ driver'.at = "collect"
      /\ UNCHANGED queue
  BY DEF Signal, Drive
<1>2. \A d \in Calls : call'[d] = IF d = c THEN "wait" ELSE call[d]
  BY <1>1, CallTypes, Moves DEF BusInv, Labels
<1>3. c \in Signallers /\ Signallers' = Signallers \ {c}
  BY <1>1, <1>2 DEF Signallers
<1>4. IsFiniteSet(Signallers)' /\ Cardinality(Signallers') = Cardinality(Signallers) - 1
  BY <1>3, FS_RemoveElement DEF BusInv
<1>5. Signals' = Cardinality(Signallers') + 1
  BY <1>1 DEF Signals, Signallers
<1>6. Signals' = Signals
  BY <1>1, <1>4, <1>5, SignalsType
<1> QED BY <1>1, <1>4, <1>6 DEF BusInv, FullBatchesAreSignalled

\* A batch leaves, with a signal or without.
LEMMA DequeueBus ==
  ASSUME BusInv, Dequeue, UNCHANGED call
  PROVE  IsFiniteSet(Signallers)' /\ FullBatchesAreSignalled'
<1> DEFINE n == IF Batch > Len(queue) THEN Len(queue) ELSE Batch
<1>1. queue' = SubSeq(queue, n + 1, Len(queue)) /\ driver'.at = "send"
  BY DEF Dequeue, Send
<1>2. queue \in Seq(Calls) /\ Distinct(queue)
  BY DEF BusInv, CommonInv, TypeOK, EachOnce
<1>3. n \in 0..Len(queue)
  BY SignalsType, BatchAssumption
<1> HIDE DEF n
<1>4. Len(queue') = Len(queue) - n
  BY <1>1, <1>2, <1>3, CutJobs
<1>5. Len(queue') \div Batch = IF Batch > Len(queue) THEN 0 ELSE (Len(queue) \div Batch) - 1
  BY <1>4, DivideCut, SignalsType DEF n
<1>6. Signallers' = Signallers
  BY DEF Signallers
<1>7. Signals' = Cardinality(Signallers)
  BY <1>1, <1>6, SignalsType DEF Signals, Signallers
<1>8. Len(queue') \div Batch <= Signals'
  BY <1>5, <1>7, SignalsType
<1> QED BY <1>6, <1>8 DEF BusInv, FullBatchesAreSignalled

\* Nothing else has to do with signals.
LEMMA OtherBus ==
  ASSUME BusInv,
         \/ \E c \in Calls : \/ \E n \in Names : GetUuid(c, n)
                             \/ EnterOnce(c) \/ LeaveOnce(c)
         \/ DriverStops \/ ConsumerStarts \/ ConsumerStops \/ NilIteration
         \/ Cancel \/ Iterate
         \/ \E r \in rounds : Start(r) \/ Request(r) \/ NilProfile(r) \/ Respond(r) \/ Finish(r)
         \/ UNCHANGED vars
  PROVE  IsFiniteSet(Signallers)' /\ FullBatchesAreSignalled'
<1>1. UNCHANGED queue /\ (driver'.at = "collect" <=> driver.at = "collect")
  <2>1. CASE UNCHANGED << queue, driver >>
    BY <2>1
  <2>2. CASE DriverStops \/ ConsumerStarts \/ Iterate \/ \E r \in rounds : Finish(r)
    BY <2>2 DEF DriverStops, ConsumerStarts, Iterate, HandOver, Finish, Drive,
                BusInv, CommonInv, StartedOnce
  <2> QED BY <2>1, <2>2 DEF GetUuid, EnterOnce, LeaveOnce, ConsumerStops, NilIteration,
                            Cancel, Start, Request, NilProfile, Respond, vars
<1>2. \A d \in Calls : call'[d] = "signal" <=> call[d] = "signal"
  <2>1. CASE UNCHANGED call
    BY <2>1
  <2>2. ASSUME NEW c \in Calls, NEW l \in Labels, Goto(c, l), call[c] # "signal", l # "signal"
        PROVE  \A d \in Calls : call'[d] = "signal" <=> call[d] = "signal"
    BY <2>2, CallTypes, Moves DEF BusInv
  <2>3. ASSUME NEW c \in Calls, (\E n \in Names : GetUuid(c, n)) \/ EnterOnce(c) \/ LeaveOnce(c)
        PROVE  \E l \in Labels : Goto(c, l) /\ call[c] # "signal" /\ l # "signal"
    <3>1. \E l \in {"once", "starting", "queue"} : Goto(c, l) /\ call[c] # "signal"
      BY <2>3 DEF GetUuid, EnterOnce, LeaveOnce
    <3> QED BY <3>1 DEF Labels
  <2>4. ASSUME NEW r \in rounds, Respond(r)
        PROVE  \E c \in Calls : Goto(c, "out") /\ call[c] # "signal"
    <3>1. Head(r.jobs) \in Calls
      BY <2>4, FirstJob DEF Respond, BusInv, CommonInv, TypeOK, Round
    <3> QED BY <2>4, <3>1 DEF Respond
  <2>5. "out" \in Labels
    BY DEF Labels
  <2> QED BY <2>1, <2>2, <2>3, <2>4, <2>5
          DEF DriverStops, ConsumerStarts, ConsumerStops, NilIteration, Cancel, Iterate,
              HandOver, Start, Request, NilProfile, Finish, vars
<1>3. Signallers' = Signallers /\ Signals' = Signals
  <2>1. Signallers' = Signallers
    BY <1>2 DEF Signallers
  <2> QED BY <1>1, <2>1 DEF Signals, Signallers
<1> QED BY <1>1, <1>3 DEF BusInv, FullBatchesAreSignalled

LEMMA NextBus == BusInv /\ [Next]_vars => BusInv'
<1> SUFFICES ASSUME BusInv, [Next]_vars
             PROVE  BusInv'
  OBVIOUS
<1>1. CommonInv'
  <2>1. CASE UNCHANGED vars
    BY <2>1 DEF vars, BusInv, CommonInv, TypeOK, StartedOnce, NothingBeforeStart, JobsAreHeld,
                EachOnce, Held, StopsWhenCancelled
  <2> QED BY <2>1, CommonStep, OwnStep DEF Next, BusInv
<1>2. IsFiniteSet(Signallers)' /\ FullBatchesAreSignalled'
  <2>1. CASE \E c \in Calls : Queue(c) \/ Signal(c)
    BY <2>1, QueueBus, SignalBus
  <2>2. CASE TimerFires \/ Collect
    BY <2>2, DequeueBus DEF TimerFires, Collect
  <2> QED BY <2>1, <2>2, OtherBus DEF Next, CommonNext, SilentNext
<1> QED BY <1>1, <1>2 DEF BusInv

\* The inductive invariant of the strategy holds.
THEOREM BusInvariance == Spec => []BusInv
<1>1. BusInv /\ [Next]_vars => BusInv'
  BY NextBus
<1> QED BY InitBus, <1>1, PTL DEF Spec

\* A full bus does not wait for the timer: whatever batches the timer has taken
\* meanwhile, there is a signal under way for each full batch in the queue.
THEOREM FullBatchesAreSignalledHolds == Spec => []FullBatchesAreSignalled
<1>1. BusInv => FullBatchesAreSignalled
  BY DEF BusInv
<1> QED BY BusInvariance, <1>1, PTL

\* No job is lost or kept in two places with this strategy either.
THEOREM JobsAreConservedHolds == Spec => []JobsAreConserved
<1>1. BusInv => JobsAreConserved
  BY ConservedJobs DEF BusInv
<1> QED BY BusInvariance, <1>1, PTL

\* A step of the provider panics for no other reason.
LEMMA BusPanics ==
  ASSUME CommonInv, NoPanicInService, [Next]_vars
  PROVE  NoPanicInService'
<1>1. CASE CommonNext
  BY <1>1, CommonPanics
<1>2. CASE (\E c \in Calls : Queue(c) \/ Signal(c)) \/ Collect \/ Iterate
  BY <1>2 DEF Queue, Enqueue, Signal, Collect, Iterate, HandOver, NoPanicInService
<1>3. CASE UNCHANGED vars
  BY <1>3 DEF vars, NoPanicInService, Fatal
<1> QED BY <1>1, <1>2, <1>3 DEF Next

\* Only a cancellation, or a response of Mojang that ends a round, brings the
\* process down, a status 400 that does not decode or a list with a null before
\* the profile that is searched, however many rounds overlap.
THEOREM NoPanicInServiceHolds == Spec => []NoPanicInService
<1>1. Init => NoPanicInService
  BY DEF Init, NoPanicInService
<1>2. BusInv /\ NoPanicInService /\ [Next]_vars => NoPanicInService'
  BY BusPanics DEF BusInv
<1> QED BY BusInvariance, <1>1, <1>2, PTL DEF Spec

\* Every step of the provider is one of the exchange, or is not seen.
LEMMA NextRefines ==
  ASSUME CommonInv, [Next]_vars
  PROVE  [Uuids!Next]_(Uuids!vars)
<1>1. CASE CommonNext
  BY <1>1, CommonRefines
<1>2. ASSUME NEW c \in Calls, Queue(c)
      PROVE  UNCHANGED Uuids!vars
  <2>1. PICK l \in Blocked : Enqueue(c, l)
    BY <1>2 DEF Queue, Blocked
  <2> QED BY <2>1, InternalRefines
<1>3. ASSUME NEW c \in Calls, Signal(c)
      PROVE  UNCHANGED Uuids!vars
  <2>1. /\ Goto(c, "wait") /\ call[c] # "out"
        /\ UNCHANGED << rounds, name, answer >>
    BY <1>3 DEF Signal
  <2>2. \A d \in Calls : call'[d] = "out" <=> call[d] = "out"
    BY <2>1, CallTypes, Moves DEF Labels
  <2>3. \A d \in Calls : RoundOf(d)' = RoundOf(d)
    BY <2>1 DEF RoundOf
  <2> QED BY <2>1, <2>2, <2>3, Unseen
<1>4. CASE Collect
  <2>1. UNCHANGED << call, rounds, name, answer >>
    BY <1>4 DEF Collect
  <2>2. \A d \in Calls : RoundOf(d)' = RoundOf(d)
    BY <2>1 DEF RoundOf
  <2> QED BY <2>1, <2>2, Unseen
<1>5. CASE Iterate
  BY <1>5, RoundRefines DEF Iterate
<1>6. CASE UNCHANGED vars
  BY <1>6, StutterRefines
<1> QED BY <1>1, <1>2, <1>3, <1>4, <1>5, <1>6 DEF Next

\* Batching with this strategy implements the exchange as well, whichever order
\* its overlapping rounds are answered in.
THEOREM ImplementsUuidExchange == Spec => UuidExchangeSpec
<1>1. BusInv /\ [Next]_vars => [Uuids!Next]_(Uuids!vars)
  BY NextRefines DEF BusInv
<1> QED BY BusInvariance, InitRefines, <1>1, PTL DEF Spec, UuidExchangeSpec, Uuids!Spec

\* With this strategy too, GetUuid answers about the name it was called with.
THEOREM FullBusAnswersAreOwn == Spec => []AnswersAreOwn
<1>1. BusInv => CommonInv
  BY DEF BusInv
<1> QED BY BusInvariance, ImplementsUuidExchange, <1>1, ExchangeAnswers, PTL

-----------------------------------------------------------------------------
(* The pipeline of flights *)

Stages == {"landed", "resolve", "fetch", "fetching", "result", "broadcast"}
Timed  == {"resolve", "fetch", "fetching", "result"}

FlightTypes == flight \in [Calls -> [at : Stages, cached : BOOLEAN, name : Names]]

\* No two flights at once are about one username.
FlightsApart ==
  \A c, d \in Calls : Aloft(c) /\ Aloft(d) /\ flight[c].name = flight[d].name => c = d

\* The batch provider is asked by flights that resolve, about their username.
FlightsAsk ==
  /\ \A c \in Calls : call[c] # "out" => flight[c].at = "resolve"
  /\ \A c \in Calls : flight[c].at = "resolve" => name[c] = flight[c].name

\* A timer is what a flight or a round has started and not ended.
OfFlight(t, c) ==
  /\ t.owner = << c >>
  /\ \/ t.key = ResultKey(flight[c].name) /\ flight[c].at \in Timed
     \/ t.key = TextureKey(flight[c].name) /\ flight[c].at = "fetching"
OfRound(t, r) == t.owner = r.jobs /\ t.key = RoundKey(r) /\ r.at \in {"request", "panic"}
TimersBelong ==
  \A t \in timers : (\E c \in Calls : OfFlight(t, c)) \/ (\E r \in rounds : OfRound(t, r))

PipeInv == CommonInv /\ FlightTypes /\ FlightsApart /\ FlightsAsk /\ TimesAreOwn /\ TimersBelong

\* Timers of flights, by what they time and for which name, and timers of rounds
\* are told apart by their keys.
LEMMA KeysDiffer ==
  /\ \A m, n : ResultKey(m) = ResultKey(n) => m = n
  /\ \A m, n : ResultKey(m) # TextureKey(n)
  /\ \A n, r : ResultKey(n) # RoundKey(r) /\ TextureKey(n) # RoundKey(r)
  /\ \A n, r : ResultKey(n) # RoundKey(r)' /\ TextureKey(n) # RoundKey(r)'
<1>1. \A m, n : << m >> = << n >> => m = n
  OBVIOUS
<1> QED BY <1>1 DEF ResultKey, TextureKey, RoundKey, Key

\* The jobs of a round are those of flights that resolve.
LEMMA JobsOfFlights ==
  ASSUME CommonInv, FlightsAsk, NEW r \in rounds, NEW c \in Of(r.jobs)
  PROVE  /\ c \in Calls /\ call[c] # "out"
         /\ Aloft(c) /\ name[c] = flight[c].name
<1>1. c \in Calls
  BY JobsAreCalls DEF CommonInv, TypeOK, Round
<1>2. call[c] # "out"
  BY <1>1 DEF CommonInv, EachOnce, Held
<1> QED BY <1>1, <1>2 DEF FlightsAsk, Aloft

\* Rounds that overlap are about different names: their calls are of flights
\* about different usernames.
LEMMA RoundKeysDiffer ==
  ASSUME CommonInv, FlightsAsk, FlightsApart,
         NEW r \in rounds, NEW s \in rounds, r # s, r.jobs # << >>, s.jobs # << >>
  PROVE  RoundKey(r) # RoundKey(s)
<1> SUFFICES ASSUME RoundKey(r) = RoundKey(s)
             PROVE  FALSE
  OBVIOUS
<1>1. [i \in DOMAIN r.jobs |-> name[r.jobs[i]]] = [i \in DOMAIN s.jobs |-> name[s.jobs[i]]]
  BY DEF RoundKey, Key
<1>2. 1 \in 1..Len(r.jobs) /\ 1 \in DOMAIN r.jobs /\ 1 \in 1..Len(s.jobs) /\ 1 \in DOMAIN s.jobs
  BY FirstJob, LenProperties DEF CommonInv, TypeOK, Round
<1>3. name[r.jobs[1]] = name[s.jobs[1]]
  BY <1>1, <1>2
<1>4. r.jobs[1] \in Of(r.jobs) /\ s.jobs[1] \in Of(s.jobs)
  BY <1>2 DEF Of
<1>5. r.jobs[1] = s.jobs[1]
  BY <1>3, <1>4, JobsOfFlights DEF FlightsApart
<1> QED BY <1>4, <1>5 DEF CommonInv, EachOnce

\* The key of a round stays, for the names of its calls do.
LEMMA RoundKeyStays ==
  ASSUME CommonInv, NEW r \in rounds, \A c \in Of(r.jobs) : name'[c] = name[c]
  PROVE  RoundKey(r)' = RoundKey(r)
<1>1. \A i \in DOMAIN r.jobs : r.jobs[i] \in Of(r.jobs)
  BY LenProperties DEF Of, CommonInv, TypeOK, Round
<1>2. [i \in DOMAIN r.jobs |-> name[r.jobs[i]]] = [i \in DOMAIN r.jobs |-> name'[r.jobs[i]]]
  BY <1>1
<1> QED BY <1>2 DEF RoundKey, Key

LEMMA InitPipe == PipelineInit => PipeInv
<1> SUFFICES ASSUME PipelineInit
             PROVE  PipeInv
  OBVIOUS
<1>1. Landed \in [at : Stages, cached : BOOLEAN, name : Names] /\ Landed.at = "landed"
  BY FoldAssumption DEF Landed, Stages
<1> QED BY <1>1, CommonInit
        DEF PipelineInit, Init, PipeInv, FlightTypes, FlightsApart, FlightsAsk, Aloft,
            TimesAreOwn, TimersBelong

\* A step of the batch provider that the timers do not notice.
LEMMA QuietTimers ==
  ASSUME PipeInv, CommonInv', UNCHANGED << flight, timers, name >>,
         \A r \in rounds' : r.at = "request" => r \in rounds,
         \A r \in rounds : r.at \in {"request", "panic"} => r \in rounds',
         \A c \in Calls : call'[c] # "out" => call[c] # "out"
  PROVE  PipeInv'
<1>1. \A r : RoundKey(r)' = RoundKey(r)
  BY DEF RoundKey, Key
<1>2. TimesAreOwn'
  BY <1>1 DEF PipeInv, TimesAreOwn, ResultKey
<1>3. TimersBelong'
  <2>1. ASSUME NEW t, NEW c \in Calls, OfFlight(t, c)
        PROVE  OfFlight(t, c)'
    BY <2>1 DEF OfFlight, ResultKey, TextureKey
  <2>2. ASSUME NEW t, NEW r \in rounds, OfRound(t, r)
        PROVE  r \in rounds' /\ OfRound(t, r)'
    BY <1>1, <2>2 DEF OfRound
  <2> QED BY <2>1, <2>2 DEF PipeInv, TimersBelong
<1> QED BY <1>2, <1>3 DEF PipeInv, FlightTypes, FlightsApart, FlightsAsk, Aloft

\* The steps of the batch provider that emit no event.
LEMMA QuietPipe ==
  ASSUME PipeInv, QuietNext
  PROVE  PipeInv'
<1>1. CommonInv'
  BY SilentStep, OwnStep DEF QuietNext, PipeInv
<1>2. UNCHANGED << flight, timers, name >>
  BY DEF QuietNext, observers, SilentNext, EnterOnce, LeaveOnce, TimerFires, DriverStops,
         ConsumerStarts, ConsumerStops, NilIteration, NilProfile, Respond, Finish, Cancel,
         Queue, Enqueue, Signal, Collect, Iterate, HandOver
<1>3. /\ \A r \in rounds' : r.at = "request" => r \in rounds
      /\ \A r \in rounds : r.at \in {"request", "panic"} => r \in rounds'
  <2>1. CASE UNCHANGED rounds
    BY <2>1
  <2>2. CASE Iterate
    <3>1. NewRound(driver.jobs, driver.left).at = "start"
      BY NewRoundType DEF PipeInv, CommonInv, TypeOK
    <3> QED BY <2>2, <3>1 DEF Iterate, HandOver
  <2>3. ASSUME NEW r \in rounds, Respond(r)
        PROVE  \E new : new.at = "respond" /\ rounds' = (rounds \ {r}) \cup {new}
    <3> DEFINE new == IF Len(r.jobs) = 1 THEN IdleRound ELSE [r EXCEPT !.jobs = Tail(@)]
    <3>1. rounds' = (rounds \ {r}) \cup {new} /\ r.at = "respond"
      BY <2>3 DEF Respond, Become
    <3>2. new.at = "respond"
      BY <3>1, IdleRoundType DEF PipeInv, CommonInv, TypeOK, Round
    <3> QED BY <3>1, <3>2
  <2>4. CASE \E r \in rounds : Respond(r)
    BY <2>3, <2>4 DEF Respond
  <2>5. CASE \E r \in rounds : Finish(r)
    BY <2>5 DEF Finish
  <2> QED BY <2>1, <2>2, <2>4, <2>5
          DEF QuietNext, SilentNext, EnterOnce, LeaveOnce, TimerFires, DriverStops,
              ConsumerStarts, ConsumerStops, NilIteration, NilProfile, Cancel,
              Queue, Enqueue, Signal, Collect
<1>4. \A c \in Calls : call'[c] # "out" => call[c] # "out"
  <2>1. CASE UNCHANGED call
    BY <2>1
  <2>2. ASSUME NEW c \in Calls, NEW l \in Labels, Goto(c, l), call[c] # "out"
        PROVE  \A d \in Calls : call'[d] # "out" => call[d] # "out"
    BY <2>2, CallTypes, Moves DEF PipeInv
  <2>3. ASSUME NEW c \in Calls, EnterOnce(c) \/ LeaveOnce(c) \/ Queue(c) \/ Signal(c)
        PROVE  \E l \in Labels : Goto(c, l) /\ call[c] # "out"
    <3>1. \E l \in {"starting", "queue", "signal", "wait"} : Goto(c, l) /\ call[c] # "out"
      BY <2>3 DEF EnterOnce, LeaveOnce, Queue, Enqueue, Signal
    <3> QED BY <3>1 DEF Labels
  <2>4. ASSUME NEW r \in rounds, Respond(r)
        PROVE  \E c \in Calls : Goto(c, "out") /\ call[c] # "out"
    <3>1. Head(r.jobs) \in Calls
      BY <2>4, FirstJob DEF Respond, PipeInv, CommonInv, TypeOK, Round
    <3> QED BY <2>4, <3>1 DEF Respond
  <2>5. "out" \in Labels
    BY DEF Labels
  <2> QED BY <2>1, <2>2, <2>3, <2>4, <2>5
          DEF QuietNext, SilentNext, TimerFires, DriverStops, ConsumerStarts, ConsumerStops,
              NilIteration, NilProfile, Finish, Cancel, Collect, Iterate, HandOver
<1> QED BY <1>1, <1>2, <1>3, <1>4, QuietTimers

\* A round that announces itself is timed, if it has jobs.
LEMMA StartPipe ==
  ASSUME PipeInv, NEW r \in rounds, StartRound(r)
  PROVE  PipeInv'
<1>1. CommonInv'
  BY StartStep DEF StartRound, PipeInv
<1>2. /\ r.at = "start" /\ r \in Round
      /\ UNCHANGED << call, name, flight >>
  BY DEF StartRound, Start, PipeInv, CommonInv, TypeOK
<1>3. CASE r.jobs = << >>
  <2>1. rounds' = (rounds \ {r}) \cup {IdleRound} /\ UNCHANGED timers
    BY <1>3 DEF StartRound, Start, Become
  <2>2. \A s \in rounds' : s.at = "request" => s \in rounds
    BY <2>1, IdleRoundType
  <2>3. \A s \in rounds : s.at \in {"request", "panic"} => s \in rounds'
    BY <1>2, <2>1
  <2> QED BY <1>1, <1>2, <2>1, <2>2, <2>3, QuietTimers
<1>4. CASE r.jobs # << >>
  <2> DEFINE new == [r EXCEPT !.at = "request", !.left = 0]
  <2>0. PICK timer : timer = [key |-> RoundKey(r), owner |-> r.jobs]
    OBVIOUS
  <2>1. /\ rounds' = (rounds \ {r}) \cup {new}
        /\ timers' = { t \in timers : t.key # RoundKey(r) } \cup {timer}
    BY <1>4, <2>0 DEF StartRound, Start, Become, Started, Finalized
  <2>2. new.at = "request" /\ new.jobs = r.jobs
    BY <1>2 DEF Round
  <2> HIDE DEF new
  <2>3. \A s : RoundKey(s)' = RoundKey(s)
    BY <1>2 DEF RoundKey, Key
  <2>4. RoundKey(new)' = RoundKey(r)
    BY <1>2, <2>2 DEF RoundKey, Key
  <2>5. TimesAreOwn'
    <3>1. ASSUME NEW c \in Calls, flight[c].at \in Timed
          PROVE  [key |-> ResultKey(flight[c].name), owner |-> << c >>] \in timers'
      <4>1. [key |-> ResultKey(flight[c].name), owner |-> << c >>] \in timers
        BY <3>1 DEF PipeInv, TimesAreOwn, Timed
      <4> QED BY <2>1, <4>1, KeysDiffer
    <3>2. ASSUME NEW s \in rounds', s.at = "request"
          PROVE  [key |-> RoundKey(s)', owner |-> s.jobs] \in timers'
      <4>1. CASE s = new
        BY <2>0, <2>1, <2>2, <2>4, <4>1
      <4>2. CASE s # new
        <5>1. s \in rounds /\ s # r
          BY <2>1, <4>2
        <5>2. s.jobs # << >>
          BY <3>2, <5>1 DEF PipeInv, CommonInv, JobsAreHeld
        <5>3. RoundKey(s) # RoundKey(r)
          BY <1>4, <5>1, <5>2, RoundKeysDiffer DEF PipeInv
        <5>4. [key |-> RoundKey(s), owner |-> s.jobs] \in timers
          BY <3>2, <5>1 DEF PipeInv, TimesAreOwn
        <5> QED BY <2>1, <2>3, <5>3, <5>4
      <4> QED BY <4>1, <4>2
    <3> QED BY <1>2, <3>1, <3>2 DEF TimesAreOwn, Timed, ResultKey
  <2>6. TimersBelong'
    <3>1. OfRound(timer, new)'
      BY <2>0, <2>2, <2>4 DEF OfRound
    <3>2. ASSUME NEW t \in timers, NEW c \in Calls, OfFlight(t, c)
          PROVE  OfFlight(t, c)'
      BY <1>2, <3>2 DEF OfFlight, ResultKey, TextureKey
    <3>3. ASSUME NEW t \in timers, NEW s \in rounds, OfRound(t, s)
          PROVE  s \in rounds' /\ OfRound(t, s)'
      BY <1>2, <2>1, <2>3, <3>3 DEF OfRound
    <3>4. new \in rounds' /\ \A t \in timers' : t \in timers \/ t = timer
      BY <2>1
    <3> QED BY <3>1, <3>2, <3>3, <3>4 DEF PipeInv, TimersBelong
  <2> QED BY <1>1, <1>2, <2>5, <2>6 DEF PipeInv, FlightTypes, FlightsApart, FlightsAsk, Aloft
<1> QED BY <1>3, <1>4

\* A round that has its result removes its own timer only.
LEMMA RequestPipe ==
  ASSUME PipeInv, NEW r \in rounds, RequestRound(r)
  PROVE  PipeInv'
<1>1. CommonInv'
  BY RequestStep DEF RequestRound, PipeInv
<1>2. PICK new \in Round :
        /\ rounds' = (rounds \ {r}) \cup {new}
        /\ new.jobs = r.jobs
        /\ new.at \in {"respond", "panic"}
        /\ crashed' <=> new.at = "panic"
  BY RequestedRound DEF RequestRound, PipeInv, CommonInv
<1>3. /\ r.at = "request" /\ r.jobs # << >>
      /\ UNCHANGED << call, name, flight >>
      /\ timers' = IF crashed' THEN timers ELSE { t \in timers : t.key # RoundKey(r) }
  BY DEF RequestRound, Request, PipeInv, CommonInv, JobsAreHeld, Finalized
<1>4. \A s : RoundKey(s)' = RoundKey(s)
  BY <1>3 DEF RoundKey, Key
<1>5. RoundKey(new)' = RoundKey(r)
  BY <1>2, <1>3 DEF RoundKey, Key
<1>6. TimesAreOwn'
  <2>1. ASSUME NEW c \in Calls, flight[c].at \in Timed
        PROVE  [key |-> ResultKey(flight[c].name), owner |-> << c >>] \in timers'
    <3>1. [key |-> ResultKey(flight[c].name), owner |-> << c >>] \in timers
      BY <2>1 DEF PipeInv, TimesAreOwn, Timed
    <3> QED BY <1>3, <3>1, KeysDiffer
  <2>2. ASSUME NEW s \in rounds', s.at = "request"
        PROVE  [key |-> RoundKey(s)', owner |-> s.jobs] \in timers'
    <3>1. s \in rounds /\ s # r
      BY <1>2, <2>2
    <3>2. s.jobs # << >>
      BY <2>2, <3>1 DEF PipeInv, CommonInv, JobsAreHeld
    <3>3. RoundKey(s) # RoundKey(r)
      BY <1>3, <3>1, <3>2, RoundKeysDiffer DEF PipeInv
    <3>4. [key |-> RoundKey(s), owner |-> s.jobs] \in timers
      BY <2>2, <3>1 DEF PipeInv, TimesAreOwn
    <3> QED BY <1>3, <1>4, <3>3, <3>4
  <2> QED BY <1>3, <2>1, <2>2 DEF TimesAreOwn, Timed, ResultKey
<1>7. TimersBelong'
  <2>1. ASSUME NEW t \in timers, NEW c \in Calls, OfFlight(t, c)
        PROVE  OfFlight(t, c)'
    BY <1>3, <2>1 DEF OfFlight, ResultKey, TextureKey
  <2>2. ASSUME NEW t \in timers', NEW s \in rounds, OfRound(t, s)
        PROVE  \E x \in rounds' : OfRound(t, x)'
    <3>1. CASE s = r
      <4>1. crashed' /\ new.at = "panic"
        BY <1>2, <1>3, <2>2, <3>1 DEF OfRound
      <4>2. OfRound(t, new)'
        BY <1>2, <1>5, <2>2, <3>1, <4>1 DEF OfRound
      <4> QED BY <1>2, <4>2
    <3>2. CASE s # r
      BY <1>2, <1>4, <2>2, <3>2 DEF OfRound
    <3> QED BY <3>1, <3>2
  <2>3. \A t \in timers' : t \in timers
    BY <1>3
  <2> QED BY <2>1, <2>2, <2>3 DEF PipeInv, TimersBelong
<1> QED BY <1>1, <1>3, <1>6, <1>7 DEF PipeInv, FlightTypes, FlightsApart, FlightsAsk, Aloft

\* A step of the worker of one flight, which starts timers of its own, and ends
\* its own or those of other textures.
LEMMA FlightTimers ==
  ASSUME PipeInv, UNCHANGED rounds, NEW c \in Calls,
         FlightsApart', FlightTypes',
         \A d \in Calls \ {c} : flight'[d] = flight[d],
         name'[c] = name[c] \/ call[c] = "out",
         \A d \in Calls \ {c} : name'[d] = name[d],
         \A t \in timers' \ timers : OfFlight(t, c)',
         \A t \in timers' : OfFlight(t, c) => OfFlight(t, c)',
         \A t \in timers \ timers' :
           \/ \E n : t.key = TextureKey(n)
           \/ t.key = ResultKey(flight'[c].name) /\ flight'[c].at # "landed",
         flight'[c].at \in Timed
           => [key |-> ResultKey(flight'[c].name), owner |-> << c >>] \in timers'
  PROVE  TimesAreOwn' /\ TimersBelong'
<1>1. ASSUME NEW r \in rounds
      PROVE  RoundKey(r)' = RoundKey(r)
  <2>1. \A d \in Of(r.jobs) : name'[d] = name[d]
    BY JobsOfFlights DEF PipeInv
  <2> QED BY <2>1, RoundKeyStays DEF PipeInv
<1>2. TimesAreOwn'
  <2>1. ASSUME NEW d \in Calls, flight'[d].at \in Timed
        PROVE  [key |-> ResultKey(flight'[d].name), owner |-> << d >>] \in timers'
    <3>1. CASE d # c
      <4>1. [key |-> ResultKey(flight'[d].name), owner |-> << d >>] \in timers
        BY <2>1, <3>1 DEF PipeInv, TimesAreOwn, Timed
      <4>2. flight'[d].at # "landed"
        BY <2>1 DEF Timed
      <4>3. flight'[c].at # "landed" => flight'[d].name # flight'[c].name
        BY <3>1, <4>2 DEF FlightsApart, Aloft
      <4> QED BY <4>1, <4>3, KeysDiffer
    <3> QED BY <2>1, <3>1
  <2>2. ASSUME NEW r \in rounds, r.at = "request"
        PROVE  [key |-> RoundKey(r)', owner |-> r.jobs] \in timers'
    <3>1. [key |-> RoundKey(r), owner |-> r.jobs] \in timers
      BY <2>2 DEF PipeInv, TimesAreOwn
    <3> QED BY <1>1, <3>1, KeysDiffer
  <2> QED BY <2>1, <2>2 DEF TimesAreOwn, Timed, ResultKey
<1>3. TimersBelong'
  <2>1. ASSUME NEW t \in timers', NEW d \in Calls, OfFlight(t, d)
        PROVE  OfFlight(t, d)'
    <3>1. CASE d # c
      BY <2>1, <3>1 DEF OfFlight, ResultKey, TextureKey
    <3> QED BY <2>1, <3>1
  <2>2. ASSUME NEW t, NEW r \in rounds, OfRound(t, r)
        PROVE  OfRound(t, r)'
    BY <1>1, <2>2 DEF OfRound
  <2> QED BY <2>1, <2>2 DEF PipeInv, TimersBelong
<1> QED BY <1>2, <1>3

\* What a step of a worker makes of its flight.
LEMMA FlightMoves ==
  ASSUME PipeInv, NEW c \in Calls, NEW f \in [at : Stages, cached : BOOLEAN, name : Names],
         flight' = [flight EXCEPT ![c] = f],
         f.at # "landed" => \A d \in Calls \ {c} : Aloft(d) => flight[d].name # f.name,
         \A d \in Calls \ {c} : name'[d] = name[d] /\ call'[d] = call[d],
         call'[c] # "out" => f.at = "resolve",
         f.at = "resolve" => name'[c] = f.name
  PROVE  /\ flight'[c] = f /\ \A d \in Calls \ {c} : flight'[d] = flight[d]
         /\ FlightTypes' /\ FlightsApart' /\ FlightsAsk'
<1>1. flight'[c] = f /\ \A d \in Calls \ {c} : flight'[d] = flight[d]
  BY DEF PipeInv, FlightTypes
<1>2. FlightTypes'
  BY DEF PipeInv, FlightTypes
<1>3. FlightsApart'
  BY <1>1 DEF PipeInv, FlightsApart, Aloft
<1>4. FlightsAsk'
  BY <1>1 DEF PipeInv, FlightsAsk
<1> QED BY <1>1, <1>2, <1>3, <1>4

\* A flight goes on to another stage, with what is cached or without.
LEMMA FlightGoesOn ==
  ASSUME PipeInv, NEW c \in Calls, Aloft(c), NEW l \in Stages, Fly(c, l) \/ FlyUncached(c, l)
  PROVE  \E f \in [at : Stages, cached : BOOLEAN, name : Names] :
           /\ flight' = [flight EXCEPT ![c] = f]
           /\ f.at = l /\ f.name = flight[c].name
           /\ \A d \in Calls \ {c} : Aloft(d) => flight[d].name # f.name
<1>1. flight[c] \in [at : Stages, cached : BOOLEAN, name : Names]
  BY DEF PipeInv, FlightTypes
<1>2. ASSUME Fly(c, l)
      PROVE  flight' = [flight EXCEPT ![c] = [flight[c] EXCEPT !.at = l]]
  BY <1>2 DEF Fly
<1>3. ASSUME FlyUncached(c, l)
      PROVE  flight' = [flight EXCEPT ![c] = [flight[c] EXCEPT !.at = l, !.cached = FALSE]]
  BY <1>3 DEF FlyUncached, PipeInv, FlightTypes
<1>4. \E f \in [at : Stages, cached : BOOLEAN, name : Names] :
         /\ flight' = [flight EXCEPT ![c] = f]
         /\ f.at = l /\ f.name = flight[c].name
  <2>1. CASE Fly(c, l)
    <3> DEFINE f == [flight[c] EXCEPT !.at = l]
    <3>1. /\ f \in [at : Stages, cached : BOOLEAN, name : Names]
          /\ f.at = l /\ f.name = flight[c].name
      BY <1>1
    <3> HIDE DEF f
    <3> QED BY <1>2, <2>1, <3>1 DEF f
  <2>2. CASE FlyUncached(c, l)
    <3> DEFINE f == [flight[c] EXCEPT !.at = l, !.cached = FALSE]
    <3>1. /\ f \in [at : Stages, cached : BOOLEAN, name : Names]
          /\ f.at = l /\ f.name = flight[c].name
      BY <1>1
    <3> HIDE DEF f
    <3> QED BY <1>3, <2>2, <3>1 DEF f
  <2> QED BY <2>1, <2>2
<1> QED BY <1>4 DEF PipeInv, FlightsApart

LEMMA TakeOffPipe ==
  ASSUME PipeInv, NEW c \in Calls, NEW n \in Names, TakeOff(c, n)
  PROVE  PipeInv'
<1>1. ~ Aloft(c) /\ call[c] = "out"
  BY DEF TakeOff, PipeInv, FlightsAsk, Aloft
<1>2. PICK f \in [at : Stages, cached : BOOLEAN, name : Names] :
        /\ flight' = [flight EXCEPT ![c] = f]
        /\ f.at \in {"resolve", "fetch"} /\ f.name = n
        /\ \/ f.at = "resolve" /\ GetUuid(c, n)
           \/ f.at = "fetch" /\ UNCHANGED vars
  <2>1. ASSUME NEW l \in {"resolve", "fetch"}, NEW b \in BOOLEAN
        PROVE  [at |-> l, cached |-> b, name |-> n] \in [at : Stages, cached : BOOLEAN, name : Names]
    BY DEF Stages
  <2> QED BY <2>1 DEF TakeOff
<1>3. CommonInv'
  BY <1>2, CallStep, CrashStep DEF vars, PipeInv, CommonInv, TypeOK
<1>4. /\ UNCHANGED rounds
      /\ \A d \in Calls \ {c} : name'[d] = name[d] /\ call'[d] = call[d]
      /\ f.at = "resolve" => name'[c] = n
      /\ call'[c] # "out" => f.at = "resolve"
  <2>1. CASE GetUuid(c, n)
    <3>1. \A d \in Calls : call'[d] = IF d = c THEN "once" ELSE call[d]
      BY <2>1, CallTypes, Moves DEF GetUuid, Labels, PipeInv
    <3>2. name' = [name EXCEPT ![c] = n] /\ name \in [Calls -> Names] /\ UNCHANGED rounds
      BY <2>1 DEF GetUuid, PipeInv, CommonInv, TypeOK
    <3>3. CASE f.at = "resolve"
      BY <3>1, <3>2, <3>3
    <3> QED BY <1>1, <1>2, <3>1, <3>2, <3>3 DEF vars
  <2>2. CASE f.at = "fetch" /\ UNCHANGED vars
    BY <1>1, <2>2 DEF vars
  <2> QED BY <1>2, <2>1, <2>2
<1>5. \A d \in Calls \ {c} : Aloft(d) => flight[d].name # n
  BY DEF TakeOff
<1>6. /\ flight'[c] = f /\ \A d \in Calls \ {c} : flight'[d] = flight[d]
      /\ FlightTypes' /\ FlightsApart' /\ FlightsAsk'
  BY <1>2, <1>4, <1>5, FlightMoves
<1> DEFINE timer == [key |-> ResultKey(n), owner |-> << c >>]
<1>7. timers' = { t \in timers : t.key # ResultKey(n) } \cup {timer}
  BY DEF TakeOff, Started, Finalized
<1>8. OfFlight(timer, c)' /\ f.at \in Timed
  BY <1>2, <1>6 DEF OfFlight, Timed, ResultKey
<1>9. \A t \in timers : ~ OfFlight(t, c)
  BY <1>1 DEF OfFlight, Timed, Aloft
<1>10. ResultKey(n) = ResultKey(flight'[c].name) /\ flight'[c].at # "landed"
  BY <1>2, <1>6
<1>11. [key |-> ResultKey(flight'[c].name), owner |-> << c >>] \in timers'
  BY <1>7, <1>10
<1>12. TimesAreOwn' /\ TimersBelong'
  <2>1. \A t \in timers' \ timers : OfFlight(t, c)'
    BY <1>7, <1>8
  <2>2. \A t \in timers' : OfFlight(t, c) => OfFlight(t, c)'
    BY <1>9, <2>1
  <2>3. \A t \in timers \ timers' :
          t.key = ResultKey(flight'[c].name) /\ flight'[c].at # "landed"
    BY <1>7, <1>10
  <2> QED BY <1>1, <1>4, <1>6, <1>11, <2>1, <2>2, <2>3, FlightTimers
<1> QED BY <1>3, <1>6, <1>12 DEF PipeInv

\* A worker that goes on, and starts or ends timers of its own.
LEMMA GoOnPipe ==
  ASSUME PipeInv, CommonInv', NEW c \in Calls, flight[c].at \in Timed,
         NEW l \in Stages \ {"landed"}, Fly(c, l) \/ FlyUncached(c, l),
         UNCHANGED rounds,
         \A d \in Calls \ {c} : name'[d] = name[d] /\ call'[d] = call[d],
         name'[c] = name[c] \/ call[c] = "out",
         call'[c] # "out" => l = "resolve",
         l = "resolve" => name'[c] = flight[c].name,
         \A t \in timers' \ timers :
           t.owner = << c >> /\ t.key = TextureKey(flight[c].name) /\ l = "fetching",
         \A t \in timers \ timers' :
           \/ t.key = TextureKey(flight[c].name)
           \/ t.key = ResultKey(flight[c].name) /\ l \notin Timed,
         l \notin Timed => \A t \in timers' : t.key # ResultKey(flight[c].name),
         flight[c].at = "fetching" /\ l # "fetching"
           => \A t \in timers' : t.key # TextureKey(flight[c].name)
  PROVE  PipeInv'
<1>1. Aloft(c)
  BY DEF Aloft, Timed
<1>2. PICK f \in [at : Stages, cached : BOOLEAN, name : Names] :
        /\ flight' = [flight EXCEPT ![c] = f]
        /\ f.at = l /\ f.name = flight[c].name
        /\ \A d \in Calls \ {c} : Aloft(d) => flight[d].name # f.name
  BY <1>1, FlightGoesOn
<1>3. /\ flight'[c] = f /\ \A d \in Calls \ {c} : flight'[d] = flight[d]
      /\ FlightTypes' /\ FlightsApart' /\ FlightsAsk'
  BY <1>2, FlightMoves
<1>4. flight'[c].at = l /\ flight'[c].name = flight[c].name
  BY <1>2, <1>3
<1>5. \A t \in timers' \ timers : OfFlight(t, c)'
  BY <1>4 DEF OfFlight, TextureKey
<1>6. ASSUME NEW t \in timers', OfFlight(t, c)
      PROVE  OfFlight(t, c)'
  BY <1>4, <1>6 DEF OfFlight, TextureKey, ResultKey
<1>7. \A t \in timers \ timers' :
         \/ \E n : t.key = TextureKey(n)
         \/ t.key = ResultKey(flight'[c].name) /\ flight'[c].at # "landed"
  BY <1>4
<1>8. flight'[c].at \in Timed
        => [key |-> ResultKey(flight'[c].name), owner |-> << c >>] \in timers'
  <2>1. [key |-> ResultKey(flight[c].name), owner |-> << c >>] \in timers
    BY DEF PipeInv, TimesAreOwn, Timed
  <2> QED BY <1>4, <2>1, KeysDiffer
<1>9. TimesAreOwn' /\ TimersBelong'
  BY <1>3, <1>5, <1>6, <1>7, <1>8, FlightTimers
<1> QED BY <1>3, <1>9 DEF PipeInv

LEMMA ResolvePipe ==
  ASSUME PipeInv, NEW c \in Calls, Resolve(c)
  PROVE  PipeInv'
<1>1. PICK l \in {"fetch", "result"} : Fly(c, l)
  BY DEF Resolve
<1>2. /\ flight[c].at = "resolve" /\ call[c] = "out"
      /\ UNCHANGED << vars, timers >>
  BY DEF Resolve, observers
<1>3. CommonInv'
  BY <1>2, CrashStep DEF vars, PipeInv, CommonInv, TypeOK
<1>4. UNCHANGED timers
  BY <1>2
<1>5. l \in Stages \ {"landed"} /\ l \in Timed /\ l # "resolve" /\ flight[c].at \in Timed
  BY <1>1, <1>2 DEF Stages, Timed
<1>6. UNCHANGED << rounds, name, call >>
  BY <1>2 DEF vars
<1> QED BY <1>1, <1>2, <1>3, <1>4, <1>5, <1>6, GoOnPipe

LEMMA BeforeCallPipe ==
  ASSUME PipeInv, NEW c \in Calls, BeforeCall(c)
  PROVE  PipeInv'
<1>1. /\ flight[c].at = "fetch" /\ Fly(c, "fetching")
      /\ UNCHANGED vars
  BY DEF BeforeCall
<1>2. call[c] = "out"
  BY <1>1 DEF PipeInv, FlightsAsk
<1>3. CommonInv'
  BY <1>1, CrashStep DEF vars, PipeInv, CommonInv, TypeOK
<1>4. timers' = { t \in timers : t.key # TextureKey(flight[c].name) }
                 \cup {[key |-> TextureKey(flight[c].name), owner |-> << c >>]}
  BY DEF BeforeCall, Started, Finalized
<1>5. /\ \A t \in timers' \ timers : t.owner = << c >> /\ t.key = TextureKey(flight[c].name)
      /\ \A t \in timers \ timers' : t.key = TextureKey(flight[c].name)
  BY <1>4
<1>6. "fetching" \in Stages \ {"landed"} /\ "fetching" \in Timed /\ flight[c].at \in Timed
  BY <1>1 DEF Stages, Timed
<1>7. UNCHANGED << rounds, name, call >>
  BY <1>1 DEF vars
<1> QED BY <1>1, <1>2, <1>3, <1>5, <1>6, <1>7, GoOnPipe

LEMMA AfterCallPipe ==
  ASSUME PipeInv, NEW c \in Calls, AfterCall(c)
  PROVE  PipeInv'
<1>1. flight[c].at = "fetching" /\ flight[c].at \in Timed /\ call[c] = "out"
  BY DEF AfterCall, Timed, PipeInv, FlightsAsk
<1>2. ASSUME timers' = Finalized(TextureKey(flight[c].name))
      PROVE  /\ \A t \in timers' : t \in timers /\ t.key # TextureKey(flight[c].name)
             /\ \A t \in timers \ timers' : t.key = TextureKey(flight[c].name)
  BY <1>2 DEF Finalized
<1>3. CASE /\ crashed' = TRUE
           /\ UNCHANGED << call, name, answer, once, queue, driver, consumer, rounds,
                           cancelled, flight, timers >>
  <2>1. CommonInv'
    BY <1>3, CrashStep DEF PipeInv
  <2> QED BY <1>3, <2>1, QuietTimers
<1>4. CASE /\ GetUuid(c, flight[c].name)
           /\ FlyUncached(c, "resolve")
           /\ timers' = Finalized(TextureKey(flight[c].name))
  <2>1. flight[c].name \in Names
    BY DEF PipeInv, FlightTypes
  <2>2. CommonInv'
    BY <1>4, <2>1, CallStep DEF PipeInv
  <2>3. /\ \A d \in Calls : call'[d] = IF d = c THEN "once" ELSE call[d]
        /\ name' = [name EXCEPT ![c] = flight[c].name] /\ name \in [Calls -> Names]
        /\ UNCHANGED rounds
    BY <1>4, CallTypes, Moves DEF GetUuid, Labels, PipeInv, CommonInv, TypeOK
  <2>4. "resolve" \in Stages \ {"landed"} /\ "resolve" \in Timed
    BY DEF Stages, Timed
  <2>5. \A d \in Calls \ {c} : name'[d] = name[d] /\ call'[d] = call[d]
    BY <2>3
  <2>6. name'[c] = flight[c].name
    BY <2>3
  <2> QED BY <1>1, <1>2, <1>4, <2>2, <2>3, <2>4, <2>5, <2>6, GoOnPipe
<1>5. CASE /\ FlyUncached(c, "result")
           /\ timers' = Finalized(TextureKey(flight[c].name))
           /\ UNCHANGED vars
  <2>1. CommonInv'
    BY <1>5, CrashStep DEF vars, PipeInv, CommonInv, TypeOK
  <2>2. "result" \in Stages \ {"landed"} /\ "result" \in Timed
    BY DEF Stages, Timed
  <2>3. UNCHANGED << rounds, name, call >>
    BY <1>5 DEF vars
  <2> QED BY <1>1, <1>2, <1>5, <2>1, <2>2, <2>3, GoOnPipe
<1> QED BY <1>3, <1>4, <1>5 DEF AfterCall

LEMMA AfterResultPipe ==
  ASSUME PipeInv, NEW c \in Calls, AfterResult(c)
  PROVE  PipeInv'
<1>1. /\ flight[c].at = "result" /\ Fly(c, "broadcast")
      /\ UNCHANGED vars
  BY DEF AfterResult
<1>2. call[c] = "out"
  BY <1>1 DEF PipeInv, FlightsAsk
<1>3. CommonInv'
  BY <1>1, CrashStep DEF vars, PipeInv, CommonInv, TypeOK
<1>4. /\ \A t \in timers' : t \in timers /\ t.key # ResultKey(flight[c].name)
      /\ \A t \in timers \ timers' : t.key = ResultKey(flight[c].name)
  BY DEF AfterResult, Finalized
<1>5. "broadcast" \in Stages \ {"landed"} /\ "broadcast" \notin Timed /\ flight[c].at \in Timed
  BY <1>1 DEF Stages, Timed
<1>6. UNCHANGED << rounds, name, call >>
  BY <1>1 DEF vars
<1> QED BY <1>1, <1>2, <1>3, <1>4, <1>5, <1>6, GoOnPipe

LEMMA BroadcastPipe ==
  ASSUME PipeInv, NEW c \in Calls, Broadcast(c)
  PROVE  PipeInv'
<1>1. /\ flight[c].at = "broadcast" /\ flight' = [flight EXCEPT ![c] = Landed]
      /\ UNCHANGED << vars, timers >>
  BY DEF Broadcast, observers
<1>2. call[c] = "out"
  BY <1>1 DEF PipeInv, FlightsAsk
<1>3. CommonInv'
  BY <1>1, CrashStep DEF vars, PipeInv, CommonInv, TypeOK
<1>4. Landed \in [at : Stages, cached : BOOLEAN, name : Names] /\ Landed.at = "landed"
  BY FoldAssumption DEF Landed, Stages
<1>5. UNCHANGED << rounds, name, call >>
  BY <1>1 DEF vars
<1>6. /\ flight'[c] = Landed /\ \A d \in Calls \ {c} : flight'[d] = flight[d]
      /\ FlightTypes' /\ FlightsApart' /\ FlightsAsk'
  BY <1>1, <1>2, <1>4, <1>5, FlightMoves
<1>7. UNCHANGED timers
  BY <1>1
<1>8. \A t \in timers : ~ OfFlight(t, c)
  BY <1>1 DEF OfFlight, Timed
<1>9. flight'[c].at \notin Timed
  BY <1>4, <1>6 DEF Timed
<1>10. TimesAreOwn' /\ TimersBelong'
  BY <1>5, <1>6, <1>7, <1>8, <1>9, FlightTimers
<1> QED BY <1>3, <1>6, <1>10 DEF PipeInv

LEMMA NextPipe == PipeInv /\ [PipelineNext]_allVars => PipeInv'
<1> SUFFICES ASSUME PipeInv, [PipelineNext]_allVars
             PROVE  PipeInv'
  OBVIOUS
<1>1. CASE UNCHANGED allVars
  <2>1. UNCHANGED << vars, flight, timers >>
    BY <1>1 DEF allVars, observers
  <2>2. CommonInv'
    BY <2>1, CrashStep DEF vars, PipeInv, CommonInv, TypeOK
  <2> QED BY <2>1, <2>2, QuietTimers DEF vars
<1>2. CASE FlightNext
  BY <1>2, TakeOffPipe, ResolvePipe, BeforeCallPipe, AfterCallPipe, AfterResultPipe, BroadcastPipe
     DEF FlightNext
<1>3. CASE RoundNext
  BY <1>3, StartPipe, RequestPipe DEF RoundNext
<1> QED BY <1>1, <1>2, <1>3, QuietPipe DEF PipelineNext

\* The inductive invariant of the pipeline holds.
THEOREM PipeInvariance == PipelineSpec => []PipeInv
<1>1. PipeInv /\ [PipelineNext]_allVars => PipeInv'
  BY NextPipe
<1> QED BY InitPipe, <1>1, PTL DEF PipelineSpec

\* Whatever is timed finds the timer it started, for no two flights are about one
\* username and rounds that overlap are about different ones.
THEOREM TimesAreOwnHolds == PipelineSpec => []TimesAreOwn
<1>1. PipeInv => TimesAreOwn
  BY DEF PipeInv
<1> QED BY PipeInvariance, <1>1, PTL

\* Each timer belongs to a flight or a round that has still to end it.
THEOREM NoForgottenTimersHolds == PipelineSpec => []NoForgottenTimers
<1>1. PipeInv => NoForgottenTimers
  <2> SUFFICES ASSUME PipeInv, NEW t \in timers
               PROVE  CASE t.key.time = "result"   -> flight[t.owner[1]].at \notin {"landed", "broadcast"}
                        [] t.key.time = "textures" -> flight[t.owner[1]].at = "fetching"
                        [] t.key.time = "round"    ->
                             \E r \in rounds : r.at \in {"request", "panic"} /\ r.jobs = t.owner
    BY DEF NoForgottenTimers
  <2>1. ASSUME NEW c \in Calls, t.owner = << c >>, t.key = ResultKey(flight[c].name),
               flight[c].at \in Timed
        PROVE  t.key.time = "result" /\ flight[t.owner[1]].at \notin {"landed", "broadcast"}
    BY <2>1 DEF ResultKey, Key, Timed
  <2>2. ASSUME NEW c \in Calls, t.owner = << c >>, t.key = TextureKey(flight[c].name),
               flight[c].at = "fetching"
        PROVE  t.key.time = "textures" /\ flight[t.owner[1]].at = "fetching"
    BY <2>2 DEF TextureKey, Key
  <2>3. ASSUME NEW r \in rounds, OfRound(t, r)
        PROVE  t.key.time = "round" /\ r.at \in {"request", "panic"} /\ r.jobs = t.owner
    BY <2>3 DEF OfRound, RoundKey, Key
  <2> QED BY <2>1, <2>2, <2>3 DEF PipeInv, TimersBelong, OfFlight
<1> QED BY PipeInvariance, <1>1, PTL

\* The jobs of the pipeline are conserved too: its other requests to Mojang may
\* bring the process down, but do not move a job.
THEOREM PipelineConservesJobs == PipelineSpec => []JobsAreConserved
<1>1. PipeInv => JobsAreConserved
  BY ConservedJobs DEF PipeInv
<1> QED BY PipeInvariance, <1>1, PTL

-----------------------------------------------------------------------------
(* What the pipeline inherits from the provider it is built on *)

\* Another request to Mojang panics, and the process is gone.
Down ==
  /\ crashed' = TRUE
  /\ UNCHANGED << call, name, answer, once, queue, driver, consumer, rounds, cancelled >>

\* Of the provider, a step of the pipeline is one of its own, unless it is the
\* answer to another request, which may be the end of it.
LEMMA QuietSteps ==
  ASSUME [PipelineNext]_allVars
  PROVE  [Next]_vars \/ \E c \in Calls : AfterCall(c)
<1>1. ASSUME NEW c \in Calls, NEW n \in Names, TakeOff(c, n)
      PROVE  [Next]_vars
  BY <1>1 DEF TakeOff, Next, CommonNext
<1>2. ASSUME NEW c \in Calls, Resolve(c) \/ BeforeCall(c) \/ AfterResult(c) \/ Broadcast(c)
      PROVE  UNCHANGED vars
  BY <1>2 DEF Resolve, BeforeCall, AfterResult, Broadcast
<1>3. CASE RoundNext
  BY <1>3 DEF RoundNext, StartRound, RequestRound, Next, CommonNext
<1>4. CASE QuietNext
  BY <1>4 DEF QuietNext, Next, CommonNext
<1>5. CASE UNCHANGED allVars
  BY <1>5 DEF allVars
<1> QED BY <1>1, <1>2, <1>3, <1>4, <1>5 DEF PipelineNext, FlightNext

LEMMA ProviderSteps ==
  ASSUME FlightTypes, [PipelineNext]_allVars
  PROVE  [Next]_vars \/ Down
<1>1. ASSUME NEW c \in Calls, AfterCall(c)
      PROVE  [Next]_vars \/ Down
  <2>1. flight[c].name \in Names
    BY DEF FlightTypes
  <2>2. Down \/ GetUuid(c, flight[c].name) \/ UNCHANGED vars
    BY <1>1 DEF AfterCall, Down
  <2> QED BY <2>1, <2>2 DEF Next, CommonNext
<1> QED BY <1>1, QuietSteps

\* A process that is gone does nothing.
LEMMA DeadSteps ==
  ASSUME PipelineNext
  PROVE  ~ crashed
<1>1. FlightNext \/ RoundNext => ~ crashed
  BY DEF FlightNext, TakeOff, Resolve, BeforeCall, AfterCall, AfterResult, Broadcast,
         RoundNext, StartRound, RequestRound, Start, Request
<1>2. SilentNext => ~ crashed
  BY DEF SilentNext, EnterOnce, LeaveOnce, TimerFires, DriverStops, ConsumerStarts, ConsumerStops,
         NilIteration, NilProfile, Respond, Finish, Cancel
<1>3. (\E c \in Calls : Queue(c) \/ Signal(c)) \/ Collect \/ Iterate => ~ crashed
  BY DEF Queue, Enqueue, Signal, Collect, Iterate, HandOver
<1> QED BY <1>1, <1>2, <1>3 DEF PipelineNext, QuietNext

\* Whatever the flights and their other requests do, the batch provider in the
\* pipeline exchanges usernames for uuids as it does alone.
THEOREM PipelineImplementsUuidExchange == PipelineSpec => UuidExchangeSpec
<1>1. PipelineInit => Uuids!Init
  BY InitRefines DEF PipelineInit
<1>2. PipeInv /\ [PipelineNext]_allVars => [Uuids!Next]_(Uuids!vars)
  <2>1. Down => UNCHANGED Uuids!vars
    BY DEF Down, Uuids!vars, Phase, Told, RoundOf
  <2> QED BY <2>1, ProviderSteps, NextRefines DEF PipeInv
<1> QED BY PipeInvariance, <1>1, <1>2, PTL DEF PipelineSpec, UuidExchangeSpec, Uuids!Spec

\* In the pipeline too, a full batch does not have to wait for the timer.
THEOREM PipelineSignalsFullBatches == PipelineSpec => []FullBatchesAreSignalled
<1>1. PipelineInit => BusInv
  BY InitBus DEF PipelineInit
<1>2. PipeInv /\ BusInv /\ [PipelineNext]_allVars => BusInv'
  <2> SUFFICES ASSUME PipeInv, BusInv, [PipelineNext]_allVars
               PROVE  BusInv'
    OBVIOUS
  <2>1. CASE [Next]_vars
    BY <2>1, NextBus
  <2>2. CASE Down
    <3>1. UNCHANGED << Signallers, Signals, queue >>
      BY <2>2 DEF Down, Signallers, Signals
    <3>2. CommonInv'
      BY <2>2, CrashStep DEF Down, BusInv
    <3> QED BY <3>1, <3>2 DEF BusInv, FullBatchesAreSignalled
  <2> QED BY <2>1, <2>2, ProviderSteps DEF PipeInv
<1>3. BusInv => FullBatchesAreSignalled
  BY DEF BusInv
<1> QED BY PipeInvariance, <1>1, <1>2, <1>3, PTL DEF PipelineSpec

\* In the pipeline GetUuid answers about the username of the flight.
THEOREM PipelineAnswersAreOwn == PipelineSpec => []AnswersAreOwn
<1>1. PipeInv => CommonInv
  BY DEF PipeInv
<1> QED BY PipeInvariance, PipelineImplementsUuidExchange, <1>1, ExchangeAnswers, PTL

\* The process of the pipeline ends only after a cancellation or on a response of
\* Mojang: one that ends a round, a status 400 that does not decode or a list with
\* a null before the profile that is searched, or one to a flight.
OnlyMojangPanics ==
  crashed => \/ cancelled
             \/ \E r \in rounds : Fatal(r)
             \/ \E c \in Calls : flight[c].at = "fetching"

\* So it is: the worker goroutines and the subscribers add no other end to that
\* of the provider.
THEOREM OnlyMojangPanicsHolds == PipelineSpec => []OnlyMojangPanics
<1>1. PipelineInit => OnlyMojangPanics
  BY DEF PipelineInit, Init, OnlyMojangPanics
<1>2. PipeInv /\ OnlyMojangPanics /\ [PipelineNext]_allVars => OnlyMojangPanics'
  <2> SUFFICES ASSUME PipeInv, OnlyMojangPanics, [PipelineNext]_allVars
               PROVE  OnlyMojangPanics'
    OBVIOUS
  <2>1. CASE UNCHANGED allVars
    BY <2>1 DEF allVars, vars, OnlyMojangPanics, Fatal
  <2>2. CASE ~ crashed
    <3>1. CASE [Next]_vars
      <4>1. NoPanicInService'
        BY <2>2, <3>1, BusPanics DEF NoPanicInService, PipeInv
      <4> QED BY <4>1 DEF NoPanicInService, OnlyMojangPanics
    <3>2. ASSUME NEW c \in Calls, AfterCall(c), crashed'
          PROVE  flight'[c].at = "fetching"
      BY <2>2, <3>2 DEF AfterCall, GetUuid, vars
    <3>3. CASE ~ crashed'
      BY <3>3 DEF OnlyMojangPanics
    <3>4. (\E c \in Calls : AfterCall(c)) \/ [Next]_vars
      BY <2>1, <2>2, QuietSteps
    <3> QED BY <3>1, <3>2, <3>3, <3>4 DEF OnlyMojangPanics
  <2>3. CASE crashed /\ PipelineNext
    BY <2>3, DeadSteps
  <2> QED BY <2>1, <2>2, <2>3
<1> QED BY PipeInvariance, <1>1, <1>2, PTL DEF PipelineSpec

-----------------------------------------------------------------------------
(* From the username to the textures *)

\* A flight that was told a uuid asks for the textures of the account that its
\* own username spells, whatever usernames shared the batch: so its timer, whose
\* key is that uuid, is TextureKey of its username.
OwnUuidIsFetched ==
  \A c \in Calls :
    flight[c].at \in {"fetch", "fetching"} /\ ~flight[c].cached
      => answer[c] = Fold[flight[c].name]

\* Who neither waits nor asks again keeps its answer.
LEMMA AnswerStays ==
  ASSUME PipeInv, [PipelineNext]_allVars, NEW c \in Calls, call[c] = "out", call'[c] = "out"
  PROVE  answer'[c] = answer[c]
<1>1. ASSUME NEW r \in rounds, Respond(r)
      PROVE  answer'[c] = answer[c]
  BY <1>1 DEF Respond, PipeInv, CommonInv, TypeOK
<1>2. ASSUME NEW d \in Calls, NEW n \in Names, GetUuid(d, n)
      PROVE  answer'[c] = answer[c]
  <2>1. c # d
    BY <1>2, CallTypes, Moves DEF GetUuid, PipeInv, Labels
  <2> QED BY <1>2, <2>1 DEF GetUuid, PipeInv, CommonInv, TypeOK
<1>3. [Next]_vars \/ Down
  BY ProviderSteps DEF PipeInv
<1>4. Next => \/ \E r \in rounds : Respond(r)
              \/ \E d \in Calls, n \in Names : GetUuid(d, n)
              \/ UNCHANGED answer
  BY DEF Next, CommonNext, SilentNext, Start, Request, EnterOnce, LeaveOnce, TimerFires,
         DriverStops, ConsumerStarts, ConsumerStops, NilIteration, NilProfile, Finish, Cancel,
         Queue, Enqueue, Signal, Collect, Iterate, HandOver
<1> QED BY <1>1, <1>2, <1>3, <1>4 DEF Down, vars

\* A flight that goes on does so by itself.
LEMMA FlightsMove ==
  ASSUME FlightTypes, [PipelineNext]_allVars
  PROVE  \/ UNCHANGED flight
         \/ \E c \in Calls :
              /\ \A d \in Calls \ {c} : flight'[d] = flight[d]
              /\ \/ flight'[c].at \notin {"fetch", "fetching"}
                 \/ flight'[c].cached
                 \/ Resolve(c) /\ answer[c] \in Keys /\ flight'[c].name = flight[c].name
                 \/ flight[c].at = "fetch" /\ flight'[c].name = flight[c].name
                    /\ flight'[c].cached = flight[c].cached
<1> USE DEF FlightTypes
<1>1. ASSUME NEW c \in Calls, NEW n \in Names, TakeOff(c, n)
      PROVE  /\ \A d \in Calls \ {c} : flight'[d] = flight[d]
             /\ flight'[c].at \notin {"fetch", "fetching"} \/ flight'[c].cached
  BY <1>1 DEF TakeOff
<1>2. ASSUME NEW c \in Calls, Resolve(c)
      PROVE  /\ \A d \in Calls \ {c} : flight'[d] = flight[d]
             /\ flight'[c].at \in {"fetch", "fetching"} => answer[c] \in Keys
             /\ flight'[c].name = flight[c].name
  BY <1>2 DEF Resolve, Fly
<1>3. ASSUME NEW c \in Calls, BeforeCall(c)
      PROVE  /\ \A d \in Calls \ {c} : flight'[d] = flight[d]
             /\ flight[c].at = "fetch" /\ flight'[c].name = flight[c].name
             /\ flight'[c].cached = flight[c].cached
  BY <1>3 DEF BeforeCall, Fly
<1>4. ASSUME NEW c \in Calls, AfterCall(c) \/ AfterResult(c) \/ Broadcast(c)
      PROVE  \/ UNCHANGED flight
             \/ /\ \A d \in Calls \ {c} : flight'[d] = flight[d]
                /\ flight'[c].at \notin {"fetch", "fetching"}
  <2>1. \/ UNCHANGED flight
        \/ FlyUncached(c, "resolve") \/ FlyUncached(c, "result") \/ Fly(c, "broadcast")
        \/ flight' = [flight EXCEPT ![c] = Landed]
    BY <1>4 DEF AfterCall, AfterResult, Broadcast
  <2> QED BY <2>1 DEF Fly, FlyUncached, Landed
<1>5. CASE RoundNext \/ QuietNext \/ UNCHANGED allVars
  BY <1>5 DEF RoundNext, StartRound, RequestRound, QuietNext, allVars
<1> QED BY <1>1, <1>2, <1>3, <1>4, <1>5 DEF PipelineNext, FlightNext

\* The textures that are asked for are those of the flight's own username.
THEOREM OwnUuidIsFetchedHolds == PipelineSpec => []OwnUuidIsFetched
<1>1. PipelineInit => OwnUuidIsFetched
  BY InitPipe DEF PipelineInit, OwnUuidIsFetched, Landed
<1>2. PipeInv /\ AnswersAreOwn /\ OwnUuidIsFetched /\ [PipelineNext]_allVars => OwnUuidIsFetched'
  <2> SUFFICES ASSUME PipeInv, AnswersAreOwn, OwnUuidIsFetched, [PipelineNext]_allVars,
                      NEW c \in Calls, flight'[c].at \in {"fetch", "fetching"}, ~flight'[c].cached
               PROVE  answer'[c] = Fold[flight'[c].name]
    BY DEF OwnUuidIsFetched
  <2>0. call'[c] = "out"
    BY NextPipe DEF PipeInv, FlightsAsk
  <2>1. CASE /\ flight[c].at \in {"fetch", "fetching"} /\ flight'[c].name = flight[c].name
             /\ flight'[c].cached = flight[c].cached
    <3>1. call[c] = "out" /\ answer[c] = Fold[flight[c].name]
      BY <2>1 DEF PipeInv, FlightsAsk, OwnUuidIsFetched
    <3> QED BY <2>0, <2>1, <3>1, AnswerStays
  <2>2. CASE Resolve(c) /\ answer[c] \in Keys /\ flight'[c].name = flight[c].name
    <3>1. call[c] = "out" /\ name[c] = flight[c].name
      BY <2>2 DEF Resolve, PipeInv, FlightsAsk
    <3>2. answer[c] = Fold[flight[c].name]
      BY <2>2, <3>1, MarkersAssumption DEF AnswersAreOwn
    <3> QED BY <2>0, <2>2, <3>1, <3>2, AnswerStays
  <2> QED BY <2>1, <2>2, FlightsMove DEF PipeInv
<1> QED BY PipeInvariance, PipelineAnswersAreOwn, <1>1, <1>2, PTL DEF PipelineSpec

=============================================================================
