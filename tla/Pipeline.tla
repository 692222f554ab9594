------------------------------ MODULE Pipeline ------------------------------
(***************************************************************************)
(* From a username to its textures: the worker goroutines of the provider  *)
(* (getResultAndBroadcast in src/mojangtextures/mojang_textures.go) over   *)
(* BatchUuidsProvider with FullBusStrategy, and what the subscribers of    *)
(* their events make of them: the timers of                                *)
(* src/eventsubscribers/stats_reporter.go and the queue length of          *)
(* src/eventsubscribers/health_checkers.go.                                *)
(*                                                                         *)
(* A call of BatchUuids is the worker of a flight here, and a name is a    *)
(* lower-cased username. Subscribers run in the goroutine that emits, so   *)
(* an event and what it changes is part of the emitter's step. Instead of  *)
(* its start time a timer keeps who started it.                            *)
(***************************************************************************)
EXTENDS FullBusStrategy

CONSTANT MaxLength \* healthcheck.mojang_batch_uuids_provider_queue_length_limit

ASSUME MaxLengthAssumption == MaxLength \in Nat \ {0}

VARIABLES flight,     \* the worker of each flight, and the username it is about
          timers,     \* StatsReporter.timersMap
          queueLength \* of MojangBatchUuidsProviderQueueLengthChecker

observers == << timers, queueLength >>
allVars == << vars, flight, observers >>

\* No worker: every flight begins and ends like this.
Landed == [at |-> "landed", cached |-> FALSE, name |-> CHOOSE n \in Names : TRUE]
Aloft(c) == flight[c].at # "landed"

PipelineInit == /\ Init
                /\ flight = [c \in Calls |-> Landed]
                /\ timers = {}
                /\ queueLength = 0

-----------------------------------------------------------------------------
(* The subscribers *)

\* A timer of key k: which time it is about, and the names or the uuid in it.
Key(time, of) == [time |-> time, of |-> of]

\* finalizeTimeRecording: the timer of key k is removed, if there is one.
Finalized(k) == { t \in timers : t.key # k }

\* startTimeRecording, by the worker or the round of owner.
Started(k, owner) == Finalized(k) \cup {[key |-> k, owner |-> owner]}

ResultKey(n)  == Key("result", << n >>)
TextureKey(n) == Key("textures", << Fold[n] >>)
RoundKey(r)   == Key("round", [i \in DOMAIN r.jobs |-> name[r.jobs[i]]])

-----------------------------------------------------------------------------
(* The worker of a flight *)

Fly(c, l) == flight' = [flight EXCEPT ![c].at = l]
FlyUncached(c, l) == flight' = [flight EXCEPT ![c].at = l, ![c].cached = FALSE]

\* Mutant of TakeOff: every listener is taken for the first.
TakeOffAgain(c, n) ==
  /\ ~crashed
  /\ ~Aloft(c)
  /\ timers' = Started(ResultKey(n), << c >>)
  /\ GetUuid(c, n)
  /\ flight' = [flight EXCEPT ![c] = [at |-> "resolve", cached |-> FALSE, name |-> n]]
  /\ UNCHANGED queueLength

\* The first listener of n starts a worker, and before_result is emitted. The
\* uuid is in the cache, or the batch provider is asked.
TakeOff(c, n) ==
  /\ ~crashed
  /\ ~Aloft(c)
  /\ \A d \in Calls : Aloft(d) => flight[d].name # n
  /\ timers' = Started(ResultKey(n), << c >>)
  /\ \/ /\ GetUuid(c, n)
        /\ flight' = [flight EXCEPT ![c] = [at |-> "resolve", cached |-> FALSE, name |-> n]]
     \/ /\ flight' = [flight EXCEPT ![c] = [at |-> "fetch", cached |-> TRUE, name |-> n]]
        /\ UNCHANGED vars
  /\ UNCHANGED queueLength

\* GetUuid has returned: without a profile there are no textures to ask for.
Resolve(c) ==
  /\ ~crashed
  /\ flight[c].at = "resolve" /\ call[c] = "out"
  /\ Fly(c, IF answer[c] \in Keys THEN "fetch" ELSE "result")
  /\ UNCHANGED << vars, observers >>

\* getTextures emits textures:before_call and makes its request.
BeforeCall(c) ==
  /\ ~crashed
  /\ flight[c].at = "fetch"
  /\ Fly(c, "fetching")
  /\ timers' = Started(TextureKey(flight[c].name), << c >>)
  /\ UNCHANGED << vars, queueLength >>

\* Mutant of AfterCall: a cached uuid that is gone is tried again.
AfterCallTryingAgain(c) ==
  /\ ~crashed
  /\ flight[c].at = "fetching"
  /\ Fly(c, IF flight[c].cached THEN "fetch" ELSE "result")
  /\ timers' = Finalized(TextureKey(flight[c].name))
  /\ UNCHANGED << vars, queueLength >>

\* Its response, and textures:after_call. If a cached uuid is gone, the batch
\* provider is asked after all.
AfterCall(c) ==
  /\ ~crashed
  /\ flight[c].at = "fetching"
  /\ \E response \in Responses :
       LET error == UuidToTextures(response, TRUE, FALSE).error
       IN  \/ /\ error = "panic"
              /\ crashed' = TRUE
              /\ UNCHANGED << call, name, answer, once, queue, driver, consumer, rounds,
                              cancelled, flight, timers >>
           \/ /\ error = "EmptyResponse" /\ flight[c].cached
              /\ GetUuid(c, flight[c].name)
              /\ FlyUncached(c, "resolve")
              /\ timers' = Finalized(TextureKey(flight[c].name))
           \/ /\ error # "panic" /\ ~(error = "EmptyResponse" /\ flight[c].cached)
              /\ FlyUncached(c, "result")
              /\ timers' = Finalized(TextureKey(flight[c].name))
              /\ UNCHANGED vars
  /\ UNCHANGED queueLength

\* after_result
AfterResult(c) ==
  /\ ~crashed
  /\ flight[c].at = "result"
  /\ Fly(c, "broadcast")
  /\ timers' = Finalized(ResultKey(flight[c].name))
  /\ UNCHANGED << vars, queueLength >>

\* BroadcastAndRemove: from here on n may take off again.
Broadcast(c) ==
  /\ ~crashed
  /\ flight[c].at = "broadcast"
  /\ flight' = [flight EXCEPT ![c] = Landed]
  /\ UNCHANGED << vars, observers >>

-----------------------------------------------------------------------------
(* The rounds, with what their events cause *)

\* Mutant of StartRound: empty rounds are timed as well.
StartRoundTimingAll(r) ==
  /\ Start(r)
  /\ queueLength' = r.left
  /\ timers' = Started(RoundKey(r), r.jobs)
  /\ UNCHANGED flight

\* Mutant of StartRound: empty rounds are not announced.
StartRoundIfAny(r) ==
  /\ Start(r)
  /\ IF r.jobs = << >> THEN UNCHANGED observers
     ELSE queueLength' = r.left /\ timers' = Started(RoundKey(r), r.jobs)
  /\ UNCHANGED flight

\* round: the queue length is remembered, and a round with jobs is timed.
StartRound(r) ==
  /\ Start(r)
  /\ queueLength' = r.left
  /\ timers' = IF r.jobs = << >> THEN timers ELSE Started(RoundKey(r), r.jobs)
  /\ UNCHANGED flight

\* result, which is not emitted if the client of Mojang panics
RequestRound(r) ==
  /\ Request(r)
  /\ timers' = IF crashed' THEN timers ELSE Finalized(RoundKey(r))
  /\ UNCHANGED << flight, queueLength >>

FlightNext == \E c \in Calls : \/ \E n \in Names : TakeOff(c, n)
                               \/ Resolve(c) \/ BeforeCall(c) \/ AfterCall(c)
                               \/ AfterResult(c) \/ Broadcast(c)
RoundNext == \E r \in rounds : StartRound(r) \/ RequestRound(r)
QuietNext == /\ SilentNext \/ (\E c \in Calls : Queue(c) \/ Signal(c)) \/ Collect \/ Iterate
             /\ UNCHANGED << flight, observers >>

PipelineNext == FlightNext \/ RoundNext \/ QuietNext

PipelineSpec == PipelineInit /\ [][PipelineNext]_allVars

\* A worker that can go on does, and its requests to Mojang end.
FairPipelineSpec ==
  /\ PipelineSpec
  /\ Fairness
  /\ \A c \in Calls : WF_allVars(\/ Resolve(c) \/ BeforeCall(c) \/ AfterCall(c)
                                 \/ AfterResult(c) \/ Broadcast(c))

-----------------------------------------------------------------------------
(* Properties *)

\* Between its two events everything that is timed finds the timer it started:
\* no other flight and no overlapping round has put its own in its place. (Two
\* flights that fetch textures for one uuid may.)
TimesAreOwn ==
  /\ \A c \in Calls :
       flight[c].at \in {"resolve", "fetch", "fetching", "result"}
         => [key |-> ResultKey(flight[c].name), owner |-> << c >>] \in timers
  /\ \A r \in rounds :
       r.at = "request" => [key |-> RoundKey(r), owner |-> r.jobs] \in timers

\* Timers do not pile up: each belongs to a flight or a round that will remove
\* it, empty rounds and repeated requests included.
NoForgottenTimers ==
  \A t \in timers :
    CASE t.key.time = "result"   -> flight[t.owner[1]].at \notin {"landed", "broadcast"}
      [] t.key.time = "textures" -> flight[t.owner[1]].at = "fetching"
      [] t.key.time = "round"    -> \E r \in rounds : r.at \in {"request", "panic"} /\ r.jobs = t.owner

\* Every flight lands, also one that is blocked while it signals a full batch
\* and one that has to ask again, unless the process is gone.
EveryFlightLands == \A c \in Calls : Aloft(c) ~> ~Aloft(c) \/ crashed

\* When the queue stays empty, the health check ends up knowing: rounds that
\* overlap may announce the length of the queue in another order than they left.
QueueLengthSettles ==
  <>[](queue = << >>) => <>[](queueLength < MaxLength) \/ <>crashed

=============================================================================
