----------------------------- MODULE BatchUuids -----------------------------
(***************************************************************************)
(* mojangtextures.BatchUuidsProvider and jobsQueue                         *)
(* (src/mojangtextures/batch_uuids_provider.go), without the strategy that *)
(* decides when a batch leaves: PeriodicStrategy and FullBusStrategy       *)
(* extend this module with their Queue and their GetJobs goroutine.        *)
(*                                                                         *)
(* A call enqueues a job and waits on the job's channel. The strategy's    *)
(* goroutine (the driver) cuts the queue into iterations and hands each to *)
(* the consumer goroutine, which spawns a round for it: it is announced,   *)
(* makes one request to Mojang, and answers one job after another. A job   *)
(* is identified with the call that waits for it. All channels are         *)
(* unbuffered, so sending and receiving is one step of both sides.         *)
(***************************************************************************)
EXTENDS Naturals, Sequences, SequencesExt, MojangApi

CONSTANTS Calls,     \* the goroutines that call GetUuid
          Names,     \* the names they ask about, as they spell them
          Fold,      \* strings.EqualFold: the account that a name spells
          Accounts,  \* the accounts Mojang has
          NoProfile, \* a nil profile and a nil error
          Failed,    \* an error
          Batch,     \* QUEUE_BATCH_SIZE
          MayCancel  \* whether the provider's context may be cancelled

Keys == { Fold[n] : n \in Names }

ASSUME BatchAssumption == Batch \in Nat \ {0}
ASSUME FoldAssumption == DOMAIN Fold = Names /\ Names # {}
ASSUME MarkersAssumption == {NoProfile, Failed} \cap Keys = {} /\ NoProfile # Failed
ASSUME CancelAssumption == MayCancel \in BOOLEAN

VARIABLES call,      \* where each call is
          name,      \* the name it asks about
          answer,    \* what its last GetUuid returned, NoProfile until it does
          once,      \* onFirstCall
          queue,     \* jobsQueue.items
          driver,    \* the goroutine of GetJobs, with the iteration it sends
          consumer,  \* the goroutine of startQueue
          rounds,    \* the goroutines that performRequest runs in
          cancelled, \* ctx.Done() is closed
          crashed    \* a goroutine has panicked, and the process with it

vars == << call, name, answer, once, queue, driver, consumer, rounds, cancelled, crashed >>

Answers == Keys \cup {NoProfile, Failed}

\* What usernamesToUuids returned: profiles in any order, or an error. A body
\* that does not decode is the empty sequence, a null element a nil profile.
Reply == [error : BOOLEAN, profiles : Seq(Keys \cup {NoProfile})]
NoReply == [error |-> FALSE, profiles |-> << >>]

\* A round is about to announce itself, with the length of the queue it left
\* behind, or to request, or it has its reply and jobs to answer, or panicked.
\* One that had no jobs, or has answered them all, is the idle round.
Round == [at : {"start", "request", "respond", "panic"},
          jobs : Seq(Calls), left : Nat, reply : Reply]
NewRound(jobs, left) == [at |-> "start", jobs |-> jobs, left |-> left, reply |-> NoReply]
IdleRound == [NewRound(<< >>, 0) EXCEPT !.at = "respond"]

\* The types of the variables. A call is answered with a profile, no profile or
\* an error, never with the name it asked about as it was spelled.
TypeOK ==
  /\ call \in [Calls -> {"out", "once", "starting", "queue", "signal", "wait"}]
  /\ name \in [Calls -> Names]
  /\ answer \in [Calls -> Answers]
  /\ once \in {"no", "running", "done"}
  /\ queue \in Seq(Calls)
  /\ driver \in [at : {"none", "select", "collect", "send", "done", "closed"},
                 jobs : Seq(Calls), left : Nat]
  /\ consumer \in {"none", "init", "select", "gone"}
  /\ rounds \subseteq Round
  /\ cancelled \in BOOLEAN /\ crashed \in BOOLEAN

Init ==
  /\ call = [c \in Calls |-> "out"]
  /\ name = [c \in Calls |-> CHOOSE n \in Names : TRUE]
  /\ answer = [c \in Calls |-> NoProfile]
  /\ once = "no"
  /\ queue = << >>
  /\ driver = [at |-> "none", jobs |-> << >>, left |-> 0]
  /\ consumer = "none"
  /\ rounds = {}
  /\ cancelled = FALSE /\ crashed = FALSE

-----------------------------------------------------------------------------
(* The calling goroutine *)

Goto(c, l) == call' = [call EXCEPT ![c] = l]

\* GetUuid begins.
GetUuid(c, n) ==
  /\ ~crashed
  /\ call[c] = "out"
  /\ Goto(c, "once")
  /\ name' = [name EXCEPT ![c] = n]
  /\ answer' = [answer EXCEPT ![c] = NoProfile]
  /\ UNCHANGED << once, queue, driver, consumer, rounds, cancelled, crashed >>

\* Mutant of EnterOnce: the first call does not wait for the consumer.
EnterOnceWithoutWaiting(c) ==
  /\ ~crashed
  /\ call[c] = "once"
  /\ \/ /\ once = "no"
        /\ once' = "done" /\ consumer' = "init"
     \/ /\ once = "done"
        /\ UNCHANGED << once, consumer >>
  /\ Goto(c, "queue")
  /\ UNCHANGED << name, answer, queue, driver, rounds, cancelled, crashed >>

\* onFirstCall.Do: the first call runs startQueue up to <-d, the others wait
\* until it is through.
EnterOnce(c) ==
  /\ ~crashed
  /\ call[c] = "once"
  /\ \/ /\ once = "no"
        /\ once' = "running" /\ consumer' = "init"
        /\ Goto(c, "starting")
     \/ /\ once = "done"
        /\ Goto(c, "queue") /\ UNCHANGED << once, consumer >>
  /\ UNCHANGED << name, answer, queue, driver, rounds, cancelled, crashed >>

\* The first call receives from d, which the consumer has closed.
LeaveOnce(c) ==
  /\ ~crashed
  /\ call[c] = "starting" /\ consumer \notin {"none", "init"}
  /\ once' = "done"
  /\ Goto(c, "queue")
  /\ UNCHANGED << name, answer, queue, driver, consumer, rounds, cancelled, crashed >>

\* jobsQueue.Enqueue, after which the call goes on to l.
Enqueue(c, l) ==
  /\ ~crashed
  /\ call[c] = "queue"
  /\ queue' = Append(queue, c)
  /\ Goto(c, l)
  /\ UNCHANGED << name, answer, once, driver, consumer, rounds, cancelled, crashed >>

-----------------------------------------------------------------------------
(* The strategy's goroutine *)

Drive(l) == driver' = [at |-> l, jobs |-> << >>, left |-> 0]
Send(jobs, left) == driver' = [at |-> "send", jobs |-> jobs, left |-> left]

\* Mutant of Dequeue: the taken jobs stay in the queue.
DequeueWithoutCutting ==
  LET n == IF Batch > Len(queue) THEN Len(queue) ELSE Batch
  IN  /\ Send(SubSeq(queue, 1, n), Len(queue) - n)
      /\ UNCHANGED queue

\* Mutant of Dequeue: the size of the batch is not looked at.
DequeueEverything ==
  /\ Send(queue, 0)
  /\ queue' = << >>

\* jobsQueue.Dequeue(Batch), and the iteration is ready to be sent.
Dequeue ==
  LET n == IF Batch > Len(queue) THEN Len(queue) ELSE Batch
  IN  /\ Send(SubSeq(queue, 1, n), Len(queue) - n)
      /\ queue' = SubSeq(queue, n + 1, Len(queue))

\* time.After(Delay) or NewTimer(Delay) fires.
TimerFires ==
  /\ ~crashed
  /\ driver.at = "select"
  /\ Dequeue
  /\ UNCHANGED << call, name, answer, once, consumer, rounds, cancelled, crashed >>

\* Mutant of DriverStops: the driver stops when there is nothing to do.
DriverStopsWhenIdle ==
  /\ ~crashed
  /\ driver.at = "select" /\ queue = << >>
  /\ Drive("closed")
  /\ UNCHANGED << call, name, answer, once, queue, consumer, rounds, cancelled, crashed >>

\* The context is done: the driver closes its channel and returns.
DriverStops ==
  /\ ~crashed
  /\ driver.at = "select" /\ cancelled
  /\ Drive("closed")
  /\ UNCHANGED << call, name, answer, once, queue, consumer, rounds, cancelled, crashed >>

-----------------------------------------------------------------------------
(* The consumer goroutine *)

\* It starts the strategy's goroutine and closes d.
ConsumerStarts ==
  /\ ~crashed
  /\ consumer = "init"
  /\ consumer' = "select"
  /\ Drive("select")
  /\ UNCHANGED << call, name, answer, once, queue, rounds, cancelled, crashed >>

\* ch <- iteration on one side, <-jobsChan on the other, and the go statement.
\* The driver goes on to l.
HandOver(l) ==
  /\ ~crashed
  /\ driver.at = "send" /\ consumer = "select"
  /\ rounds' = rounds \cup {NewRound(driver.jobs, driver.left)}
  /\ Drive(l)
  /\ UNCHANGED << call, name, answer, once, queue, consumer, cancelled, crashed >>

\* The context is done: the consumer returns. An iteration that is being sent
\* stays with the driver for ever.
ConsumerStops ==
  /\ ~crashed
  /\ consumer = "select" /\ cancelled
  /\ consumer' = "gone"
  /\ UNCHANGED << call, name, answer, once, queue, driver, rounds, cancelled, crashed >>

\* The consumer's select takes the closed channel instead: it receives a nil
\* iteration, and the goroutine spawned for it panics.
NilIteration ==
  /\ ~crashed
  /\ consumer = "select" /\ driver.at = "closed"
  /\ crashed' = TRUE
  /\ UNCHANGED << call, name, answer, once, queue, driver, consumer, rounds, cancelled >>

-----------------------------------------------------------------------------
(* A round: performRequest(iteration), then iteration.Done() *)

\* The accounts that the jobs of r ask about and Mojang has.
Asked(r) == { Fold[name[c]] : c \in ToSet(r.jobs) } \cap Accounts

Become(r, new) == rounds' = (rounds \ {r}) \cup {new}

\* The event that a round begins. A round without jobs ends with it.
Start(r) ==
  /\ ~crashed
  /\ r.at = "start"
  /\ Become(r, IF r.jobs = << >> THEN IdleRound ELSE [r EXCEPT !.at = "request", !.left = 0])
  /\ UNCHANGED << call, name, answer, once, queue, driver, consumer, cancelled, crashed >>

\* The lists a body for r may hold: the profiles of those accounts in any order,
\* perhaps with a null among them (a second one would not be reached).
Lists(r) == SetToSeqs(Asked(r)) \cup SetToSeqs(Asked(r) \cup {NoProfile})

\* What usernamesToUuids may make of the responses to r.
Results(r) ==
  UNION { { UsernamesToUuids(response, list) : list \in Lists(r) } : response \in Responses }

\* usernamesToUuids is called for all names of the round at once, and returns
\* profiles or fails. The event of its result is part of the step.
Request(r) ==
  /\ ~crashed
  /\ r.at = "request"
  /\ \E result \in Results(r) :
       /\ crashed' = (result.error = "panic")
       /\ Become(r, IF crashed' THEN [r EXCEPT !.at = "panic"]
                    ELSE [r EXCEPT !.at = "respond",
                                   !.reply = [error    |-> result.error # "nil",
                                              profiles |-> result.profiles]])
  /\ UNCHANGED << call, name, answer, once, queue, driver, consumer, cancelled >>

\* What the reply says about name n: the first profile that matches it.
Found(reply, n) ==
  LET matches == { i \in 1..Len(reply.profiles) : reply.profiles[i] = Fold[n] }
  IN  IF reply.error THEN Failed
      ELSE IF matches = {} THEN NoProfile
      ELSE reply.profiles[CHOOSE i \in matches : \A j \in matches : i <= j]

\* The search for a profile that matches n comes to a nil before it has one.
HitsNil(reply, n) ==
  /\ ~reply.error
  /\ \E i \in 1..Len(reply.profiles) :
       reply.profiles[i] = NoProfile /\ \A j \in 1..(i - 1) : reply.profiles[j] # Fold[n]

\* It dereferences that nil, and nothing recovers the panic.
NilProfile(r) ==
  /\ ~crashed
  /\ r.at = "respond" /\ r.jobs # << >>
  /\ HitsNil(r.reply, name[Head(r.jobs)])
  /\ crashed' = TRUE
  /\ UNCHANGED << call, name, answer, once, queue, driver, consumer, rounds, cancelled >>

\* The round answers its next job, whose call has to be receiving by then.
Respond(r) ==
  /\ ~crashed
  /\ r.at = "respond" /\ r.jobs # << >>
  /\ ~HitsNil(r.reply, name[Head(r.jobs)])
  /\ LET c == Head(r.jobs)
     IN  /\ call[c] = "wait"
         /\ Goto(c, "out")
         /\ answer' = [answer EXCEPT ![c] = Found(r.reply, name[c])]
  /\ Become(r, IF Len(r.jobs) = 1 THEN IdleRound ELSE [r EXCEPT !.jobs = Tail(@)])
  /\ UNCHANGED << name, once, queue, driver, consumer, cancelled, crashed >>

\* Mutant of Finish: the driver is not told.
FinishWithoutDone(r) ==
  /\ ~crashed
  /\ r.at = "respond" /\ r.jobs = << >>
  /\ rounds' = rounds \ {r}
  /\ UNCHANGED << call, name, answer, once, queue, driver, consumer, cancelled, crashed >>

\* Nothing (left) to do: Done tells the driver, if it is waiting for that.
Finish(r) ==
  /\ ~crashed
  /\ r.at = "respond" /\ r.jobs = << >>
  /\ rounds' = rounds \ {r}
  /\ IF driver.at = "done" THEN Drive("select") ELSE UNCHANGED driver
  /\ UNCHANGED << call, name, answer, once, queue, consumer, cancelled, crashed >>

-----------------------------------------------------------------------------

\* Somebody cancels the context.
Cancel ==
  /\ ~crashed
  /\ MayCancel /\ ~cancelled
  /\ cancelled' = TRUE
  /\ UNCHANGED << call, name, answer, once, queue, driver, consumer, rounds, crashed >>

\* The steps both strategies have: those that emit no event of a round, which
\* nobody but this provider notices, and all of them.
SilentNext ==
  \/ \E c \in Calls : EnterOnce(c) \/ LeaveOnce(c)
  \/ TimerFires \/ DriverStops
  \/ ConsumerStarts \/ ConsumerStops \/ NilIteration
  \/ \E r \in rounds : NilProfile(r) \/ Respond(r) \/ Finish(r)
  \/ Cancel
CommonNext ==
  \/ \E c \in Calls, n \in Names : GetUuid(c, n)
  \/ \E r \in rounds : Start(r) \/ Request(r)
  \/ SilentNext

\* Timers fire, goroutines that can run do, and requests to Mojang end (the
\* HTTP client of api/mojang has a timeout). Rounds run concurrently, so each
\* is fair on its own: the round of a job is the one that holds it.
CommonFairness ==
  /\ \A c \in Calls : WF_vars(EnterOnce(c) \/ LeaveOnce(c))
  /\ WF_vars(TimerFires)
  /\ WF_vars(ConsumerStarts)
  /\ \A c \in Calls :
       WF_vars(\E r \in rounds : /\ c \in ToSet(r.jobs)
                                 /\ Start(r) \/ Request(r) \/ NilProfile(r) \/ Respond(r))
  /\ WF_vars(\E r \in rounds : r.jobs = << >> /\ Start(r))
  /\ WF_vars(\E r \in rounds : Finish(r))

-----------------------------------------------------------------------------
(* Properties of either strategy *)

\* Everywhere the job of c is: in the queue, on its way to the consumer, in a
\* round.
Places(c) ==
  [ queued  |-> { i \in 1..Len(queue) : queue[i] = c },
    sent    |-> { i \in 1..Len(driver.jobs) : driver.jobs[i] = c },
    working |-> { p \in rounds \X (1..Batch) :
                    p[2] <= Len(p[1].jobs) /\ p[1].jobs[p[2]] = c } ]

\* A job is neither lost nor answered twice: the job of a call that waits is
\* in exactly one place, once, and no job is left of a call that does not.
\* Cancelled providers included.
JobsAreConserved ==
  \A c \in Calls :
    Cardinality(Places(c).queued) + Cardinality(Places(c).sent) + Cardinality(Places(c).working)
      = IF call[c] \in {"signal", "wait"} THEN 1 ELSE 0

\* "This synchronization chan is used to ensure that strategy's jobs provider
\* will be initialized before any job will be scheduled": whatever the order of
\* the first calls, no job is queued before the driver runs.
NothingBeforeStart == queue # << >> => driver.at # "none" /\ consumer # "init"

\* Mojang's response is the end of round r: the client panicked on it, or the
\* search for the next job's profile panics on a nil.
Fatal(r) == \/ r.at = "panic"
            \/ /\ r.at = "respond" /\ r.jobs # << >>
               /\ HitsNil(r.reply, name[Head(r.jobs)])

\* The goroutines of the provider do not bring the process down while it is in
\* service: it panics only after a cancellation, or on one of the two responses
\* that end a round, a status 400 whose body does not decode and a list with a
\* null before the profile that is searched. No order of calls, timers and
\* rounds makes it panic.
NoPanicInService == crashed => cancelled \/ \E r \in rounds : Fatal(r)

\* Every call is answered, unless the provider is cancelled or the process gone.
EveryCallReturns == \A c \in Calls : call[c] = "once" ~> call[c] = "out" \/ cancelled \/ crashed

\* The round that is about to answer c, and can.
RoundOf(c) == { r \in rounds :
                  r.at = "respond" /\ c \in ToSet(r.jobs) /\ ~HitsNil(r.reply, name[c]) }

\* Where a call is as far as the exchange with Mojang is concerned, and what
\* it has been told.
Phase(c) == IF call[c] = "out" THEN "out"
            ELSE IF RoundOf(c) = {} THEN "pending" ELSE "settled"
Told(c) == IF RoundOf(c) = {} THEN answer[c]
           ELSE Found((CHOOSE r \in RoundOf(c) : TRUE).reply, name[c])

Uuids == INSTANCE UuidExchange WITH
  phase  <- [c \in Calls |-> Phase(c)],
  answer <- [c \in Calls |-> Told(c)]

\* Batching implements the exchange: a call is settled by one request about at
\* most Batch names, at once with the other calls of that request that can be
\* answered, and told what that reply says about its own name.
UuidExchangeSpec == Uuids!Spec

-----------------------------------------------------------------------------
(* What a comment of the code says and the code does not do *)

\* "An empty uuid value can be passed if the corresponding account has not
\* been found" (and is then cached as such): a call that is told there is no
\* profile asked about an account that does not exist.
NoProfileMeansNoAccount ==
  [][\A c \in Calls : call[c] = "wait" /\ call'[c] = "out" /\ answer'[c] = NoProfile
                        => Fold[name[c]] \notin Accounts]_vars

=============================================================================
