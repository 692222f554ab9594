--------------------------- MODULE BatchUuidsProofs ---------------------------
(***************************************************************************)
(* What both strategies of BatchUuids have in common, proved for any number*)
(* of calls and names and any size of batches: where the jobs are, when    *)
(* the goroutines start, and what the rounds tell. A lemma is about one    *)
(* step and the invariant CommonInv. The theorems about PeriodicStrategy   *)
(* are at the end, those about FullBusStrategy in PipelineProofs.          *)
(***************************************************************************)
EXTENDS PeriodicStrategy, FiniteSetTheorems, SequenceTheorems, WellFoundedInduction, TLAPS

\* The calls in a sequence of jobs, and whether none of them is there twice.
Of(s) == { s[i] : i \in 1..Len(s) }
Distinct(s) == \A i, j \in 1..Len(s) : s[i] = s[j] => i = j

\* The driver runs once the consumer does, and a call gets past onFirstCall
\* only after that.
StartedOnce ==
  /\ once = "no" => consumer = "none"
  /\ once = "done" => consumer \notin {"none", "init"}
  /\ consumer \in {"none", "init"} <=> driver.at = "none"
  /\ \A c \in Calls : call[c] = "queue" => consumer \notin {"none", "init"}

\* The driver holds jobs only while it sends them, and a round that requests,
\* or has panicked doing so, has jobs.
JobsAreHeld ==
  /\ driver.at # "send" => driver.jobs = << >>
  /\ \A r \in rounds : r.at \in {"request", "panic"} => r.jobs # << >>

\* Whose job is somewhere.
Held(c) == c \in Of(queue) \/ c \in Of(driver.jobs) \/ \E r \in rounds : c \in Of(r.jobs)

\* The places of jobs have no job twice, nor one in common, and the jobs are
\* those of the calls that wait.
EachOnce ==
  /\ Distinct(queue)
  /\ Distinct(driver.jobs) /\ Len(driver.jobs) <= Batch
  /\ \A r \in rounds : Distinct(r.jobs) /\ Len(r.jobs) <= Batch
  /\ Of(queue) \cap Of(driver.jobs) = {}
  /\ \A r \in rounds : Of(r.jobs) \cap (Of(queue) \cup Of(driver.jobs)) = {}
  /\ \A r, s \in rounds : r # s => Of(r.jobs) \cap Of(s.jobs) = {}
  /\ \A c \in Calls : call[c] \in {"signal", "wait"} <=> Held(c)

\* The driver leaves only when the context is done.
StopsWhenCancelled == driver.at = "closed" => cancelled

\* Inductive but for NoPanicInService, which a process that is brought down by
\* something else does not keep.
CommonInv == TypeOK /\ StartedOnce /\ NothingBeforeStart /\ JobsAreHeld /\ EachOnce /\ StopsWhenCancelled

-----------------------------------------------------------------------------
(* Sequences of jobs *)

LEMMA EmptyJobs == Of(<< >>) = {} /\ Distinct(<< >>) /\ Len(<< >>) = 0 /\ << >> \in Seq(Calls)
  BY EmptySeq DEF Of, Distinct

\* A sequence with jobs has a first one.
LEMMA FirstJob ==
  ASSUME NEW s \in Seq(Calls), s # << >>
  PROVE  Head(s) \in Of(s) /\ Head(s) \in Calls /\ Len(s) \in Nat \ {0}
<1>1. Len(s) \in Nat \ {0} /\ Head(s) \in Calls
  BY EmptySeq, HeadTailProperties
<1> QED BY <1>1 DEF Of

LEMMA JobsAreCalls ==
  ASSUME NEW s \in Seq(Calls)
  PROVE  Of(s) \subseteq Calls /\ Of(s) = ToSet(s)
  BY LenProperties, ElementOfSeq DEF Of, ToSet

LEMMA AppendedJob ==
  ASSUME NEW s \in Seq(Calls), NEW c \in Calls
  PROVE  /\ Append(s, c) \in Seq(Calls)
         /\ Of(Append(s, c)) = Of(s) \cup {c}
         /\ Distinct(s) /\ c \notin Of(s) => Distinct(Append(s, c))
<1>1. /\ Append(s, c) \in Seq(Calls)
      /\ Len(s) \in Nat /\ Len(Append(s, c)) = Len(s) + 1
      /\ \A i \in 1..(Len(s) + 1) : Append(s, c)[i] = IF i <= Len(s) THEN s[i] ELSE c
  OBVIOUS
<1>2. Of(Append(s, c)) = Of(s) \cup {c}
  BY <1>1 DEF Of
<1>3. ASSUME Distinct(s), c \notin Of(s)
      PROVE  Distinct(Append(s, c))
  BY <1>1, <1>3 DEF Distinct, Of
<1> QED BY <1>1, <1>2, <1>3

\* Cutting a sequence in two divides the jobs in it.
LEMMA CutJobs ==
  ASSUME NEW s \in Seq(Calls), NEW n \in 0..Len(s), Distinct(s)
  PROVE  LET a == SubSeq(s, 1, n)
             b == SubSeq(s, n + 1, Len(s))
         IN  /\ a \in Seq(Calls) /\ b \in Seq(Calls)
             /\ Len(a) = n /\ Len(b) = Len(s) - n
             /\ Distinct(a) /\ Distinct(b)
             /\ Of(a) \cup Of(b) = Of(s) /\ Of(a) \cap Of(b) = {}
<1> DEFINE a == SubSeq(s, 1, n)
           b == SubSeq(s, n + 1, Len(s))
<1>1. Len(s) \in Nat /\ \A i \in 1..Len(s) : s[i] \in Calls
  BY LenProperties, ElementOfSeq
<1>2. /\ a \in Seq(Calls) /\ Len(a) = n
      /\ \A i \in 1..n : a[i] = s[i]
  BY <1>1, SubSeqProperties
<1>3. /\ b \in Seq(Calls) /\ Len(b) = Len(s) - n
      /\ \A i \in 1..(Len(s) - n) : b[i] = s[n + i]
  BY <1>1, SubSeqProperties
<1> HIDE DEF a, b
<1>4. Distinct(a) /\ Distinct(b)
  <2>1. Distinct(a)
    BY <1>1, <1>2 DEF Distinct
  <2>2. ASSUME NEW i \in 1..Len(b), NEW j \in 1..Len(b), b[i] = b[j]
        PROVE  i = j
    <3>1. /\ n + i \in 1..Len(s) /\ n + j \in 1..Len(s)
          /\ s[n + i] = s[n + j]
      BY <1>1, <1>3, <2>2
    <3>2. n + i = n + j
      BY <3>1 DEF Distinct
    <3> QED BY <1>1, <1>3, <3>2
  <2> QED BY <2>1, <2>2 DEF Distinct
<1>5. Of(a) \cap Of(b) = {}
  BY <1>1, <1>2, <1>3 DEF Distinct, Of
<1>6. Of(a) \cup Of(b) = Of(s)
  <2>1. ASSUME NEW i \in 1..Len(s), ~ (i <= n)
        PROVE  s[i] \in Of(b)
    <3>1. i - n \in 1..(Len(s) - n) /\ s[i] = b[i - n]
      BY <1>1, <1>3, <2>1
    <3> QED BY <1>3, <3>1 DEF Of
  <2>2. ASSUME NEW i \in 1..Len(s), i <= n
        PROVE  s[i] \in Of(a)
    BY <1>1, <1>2, <2>2 DEF Of
  <2>3. Of(a) \subseteq Of(s) /\ Of(b) \subseteq Of(s)
    BY <1>1, <1>2, <1>3 DEF Of
  <2> QED BY <2>1, <2>2, <2>3 DEF Of
<1> QED BY <1>2, <1>3, <1>4, <1>5, <1>6 DEF a, b

\* Taking the first job leaves the others.
LEMMA RemainingJobs ==
  ASSUME NEW s \in Seq(Calls), s # << >>, Distinct(s)
  PROVE  /\ Tail(s) \in Seq(Calls) /\ Len(Tail(s)) = Len(s) - 1
         /\ Distinct(Tail(s))
         /\ Of(Tail(s)) = Of(s) \ {Head(s)}
         /\ Len(s) = 1 => Of(s) = {Head(s)}
<1>1. /\ Len(s) \in Nat \ {0} /\ Head(s) = s[1]
      /\ Tail(s) \in Seq(Calls) /\ Len(Tail(s)) = Len(s) - 1
      /\ \A i \in 1..Len(Tail(s)) : Tail(s)[i] = s[i + 1]
  BY EmptySeq, HeadTailProperties
<1>2. Distinct(Tail(s))
  BY <1>1 DEF Distinct
<1>3. Of(Tail(s)) = Of(s) \ {Head(s)}
  <2>1. ASSUME NEW i \in 1..Len(s), i # 1
        PROVE  s[i] \in Of(Tail(s))
    <3>1. i - 1 \in 1..Len(Tail(s)) /\ Tail(s)[i - 1] = s[i]
      BY <1>1, <2>1
    <3> QED BY <3>1 DEF Of
  <2>2. Of(Tail(s)) \subseteq Of(s) /\ s[1] \notin Of(Tail(s))
    BY <1>1 DEF Of, Distinct
  <2> QED BY <1>1, <2>1, <2>2 DEF Of
<1>4. Len(s) = 1 => Of(s) = {Head(s)}
  BY <1>1 DEF Of
<1> QED BY <1>1, <1>2, <1>3, <1>4

-----------------------------------------------------------------------------
(* The calling goroutines *)

Labels == {"out", "once", "starting", "queue", "signal", "wait"}
Blocked == {"signal", "wait"}

\* A call that moves leaves the others where they are.
LEMMA Moves ==
  ASSUME call \in [Calls -> Labels], NEW c \in Calls, NEW l \in Labels, Goto(c, l)
  PROVE  /\ call' \in [Calls -> Labels]
         /\ \A d \in Calls : call'[d] = IF d = c THEN l ELSE call[d]
  BY DEF Goto, Labels

LEMMA CallTypes == CommonInv => call \in [Calls -> Labels]
  BY DEF CommonInv, TypeOK, Labels

\* What a step needs to show when it moves no jobs.
LEMMA JobsStay ==
  ASSUME EachOnce, UNCHANGED << queue, rounds >>, driver'.jobs = driver.jobs,
         \A c \in Calls : call'[c] \in Blocked <=> call[c] \in Blocked
  PROVE  EachOnce'
  BY DEF EachOnce, Held, Blocked

\* A step of a call before it has a job.
LEMMA CallStep ==
  ASSUME CommonInv, NEW c \in Calls,
         \/ \E n \in Names : GetUuid(c, n)
         \/ EnterOnce(c) \/ LeaveOnce(c)
  PROVE  CommonInv'
<1> USE DEF CommonInv
<1>1. PICK l \in {"once", "starting", "queue"} :
        /\ Goto(c, l)
        /\ call[c] \in {"out", "once", "starting"}
        /\ l = "queue" => consumer' \notin {"none", "init"}
  BY DEF GetUuid, EnterOnce, LeaveOnce, StartedOnce
<1>2. /\ l \in Labels
      /\ call' \in [Calls -> Labels]
      /\ \A d \in Calls : call'[d] = IF d = c THEN l ELSE call[d]
  BY <1>1, CallTypes, Moves DEF Labels
<1>3. /\ UNCHANGED << queue, driver, rounds, cancelled, crashed >>
      /\ name' \in [Calls -> Names] /\ answer' \in [Calls -> Answers]
  BY DEF GetUuid, EnterOnce, LeaveOnce, TypeOK, Answers
<1>4. /\ once' \in {"no", "running", "done"}
      /\ consumer' \in {"none", "init", "select", "gone"}
      /\ once' = "no" => consumer' = "none"
      /\ once' = "done" => consumer' \notin {"none", "init"}
      /\ consumer' # consumer => consumer = "none" /\ consumer' = "init"
  BY DEF GetUuid, EnterOnce, LeaveOnce, TypeOK, StartedOnce
<1>5. TypeOK'
  BY <1>2, <1>3, <1>4 DEF TypeOK, Labels
<1>6. StartedOnce' /\ NothingBeforeStart'
  BY <1>1, <1>2, <1>3, <1>4 DEF StartedOnce, NothingBeforeStart
<1>7. EachOnce'
  BY <1>1, <1>2, <1>3, JobsStay DEF Blocked
<1>8. JobsAreHeld' /\ StopsWhenCancelled'
  BY <1>3 DEF JobsAreHeld, StopsWhenCancelled
<1> QED BY <1>5, <1>6, <1>7, <1>8

\* The job of a call is appended, and nowhere else.
LEMMA EnqueueStep ==
  ASSUME CommonInv, NEW c \in Calls, NEW l \in Blocked, Enqueue(c, l)
  PROVE  CommonInv'
<1> USE DEF CommonInv
<1>1. /\ l \in Labels
      /\ call' \in [Calls -> Labels]
      /\ \A d \in Calls : call'[d] = IF d = c THEN l ELSE call[d]
  BY CallTypes, Moves DEF Enqueue, Labels, Blocked
<1>2. /\ call[c] = "queue" /\ queue' = Append(queue, c)
      /\ UNCHANGED << name, answer, once, driver, consumer, rounds, cancelled, crashed >>
  BY DEF Enqueue
<1>3. ~ Held(c)
  BY <1>2 DEF EachOnce
<1>4. queue \in Seq(Calls) /\ Distinct(queue)
  BY DEF TypeOK, EachOnce
<1>5. /\ queue' \in Seq(Calls)
      /\ Of(queue') = Of(queue) \cup {c}
      /\ Distinct(queue')
  BY <1>2, <1>3, <1>4, AppendedJob DEF Held
<1>6. EachOnce'
  <2>1. \A d \in Calls : Held(d)' <=> Held(d) \/ d = c
    BY <1>2, <1>5 DEF Held
  <2>2. \A d \in Calls : call'[d] \in Blocked <=> Held(d)'
    BY <1>1, <2>1 DEF EachOnce, Blocked
  <2>3. \A r \in rounds : c \notin Of(r.jobs)
    BY <1>3 DEF Held
  <2>4. c \notin Of(driver.jobs)
    BY <1>3 DEF Held
  <2>5. Of(queue') \cap Of(driver'.jobs) = {}
    BY <1>2, <1>5, <2>4 DEF EachOnce
  <2>6. \A r \in rounds' : Of(r.jobs) \cap (Of(queue') \cup Of(driver'.jobs)) = {}
    BY <1>2, <1>5, <2>3 DEF EachOnce
  <2>7. /\ Distinct(driver'.jobs) /\ Len(driver'.jobs) <= Batch
        /\ \A r \in rounds' : Distinct(r.jobs) /\ Len(r.jobs) <= Batch
        /\ \A r, s \in rounds' : r # s => Of(r.jobs) \cap Of(s.jobs) = {}
    BY <1>2 DEF EachOnce
  <2> QED BY <1>5, <2>2, <2>5, <2>6, <2>7 DEF EachOnce, Blocked
<1>7. TypeOK'
  BY <1>1, <1>2, <1>5 DEF TypeOK, Labels
<1>8. StartedOnce' /\ NothingBeforeStart'
  BY <1>1, <1>2 DEF StartedOnce, NothingBeforeStart, Blocked
<1>9. JobsAreHeld' /\ StopsWhenCancelled'
  BY <1>2 DEF JobsAreHeld, StopsWhenCancelled
<1> QED BY <1>6, <1>7, <1>8, <1>9

-----------------------------------------------------------------------------
(* The driver and the consumer *)

\* The first jobs of the queue become those of the driver.
LEMMA DequeueStep ==
  ASSUME CommonInv, driver.at \in {"select", "collect"}, Dequeue,
         UNCHANGED << call, name, answer, once, consumer, rounds, cancelled, crashed >>
  PROVE  CommonInv'
<1> USE DEF CommonInv
<1> DEFINE n == IF Batch > Len(queue) THEN Len(queue) ELSE Batch
<1>1. /\ driver' = [at |-> "send", jobs |-> SubSeq(queue, 1, n), left |-> Len(queue) - n]
      /\ queue' = SubSeq(queue, n + 1, Len(queue))
  BY DEF Dequeue, Send
<1>2. queue \in Seq(Calls) /\ Distinct(queue) /\ Len(queue) \in Nat
  BY LenProperties DEF TypeOK, EachOnce
<1>3. n \in 0..Len(queue) /\ n <= Batch /\ Len(queue) - n \in Nat
  BY <1>2, BatchAssumption
<1> HIDE DEF n
<1>4. /\ driver'.jobs \in Seq(Calls) /\ queue' \in Seq(Calls)
      /\ Len(driver'.jobs) <= Batch
      /\ Distinct(driver'.jobs) /\ Distinct(queue')
      /\ Of(driver'.jobs) \cup Of(queue') = Of(queue) /\ Of(driver'.jobs) \cap Of(queue') = {}
  BY <1>1, <1>2, <1>3, CutJobs
<1>5. Of(driver.jobs) = {}
  BY EmptyJobs DEF JobsAreHeld
<1>6. EachOnce'
  <2>1. \A c \in Calls : Held(c)' <=> Held(c)
    BY <1>4, <1>5 DEF Held
  <2> QED BY <1>4, <1>5, <2>1 DEF EachOnce
<1>7. TypeOK'
  BY <1>1, <1>3, <1>4 DEF TypeOK
<1>8. StartedOnce' /\ NothingBeforeStart'
  BY <1>1 DEF StartedOnce, NothingBeforeStart
<1>9. JobsAreHeld' /\ StopsWhenCancelled'
  BY <1>1 DEF JobsAreHeld, StopsWhenCancelled
<1> QED BY <1>6, <1>7, <1>8, <1>9

\* A step of the driver or the consumer that moves no jobs.
LEMMA DriverStep ==
  ASSUME CommonInv, DriverStops \/ ConsumerStarts \/ ConsumerStops \/ NilIteration \/ Cancel
  PROVE  CommonInv'
<1> USE DEF CommonInv, Drive
<1>1. /\ UNCHANGED << call, name, answer, once, queue, rounds >>
      /\ driver.at # "send" => driver'.at # "send" /\ driver'.jobs = << >>
      /\ driver.at = "send" => driver' = driver
      /\ driver' \in [at : {"none", "select", "collect", "send", "done", "closed"},
                      jobs : Seq(Calls), left : Nat]
  BY EmptyJobs DEF DriverStops, ConsumerStarts, ConsumerStops, NilIteration, Cancel,
     JobsAreHeld, StartedOnce, TypeOK
<1>2. EachOnce'
  BY <1>1, JobsStay DEF JobsAreHeld
<1>3. JobsAreHeld'
  BY <1>1 DEF JobsAreHeld
<1>4. TypeOK'
  BY <1>1 DEF DriverStops, ConsumerStarts, ConsumerStops, NilIteration, Cancel, TypeOK
<1>5. StartedOnce' /\ NothingBeforeStart' /\ StopsWhenCancelled'
  BY DEF DriverStops, ConsumerStarts, ConsumerStops, NilIteration, Cancel,
     StartedOnce, NothingBeforeStart, StopsWhenCancelled
<1> QED BY <1>2, <1>3, <1>4, <1>5

LEMMA NewRoundType ==
  ASSUME NEW s \in Seq(Calls), NEW n \in Nat
  PROVE  NewRound(s, n) \in Round /\ NewRound(s, n).jobs = s /\ NewRound(s, n).at = "start"
<1>1. NoReply \in Reply
  BY EmptySeq DEF NoReply, Reply
<1> QED BY <1>1 DEF NewRound, Round

LEMMA IdleRoundType == IdleRound \in Round /\ IdleRound.jobs = << >> /\ IdleRound.at = "respond"
<1>1. NewRound(<< >>, 0) \in Round /\ NewRound(<< >>, 0).jobs = << >>
  BY EmptyJobs, NewRoundType
<1> QED BY <1>1 DEF IdleRound, Round

\* The driver's jobs become those of a new round.
LEMMA HandOverStep ==
  ASSUME CommonInv, NEW l \in {"select", "done"}, HandOver(l)
  PROVE  CommonInv'
<1> USE DEF CommonInv
<1> DEFINE new == NewRound(driver.jobs, driver.left)
<1>1. /\ driver.at = "send" /\ consumer = "select"
      /\ rounds' = rounds \cup {new}
      /\ driver' = [at |-> l, jobs |-> << >>, left |-> 0]
      /\ UNCHANGED << call, name, answer, once, queue, consumer, cancelled, crashed >>
  BY DEF HandOver, Drive
<1>2. new \in Round /\ new.jobs = driver.jobs /\ new.at = "start"
  BY NewRoundType DEF TypeOK
<1> HIDE DEF new
<1>3. driver'.jobs = << >> /\ Of(driver'.jobs) = {} /\ Distinct(driver'.jobs) /\ Len(driver'.jobs) = 0
  BY <1>1, EmptyJobs
<1>4. EachOnce'
  <2>1. \A c \in Calls : Held(c)' <=> Held(c)
    BY <1>1, <1>2, <1>3 DEF Held
  <2>2. \A r \in rounds' : r \in rounds \/ (r = new /\ Of(r.jobs) = Of(driver.jobs))
    BY <1>1, <1>2
  <2>3. \A r \in rounds' : Distinct(r.jobs) /\ Len(r.jobs) <= Batch
    BY <1>1, <1>2 DEF EachOnce
  <2>4. \A r \in rounds' : Of(r.jobs) \cap Of(queue) = {}
    BY <2>2 DEF EachOnce
  <2>5. \A r, s \in rounds' : r # s => Of(r.jobs) \cap Of(s.jobs) = {}
    BY <2>2 DEF EachOnce
  <2> QED BY <1>1, <1>3, <2>1, <2>3, <2>4, <2>5, BatchAssumption DEF EachOnce
<1>5. TypeOK'
  BY <1>1, <1>2, EmptyJobs DEF TypeOK
<1>6. StartedOnce' /\ NothingBeforeStart'
  BY <1>1 DEF StartedOnce, NothingBeforeStart
<1>7. JobsAreHeld' /\ StopsWhenCancelled'
  BY <1>1, <1>2 DEF JobsAreHeld, StopsWhenCancelled
<1> QED BY <1>4, <1>5, <1>6, <1>7

-----------------------------------------------------------------------------
(* The rounds *)

\* Mojang is asked about finitely many accounts, and the profiles it returns
\* are a sequence.
LEMMA ProfilesAreSequences ==
  ASSUME TypeOK, NEW r \in rounds, NEW list \in Lists(r)
  PROVE  list \in Seq(Keys \cup {NoProfile})
<1>1. r.jobs \in Seq(Calls)
  BY DEF TypeOK, Round
<1> DEFINE s == r.jobs
           f == [i \in 1..Len(s) |-> Fold[name[s[i]]]]
           T == { Fold[name[c]] : c \in ToSet(s) }
<1>2. /\ Len(s) \in Nat
      /\ \A i \in 1..Len(s) : s[i] \in Calls
      /\ ToSet(s) = Of(s)
  BY <1>1, LenProperties, ElementOfSeq, JobsAreCalls
<1>3. T = { f[i] : i \in 1..Len(s) }
  BY <1>2 DEF Of
<1>4. f \in Surjection(1..Len(s), T)
  BY <1>3 DEF Surjection
<1>5. IsFiniteSet(T)
  <2>1. IsFiniteSet(1..Len(s))
    BY <1>2, FS_Interval
  <2> HIDE DEF s, f, T
  <2> QED BY <1>4, <2>1, FS_Surjection, Zenon
<1>6. /\ T \subseteq Keys
      /\ Asked(r) = T \cap Accounts
  BY <1>2, FoldAssumption DEF Keys, Asked, Of, TypeOK
<1>7. IsFiniteSet(Asked(r))
  BY <1>5, <1>6, FS_Intersection
<1>8. PICK listed \in {Asked(r), Asked(r) \cup {NoProfile}} : list \in SetToSeqs(listed)
  BY DEF Lists
<1>9. Cardinality(listed) \in Nat
  BY <1>7, <1>8, FS_AddElement, FS_CardinalityType
<1>10. list \in [1..Cardinality(listed) -> Keys \cup {NoProfile}]
  BY <1>6, <1>8 DEF SetToSeqs
<1> QED BY <1>9, <1>10, SeqDef

\* What a request makes of its round.
LEMMA RequestedRound ==
  ASSUME TypeOK, NEW r \in rounds, Request(r)
  PROVE  \E new \in Round :
           /\ rounds' = (rounds \ {r}) \cup {new}
           /\ new.jobs = r.jobs
           /\ new.at \in {"respond", "panic"}
           /\ crashed' <=> new.at = "panic"
<1>1. PICK result \in Results(r) :
        /\ crashed' = (result.error = "panic")
        /\ Become(r, IF crashed' THEN [r EXCEPT !.at = "panic"]
                     ELSE [r EXCEPT !.at = "respond",
                                    !.reply = [error    |-> result.error # "nil",
                                               profiles |-> result.profiles]])
  BY DEF Request
<1> DEFINE reply == [error |-> result.error # "nil", profiles |-> result.profiles]
<1>2. PICK response \in Responses, list \in Lists(r) : result = UsernamesToUuids(response, list)
  BY DEF Results
<1>3. result.profiles \in Seq(Keys \cup {NoProfile})
  <2>1. list \in Seq(Keys \cup {NoProfile}) /\ << >> \in Seq(Keys \cup {NoProfile})
    BY ProfilesAreSequences, EmptySeq
  <2> QED BY <1>2, <2>1 DEF UsernamesToUuids, Decoded
<1>4. reply \in Reply
  BY <1>3 DEF Reply
<1>5. crashed' = (result.error = "panic")
  BY <1>1
<1>6. r \in Round
  BY DEF TypeOK
<1>7. CASE crashed'
  <2>1. rounds' = (rounds \ {r}) \cup {[r EXCEPT !.at = "panic"]}
    BY <1>1, <1>7 DEF Become
  <2>2. [r EXCEPT !.at = "panic"] \in Round
    BY <1>6 DEF Round
  <2> QED BY <1>6, <1>7, <2>1, <2>2 DEF Round
<1>8. CASE ~ crashed'
  <2>1. rounds' = (rounds \ {r}) \cup {[r EXCEPT !.at = "respond", !.reply = reply]}
    BY <1>1, <1>8 DEF Become
  <2>2. [r EXCEPT !.at = "respond", !.reply = reply] \in Round
    BY <1>4, <1>6 DEF Round
  <2> QED BY <1>6, <1>8, <2>1, <2>2 DEF Round
<1> QED BY <1>7, <1>8

\* A round that keeps its jobs moves none.
LEMMA RoundKeepsJobs ==
  ASSUME EachOnce, NEW r \in rounds, NEW new,
         rounds' = (rounds \ {r}) \cup {new}, new.jobs = r.jobs,
         UNCHANGED << call, queue, driver >>
  PROVE  EachOnce'
<1>1. \A x \in rounds' : \E y \in rounds : x.jobs = y.jobs
  OBVIOUS
<1>2. \A x \in rounds : \E y \in rounds' : x.jobs = y.jobs
  OBVIOUS
<1>3. \A c \in Calls : Held(c)' <=> Held(c)
  BY <1>1, <1>2 DEF Held
<1>4. \A x, y \in rounds' : x # y => Of(x.jobs) \cap Of(y.jobs) = {}
  BY DEF EachOnce
<1> QED BY <1>1, <1>3, <1>4 DEF EachOnce

LEMMA StartStep ==
  ASSUME CommonInv, NEW r \in rounds, Start(r)
  PROVE  CommonInv'
<1> USE DEF CommonInv
<1> DEFINE new == IF r.jobs = << >> THEN IdleRound
                  ELSE [r EXCEPT !.at = "request", !.left = 0]
<1>1. /\ rounds' = (rounds \ {r}) \cup {new}
      /\ UNCHANGED << call, name, answer, once, queue, driver, consumer, cancelled, crashed >>
  BY DEF Start, Become
<1>2. /\ new \in Round /\ new.jobs = r.jobs
      /\ new.at \in {"request", "panic"} => new.jobs # << >>
  <2>1. CASE r.jobs = << >>
    BY <2>1, IdleRoundType
  <2>2. CASE r.jobs # << >>
    BY <2>2 DEF TypeOK, Round
  <2> QED BY <2>1, <2>2
<1> HIDE DEF new
<1>3. EachOnce'
  BY <1>1, <1>2, RoundKeepsJobs
<1>4. TypeOK'
  BY <1>1, <1>2 DEF TypeOK
<1> QED BY <1>1, <1>2, <1>3, <1>4 DEF StartedOnce, NothingBeforeStart, JobsAreHeld, StopsWhenCancelled

LEMMA RequestStep ==
  ASSUME CommonInv, NEW r \in rounds, Request(r)
  PROVE  CommonInv'
<1> USE DEF CommonInv
<1>1. PICK new \in Round :
        /\ rounds' = (rounds \ {r}) \cup {new}
        /\ new.jobs = r.jobs
        /\ new.at \in {"respond", "panic"}
        /\ crashed' <=> new.at = "panic"
  BY RequestedRound
<1>2. /\ r.at = "request" /\ r.jobs # << >>
      /\ crashed' \in BOOLEAN
      /\ UNCHANGED << call, name, answer, once, queue, driver, consumer, cancelled >>
  BY DEF Request, JobsAreHeld
<1>3. EachOnce'
  BY <1>1, <1>2, RoundKeepsJobs
<1>4. TypeOK'
  BY <1>1, <1>2 DEF TypeOK
<1> QED BY <1>1, <1>2, <1>3, <1>4 DEF StartedOnce, NothingBeforeStart, JobsAreHeld, StopsWhenCancelled

\* The first of several profiles, as the first of several positions, exists.
LEMMA FirstPosition ==
  ASSUME NEW n \in Nat, NEW M \in SUBSET (1..n), M # {}
  PROVE  \E i \in M : \A j \in M : i <= j
<1> DEFINE UpTo(i) == { j \in M : j <= i }
           T == { UpTo(i) : i \in M }
<1>1. IsFiniteSet(M)
  <2>1. IsFiniteSet(1..n)
    BY FS_Interval
  <2> QED BY <2>1, FS_Subset
<1>2. IsWellFoundedOn(StrictSubsetOrdering(M), FiniteSubsetsOf(M))
  BY FS_StrictSubsetOrderingWellFounded
<1>3. T \subseteq FiniteSubsetsOf(M) /\ T # {}
  <2>1. FiniteSubsetsOf(M) = SUBSET M
    BY <1>1, FS_FiniteSubsetsOfFinite
  <2>2. T \subseteq SUBSET M
    OBVIOUS
  <2>3. PICK i \in M : TRUE
    OBVIOUS
  <2>4. UpTo(i) \in T
    BY <2>3
  <2> HIDE DEF T
  <2> QED BY <2>1, <2>2, <2>4
<1>4. PICK A \in T : \A B \in T : << B, A >> \notin StrictSubsetOrdering(M)
  BY <1>2, <1>3, WFMin
<1>5. PICK i \in M : A = UpTo(i)
  BY <1>4
<1>6. ASSUME NEW j \in M, ~ (i <= j)
      PROVE  FALSE
  <2>1. j < i /\ i <= i
    BY <1>6
  <2>2. UpTo(j) \subseteq UpTo(i) /\ i \in UpTo(i) /\ i \notin UpTo(j)
    <3>1. ASSUME NEW k \in M, k <= j
          PROVE  k <= i
      BY <2>1, <3>1
    <3>2. ~ (i <= j)
      BY <2>1
    <3> QED BY <2>1, <3>1, <3>2, Zenon
  <2>3. UpTo(i) \subseteq M /\ UpTo(j) \in T
    OBVIOUS
  <2> HIDE DEF UpTo, T
  <2>4. << UpTo(j), A >> \in StrictSubsetOrdering(M)
    BY <1>5, <2>2, <2>3 DEF StrictSubsetOrdering
  <2> QED BY <1>4, <2>3, <2>4
<1> QED BY <1>6

\* A reply tells a call about n an error, the account of n, or that there is none.
LEMMA FoundAnswer ==
  ASSUME NEW reply \in Reply, NEW n \in Names
  PROVE  /\ Found(reply, n) = IF reply.error THEN Failed
                              ELSE IF Fold[n] \in Of(reply.profiles) THEN Fold[n]
                              ELSE NoProfile
         /\ Found(reply, n) \in Answers
<1> DEFINE M == { i \in 1..Len(reply.profiles) : reply.profiles[i] = Fold[n] }
           first == CHOOSE i \in M : \A j \in M : i <= j
<1>1. reply.profiles \in Seq(Keys \cup {NoProfile}) /\ Len(reply.profiles) \in Nat
  BY LenProperties DEF Reply
<1>2. M # {} => first \in M
  BY <1>1, FirstPosition
<1>3. M # {} <=> Fold[n] \in Of(reply.profiles)
  BY DEF Of
<1>4. Found(reply, n) = IF reply.error THEN Failed
                        ELSE IF M = {} THEN NoProfile ELSE reply.profiles[first]
  BY DEF Found
<1>5. Fold[n] \in Keys
  BY DEF Keys
<1> HIDE DEF first
<1>6. M # {} => reply.profiles[first] = Fold[n]
  BY <1>2
<1> HIDE DEF M
<1> QED BY <1>3, <1>4, <1>5, <1>6 DEF Answers

\* The first job of a round is answered and gone.
LEMMA RespondStep ==
  ASSUME CommonInv, NEW r \in rounds, Respond(r)
  PROVE  CommonInv'
<1> USE DEF CommonInv
<1> DEFINE c == Head(r.jobs)
           new == IF Len(r.jobs) = 1 THEN IdleRound ELSE [r EXCEPT !.jobs = Tail(@)]
<1>1. /\ r.at = "respond" /\ r.jobs # << >>
      /\ call[c] = "wait" /\ Goto(c, "out")
      /\ answer' = [answer EXCEPT ![c] = Found(r.reply, name[c])]
      /\ rounds' = (rounds \ {r}) \cup {new}
      /\ UNCHANGED << name, once, queue, driver, consumer, cancelled, crashed >>
  BY DEF Respond, Become
<1>2. /\ r \in Round /\ r.jobs \in Seq(Calls) /\ r.reply \in Reply
      /\ Distinct(r.jobs) /\ Len(r.jobs) <= Batch
  BY DEF TypeOK, EachOnce, Round
<1>3. /\ c \in Calls /\ c \in Of(r.jobs) /\ Len(r.jobs) \in Nat \ {0}
      /\ Tail(r.jobs) \in Seq(Calls) /\ Len(Tail(r.jobs)) = Len(r.jobs) - 1
      /\ Distinct(Tail(r.jobs))
      /\ Of(Tail(r.jobs)) = Of(r.jobs) \ {c}
      /\ Len(r.jobs) = 1 => Of(r.jobs) = {c}
  BY <1>1, <1>2, FirstJob, RemainingJobs
<1>4. /\ new \in Round /\ new.at = "respond"
      /\ Distinct(new.jobs) /\ Len(new.jobs) <= Batch
      /\ Of(new.jobs) = Of(r.jobs) \ {c}
  <2>1. CASE Len(r.jobs) = 1
    BY <1>3, <2>1, IdleRoundType, EmptyJobs, BatchAssumption
  <2>2. CASE Len(r.jobs) # 1
    <3>1. new = [r EXCEPT !.jobs = Tail(r.jobs)]
      BY <2>2
    <3>2. new \in Round /\ new.jobs = Tail(r.jobs) /\ new.at = "respond"
      BY <1>1, <1>2, <1>3, <3>1 DEF Round
    <3>3. Len(Tail(r.jobs)) <= Batch
      BY <1>2, <1>3, BatchAssumption
    <3> HIDE DEF new, c
    <3> QED BY <1>3, <3>2, <3>3
  <2> QED BY <2>1, <2>2
<1>5. name[c] \in Names
  BY <1>3 DEF TypeOK
<1>6. Found(r.reply, name[c]) \in Answers
  BY <1>2, <1>5, FoundAnswer
<1> HIDE DEF c, new
<1>7. /\ call' \in [Calls -> Labels]
      /\ \A d \in Calls : call'[d] = IF d = c THEN "out" ELSE call[d]
  BY <1>1, <1>3, CallTypes, Moves DEF Labels
<1>8. EachOnce'
  <2>1. /\ c \notin Of(queue) /\ c \notin Of(driver.jobs)
        /\ \A s \in rounds : s # r => c \notin Of(s.jobs)
    BY <1>3 DEF EachOnce
  <2>2. \A s \in rounds' : s = new \/ (s \in rounds /\ s # r)
    BY <1>1
  <2>3. \A d \in Calls : Held(d)' <=> Held(d) /\ d # c
    <3>1. ASSUME NEW d \in Calls, Held(d)'
          PROVE  Held(d) /\ d # c
      BY <1>1, <1>4, <2>1, <2>2, <3>1 DEF Held
    <3>2. ASSUME NEW d \in Calls, Held(d), d # c
          PROVE  Held(d)'
      <4>1. CASE d \in Of(queue) \/ d \in Of(driver.jobs)
        BY <1>1, <4>1 DEF Held
      <4>2. ASSUME NEW s \in rounds, d \in Of(s.jobs)
            PROVE  Held(d)'
        BY <1>1, <1>4, <3>2, <4>2 DEF Held
      <4> QED BY <3>2, <4>1, <4>2 DEF Held
    <3> QED BY <3>1, <3>2
  <2>4. \A d \in Calls : call'[d] \in {"signal", "wait"} <=> Held(d)'
    BY <1>7, <2>3 DEF EachOnce
  <2>5. \A s \in rounds' : /\ Distinct(s.jobs) /\ Len(s.jobs) <= Batch
                           /\ Of(s.jobs) \cap (Of(queue) \cup Of(driver.jobs)) = {}
    BY <1>4, <2>2 DEF EachOnce
  <2>6. \A s, t \in rounds' : s # t => Of(s.jobs) \cap Of(t.jobs) = {}
    BY <1>4, <2>2 DEF EachOnce
  <2> QED BY <1>1, <2>4, <2>5, <2>6 DEF EachOnce
<1>9. TypeOK'
  BY <1>1, <1>4, <1>6, <1>7 DEF TypeOK, Labels
<1>10. StartedOnce' /\ NothingBeforeStart'
  BY <1>1, <1>7 DEF StartedOnce, NothingBeforeStart
<1>11. JobsAreHeld' /\ StopsWhenCancelled'
  BY <1>1, <1>4 DEF JobsAreHeld, StopsWhenCancelled
<1> QED BY <1>8, <1>9, <1>10, <1>11

\* A round without jobs leaves none behind.
LEMMA FinishStep ==
  ASSUME CommonInv, NEW r \in rounds, Finish(r)
  PROVE  CommonInv'
<1> USE DEF CommonInv
<1>1. /\ r.at = "respond" /\ r.jobs = << >> /\ Of(r.jobs) = {}
      /\ rounds' = rounds \ {r}
      /\ driver' = IF driver.at = "done" THEN [at |-> "select", jobs |-> << >>, left |-> 0]
                   ELSE driver
      /\ UNCHANGED << call, name, answer, once, queue, consumer, cancelled, crashed >>
  BY EmptyJobs DEF Finish, Drive
<1>2. /\ driver'.jobs = driver.jobs
      /\ driver' \in [at : {"none", "select", "collect", "send", "done", "closed"},
                      jobs : Seq(Calls), left : Nat]
  BY <1>1, EmptyJobs DEF JobsAreHeld, TypeOK
<1>3. EachOnce'
  <2>1. \A d \in Calls : Held(d)' <=> Held(d)
    BY <1>1, <1>2 DEF Held
  <2> QED BY <1>1, <1>2, <2>1 DEF EachOnce
<1>4. TypeOK'
  BY <1>1, <1>2 DEF TypeOK
<1>5. StartedOnce' /\ NothingBeforeStart'
  BY <1>1 DEF StartedOnce, NothingBeforeStart
<1>6. JobsAreHeld' /\ StopsWhenCancelled'
  BY <1>1, <1>2 DEF JobsAreHeld, StopsWhenCancelled
<1> QED BY <1>3, <1>4, <1>5, <1>6

-----------------------------------------------------------------------------
(* The steps of both strategies together *)

LEMMA CommonInit == Init => CommonInv
<1> SUFFICES ASSUME Init
             PROVE  CommonInv
  OBVIOUS
<1> USE DEF Init
<1>1. (CHOOSE n \in Names : TRUE) \in Names
  BY FoldAssumption
<1>2. TypeOK
  BY <1>1, EmptyJobs DEF TypeOK, Answers
<1>3. EachOnce
  BY EmptyJobs, BatchAssumption DEF EachOnce, Held
<1> QED BY <1>2, <1>3 DEF CommonInv, StartedOnce, NothingBeforeStart, JobsAreHeld, StopsWhenCancelled

\* A step that changes nothing, or only brings the process down.
LEMMA CrashStep ==
  ASSUME CommonInv, crashed' \in BOOLEAN,
         UNCHANGED << call, name, answer, once, queue, driver, consumer, rounds, cancelled >>
  PROVE  CommonInv'
<1>1. EachOnce'
  BY JobsStay DEF CommonInv
<1> QED BY <1>1 DEF CommonInv, TypeOK, StartedOnce, NothingBeforeStart, JobsAreHeld, StopsWhenCancelled

LEMMA SilentStep ==
  ASSUME CommonInv, SilentNext
  PROVE  CommonInv'
<1>1. CASE TimerFires
  BY <1>1, DequeueStep DEF TimerFires
<1>2. ASSUME NEW r \in rounds, NilProfile(r)
      PROVE  CommonInv'
  BY <1>2, CrashStep DEF NilProfile
<1> QED BY <1>1, <1>2, CallStep, DriverStep, RespondStep, FinishStep DEF SilentNext

LEMMA CommonStep ==
  ASSUME CommonInv, CommonNext
  PROVE  CommonInv'
  BY SilentStep, CallStep, StartStep, RequestStep DEF CommonNext

\* Only the consumer, on the closed channel, and Mojang's responses bring the
\* process down.
LEMMA CommonPanics ==
  ASSUME CommonInv, CommonNext
  PROVE  NoPanicInService'
<1>1. CASE NilIteration
  BY <1>1 DEF NilIteration, CommonInv, StopsWhenCancelled, NoPanicInService
<1>2. ASSUME NEW r \in rounds, Request(r)
      PROVE  NoPanicInService'
  BY <1>2, RequestedRound DEF CommonInv, NoPanicInService, Fatal
<1>3. ASSUME ~ crashed, UNCHANGED crashed
      PROVE  NoPanicInService'
  BY <1>3 DEF NoPanicInService
<1>4. CASE \E c \in Calls : (\E n \in Names : GetUuid(c, n)) \/ EnterOnce(c) \/ LeaveOnce(c)
  BY <1>3, <1>4 DEF GetUuid, EnterOnce, LeaveOnce
<1>5. CASE TimerFires \/ DriverStops \/ ConsumerStarts \/ ConsumerStops \/ Cancel
  BY <1>3, <1>5 DEF TimerFires, DriverStops, ConsumerStarts, ConsumerStops, Cancel
<1>6. CASE \E r \in rounds : Start(r) \/ Respond(r) \/ Finish(r)
  BY <1>3, <1>6 DEF Start, Respond, Finish
<1>7. ASSUME NEW r \in rounds, NilProfile(r)
      PROVE  NoPanicInService'
  <2>1. Fatal(r)' /\ r \in rounds'
    BY <1>7 DEF NilProfile, Fatal
  <2> QED BY <2>1 DEF NoPanicInService
<1> QED BY <1>1, <1>2, <1>4, <1>5, <1>6, <1>7 DEF CommonNext, SilentNext

-----------------------------------------------------------------------------
(* Where the job of a call is *)

\* How often a call is in a sequence that has nobody twice.
LEMMA Positions ==
  ASSUME NEW s, Len(s) \in Nat, Distinct(s), NEW c
  PROVE  Cardinality({ i \in 1..Len(s) : s[i] = c }) = IF c \in Of(s) THEN 1 ELSE 0
<1> DEFINE P == { i \in 1..Len(s) : s[i] = c }
<1>1. CASE c \in Of(s)
  <2>1. PICK i \in 1..Len(s) : s[i] = c
    BY <1>1 DEF Of
  <2>2. P = {i}
    BY <2>1 DEF Distinct
  <2> QED BY <1>1, <2>2, FS_Singleton
<1>2. CASE c \notin Of(s)
  <2>1. P = {}
    BY <1>2 DEF Of
  <2> QED BY <1>2, <2>1, FS_EmptySet
<1> QED BY <1>1, <1>2

\* In how many places of how many rounds the job of c is.
LEMMA PositionsInRounds ==
  ASSUME CommonInv, NEW c \in Calls
  PROVE  Cardinality(Places(c).working) = IF \E r \in rounds : c \in Of(r.jobs) THEN 1 ELSE 0
<1> DEFINE W == { p \in rounds \X (1..Batch) : p[2] <= Len(p[1].jobs) /\ p[1].jobs[p[2]] = c }
<1>1. Places(c).working = W
  BY DEF Places
<1>2. \A r \in rounds : Len(r.jobs) \in Nat /\ Len(r.jobs) <= Batch /\ Distinct(r.jobs)
  BY LenProperties DEF CommonInv, TypeOK, Round, EachOnce
<1>3. CASE \E r \in rounds : c \in Of(r.jobs)
  <2>1. PICK r \in rounds : c \in Of(r.jobs)
    BY <1>3
  <2>2. PICK i \in 1..Len(r.jobs) : r.jobs[i] = c
    BY <2>1 DEF Of
  <2>3. << r, i >> \in W
    BY <1>2, <2>2, BatchAssumption
  <2>4. ASSUME NEW s \in rounds, NEW j \in 1..Batch, j <= Len(s.jobs), s.jobs[j] = c
        PROVE  s = r /\ j = i
    <3>1. j \in 1..Len(s.jobs)
      BY <1>2, <2>4
    <3>2. c \in Of(s.jobs)
      BY <2>4, <3>1 DEF Of
    <3>3. s = r
      BY <2>1, <3>2 DEF CommonInv, EachOnce
    <3> QED BY <1>2, <2>2, <2>4, <3>1, <3>3 DEF Distinct
  <2>5. W = { << r, i >> }
    BY <2>3, <2>4
  <2> QED BY <1>1, <1>3, <2>5, FS_Singleton
<1>4. CASE ~ \E r \in rounds : c \in Of(r.jobs)
  <2>1. ASSUME NEW s \in rounds, NEW j \in 1..Batch, j <= Len(s.jobs), s.jobs[j] = c
        PROVE  FALSE
    <3>1. j \in 1..Len(s.jobs)
      BY <1>2, <2>1
    <3> QED BY <1>4, <2>1, <3>1 DEF Of
  <2>2. W = {}
    BY <2>1
  <2> QED BY <1>1, <1>4, <2>2, FS_EmptySet
<1> QED BY <1>3, <1>4

LEMMA ConservedJobs == CommonInv => JobsAreConserved
<1> SUFFICES ASSUME CommonInv, NEW c \in Calls
             PROVE  Cardinality(Places(c).queued) + Cardinality(Places(c).sent)
                      + Cardinality(Places(c).working)
                    = IF call[c] \in {"signal", "wait"} THEN 1 ELSE 0
  BY DEF JobsAreConserved
<1>1. /\ Len(queue) \in Nat /\ Distinct(queue)
      /\ Len(driver.jobs) \in Nat /\ Distinct(driver.jobs)
  BY LenProperties DEF CommonInv, TypeOK, EachOnce
<1>2. Cardinality(Places(c).queued) = IF c \in Of(queue) THEN 1 ELSE 0
  BY <1>1, Positions DEF Places
<1>3. Cardinality(Places(c).sent) = IF c \in Of(driver.jobs) THEN 1 ELSE 0
  BY <1>1, Positions DEF Places
<1>4. Cardinality(Places(c).working) = IF \E r \in rounds : c \in Of(r.jobs) THEN 1 ELSE 0
  BY PositionsInRounds
<1> QED BY <1>2, <1>3, <1>4 DEF CommonInv, EachOnce, Held

-----------------------------------------------------------------------------
(* The exchange with Mojang that both strategies implement *)

\* A round has the answer of a call if it responds, has its job, and the search
\* for its profile does not end at a nil.
Knows(r, c) == r.at = "respond" /\ c \in Of(r.jobs) /\ ~ HitsNil(r.reply, name[c])

LEMMA RoundOfJob ==
  ASSUME CommonInv, NEW c \in Calls
  PROVE  /\ RoundOf(c) = { r \in rounds : Knows(r, c) }
         /\ \A r \in rounds : c \in Of(r.jobs) =>
              RoundOf(c) = IF Knows(r, c) THEN {r} ELSE {}
         /\ call[c] \notin Blocked => RoundOf(c) = {}
<1>1. \A r \in rounds : ToSet(r.jobs) = Of(r.jobs)
  BY JobsAreCalls DEF CommonInv, TypeOK, Round
<1>2. RoundOf(c) = { r \in rounds : Knows(r, c) }
  BY <1>1 DEF RoundOf, Knows
<1>3. \A r, s \in rounds : c \in Of(r.jobs) /\ c \in Of(s.jobs) => r = s
  BY DEF CommonInv, EachOnce
<1>4. call[c] \notin Blocked => \A r \in rounds : c \notin Of(r.jobs)
  BY DEF CommonInv, EachOnce, Held, Blocked
<1>5. \A r \in rounds : Knows(r, c) => c \in Of(r.jobs)
  BY DEF Knows
<1> QED BY <1>2, <1>3, <1>4, <1>5

\* The same for all calls, and after a step that keeps the invariant.
RoundsOfJobs ==
  \A c \in Calls :
    /\ RoundOf(c) = { r \in rounds : Knows(r, c) }
    /\ \A r \in rounds : c \in Of(r.jobs) =>
         RoundOf(c) = IF Knows(r, c) THEN {r} ELSE {}
    /\ call[c] \notin Blocked => RoundOf(c) = {}

LEMMA NextRoundOfJob == CommonInv' => RoundsOfJobs'
<1>1. CommonInv => RoundsOfJobs
  BY RoundOfJob DEF RoundsOfJobs
<1> QED BY <1>1, PTL

LEMMA InitRefines == Init => Uuids!Init
<1> SUFFICES ASSUME Init
             PROVE  Uuids!Init
  OBVIOUS
<1>1. CommonInv
  BY CommonInit
<1>2. \A c \in Calls : RoundOf(c) = {}
  BY <1>1, RoundOfJob DEF Init, Blocked
<1>3. name \in [Calls -> Names]
  BY <1>1 DEF CommonInv, TypeOK
<1>4. \A c \in Calls : Phase(c) = "out" /\ Told(c) = NoProfile
  BY <1>2 DEF Init, Phase, Told
<1> QED BY <1>3, <1>4 DEF Uuids!Init

\* What a call with one round is told, before and after a step.
LEMMA ToldByRound ==
  /\ \A c \in Calls : \A r : RoundOf(c) = {r} => Told(c) = Found(r.reply, name[c])
  /\ \A c \in Calls : RoundOf(c) = {} => Told(c) = answer[c]
<1>1. \A r : (CHOOSE x \in {r} : TRUE) = r
  OBVIOUS
<1> QED BY <1>1 DEF Told

LEMMA NextToldByRound ==
  /\ \A c \in Calls : \A r : RoundOf(c)' = {r} => Told(c)' = Found(r.reply, name'[c])
  /\ \A c \in Calls : RoundOf(c)' = {} => Told(c)' = answer'[c]
<1>1. \A r : (CHOOSE x \in {r} : TRUE) = r
  OBVIOUS
<1> QED BY <1>1 DEF Told

\* The same round tells a call the same.
LEMMA SameTold ==
  ASSUME CommonInv, NEW c \in Calls, RoundOf(c)' = RoundOf(c),
         name'[c] = name[c], answer'[c] = answer[c]
  PROVE  Told(c)' = Told(c)
<1>1. CASE RoundOf(c) = {}
  <2>1. Told(c) = answer[c]
    BY <1>1, ToldByRound
  <2>2. RoundOf(c)' = {}
    BY <1>1
  <2>3. Told(c)' = answer'[c]
    BY <2>2, NextToldByRound
  <2> QED BY <2>1, <2>3
<1>2. ASSUME NEW r \in rounds, RoundOf(c) = {r}
      PROVE  Told(c)' = Told(c)
  <2>1. Told(c) = Found(r.reply, name[c])
    BY <1>2, ToldByRound
  <2>2. RoundOf(c)' = {r}
    BY <1>2
  <2>3. Told(c)' = Found(r.reply, name'[c])
    BY <2>2, NextToldByRound
  <2> QED BY <2>1, <2>3
<1>3. RoundOf(c) = {} \/ \E r \in rounds : RoundOf(c) = {r}
  <2>1. CASE \E r \in rounds : c \in Of(r.jobs)
    BY <2>1, RoundOfJob
  <2>2. CASE ~ \E r \in rounds : c \in Of(r.jobs)
    BY <2>2, RoundOfJob DEF Knows
  <2> QED BY <2>1, <2>2
<1> QED BY <1>1, <1>2, <1>3

\* A step in which no call begins or returns and no reply arrives is not seen.
LEMMA Unseen ==
  ASSUME CommonInv,
         \A c \in Calls : RoundOf(c)' = RoundOf(c),
         \A c \in Calls : call'[c] = "out" <=> call[c] = "out",
         UNCHANGED << name, answer >>
  PROVE  UNCHANGED Uuids!vars
<1>1. \A c \in Calls : Phase(c)' = Phase(c)
  BY DEF Phase
<1>2. \A c \in Calls : Told(c)' = Told(c)
  BY SameTold
<1> QED BY <1>1, <1>2 DEF Uuids!vars

\* GetUuid begins.
LEMMA GetUuidRefines ==
  ASSUME CommonInv, NEW c \in Calls, NEW n \in Names, GetUuid(c, n)
  PROVE  Uuids!Ask(c, n)
<1>1. /\ call[c] = "out" /\ Goto(c, "once")
      /\ name' = [name EXCEPT ![c] = n]
      /\ answer' = [answer EXCEPT ![c] = NoProfile]
      /\ UNCHANGED rounds
  BY DEF GetUuid
<1>2. \A d \in Calls : call'[d] = IF d = c THEN "once" ELSE call[d]
  BY <1>1, CallTypes, Moves DEF Labels
<1>3. \A d \in Calls : RoundOf(d)' = RoundOf(d)
  <2>1. \A d \in Calls : d # c => name'[d] = name[d]
    BY <1>1 DEF CommonInv, TypeOK
  <2>2. \A r \in rounds : c \notin ToSet(r.jobs)
    BY <1>1, JobsAreCalls DEF CommonInv, TypeOK, Round, EachOnce, Held
  <2> QED BY <1>1, <2>1, <2>2 DEF RoundOf
<1>4. RoundOf(c) = {}
  BY <1>1, RoundOfJob DEF Blocked
<1>5. \A d \in Calls : Phase(d)' = IF d = c THEN "pending" ELSE Phase(d)
  BY <1>2, <1>3, <1>4 DEF Phase
<1>6. Phase(c) = "out"
  BY <1>1 DEF Phase
<1>7. ASSUME NEW d \in Calls
      PROVE  Told(d)' = IF d = c THEN NoProfile ELSE Told(d)
  <2>1. CASE d # c
    <3>1. name'[d] = name[d] /\ answer'[d] = answer[d]
      BY <1>1, <2>1 DEF CommonInv, TypeOK
    <3> QED BY <1>3, <2>1, <3>1, SameTold
  <2>2. CASE d = c
    <3>1. RoundOf(c)' = {} /\ answer'[c] = NoProfile
      BY <1>1, <1>3, <1>4 DEF CommonInv, TypeOK
    <3> QED BY <2>2, <3>1, NextToldByRound
  <2> QED BY <2>1, <2>2
<1> QED BY <1>1, <1>5, <1>6, <1>7 DEF Uuids!Ask

\* A step that neither adds nor removes a round with the reply of a call.
LEMMA SameRounds ==
  ASSUME CommonInv, CommonInv', NEW c \in Calls, name'[c] = name[c],
         \A x : x \in rounds' /\ x.at = "respond" /\ c \in Of(x.jobs)
                <=> x \in rounds /\ x.at = "respond" /\ c \in Of(x.jobs)
  PROVE  RoundOf(c)' = RoundOf(c)
<1>1. RoundOf(c) = { x \in rounds : Knows(x, c) }
  BY RoundOfJob
<1>2. RoundOf(c)' = { x \in rounds' : Knows(x, c)' }
  BY NextRoundOfJob DEF RoundsOfJobs
<1> QED BY <1>1, <1>2 DEF Knows

\* A round becomes one whose reply is not, or no longer, to be heard by anybody.
LEMMA QuietRound ==
  ASSUME CommonInv, CommonInv', NEW r \in rounds, NEW new,
         rounds' = (rounds \ {r}) \cup {new}, UNCHANGED name,
         r.at = "respond" => r.jobs = << >>,
         new.at = "respond" => new.jobs = << >>
  PROVE  \A c \in Calls : RoundOf(c)' = RoundOf(c)
<1> SUFFICES ASSUME NEW c \in Calls
             PROVE  RoundOf(c)' = RoundOf(c)
  OBVIOUS
<1>1. /\ ~ (r.at = "respond" /\ c \in Of(r.jobs))
      /\ ~ (new.at = "respond" /\ c \in Of(new.jobs))
  BY EmptyJobs
<1>2. \A x : x \in rounds' /\ x.at = "respond" /\ c \in Of(x.jobs)
              <=> x \in rounds /\ x.at = "respond" /\ c \in Of(x.jobs)
  BY <1>1
<1> QED BY <1>2, SameRounds

\* Changing a round does not matter to a call whose job it does not have.
LEMMA OtherRounds ==
  ASSUME CommonInv, CommonInv', NEW r \in rounds, NEW new,
         rounds' = (rounds \ {r}) \cup {new}, UNCHANGED name,
         NEW c \in Calls, c \notin Of(r.jobs), c \notin Of(new.jobs)
  PROVE  RoundOf(c)' = RoundOf(c)
<1>1. \A x : x \in rounds' /\ c \in Of(x.jobs) <=> x \in rounds /\ c \in Of(x.jobs)
  OBVIOUS
<1> QED BY <1>1, SameRounds

\* If it gets a reply, a request settles at once the calls of its round that can
\* be answered, if there are any.
LEMMA RequestRefines ==
  ASSUME CommonInv, NEW r \in rounds, Request(r)
  PROVE  (\E S \in SUBSET Calls : Uuids!Exchange(S)) \/ UNCHANGED Uuids!vars
<1>1. CommonInv'
  BY RequestStep
<1>2. PICK new \in Round :
        /\ rounds' = (rounds \ {r}) \cup {new}
        /\ new.jobs = r.jobs
        /\ new.at \in {"respond", "panic"}
  BY RequestedRound DEF CommonInv
<1>3. /\ r.at = "request" /\ r.jobs # << >>
      /\ UNCHANGED << call, name, answer >>
  BY DEF Request, CommonInv, JobsAreHeld
<1>4. CASE new.at = "panic"
  <2>1. \A c \in Calls : RoundOf(c)' = RoundOf(c)
    BY <1>1, <1>2, <1>3, <1>4, QuietRound
  <2> QED BY <1>3, <2>1, Unseen
<1>5. CASE new.at = "respond"
  <2> DEFINE All == Of(r.jobs)
             S == { c \in All : ~ HitsNil(new.reply, name[c]) }
             found == Of(new.reply.profiles) \ {NoProfile}
  <2>1. /\ r.jobs \in Seq(Calls) /\ Len(r.jobs) \in Nat /\ Len(r.jobs) <= Batch
        /\ All \subseteq Calls /\ S \subseteq Calls
    BY <1>3, JobsAreCalls DEF CommonInv, TypeOK, Round, EachOnce
  <2>2. Cardinality(S) <= Batch
    <3>1. r.jobs \in Surjection(1..Len(r.jobs), All)
      BY <2>1, LenProperties, ElementOfSeq DEF Surjection, Of
    <3>2. IsFiniteSet(1..Len(r.jobs)) /\ Cardinality(1..Len(r.jobs)) = Len(r.jobs)
      <4>1. 1 \in Int /\ Len(r.jobs) \in Int
        BY <2>1
      <4>2. Cardinality(1..Len(r.jobs)) = IF 1 > Len(r.jobs) THEN 0 ELSE Len(r.jobs) - 1 + 1
        BY <4>1, FS_Interval
      <4> QED BY <2>1, <4>1, <4>2, FS_Interval
    <3>3. IsFiniteSet(All) /\ Cardinality(All) <= Len(r.jobs)
      BY <3>1, <3>2, FS_Surjection
    <3>4. S \subseteq All
      OBVIOUS
    <3> HIDE DEF All, S
    <3>5. Cardinality(S) <= Cardinality(All) /\ Cardinality(S) \in Nat /\ Cardinality(All) \in Nat
      BY <3>3, <3>4, FS_Subset, FS_CardinalityType
    <3> QED BY <2>1, <3>3, <3>5, BatchAssumption
  <2>3. ASSUME NEW c \in All
        PROVE  /\ call[c] # "out"
               /\ RoundOf(c) = {}
               /\ RoundOf(c)' = IF c \in S THEN {new} ELSE {}
    <3>1. c \in Calls
      BY <2>1, <2>3
    <3>2. RoundOf(c) = {}
      BY <1>3, <2>3, <3>1, RoundOfJob DEF Knows
    <3>3. new \in rounds' /\ c \in Of(new.jobs)
      BY <1>2, <2>3
    <3>4. Knows(new, c)' <=> c \in S
      BY <1>3, <1>5, <2>3, <3>3 DEF Knows
    <3>5. RoundOf(c)' = IF Knows(new, c)' THEN {new} ELSE {}
      BY <1>1, <3>1, <3>3, NextRoundOfJob DEF RoundsOfJobs
    <3>6. call[c] # "out"
      BY <2>3, <3>1 DEF CommonInv, EachOnce, Held
    <3> QED BY <3>2, <3>4, <3>5, <3>6
  <2>4. ASSUME NEW c \in Calls, c \notin S
        PROVE  RoundOf(c)' = RoundOf(c)
    <3>1. CASE c \in All
      BY <2>3, <2>4, <3>1
    <3>2. CASE c \notin All
      <4>1. c \notin Of(new.jobs)
        BY <1>2, <3>2
      <4> QED BY <1>1, <1>2, <1>3, <3>2, <4>1, OtherRounds
    <3> QED BY <3>1, <3>2
  <2>5. \A c \in Calls : name[c] \in Names /\ Fold[name[c]] \in Keys
    BY FoldAssumption DEF CommonInv, TypeOK, Keys
  <2>6. new.reply \in Reply /\ found \subseteq Keys
    BY LenProperties, ElementOfSeq DEF Round, Reply, Of
  <2>7. \A c \in Calls : Phase(c)' = IF c \in S THEN "settled" ELSE Phase(c)
    <3>1. \A c \in S : call[c] # "out" /\ RoundOf(c)' = {new}
      BY <2>3
    <3> HIDE DEF S
    <3> QED BY <1>3, <2>4, <3>1 DEF Phase
  <2>8. \A c \in S : Phase(c) = "pending"
    BY <2>3 DEF Phase
  <2>9. \A c \in Calls : Told(c)' = IF c \notin S THEN Told(c)
                                    ELSE Found(new.reply, name[c])
    <3>1. ASSUME NEW c \in S
          PROVE  Told(c)' = Found(new.reply, name[c])
      BY <1>3, <2>1, <2>3, <3>1, NextToldByRound
    <3>2. ASSUME NEW c \in Calls, c \notin S
          PROVE  Told(c)' = Told(c)
      BY <1>3, <2>4, <3>2, SameTold
    <3> QED BY <3>1, <3>2
  <2>10. \A c \in Calls :
           Found(new.reply, name[c]) = IF new.reply.error THEN Failed
                                       ELSE IF Fold[name[c]] \in found THEN Fold[name[c]]
                                       ELSE NoProfile
    <3>1. \A c \in Calls : Fold[name[c]] # NoProfile
      BY <2>5, MarkersAssumption
    <3> QED BY <2>5, <2>6, <3>1, FoundAnswer
  <2>11. found \in SUBSET Uuids!Keys
    BY <2>6 DEF Uuids!Keys, Keys
  <2> HIDE DEF All, S, found
  <2>12. \/ [c \in Calls |-> Told(c)]' = [c \in Calls |-> IF c \in S THEN Failed ELSE Told(c)]
         \/ [c \in Calls |-> Told(c)]' =
              [c \in Calls |-> IF c \notin S THEN Told(c)
                               ELSE IF Fold[name[c]] \in found THEN Fold[name[c]] ELSE NoProfile]
    BY <2>9, <2>10
  <2>13. Uuids!Cardinality(S) = Cardinality(S)
    BY DEF Uuids!Cardinality, Cardinality
  <2>14. CASE S # {}
    <3>1. Uuids!Exchange(S)
      BY <1>3, <2>1, <2>2, <2>7, <2>8, <2>11, <2>12, <2>13, <2>14 DEF Uuids!Exchange
    <3> QED BY <2>1, <3>1
  <2>15. CASE S = {}
    BY <1>3, <2>4, <2>15, Unseen
  <2> QED BY <2>14, <2>15
<1> QED BY <1>2, <1>4, <1>5

\* A call that is answered leaves with what it was told.
LEMMA RespondRefines ==
  ASSUME CommonInv, NEW r \in rounds, Respond(r)
  PROVE  Uuids!Leave(Head(r.jobs))
<1> DEFINE c == Head(r.jobs)
           new == IF Len(r.jobs) = 1 THEN IdleRound ELSE [r EXCEPT !.jobs = Tail(@)]
<1>1. CommonInv'
  BY RespondStep
<1>2. /\ r.at = "respond" /\ r.jobs # << >>
      /\ ~ HitsNil(r.reply, name[c])
      /\ call[c] = "wait" /\ Goto(c, "out")
      /\ answer' = [answer EXCEPT ![c] = Found(r.reply, name[c])]
      /\ rounds' = (rounds \ {r}) \cup {new}
      /\ UNCHANGED name
  BY DEF Respond, Become
<1>3. r \in Round /\ r.jobs \in Seq(Calls) /\ Distinct(r.jobs)
  BY DEF CommonInv, TypeOK, EachOnce, Round
<1>4. /\ c \in Calls /\ c \in Of(r.jobs)
      /\ Tail(r.jobs) \in Seq(Calls)
      /\ Of(Tail(r.jobs)) = Of(r.jobs) \ {c}
      /\ Len(r.jobs) = 1 => Of(r.jobs) = {c}
  BY <1>2, <1>3, FirstJob, RemainingJobs
<1>5. /\ new.at = "respond"
      /\ Of(new.jobs) = Of(r.jobs) \ {c}
      /\ Of(new.jobs) # {} => new.reply = r.reply
  <2>1. CASE Len(r.jobs) = 1
    BY <1>4, <2>1, IdleRoundType, EmptyJobs
  <2>2. CASE Len(r.jobs) # 1
    <3>1. new = [r EXCEPT !.jobs = Tail(r.jobs)]
      BY <2>2
    <3>2. new.jobs = Tail(r.jobs) /\ new.at = "respond" /\ new.reply = r.reply
      BY <1>2, <1>3, <3>1 DEF Round
    <3> QED BY <1>4, <3>2
  <2> QED BY <2>1, <2>2
<1> HIDE DEF c, new
<1>6. \A d \in Calls : call'[d] = IF d = c THEN "out" ELSE call[d]
  BY <1>2, <1>4, CallTypes, Moves DEF Labels
<1>7. /\ RoundOf(c) = {r} /\ RoundOf(c)' = {}
      /\ \A d \in Calls \ {c} :
           \/ RoundOf(d)' = RoundOf(d)
           \/ RoundOf(d) = {r} /\ RoundOf(d)' = {new} /\ new.reply = r.reply
  <2>1. RoundOf(c) = {r}
    BY <1>2, <1>4, RoundOfJob DEF Knows
  <2>2. RoundOf(c)' = {}
    BY <1>1, <1>4, <1>6, NextRoundOfJob DEF RoundsOfJobs, Blocked
  <2>3. ASSUME NEW d \in Calls \ {c}, d \in Of(r.jobs)
        PROVE  \/ RoundOf(d)' = RoundOf(d)
               \/ RoundOf(d) = {r} /\ RoundOf(d)' = {new} /\ new.reply = r.reply
    <3>1. new \in rounds' /\ d \in Of(new.jobs) /\ new.reply = r.reply
      BY <1>2, <1>5, <2>3
    <3>2. RoundOf(d) = IF Knows(r, d) THEN {r} ELSE {}
      BY <2>3, RoundOfJob
    <3>3. RoundOf(d)' = IF Knows(new, d)' THEN {new} ELSE {}
      BY <1>1, <3>1, NextRoundOfJob DEF RoundsOfJobs
    <3>4. Knows(new, d)' <=> Knows(r, d)
      BY <1>2, <1>5, <2>3, <3>1 DEF Knows
    <3> QED BY <3>1, <3>2, <3>3, <3>4
  <2>4. ASSUME NEW d \in Calls \ {c}, d \notin Of(r.jobs)
        PROVE  RoundOf(d)' = RoundOf(d)
    <3>1. d \notin Of(new.jobs)
      BY <1>5, <2>4
    <3> QED BY <1>1, <1>2, <2>4, <3>1, OtherRounds
  <2> QED BY <2>1, <2>2, <2>3, <2>4
<1>8. \A d \in Calls : Phase(d)' = IF d = c THEN "out" ELSE Phase(d)
  BY <1>6, <1>7 DEF Phase
<1>9. \A d \in Calls : Told(d)' = Told(d)
  <2>1. Told(c) = Found(r.reply, name[c]) /\ Told(c)' = answer'[c]
    BY <1>7 DEF Told
  <2>2. answer'[c] = Found(r.reply, name[c]) /\ \A d \in Calls \ {c} : answer'[d] = answer[d]
    BY <1>2, <1>4 DEF CommonInv, TypeOK
  <2>3. ASSUME NEW d \in Calls \ {c}
        PROVE  Told(d)' = Told(d)
    <3>1. CASE RoundOf(d)' = RoundOf(d)
      BY <1>2, <2>2, <3>1 DEF Told
    <3>2. CASE RoundOf(d) = {r} /\ RoundOf(d)' = {new} /\ new.reply = r.reply
      BY <1>2, <3>2, ToldByRound, NextToldByRound
    <3> QED BY <1>7, <3>1, <3>2
  <2> QED BY <2>1, <2>2, <2>3
<1>10. Phase(c) = "settled"
  BY <1>2, <1>7 DEF Phase
<1>11. Uuids!Leave(c)
  BY <1>2, <1>4, <1>8, <1>9, <1>10 DEF Uuids!Leave
<1> QED BY <1>11 DEF c

\* Most of what happens inside the provider is not seen.
LEMMA InternalRefines ==
  ASSUME CommonInv,
         \/ \E c \in Calls : \/ EnterOnce(c) \/ LeaveOnce(c)
                             \/ \E l \in Blocked : Enqueue(c, l)
         \/ TimerFires \/ DriverStops
         \/ ConsumerStarts \/ ConsumerStops \/ NilIteration
         \/ (\E r \in rounds : NilProfile(r)) \/ Cancel
  PROVE  UNCHANGED Uuids!vars
<1>1. UNCHANGED << rounds, name, answer >>
  BY DEF EnterOnce, LeaveOnce, Enqueue, TimerFires, DriverStops,
         ConsumerStarts, ConsumerStops, NilIteration, NilProfile, Cancel
<1>2. \A c \in Calls : RoundOf(c)' = RoundOf(c)
  BY <1>1 DEF RoundOf
<1>3. ASSUME NEW c \in Calls, NEW l \in Labels \ {"out"}, call[c] # "out", Goto(c, l)
      PROVE  \A d \in Calls : call'[d] = "out" <=> call[d] = "out"
  BY <1>3, CallTypes, Moves
<1>4. ASSUME NEW c \in Calls, EnterOnce(c) \/ LeaveOnce(c) \/ \E l \in Blocked : Enqueue(c, l)
      PROVE  \E l \in Labels \ {"out"} : call[c] # "out" /\ Goto(c, l)
  <2>1. CASE EnterOnce(c)
    <3>1. \E l \in {"starting", "queue"} : call[c] # "out" /\ Goto(c, l)
      BY <2>1 DEF EnterOnce
    <3> QED BY <3>1 DEF Labels
  <2>2. CASE LeaveOnce(c)
    <3>1. call[c] # "out" /\ Goto(c, "queue")
      BY <2>2 DEF LeaveOnce
    <3> QED BY <3>1 DEF Labels
  <2>3. ASSUME NEW l \in Blocked, Enqueue(c, l)
        PROVE  \E k \in Labels \ {"out"} : call[c] # "out" /\ Goto(c, k)
    <3>1. call[c] # "out" /\ Goto(c, l)
      BY <2>3 DEF Enqueue
    <3>2. l \in Labels \ {"out"}
      BY DEF Labels, Blocked
    <3> QED BY <3>1, <3>2
  <2> QED BY <1>4, <2>1, <2>2, <2>3
<1>5. \A d \in Calls : call'[d] = "out" <=> call[d] = "out"
  <2>1. CASE UNCHANGED call
    BY <2>1
  <2>2. CASE \E c \in Calls : EnterOnce(c) \/ LeaveOnce(c) \/ \E l \in Blocked : Enqueue(c, l)
    BY <1>3, <1>4, <2>2
  <2> QED BY <2>1, <2>2 DEF TimerFires, DriverStops, ConsumerStarts, ConsumerStops, NilIteration, NilProfile, Cancel
<1> QED BY <1>1, <1>2, <1>5, Unseen

\* Nor is a round without a reply, or without anybody left to tell.
LEMMA RoundRefines ==
  ASSUME CommonInv,
         \/ \E l \in {"select", "done"} : HandOver(l)
         \/ \E r \in rounds : Start(r) \/ Finish(r)
  PROVE  UNCHANGED Uuids!vars
<1>1. UNCHANGED << call, name, answer >>
  BY DEF HandOver, Start, Finish
<1>2. CommonInv'
  BY HandOverStep, StartStep, FinishStep
<1>3. ASSUME NEW l \in {"select", "done"}, HandOver(l), NEW c \in Calls
      PROVE  RoundOf(c)' = RoundOf(c)
  <2> DEFINE new == NewRound(driver.jobs, driver.left)
  <2>1. rounds' = rounds \cup {new} /\ new.at = "start" /\ UNCHANGED name
    BY <1>3, NewRoundType DEF HandOver, CommonInv, TypeOK
  <2> HIDE DEF new
  <2>2. \A x : x \in rounds' /\ x.at = "respond" /\ c \in Of(x.jobs)
                <=> x \in rounds /\ x.at = "respond" /\ c \in Of(x.jobs)
    BY <2>1
  <2> QED BY <1>2, <2>1, <2>2, SameRounds
<1>4. ASSUME NEW r \in rounds, Start(r), NEW c \in Calls
      PROVE  RoundOf(c)' = RoundOf(c)
  <2> DEFINE new == IF r.jobs = << >> THEN IdleRound
                    ELSE [r EXCEPT !.at = "request", !.left = 0]
  <2>1. rounds' = (rounds \ {r}) \cup {new} /\ r.at = "start" /\ UNCHANGED name
    BY <1>4 DEF Start, Become
  <2>2. new.at = "respond" => new.jobs = << >>
    BY IdleRoundType DEF CommonInv, TypeOK, Round
  <2> HIDE DEF new
  <2>3. r.at = "respond" => r.jobs = << >>
    BY <2>1
  <2> QED BY <1>2, <2>1, <2>2, <2>3, QuietRound
<1>5. ASSUME NEW r \in rounds, Finish(r), NEW c \in Calls
      PROVE  RoundOf(c)' = RoundOf(c)
  <2>1. rounds' = rounds \ {r} /\ r.jobs = << >> /\ UNCHANGED name
    BY <1>5 DEF Finish
  <2>2. c \notin Of(r.jobs)
    BY <2>1, EmptyJobs
  <2>3. \A x : x \in rounds' /\ x.at = "respond" /\ c \in Of(x.jobs)
                <=> x \in rounds /\ x.at = "respond" /\ c \in Of(x.jobs)
    BY <2>1, <2>2
  <2> QED BY <1>2, <2>1, <2>3, SameRounds
<1>6. \A c \in Calls : RoundOf(c)' = RoundOf(c)
  BY <1>3, <1>4, <1>5
<1> QED BY <1>1, <1>6, Unseen

\* Every step of either strategy is one of the exchange, or is not seen.
LEMMA CommonRefines ==
  ASSUME CommonInv, CommonNext
  PROVE  [Uuids!Next]_(Uuids!vars)
<1>1. ASSUME NEW r \in rounds, Request(r)
      PROVE  [Uuids!Next]_(Uuids!vars)
  BY <1>1, RequestRefines DEF Uuids!Next
<1>2. ASSUME NEW r \in rounds, Respond(r)
      PROVE  [Uuids!Next]_(Uuids!vars)
  <2>1. Head(r.jobs) \in Calls
    BY <1>2, FirstJob DEF Respond, CommonInv, TypeOK, Round
  <2> QED BY <1>2, <2>1, RespondRefines DEF Uuids!Next
<1>3. ASSUME NEW c \in Calls, NEW n \in Names, GetUuid(c, n)
      PROVE  [Uuids!Next]_(Uuids!vars)
  BY <1>3, GetUuidRefines DEF Uuids!Next
<1> QED BY <1>1, <1>2, <1>3, InternalRefines, RoundRefines DEF CommonNext, SilentNext

\* Nor is a step of something else.
LEMMA StutterRefines == UNCHANGED vars => UNCHANGED Uuids!vars
  BY DEF vars, Uuids!vars, Phase, Told, RoundOf

-----------------------------------------------------------------------------
(* What follows for whoever calls *)

\* GetUuid returns the account of the name it was called with, or none, or an
\* error, whichever other names its request to Mojang was about.
AnswersAreOwn ==
  \A c \in Calls : call[c] = "out" => answer[c] \in {Fold[name[c]], NoProfile, Failed}

\* In an exchange nobody but those who wait for it is owed an answer.
ToldOwn ==
  /\ name \in [Calls -> Names]
  /\ \A c \in Calls : Phase(c) # "pending" => Told(c) \in Uuids!Answers(name[c])

LEMMA ToldOwnInit == Uuids!Init => ToldOwn
  BY DEF Uuids!Init, Uuids!Answers, ToldOwn

LEMMA ToldOwnStep == ToldOwn /\ [Uuids!Next]_(Uuids!vars) => ToldOwn'
<1> SUFFICES ASSUME ToldOwn, [Uuids!Next]_(Uuids!vars)
             PROVE  ToldOwn'
  OBVIOUS
<1> USE DEF ToldOwn
<1>1. ASSUME NEW c \in Calls, NEW n \in Names, Uuids!Ask(c, n)
      PROVE  ToldOwn'
  <2>1. /\ name' = [name EXCEPT ![c] = n]
        /\ \A d \in Calls : Phase(d)' = IF d = c THEN "pending" ELSE Phase(d)
        /\ \A d \in Calls : d # c => Told(d)' = Told(d)
    BY <1>1 DEF Uuids!Ask
  <2> QED BY <2>1 DEF Uuids!Answers
<1>2. ASSUME NEW c \in Calls, Uuids!Leave(c)
      PROVE  ToldOwn'
  <2>1. /\ Phase(c) = "settled" /\ UNCHANGED name
        /\ \A d \in Calls : Phase(d)' = IF d = c THEN "out" ELSE Phase(d)
        /\ \A d \in Calls : Told(d)' = Told(d)
    BY <1>2 DEF Uuids!Leave
  <2> QED BY <2>1 DEF Uuids!Answers
<1>3. ASSUME NEW S \in SUBSET Calls, Uuids!Exchange(S)
      PROVE  ToldOwn'
  <2>1. /\ UNCHANGED name
        /\ \A d \in Calls : Phase(d)' = IF d \in S THEN "settled" ELSE Phase(d)
    BY <1>3 DEF Uuids!Exchange
  <2>2. ASSUME NEW d \in Calls \ S
        PROVE  Told(d)' = Told(d)
    BY <1>3, <2>2 DEF Uuids!Exchange
  <2>3. ASSUME NEW d \in S
        PROVE  Told(d)' \in {Fold[name[d]], NoProfile, Failed}
    BY <1>3, <2>3 DEF Uuids!Exchange
  <2> QED BY <2>1, <2>2, <2>3 DEF Uuids!Answers
<1>4. CASE UNCHANGED Uuids!vars
  <2>1. /\ UNCHANGED name
        /\ \A d \in Calls : Phase(d)' = Phase(d) /\ Told(d)' = Told(d)
    BY <1>4 DEF Uuids!vars
  <2> QED BY <2>1 DEF Uuids!Answers
<1> QED BY <1>1, <1>2, <1>3, <1>4 DEF Uuids!Next

\* Who has returned took along what it had been told.
LEMMA ToldIsAnswered == CommonInv /\ ToldOwn => AnswersAreOwn
<1> SUFFICES ASSUME CommonInv, ToldOwn, NEW c \in Calls, call[c] = "out"
             PROVE  answer[c] \in {Fold[name[c]], NoProfile, Failed}
  BY DEF AnswersAreOwn
<1>1. RoundOf(c) = {}
  BY RoundOfJob DEF Blocked
<1>2. Phase(c) = "out" /\ Told(c) = answer[c]
  BY <1>1, ToldByRound DEF Phase
<1> QED BY <1>2 DEF ToldOwn, Uuids!Answers

\* Whatever implements the exchange, and keeps the invariant, answers like that.
LEMMA ExchangeAnswers == UuidExchangeSpec /\ []CommonInv => []AnswersAreOwn
  BY ToldOwnInit, ToldOwnStep, ToldIsAnswered, PTL DEF UuidExchangeSpec, Uuids!Spec

-----------------------------------------------------------------------------
(* PeriodicStrategy: the inductive invariant *)

\* The driver waits for its round.
PeriodicInv == CommonInv /\ OneRoundAtATime

\* The steps that only this strategy has keep what the strategies share.
LEMMA PeriodicStep ==
  ASSUME CommonInv, (\E c \in Calls : PeriodicQueue(c)) \/ PeriodicIterate
  PROVE  CommonInv' /\ UNCHANGED crashed
<1>1. ASSUME NEW c \in Calls, PeriodicQueue(c)
      PROVE  CommonInv' /\ UNCHANGED crashed
  <2>1. Enqueue(c, "wait") /\ "wait" \in Blocked
    BY <1>1 DEF PeriodicQueue, Blocked
  <2> QED BY <2>1, EnqueueStep DEF Enqueue
<1>2. CASE PeriodicIterate
  BY <1>2, HandOverStep DEF PeriodicIterate, HandOver
<1> QED BY <1>1, <1>2

LEMMA InitPeriodic == Init => PeriodicInv
  BY CommonInit DEF Init, PeriodicInv, OneRoundAtATime

\* A step that neither begins nor ends a round leaves the driver waiting, or
\* not waiting, for one.
LEMMA BetweenRounds ==
  ASSUME CommonInv, OneRoundAtATime,
         \/ \E c \in Calls : \/ \E n \in Names : GetUuid(c, n)
                             \/ EnterOnce(c) \/ LeaveOnce(c) \/ PeriodicQueue(c)
         \/ TimerFires \/ DriverStops
         \/ ConsumerStarts \/ ConsumerStops \/ NilIteration \/ Cancel
         \/ \E r \in rounds : NilProfile(r)
  PROVE  OneRoundAtATime'
<1>1. UNCHANGED rounds /\ (driver'.at = "done" <=> driver.at = "done")
  <2>1. CASE UNCHANGED << rounds, driver >>
    BY <2>1
  <2>2. CASE TimerFires \/ DriverStops \/ ConsumerStarts
    BY <2>2 DEF TimerFires, Dequeue, Send, DriverStops, ConsumerStarts, Drive,
                CommonInv, StartedOnce
  <2> QED BY <2>1, <2>2 DEF GetUuid, EnterOnce, LeaveOnce, PeriodicQueue, Enqueue,
                            ConsumerStops, NilIteration, NilProfile, Cancel
<1> QED BY <1>1 DEF OneRoundAtATime

\* A round begins when there is none, for the driver was sending.
LEMMA PeriodicIterateStep ==
  ASSUME OneRoundAtATime, PeriodicIterate
  PROVE  OneRoundAtATime'
  BY DEF PeriodicIterate, HandOver, Drive, OneRoundAtATime

\* A round is the only one, and stays the only one until Done.
LEMMA OneRoundStep ==
  ASSUME OneRoundAtATime, NEW r \in rounds,
         Start(r) \/ Request(r) \/ Respond(r) \/ Finish(r)
  PROVE  OneRoundAtATime'
<1>1. rounds = {r} /\ driver.at = "done"
  BY DEF OneRoundAtATime
<1>2. CASE Start(r) \/ Request(r) \/ Respond(r)
  <2>1. (\E s : rounds' = {s}) /\ UNCHANGED driver
    BY <1>1, <1>2 DEF Start, Request, Respond, Become
  <2> QED BY <1>1, <2>1 DEF OneRoundAtATime
<1>3. CASE Finish(r)
  BY <1>1, <1>3 DEF Finish, Drive, OneRoundAtATime
<1> QED BY <1>2, <1>3

LEMMA NextPeriodic == PeriodicInv /\ [PeriodicNext]_vars => PeriodicInv'
<1> SUFFICES ASSUME PeriodicInv, [PeriodicNext]_vars
             PROVE  PeriodicInv'
  OBVIOUS
<1>1. CASE UNCHANGED vars
  BY <1>1 DEF vars, PeriodicInv, CommonInv, TypeOK, StartedOnce, NothingBeforeStart, JobsAreHeld,
              EachOnce, Held, StopsWhenCancelled, OneRoundAtATime
<1>2. CASE PeriodicNext
  <2>1. CommonInv'
    BY <1>2, CommonStep, PeriodicStep DEF PeriodicNext, PeriodicInv
  <2>2. OneRoundAtATime'
    BY <1>2, BetweenRounds, PeriodicIterateStep, OneRoundStep DEF PeriodicNext, CommonNext, SilentNext, PeriodicInv
  <2> QED BY <2>1, <2>2 DEF PeriodicInv
<1> QED BY <1>1, <1>2

\* The inductive invariant holds.
THEOREM PeriodicInvariance == PeriodicSpec => []PeriodicInv
<1>1. PeriodicInv /\ [PeriodicNext]_vars => PeriodicInv'
  BY NextPeriodic
<1> QED BY InitPeriodic, <1>1, PTL DEF PeriodicSpec

-----------------------------------------------------------------------------
(* PeriodicStrategy: what follows from it *)

\* No round begins before the last one is done.
THEOREM OneRoundAtATimeHolds == PeriodicSpec => []OneRoundAtATime
<1>1. PeriodicInv => OneRoundAtATime
  BY DEF PeriodicInv
<1> QED BY PeriodicInvariance, <1>1, PTL

\* No job is queued before the goroutine that will take it runs.
THEOREM NothingBeforeStartHolds == PeriodicSpec => []NothingBeforeStart
<1>1. PeriodicInv => NothingBeforeStart
  BY DEF PeriodicInv, CommonInv
<1> QED BY PeriodicInvariance, <1>1, PTL

\* The job of a call that waits is in one place, once, whether it is queued, on
\* its way or in a round, and nobody else's job is anywhere.
THEOREM PeriodicConservesJobs == PeriodicSpec => []JobsAreConserved
<1>1. PeriodicInv => JobsAreConserved
  BY ConservedJobs DEF PeriodicInv
<1> QED BY PeriodicInvariance, <1>1, PTL

\* Only a cancellation, or a response of Mojang that ends a round, brings the
\* process down: a status 400 whose body does not decode, or a list with a null
\* before the profile that is searched. Goroutines and timers never do.
THEOREM PeriodicDoesNotPanic == PeriodicSpec => []NoPanicInService
<1>1. Init => NoPanicInService
  BY DEF Init, NoPanicInService
<1>2. PeriodicInv /\ NoPanicInService /\ [PeriodicNext]_vars => NoPanicInService'
  <2> SUFFICES ASSUME PeriodicInv, NoPanicInService, [PeriodicNext]_vars
               PROVE  NoPanicInService'
    OBVIOUS
  <2>1. CASE CommonNext
    BY <2>1, CommonPanics DEF PeriodicInv
  <2>2. CASE (\E c \in Calls : PeriodicQueue(c)) \/ PeriodicIterate
    BY <2>2 DEF PeriodicQueue, Enqueue, PeriodicIterate, HandOver, NoPanicInService
  <2>3. CASE UNCHANGED vars
    BY <2>3 DEF vars, NoPanicInService, Fatal
  <2> QED BY <2>1, <2>2, <2>3 DEF PeriodicNext
<1> QED BY PeriodicInvariance, <1>1, <1>2, PTL DEF PeriodicSpec

-----------------------------------------------------------------------------
(* PeriodicStrategy: the refinement *)

\* Batching with this strategy implements the exchange: a call is settled by one
\* request about at most Batch names, at once with the others of that request that
\* can be answered, and told what its reply says about the name it asked for.
THEOREM PeriodicImplementsUuidExchange == PeriodicSpec => UuidExchangeSpec
<1>1. PeriodicInv /\ [PeriodicNext]_vars => [Uuids!Next]_(Uuids!vars)
  <2> SUFFICES ASSUME PeriodicInv, [PeriodicNext]_vars
               PROVE  [Uuids!Next]_(Uuids!vars)
    OBVIOUS
  <2>1. CASE CommonNext
    BY <2>1, CommonRefines DEF PeriodicInv
  <2>2. ASSUME NEW c \in Calls, PeriodicQueue(c)
        PROVE  UNCHANGED Uuids!vars
    <3>1. Enqueue(c, "wait") /\ "wait" \in Blocked
      BY <2>2 DEF PeriodicQueue, Blocked
    <3> QED BY <3>1, InternalRefines DEF PeriodicInv
  <2>3. CASE PeriodicIterate
    BY <2>3, RoundRefines DEF PeriodicIterate, PeriodicInv
  <2>4. CASE UNCHANGED vars
    BY <2>4, StutterRefines
  <2> QED BY <2>1, <2>2, <2>3, <2>4 DEF PeriodicNext
<1> QED BY PeriodicInvariance, InitRefines, <1>1, PTL DEF PeriodicSpec, UuidExchangeSpec, Uuids!Spec

\* With this strategy GetUuid answers about the name it was called with.
THEOREM PeriodicAnswersAreOwn == PeriodicSpec => []AnswersAreOwn
<1>1. PeriodicInv => CommonInv
  BY DEF PeriodicInv
<1> QED BY PeriodicInvariance, PeriodicImplementsUuidExchange, <1>1, ExchangeAnswers, PTL

-----------------------------------------------------------------------------
(* PeriodicStrategy: first come, first served *)

\* The jobs that are being answered, and everybody in line: those first, then
\* those on their way to the consumer, then those of the queue.
BeingServed == IF rounds = {} THEN << >> ELSE (CHOOSE r \in rounds : TRUE).jobs
Line == BeingServed \o driver.jobs \o queue

\* Cutting batches off and handing them from goroutine to goroutine never lets
\* a call overtake another: a job joins at the end of the line, only the first in
\* the line is answered, and nothing else moves the line.
FirstComeFirstServed ==
  [][/\ \/ Line' = Line
        \/ \E c \in Calls : call[c] = "queue" /\ Line' = Append(Line, c)
        \/ Line # << >> /\ Line' = Tail(Line) /\ call'[Head(Line)] = "out"
     /\ \A c \in Calls : call[c] # "out" /\ call'[c] = "out"
                           => Line # << >> /\ c = Head(Line)]_vars

LEMMA Regrouped ==
  \A s, t, u \in Seq(Calls) : (s \o t) \o u = s \o (t \o u)
  BY ConcatAssociative

LEMMA PartsOfLine ==
  ASSUME PeriodicInv
  PROVE  /\ BeingServed \in Seq(Calls) /\ driver.jobs \in Seq(Calls) /\ queue \in Seq(Calls)
         /\ BeingServed \o driver.jobs \in Seq(Calls) /\ Line \in Seq(Calls)
         /\ \A r \in rounds : BeingServed = r.jobs
         /\ rounds = {} => BeingServed = << >>
<1>1. driver.jobs \in Seq(Calls) /\ queue \in Seq(Calls) /\ \A r \in rounds : r.jobs \in Seq(Calls)
  BY DEF PeriodicInv, CommonInv, TypeOK, Round
<1>2. /\ \A r \in rounds : BeingServed = r.jobs
      /\ rounds = {} => BeingServed = << >>
  BY DEF PeriodicInv, OneRoundAtATime, BeingServed
<1>3. BeingServed \in Seq(Calls)
  BY <1>1, <1>2, EmptyJobs
<1> QED BY <1>1, <1>2, <1>3, ConcatProperties DEF Line

\* After a step that leaves one round there is nobody else to be served.
LEMMA NextServed ==
  ASSUME NEW r, rounds' = {r}
  PROVE  BeingServed' = r.jobs
<1>1. (CHOOSE x \in {r} : TRUE) = r
  OBVIOUS
<1> QED BY <1>1 DEF BeingServed

\* Whoever is first among those being served is first in the line.
LEMMA HeadOfLine ==
  ASSUME NEW s \in Seq(Calls), NEW t \in Seq(Calls), s # << >>
  PROVE  /\ s \o t # << >> /\ Head(s \o t) = Head(s)
         /\ Tail(s \o t) = Tail(s) \o t
<1>1. Len(s) \in Nat \ {0} /\ Len(t) \in Nat
  BY EmptySeq, LenProperties
<1>2. /\ s \o t \in Seq(Calls) /\ Len(s \o t) = Len(s) + Len(t)
      /\ \A i \in 1..Len(s) + Len(t) : (s \o t)[i] = IF i <= Len(s) THEN s[i] ELSE t[i - Len(s)]
  BY ConcatProperties
<1>3. s \o t # << >>
  BY ConcatEqualIffEmpty
<1>4. /\ Tail(s) \in Seq(Calls) /\ Len(Tail(s)) = Len(s) - 1
      /\ \A i \in 1..Len(Tail(s)) : Tail(s)[i] = s[i + 1]
  BY HeadTailProperties
<1>5. /\ Tail(s \o t) \in Seq(Calls) /\ Len(Tail(s \o t)) = Len(s \o t) - 1
      /\ \A i \in 1..Len(Tail(s \o t)) : Tail(s \o t)[i] = (s \o t)[i + 1]
  BY <1>2, <1>3, HeadTailProperties
<1>6. /\ Tail(s) \o t \in Seq(Calls) /\ Len(Tail(s) \o t) = Len(s) - 1 + Len(t)
      /\ \A i \in 1..Len(s) - 1 + Len(t) :
           (Tail(s) \o t)[i] = IF i <= Len(s) - 1 THEN Tail(s)[i] ELSE t[i - (Len(s) - 1)]
  BY <1>4, ConcatProperties
<1>7. Head(s \o t) = (s \o t)[1] /\ Head(s) = s[1]
  OBVIOUS
<1>8. Head(s \o t) = Head(s)
  BY <1>1, <1>2, <1>7
<1>9. ASSUME NEW i \in 1..Len(Tail(s \o t))
      PROVE  Tail(s \o t)[i] = (Tail(s) \o t)[i]
  <2>1. i \in 1..Len(s) - 1 + Len(t) /\ i + 1 \in 1..Len(s) + Len(t)
    BY <1>1, <1>2, <1>5, <1>9
  <2>2. CASE i <= Len(s) - 1
    <3>1. i \in 1..Len(Tail(s)) /\ i + 1 <= Len(s)
      BY <1>1, <1>4, <2>1, <2>2
    <3> QED BY <1>2, <1>4, <1>5, <1>6, <1>9, <2>1, <2>2, <3>1
  <2>3. CASE ~ (i <= Len(s) - 1)
    <3>1. ~ (i + 1 <= Len(s)) /\ (i + 1) - Len(s) = i - (Len(s) - 1)
      BY <1>1, <2>1, <2>3
    <3> QED BY <1>2, <1>5, <1>6, <1>9, <2>1, <2>3, <3>1
  <2> QED BY <2>2, <2>3
<1>10. Len(Tail(s \o t)) = Len(Tail(s) \o t)
  BY <1>1, <1>2, <1>5, <1>6
<1>11. Tail(s \o t) = Tail(s) \o t
  BY <1>5, <1>6, <1>9, <1>10, SeqEqual
<1> QED BY <1>3, <1>8, <1>11

\* A job that is queued is the last in the line.
LEMMA EnqueueInLine ==
  ASSUME PeriodicInv, NEW c \in Calls, PeriodicQueue(c)
  PROVE  call[c] = "queue" /\ Line' = Append(Line, c)
<1>1. /\ call[c] = "queue" /\ queue' = Append(queue, c)
      /\ UNCHANGED << driver, rounds >>
  BY DEF PeriodicQueue, Enqueue
<1> DEFINE s == BeingServed \o driver.jobs
<1>2. s \in Seq(Calls) /\ queue \in Seq(Calls) /\ Line = s \o queue /\ Line \in Seq(Calls)
  BY PartsOfLine DEF Line
<1>3. Line' = s \o Append(queue, c)
  BY <1>1 DEF Line, BeingServed
<1> HIDE DEF s
<1>4. << c >> \in Seq(Calls)
  OBVIOUS
<1>5. Append(queue, c) = queue \o << c >> /\ Append(Line, c) = Line \o << c >>
  BY <1>2, AppendIsConcat
<1>6. (s \o queue) \o << c >> = s \o (queue \o << c >>)
  <2>1. s \in Seq(Calls) /\ queue \in Seq(Calls)
    BY <1>2
  <2> QED BY <2>1, <1>4, Regrouped, ZenonT(30)
<1> QED BY <1>1, <1>2, <1>3, <1>5, <1>6

\* A batch is cut off the front of the queue, when the driver has none.
LEMMA DequeueInLine ==
  ASSUME PeriodicInv, TimerFires
  PROVE  Line' = Line
<1> DEFINE n == IF Batch > Len(queue) THEN Len(queue) ELSE Batch
<1>1. /\ driver.at = "select" /\ UNCHANGED rounds
      /\ driver' = [at |-> "send", jobs |-> SubSeq(queue, 1, n), left |-> Len(queue) - n]
      /\ queue' = SubSeq(queue, n + 1, Len(queue))
  BY DEF TimerFires, Dequeue, Send
<1>2. driver.jobs = << >>
  BY <1>1 DEF PeriodicInv, CommonInv, JobsAreHeld
<1>3. BeingServed \in Seq(Calls) /\ queue \in Seq(Calls) /\ Len(queue) \in Nat
  BY PartsOfLine, LenProperties
<1>4. n \in 0..Len(queue) /\ n \in Int
  BY <1>3, BatchAssumption
<1> HIDE DEF n
<1>5. SubSeq(queue, 1, n) \in Seq(Calls) /\ SubSeq(queue, n + 1, Len(queue)) \in Seq(Calls)
  BY <1>3, <1>4, CutJobs DEF PeriodicInv, CommonInv, EachOnce
<1>6. SubSeq(queue, 1, n) \o SubSeq(queue, n + 1, Len(queue)) = queue
  <2>1. SubSeq(queue, 1, n) \o SubSeq(queue, n + 1, Len(queue)) = SubSeq(queue, 1, Len(queue))
    <3>1. 1 \in 1..Len(queue) + 1 /\ n \in (1 - 1)..Len(queue) /\ Len(queue) \in n..Len(queue)
      BY <1>3, <1>4
    <3> QED BY <1>3, <3>1, ConcatAdjacentSubSeq
  <2> QED BY <1>3, <2>1, SubSeqFull
<1>7. Line = BeingServed \o queue
  BY <1>2, <1>3, ConcatEmptySeq DEF Line
<1>8. Line' = (BeingServed \o SubSeq(queue, 1, n)) \o SubSeq(queue, n + 1, Len(queue))
  <2>1. BeingServed' = BeingServed
    BY <1>1 DEF BeingServed
  <2>2. driver'.jobs = SubSeq(queue, 1, n)
    BY <1>1
  <2> QED BY <1>1, <2>1, <2>2 DEF Line
<1>9. (BeingServed \o SubSeq(queue, 1, n)) \o SubSeq(queue, n + 1, Len(queue))
        = BeingServed \o (SubSeq(queue, 1, n) \o SubSeq(queue, n + 1, Len(queue)))
  BY <1>3, <1>5, Regrouped, Zenon
<1> QED BY <1>6, <1>7, <1>8, <1>9

\* The driver's jobs are served when there is no other round.
LEMMA IterateInLine ==
  ASSUME PeriodicInv, PeriodicIterate
  PROVE  Line' = Line
<1> DEFINE new == NewRound(driver.jobs, driver.left)
<1>1. /\ driver.at = "send" /\ UNCHANGED queue
      /\ rounds' = rounds \cup {new}
      /\ driver' = [at |-> "done", jobs |-> << >>, left |-> 0]
  BY DEF PeriodicIterate, HandOver, Drive
<1>2. new.jobs = driver.jobs
  BY DEF NewRound
<1> HIDE DEF new
<1>3. rounds = {}
  BY <1>1 DEF PeriodicInv, OneRoundAtATime
<1>4. BeingServed = << >> /\ BeingServed' = driver.jobs
  BY <1>1, <1>2, <1>3, PartsOfLine, NextServed
<1>5. Line = driver.jobs \o queue
  BY <1>4, PartsOfLine, ConcatEmptySeq DEF Line
<1>6. Line' = (driver.jobs \o << >>) \o queue
  BY <1>1, <1>4 DEF Line
<1> QED BY <1>5, <1>6, PartsOfLine, ConcatEmptySeq

\* A round keeps its jobs until it answers the first of them.
LEMMA RoundInLine ==
  ASSUME PeriodicInv, NEW r \in rounds, Start(r) \/ Request(r) \/ Finish(r)
  PROVE  Line' = Line
<1>1. rounds = {r} /\ BeingServed = r.jobs /\ UNCHANGED queue
  BY PartsOfLine DEF PeriodicInv, OneRoundAtATime, Start, Request, Finish
<1>2. driver'.jobs = driver.jobs
  <2>1. CASE Start(r) \/ Request(r)
    BY <2>1 DEF Start, Request
  <2>2. CASE Finish(r)
    BY <1>1, <2>2 DEF Finish, Drive, PeriodicInv, CommonInv, OneRoundAtATime, JobsAreHeld
  <2> QED BY <2>1, <2>2
<1>3. BeingServed' = r.jobs
  <2>1. CASE Start(r)
    <3> DEFINE new == IF r.jobs = << >> THEN IdleRound ELSE [r EXCEPT !.at = "request", !.left = 0]
    <3>1. rounds' = {new}
      BY <1>1, <2>1 DEF Start, Become
    <3>2. new.jobs = r.jobs
      BY IdleRoundType DEF PeriodicInv, CommonInv, TypeOK, Round
    <3> QED BY <3>1, <3>2, NextServed
  <2>2. CASE Request(r)
    <3>1. PICK new \in Round : rounds' = (rounds \ {r}) \cup {new} /\ new.jobs = r.jobs
      BY <2>2, RequestedRound DEF PeriodicInv, CommonInv
    <3> QED BY <1>1, <3>1, NextServed
  <2>3. CASE Finish(r)
    BY <1>1, <2>3 DEF Finish, BeingServed
  <2> QED BY <2>1, <2>2, <2>3
<1> QED BY <1>1, <1>2, <1>3 DEF Line

\* Who is answered is the first of the line, and leaves it.
LEMMA RespondInLine ==
  ASSUME PeriodicInv, NEW r \in rounds, Respond(r)
  PROVE  /\ Line # << >> /\ Head(Line) = Head(r.jobs) /\ Line' = Tail(Line)
<1> DEFINE new == IF Len(r.jobs) = 1 THEN IdleRound ELSE [r EXCEPT !.jobs = Tail(@)]
           t == driver.jobs \o queue
<1>1. /\ r.jobs # << >> /\ rounds' = (rounds \ {r}) \cup {new}
      /\ UNCHANGED << queue, driver >>
  BY DEF Respond, Become
<1>2. rounds = {r} /\ BeingServed = r.jobs
  BY PartsOfLine DEF PeriodicInv, OneRoundAtATime
<1>3. r \in Round /\ r.jobs \in Seq(Calls) /\ Distinct(r.jobs)
  BY DEF PeriodicInv, CommonInv, TypeOK, EachOnce, Round
<1>4. new.jobs = Tail(r.jobs)
  <2>1. CASE Len(r.jobs) = 1
    <3>1. Tail(r.jobs) \in Seq(Calls) /\ Len(Tail(r.jobs)) = 0
      BY <1>1, <1>3, <2>1, RemainingJobs
    <3>2. Tail(r.jobs) = << >>
      BY <3>1, EmptySeq
    <3> QED BY <2>1, <3>2, IdleRoundType
  <2>2. CASE Len(r.jobs) # 1
    BY <1>3, <2>2 DEF Round
  <2> QED BY <2>1, <2>2
<1> HIDE DEF new
<1>5. BeingServed' = Tail(r.jobs)
  BY <1>1, <1>2, <1>4, NextServed
<1>6. t \in Seq(Calls) /\ Tail(r.jobs) \in Seq(Calls)
  BY <1>1, <1>3, PartsOfLine, ConcatProperties, RemainingJobs
<1>7. \A s \in Seq(Calls) : (s \o driver.jobs) \o queue = s \o t
  <2>1. driver.jobs \in Seq(Calls) /\ queue \in Seq(Calls)
    BY PartsOfLine
  <2> QED BY <2>1, Regrouped, Zenon
<1>8. Line = r.jobs \o t
  BY <1>2, <1>3, <1>7 DEF Line
<1>9. Line' = Tail(r.jobs) \o t
  BY <1>1, <1>5, <1>6, <1>7 DEF Line
<1> HIDE DEF t
<1> QED BY <1>1, <1>3, <1>6, <1>8, <1>9, HeadOfLine

\* With this strategy calls are answered in the order in which their jobs were
\* queued, whatever the size of the batches.
THEOREM FirstComeFirstServedHolds == PeriodicSpec => FirstComeFirstServed
<1> DEFINE Served == /\ \/ Line' = Line
                        \/ \E c \in Calls : call[c] = "queue" /\ Line' = Append(Line, c)
                        \/ Line # << >> /\ Line' = Tail(Line) /\ call'[Head(Line)] = "out"
                     /\ \A c \in Calls : call[c] # "out" /\ call'[c] = "out"
                                           => Line # << >> /\ c = Head(Line)
<1>1. PeriodicInv /\ [PeriodicNext]_vars => [Served]_vars
  <2> SUFFICES ASSUME PeriodicInv, PeriodicNext
               PROVE  Served
    OBVIOUS
  <2>1. ASSUME NEW c \in Calls, NEW l \in Labels \ {"out"}, Goto(c, l)
        PROVE  \A d \in Calls : call'[d] = "out" => call[d] = "out"
    BY <2>1, CallTypes, Moves DEF PeriodicInv
  <2>2. ASSUME NEW c \in Calls, (\E n \in Names : GetUuid(c, n)) \/ EnterOnce(c) \/ LeaveOnce(c)
        PROVE  Served
    <3>1. UNCHANGED << queue, driver, rounds >>
      BY <2>2 DEF GetUuid, EnterOnce, LeaveOnce
    <3>2. \E l \in Labels \ {"out"} : Goto(c, l)
      BY <2>2 DEF GetUuid, EnterOnce, LeaveOnce, Labels
    <3> QED BY <2>1, <3>1, <3>2 DEF Line, BeingServed
  <2>3. ASSUME NEW c \in Calls, PeriodicQueue(c)
        PROVE  Served
    <3>1. Goto(c, "wait") /\ "wait" \in Labels \ {"out"}
      BY <2>3 DEF PeriodicQueue, Enqueue, Labels
    <3> QED BY <2>1, <2>3, <3>1, EnqueueInLine
  <2>4. CASE TimerFires
    BY <2>4, DequeueInLine DEF TimerFires
  <2>5. CASE PeriodicIterate
    BY <2>5, IterateInLine DEF PeriodicIterate, HandOver
  <2>6. CASE \/ DriverStops \/ ConsumerStarts \/ ConsumerStops \/ NilIteration \/ Cancel
             \/ \E r \in rounds : NilProfile(r)
    <3>1. UNCHANGED << queue, rounds, call >> /\ driver'.jobs = driver.jobs
      BY <2>6 DEF DriverStops, ConsumerStarts, ConsumerStops, NilIteration, Cancel, NilProfile,
                  Drive, PeriodicInv, CommonInv, JobsAreHeld, StartedOnce
    <3> QED BY <3>1 DEF Line, BeingServed
  <2>7. ASSUME NEW r \in rounds, Start(r) \/ Request(r) \/ Finish(r)
        PROVE  Served
    BY <2>7, RoundInLine DEF Start, Request, Finish
  <2>8. ASSUME NEW r \in rounds, Respond(r)
        PROVE  Served
    <3> DEFINE c == Head(r.jobs)
    <3>1. c \in Calls
      BY <2>8, FirstJob DEF Respond, PeriodicInv, CommonInv, TypeOK, Round
    <3>2. Goto(c, "out")
      BY <2>8 DEF Respond
    <3>3. Line # << >> /\ Head(Line) = c /\ Line' = Tail(Line)
      BY <2>8, RespondInLine
    <3> HIDE DEF c
    <3>4. \A d \in Calls : call'[d] = IF d = c THEN "out" ELSE call[d]
      BY <3>1, <3>2, CallTypes, Moves DEF PeriodicInv, Labels
    <3> QED BY <3>1, <3>3, <3>4
  <2> QED BY <2>2, <2>3, <2>4, <2>5, <2>6, <2>7, <2>8 DEF PeriodicNext, CommonNext, SilentNext
<1> QED BY PeriodicInvariance, <1>1, PTL DEF PeriodicSpec, FirstComeFirstServed

=============================================================================
