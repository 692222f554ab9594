--------------------------- MODULE FullBusStrategy ---------------------------
(***************************************************************************)
(* BatchUuidsProvider with FullBusStrategy: whoever completes a batch sends *)
(* on busIsFull and blocks until the driver receives it; the driver takes  *)
(* a batch then, or when its timer fires, and never waits for a round.     *)
(***************************************************************************)
EXTENDS BatchUuids

\* Mutant of Queue: the length is read before the job is appended.
QueueCountingBefore(c) ==
  Enqueue(c, IF Len(queue) > 0 /\ Len(queue) % Batch = 0 THEN "signal" ELSE "wait")

\* FullBusStrategy.Queue, up to the send on busIsFull
Queue(c) == Enqueue(c, IF (Len(queue) + 1) % Batch = 0 THEN "signal" ELSE "wait")

\* busIsFull <- true on one side, <-ctx.busIsFull on the other
Signal(c) ==
  /\ ~crashed
  /\ call[c] = "signal" /\ driver.at = "select"
  /\ Goto(c, "wait")
  /\ Drive("collect")
  /\ UNCHANGED << name, answer, once, queue, consumer, rounds, cancelled, crashed >>

\* sendJobs after a signal
Collect ==
  /\ ~crashed
  /\ driver.at = "collect"
  /\ Dequeue
  /\ UNCHANGED << call, name, answer, once, consumer, rounds, cancelled, crashed >>

\* ch <- iteration, then around the loop
Iterate == HandOver("select")

Next == CommonNext \/ (\E c \in Calls : Queue(c) \/ Signal(c)) \/ Collect \/ Iterate

Spec == Init /\ [][Next]_vars

\* The driver is at its select again and again. A sender blocked there is
\* taken at once while the timer is running, and senders are queued first in,
\* first out, so each of them is served: strong fairness of Signal.
Fairness == /\ CommonFairness
            /\ \A c \in Calls : WF_vars(Queue(c)) /\ SF_vars(Signal(c))
            /\ WF_vars(Collect)
            /\ WF_vars(Iterate)

\* The number of calls blocked on busIsFull, and of signals received but not
\* acted upon.
Signals == Cardinality({ c \in Calls : call[c] = "signal" })
           + (IF driver.at = "collect" THEN 1 ELSE 0)

\* A full bus never has to wait for the timer: there are at least as many
\* signals under way as there are full batches in the queue, whatever batches
\* the timer has taken meanwhile.
FullBatchesAreSignalled == Len(queue) \div Batch <= Signals

\* "should provide iteration after duration if batch size isn't exceeded":
\* without the timer, only a full batch leaves.
EarlyIterationIsFull == [][Collect => Len(driver'.jobs) = Batch]_vars

=============================================================================
