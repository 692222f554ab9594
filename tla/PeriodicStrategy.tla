-------------------------- MODULE PeriodicStrategy --------------------------
(***************************************************************************)
(* BatchUuidsProvider with PeriodicStrategy: the driver takes a batch after *)
(* each delay, hands it over, and waits until its round is done.           *)
(***************************************************************************)
EXTENDS BatchUuids

\* PeriodicStrategy.Queue
PeriodicQueue(c) == Enqueue(c, "wait")

\* Mutant of PeriodicIterate: the driver does not wait for Done.
IterateWithoutWaiting == HandOver("select")

\* ch <- iteration, then <-jobDoneChan
PeriodicIterate == HandOver("done")

PeriodicNext == CommonNext \/ (\E c \in Calls : PeriodicQueue(c)) \/ PeriodicIterate

PeriodicSpec == Init /\ [][PeriodicNext]_vars

FairPeriodicSpec ==
  /\ PeriodicSpec /\ CommonFairness
  /\ \A c \in Calls : WF_vars(PeriodicQueue(c))
  /\ WF_vars(PeriodicIterate)

\* At most one round runs at any time, from the hand-over of an iteration to
\* its Done, and the driver takes the next batch only after that.
OneRoundAtATime ==
  /\ \A r, s \in rounds : r = s
  /\ rounds # {} <=> driver.at = "done"

=============================================================================
