---------------------------- MODULE HealthChecks ----------------------------
(***************************************************************************)
(* The error that the health check remembers: expiringErrHolder            *)
(* (src/eventsubscribers/health_checkers.go), which the checkers of both   *)
(* Mojang providers are built on.                                          *)
(*                                                                         *)
(* Set is called with the outcome of every request, and by a timer that    *)
(* was armed with the last error. Everything happens under one lock. A     *)
(* timer that has fired waits for the lock in a goroutine of its own, and  *)
(* t.Stop no longer reaches it there. Timers fire at any moment, so every  *)
(* duration and every delay is covered.                                    *)
(***************************************************************************)
EXTENDS FiniteSets, Naturals

CONSTANTS Errors,
          NoError, \* nil
          Timers,  \* bounds the timers and fired timers there are at a time
          NoTimer  \* nil

ASSUME MarkersAssumption == NoError \notin Errors /\ NoTimer \notin Timers

VARIABLES err,   \* h.err
          t,     \* h.t
          timers \* every timer: free (none, or stopped), armed, or fired

vars == << err, t, timers >>

\* The timer of the holder is one that may still clear it.
TypeOK ==
  /\ err \in Errors \cup {NoError}
  /\ t \in Timers \cup {NoTimer}
  /\ timers \in [Timers -> {"free", "armed", "fired"}]
  /\ t # NoTimer => timers[t] # "free"

Init ==
  /\ err = NoError
  /\ t = NoTimer
  /\ timers = [x \in Timers |-> "free"]

\* Mutant of Disarmed: the timer is forgotten, not stopped.
NotDisarmed(x) == timers[x]

\* What timer x is once Set has stopped h.t: Stop has no effect on a timer
\* that has fired.
Disarmed(x) == IF x = t /\ timers[x] = "armed" THEN "free" ELSE timers[x]

\* Set(nil)
SetNil ==
  /\ err' = NoError
  /\ t' = NoTimer
  /\ timers' = [x \in Timers |-> Disarmed(x)]

\* A request succeeded.
Succeed == SetNil

\* Mutant of Fail: only a first error arms a timer.
FailArmingOnce(e) ==
  /\ err' = e
  /\ IF err # NoError THEN t' = NoTimer /\ timers' = [x \in Timers |-> Disarmed(x)]
     ELSE \E x \in Timers :
            /\ Disarmed(x) = "free"
            /\ t' = x
            /\ timers' = [y \in Timers |-> IF y = x THEN "armed" ELSE Disarmed(y)]

\* A request failed: Set(e) with a new timer.
Fail(e) ==
  /\ err' = e
  /\ \E x \in Timers :
       /\ Disarmed(x) = "free"
       /\ t' = x
       /\ timers' = [y \in Timers |-> IF y = x THEN "armed" ELSE Disarmed(y)]

\* A timer fires.
Fire(x) ==
  /\ timers[x] = "armed"
  /\ timers' = [timers EXCEPT ![x] = "fired"]
  /\ UNCHANGED << err, t >>

\* The function of a fired timer gets the lock: Set(nil).
Reset(x) ==
  /\ timers[x] = "fired"
  /\ err' = NoError
  /\ t' = NoTimer
  /\ timers' = [y \in Timers |-> IF y = x THEN "free" ELSE Disarmed(y)]

Next == \/ Succeed
        \/ \E e \in Errors : Fail(e)
        \/ \E x \in Timers : Fire(x) \/ Reset(x)

Spec == Init /\ [][Next]_vars

\* Armed timers fire, and fired ones get the lock.
FairSpec == Spec /\ \A x \in Timers : WF_vars(Fire(x)) /\ WF_vars(Reset(x))

-----------------------------------------------------------------------------
(* Properties *)

\* An error is never held for good: a timer that will clear it is armed, or
\* has fired and waits for the lock, whatever timers of earlier errors do.
ErrorExpires ==
  err # NoError => t # NoTimer /\ timers[t] # "free"

\* At most one timer is armed, the one that Set can stop: no forgotten timer
\* is left to clear an error of a later request.
NoStrayTimer == \A x \in Timers : timers[x] = "armed" => x = t

\* Once requests fail no more, the health check recovers, with or without
\* requests that succeed.
Recovers ==
  <>[][\A e \in Errors : ~Fail(e)]_vars => <>[](err = NoError)

=============================================================================
