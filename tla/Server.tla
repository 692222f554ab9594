------------------------------- MODULE Server -------------------------------
(***************************************************************************)
(* StartServer of src/http/http.go: the goroutine that listens, the one    *)
(* that waits for a signal and shuts the server down, and the main one,    *)
(* which returns, and ends the process, when either has closed done.       *)
(***************************************************************************)
CONSTANT Requests \* the goroutines net/http handles requests in

VARIABLES listener, \* ListenAndServe: listening, returned an error, was closed by
                    \* Shutdown; or the failure has been reported by closing done
          signal,   \* the goroutine of waitForExitSignal
          done,     \* the channel is closed
          main,     \* the process serves, has returned from main, or panicked
          request   \* what is being handled

vars == << listener, signal, done, main, request >>

\* The types of the variables.
TypeOK ==
  /\ listener \in {"listening", "failed", "reported", "closed"}
  /\ signal \in {"waiting", "got", "draining", "drained", "gone"}
  /\ done \in BOOLEAN
  /\ main \in {"serving", "returned", "panicked"}
  /\ request \in [Requests -> {"none", "active"}]

Init ==
  /\ listener = "listening"
  /\ signal = "waiting"
  /\ done = FALSE
  /\ main = "serving"
  /\ request = [r \in Requests |-> "none"]

Serving == main = "serving"
Active == { r \in Requests : request[r] = "active" }

\* A request is accepted, and its handler runs.
Accept(r) ==
  /\ Serving /\ listener = "listening" /\ request[r] = "none"
  /\ request' = [request EXCEPT ![r] = "active"]
  /\ UNCHANGED << listener, signal, done, main >>

\* Its handler returns.
Answer(r) ==
  /\ Serving /\ request[r] = "active"
  /\ request' = [request EXCEPT ![r] = "none"]
  /\ UNCHANGED << listener, signal, done, main >>

\* close(done), which panics the second time
CloseDone == IF done THEN main' = "panicked" /\ UNCHANGED done
             ELSE done' = TRUE /\ UNCHANGED main

\* The address is in use, or accepting fails later.
ListenFails ==
  /\ Serving /\ listener = "listening"
  /\ listener' = "failed"
  /\ UNCHANGED << signal, done, main, request >>

\* ListenAndServe has returned: an error ends the server, ErrServerClosed does not.
ListenerEnds ==
  /\ Serving /\ listener = "failed"
  /\ listener' = "reported"
  /\ CloseDone
  /\ UNCHANGED << signal, request >>

\* SIGINT or SIGTERM
Signal ==
  /\ Serving /\ signal = "waiting"
  /\ signal' = "got"
  /\ UNCHANGED << listener, done, main, request >>

\* server.Shutdown begins: ListenAndServe returns ErrServerClosed, unless it has
\* returned already.
Shutdown ==
  /\ Serving /\ signal = "got"
  /\ signal' = "draining"
  /\ listener' = IF listener = "listening" THEN "closed" ELSE listener
  /\ UNCHANGED << done, main, request >>

\* Mutant of Drained: Shutdown does not wait for the requests.
DrainedAtOnce ==
  /\ Serving /\ signal = "draining"
  /\ signal' = "drained"
  /\ UNCHANGED << listener, done, main, request >>

\* It returns when no request is being handled.
Drained ==
  /\ Serving /\ signal = "draining" /\ Active = {}
  /\ signal' = "drained"
  /\ UNCHANGED << listener, done, main, request >>

\* Mutant of SignalEnds: done is never closed after a shutdown.
SignalEndsSilently ==
  /\ Serving /\ signal = "drained"
  /\ signal' = "gone"
  /\ UNCHANGED << listener, done, main, request >>

\* The goroutine of the signal closes done as well.
SignalEnds ==
  /\ Serving /\ signal = "drained"
  /\ signal' = "gone"
  /\ CloseDone
  /\ UNCHANGED << listener, request >>

\* <-done: main returns, and with it the process ends.
Return ==
  /\ Serving /\ done
  /\ main' = "returned"
  /\ UNCHANGED << listener, signal, done, request >>

\* What the goroutines of StartServer and the signal do.
OwnNext == ListenFails \/ ListenerEnds \/ Signal \/ Shutdown \/ Drained \/ SignalEnds \/ Return

Next == OwnNext \/ \E r \in Requests : Accept(r) \/ Answer(r)

Spec == Init /\ [][Next]_vars

-----------------------------------------------------------------------------
(* Properties *)

\* "Graceful shutdown": a server that was able to listen until it was told to
\* stop ends by returning, and not before every request that it accepted has
\* been answered. (After a failure to listen a signal closes done twice.)
GracefulShutdown ==
  ~Serving /\ listener = "closed" => main = "returned" /\ Active = {}

=============================================================================
