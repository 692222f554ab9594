----------------------------- MODULE Application -----------------------------
(***************************************************************************)
(* A process from its start to its health checks: Startup, and once it     *)
(* runs what is behind /healthcheck (src/eventsubscribers/                 *)
(* health_checkers.go): the held error of a provider, if its checker was   *)
(* found, and DatabaseChecker, which pings in a goroutine of its own.      *)
(***************************************************************************)
EXTENDS HealthChecks

CONSTANT Checks \* bounds the calls of DatabaseChecker

VARIABLES config, todo, process, address, published, endpoint, \* of Startup
          check, \* the calls of DatabaseChecker: not yet, waiting in select, over
          ping   \* their goroutines: none, in Ping, about to send on done

startupVars  == << config, todo, process, address, published, endpoint >>
databaseVars == << check, ping >>
allVars == << vars, startupVars, databaseVars >>

Boot == INSTANCE Startup

ApplicationInit ==
  /\ Init
  /\ Boot!Init
  /\ check = [c \in Checks |-> "none"]
  /\ ping = [c \in Checks |-> "none"]

-----------------------------------------------------------------------------

\* Outcomes of the requests to Mojang reach the holder of a checker that was
\* constructed.
Observe ==
  /\ process = "running"
  /\ {"batch-response", "textures-response"} \cap endpoint # {}
  /\ Next
  /\ UNCHANGED << startupVars, databaseVars >>

\* A request for /healthcheck calls the checker, which starts a goroutine.
Check(c) ==
  /\ process = "running" /\ "redis" \in endpoint
  /\ check[c] = "none"
  /\ check' = [check EXCEPT ![c] = "waiting"]
  /\ ping' = [ping EXCEPT ![c] = "pinging"]

\* Ping returns.
PingReturns(c) ==
  /\ ping[c] = "pinging"
  /\ ping' = [ping EXCEPT ![c] = "sending"]
  /\ UNCHANGED check

\* Its outcome is received, by a call that still waits for it.
Receive(c) ==
  /\ check[c] = "waiting" /\ ping[c] = "sending"
  /\ check' = [check EXCEPT ![c] = "over"]
  /\ ping' = [ping EXCEPT ![c] = "none"]

\* Mutant of Timeout: the context is not looked at before the ping returns.
TimeoutAfterPing(c) ==
  /\ check[c] = "waiting" /\ ping[c] = "sending"
  /\ check' = [check EXCEPT ![c] = "over"]
  /\ UNCHANGED ping

\* The context of the request is done: nobody will receive.
Timeout(c) ==
  /\ check[c] = "waiting"
  /\ check' = [check EXCEPT ![c] = "over"]
  /\ UNCHANGED ping

DatabaseNext == \E c \in Checks : Check(c) \/ PingReturns(c) \/ Receive(c) \/ Timeout(c)

ApplicationNext ==
  \/ Boot!Next /\ UNCHANGED << vars, databaseVars >>
  \/ Observe
  \/ DatabaseNext /\ UNCHANGED << vars, startupVars >>

\* Timers fire and get the lock, and a health check has a deadline. Nothing
\* makes Redis answer.
ApplicationSpec ==
  /\ ApplicationInit /\ [][ApplicationNext]_allVars
  /\ \A x \in Timers : WF_allVars(Observe /\ Fire(x)) /\ WF_allVars(Observe /\ Reset(x))
  /\ \A c \in Checks : WF_allVars(Timeout(c) /\ UNCHANGED << vars, startupVars >>)

-----------------------------------------------------------------------------
(* Properties *)

CheckersAreComplete == Boot!CheckersAreComplete

\* The request for /healthcheck is answered although Redis hangs.
EveryCheckEnds == \A c \in Checks : check[c] = "waiting" ~> check[c] = "over"

\* A ping whose check is over ends: TLC refutes it. After a timeout nobody
\* receives, and the goroutine stays for good.
NoPingIsLeft == \A c \in Checks : check[c] = "over" ~> ping[c] = "none"

=============================================================================
