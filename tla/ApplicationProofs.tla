-------------------------- MODULE ApplicationProofs --------------------------
(***************************************************************************)
(* Proofs about Application, for any number of errors, timers and checks,  *)
(* and every configuration: the held error of a provider, which behaves as *)
(* HealthChecks says, and the endpoint that the start builds.              *)
(***************************************************************************)
EXTENDS Application, SequenceTheorems, TLAPS

-----------------------------------------------------------------------------
(* The held error *)

\* Inductive: that an armed timer is the holder's own is what lets Set stop
\* every timer there is, and that every error has a timer is kept because only
\* the function of that timer, which clears the error, takes it away.
HolderInv == TypeOK /\ ErrorExpires /\ NoStrayTimer

LEMMA InitHolder == Init => HolderInv
  BY MarkersAssumption DEF Init, HolderInv, TypeOK, ErrorExpires, NoStrayTimer

\* Whatever Set is about to do, it leaves no timer armed.
LEMMA NoneArmed ==
  ASSUME HolderInv, NEW x \in Timers
  PROVE  Disarmed(x) \in {"free", "fired"}
  BY DEF HolderInv, TypeOK, NoStrayTimer, Disarmed

LEMMA NextHolder == HolderInv /\ [Next]_vars => HolderInv'
<1> SUFFICES ASSUME HolderInv, [Next]_vars
             PROVE  HolderInv'
  OBVIOUS
<1> USE MarkersAssumption
<1>1. CASE Succeed
  <2>1. TypeOK'
    BY <1>1, NoneArmed DEF Succeed, SetNil, TypeOK
  <2>2. ErrorExpires' /\ NoStrayTimer'
    BY <1>1, NoneArmed DEF Succeed, SetNil, ErrorExpires, NoStrayTimer
  <2> QED BY <2>1, <2>2 DEF HolderInv
<1>2. ASSUME NEW e \in Errors, Fail(e)
      PROVE  HolderInv'
  <2>1. PICK x \in Timers :
          /\ t' = x
          /\ timers' = [y \in Timers |-> IF y = x THEN "armed" ELSE Disarmed(y)]
    BY <1>2 DEF Fail
  <2>2. err' = e
    BY <1>2 DEF Fail
  <2>3. TypeOK'
    BY <2>1, <2>2, NoneArmed DEF TypeOK
  <2>4. ErrorExpires'
    BY <2>1 DEF ErrorExpires
  <2>5. NoStrayTimer'
    BY <2>1, NoneArmed DEF NoStrayTimer
  <2> QED BY <2>3, <2>4, <2>5 DEF HolderInv
<1>3. ASSUME NEW x \in Timers, Fire(x)
      PROVE  HolderInv'
  BY <1>3 DEF Fire, HolderInv, TypeOK, ErrorExpires, NoStrayTimer
<1>4. ASSUME NEW x \in Timers, Reset(x)
      PROVE  HolderInv'
  <2>1. TypeOK'
    BY <1>4, NoneArmed DEF Reset, TypeOK
  <2>2. ErrorExpires' /\ NoStrayTimer'
    BY <1>4, NoneArmed DEF Reset, ErrorExpires, NoStrayTimer
  <2> QED BY <2>1, <2>2 DEF HolderInv
<1>5. CASE UNCHANGED vars
  BY <1>5 DEF vars, HolderInv, TypeOK, ErrorExpires, NoStrayTimer
<1> QED BY <1>1, <1>2, <1>3, <1>4, <1>5 DEF Next

\* A step of the application is one of the holder, or leaves it alone.
LEMMA HolderSteps == [ApplicationNext]_allVars => [Next]_vars
  BY DEF ApplicationNext, Observe, allVars

\* Behind the health check of an application the holder is HealthChecks.
THEOREM ApplicationHolds == ApplicationSpec => Spec
<1>1. ApplicationInit => Init
  BY DEF ApplicationInit
<1> QED BY <1>1, HolderSteps, PTL DEF ApplicationSpec, Spec

\* The inductive invariant holds.
THEOREM HolderInvariance == Spec => []HolderInv
<1>1. HolderInv /\ [Next]_vars => HolderInv'
  BY NextHolder
<1> QED BY InitHolder, <1>1, PTL DEF Spec

\* No error is remembered for good: the timer that will clear it exists
\* (health_checkers.go:97-111).
THEOREM ErrorExpiresHolds == ApplicationSpec => []ErrorExpires
<1>1. HolderInv => ErrorExpires
  BY DEF HolderInv
<1> QED BY ApplicationHolds, HolderInvariance, <1>1, PTL

\* There is no armed timer that Set cannot stop (health_checkers.go:97-111).
THEOREM NoStrayTimerHolds == ApplicationSpec => []NoStrayTimer
<1>1. HolderInv => NoStrayTimer
  BY DEF HolderInv
<1> QED BY ApplicationHolds, HolderInvariance, <1>1, PTL

-----------------------------------------------------------------------------
(* The start *)

\* The constructors before the last one.
Others == {"reporters", "urls", "redis", "batch", "remote", "signer", "authenticator"}

\* The checkers are collected last of all.
CheckersLast ==
  /\ todo \in Seq(Others \cup {"checkers"}) /\ Len(todo) > 0
  /\ \A i \in 1..Len(todo) : todo[i] = "checkers" <=> i = Len(todo)

\* Inductive: nothing is published once the checkers have been collected,
\* because no constructor is left that could.
BootInv ==
  /\ CheckersLast \/ (todo = << >> /\ endpoint = published)
  /\ process = "running" => todo = << >>

\* Whatever is resolved for a configuration, none of it collects checkers.
LEMMA ResolvedCollectNothing ==
  ASSUME NEW c \in Boot!Configs
  PROVE  Boot!Resolved(c) \in Seq(Others)
<1>1. {"redis", "batch", "remote", "signer", "authenticator"} \subseteq Others
  BY DEF Others
<1>2. /\ << >> \in Seq(Others)
      /\ << "remote" >> \in Seq(Others) /\ << "batch" >> \in Seq(Others)
      /\ << "redis" >> \in Seq(Others) /\ << "signer" >> \in Seq(Others)
      /\ << "authenticator" >> \in Seq(Others)
  BY <1>1
<1>3. \A p, q \in Seq(Others) : p \o q \in Seq(Others)
  OBVIOUS
<1> QED BY <1>2, <1>3 DEF Boot!Resolved

LEMMA InitBoot == Boot!Init => BootInv
<1> SUFFICES ASSUME Boot!Init
             PROVE  BootInv
  OBVIOUS
<1>1. PICK r : r = Boot!Resolved(config)
  OBVIOUS
<1>2. PICK p : p = << "reporters", "urls" >> \o r
  OBVIOUS
<1>3. p \in Seq(Others)
  <2>1. r \in Seq(Others)
    BY <1>1, ResolvedCollectNothing DEF Boot!Init
  <2>2. << "reporters", "urls" >> \in Seq(Others)
    BY DEF Others
  <2> QED BY <1>2, <2>1, <2>2
<1>4. todo = p \o << "checkers" >>
  <2>1. todo = << "reporters", "urls" >> \o r \o << "checkers" >>
    BY <1>1 DEF Boot!Init, Boot!Constructors
  <2> QED BY <1>2, <2>1
<1>5. CheckersLast
  <2>1. "checkers" \notin Others
    BY DEF Others
  <2>2. \A i \in 1..Len(p) : p[i] # "checkers"
    BY <1>3, <2>1
  <2>3. /\ todo \in Seq(Others \cup {"checkers"}) /\ Len(todo) = Len(p) + 1
        /\ \A i \in 1..Len(todo) : todo[i] = IF i <= Len(p) THEN p[i] ELSE "checkers"
    <3>1. p \in Seq(Others \cup {"checkers"}) /\ << "checkers" >> \in Seq(Others \cup {"checkers"})
      BY <1>3
    <3> QED BY <1>4, <3>1
  <2> QED BY <1>3, <2>2, <2>3 DEF CheckersLast
<1> QED BY <1>5 DEF BootInv, Boot!Init

\* After a constructor that is not the last one the checkers are still to be
\* collected.
LEMMA NotLast ==
  ASSUME BootInv, NEW name, name # "checkers", Boot!Next_(name), NEW ok, Boot!Returns(ok)
  PROVE  BootInv'
<1>1. CheckersLast /\ todo[1] = name /\ process = "starting"
  BY DEF BootInv, Boot!Next_
<1>2. Len(todo) \in Nat /\ Len(todo) > 1
  BY <1>1 DEF CheckersLast
<1>3. CASE todo' = Tail(todo) /\ UNCHANGED process
  <2>1. /\ todo' \in Seq(Others \cup {"checkers"}) /\ Len(todo') = Len(todo) - 1
        /\ \A i \in 1..Len(todo') : todo'[i] = todo[i + 1]
    BY <1>1, <1>2, <1>3 DEF CheckersLast
  <2>2. CheckersLast'
    BY <1>1, <1>2, <2>1 DEF CheckersLast
  <2> QED BY <1>1, <1>3, <2>2 DEF BootInv
<1>4. CASE process' = "exited" /\ UNCHANGED todo
  BY <1>1, <1>4 DEF BootInv, CheckersLast
<1> QED BY <1>3, <1>4 DEF Boot!Returns

LEMMA NextBoot == BootInv /\ [Boot!Next]_(Boot!vars) => BootInv'
<1> SUFFICES ASSUME BootInv, [Boot!Next]_(Boot!vars)
             PROVE  BootInv'
  OBVIOUS
<1>1. CASE Boot!Reporters
  BY <1>1, NotLast DEF Boot!Reporters, Boot!Publishes
<1>2. CASE Boot!InterceptMojangApiUrls
  BY <1>2, NotLast DEF Boot!InterceptMojangApiUrls
<1>3. CASE Boot!NewRedis
  BY <1>3, NotLast DEF Boot!NewRedis, Boot!Publishes
<1>4. CASE Boot!NewBatchUuidsProvider
  BY <1>4, NotLast DEF Boot!NewBatchUuidsProvider, Boot!Publishes
<1>5. CASE Boot!NewRemoteUuidsProvider
  BY <1>5, NotLast DEF Boot!NewRemoteUuidsProvider, Boot!Publishes
<1>6. CASE Boot!NewTexturesSigner
  BY <1>6, NotLast DEF Boot!NewTexturesSigner, Boot!Publishes
<1>7. CASE Boot!NewAuthenticator
  BY <1>7, NotLast DEF Boot!NewAuthenticator, Boot!Publishes
<1>8. CASE Boot!CollectCheckers
  <2>1. CheckersLast /\ todo[1] = "checkers"
    BY <1>8 DEF Boot!CollectCheckers, Boot!Next_, BootInv
  <2>2. todo \in Seq(Others \cup {"checkers"}) /\ Len(todo) = 1
    <3>1. Len(todo) \in Nat /\ 1 \in 1..Len(todo)
      BY <2>1 DEF CheckersLast
    <3> QED BY <2>1, <3>1 DEF CheckersLast
  <2>3. todo' = << >>
    <3>1. todo' = Tail(todo)
      BY <1>8 DEF Boot!CollectCheckers, Boot!Returns
    <3>2. Tail(todo) \in Seq(Others \cup {"checkers"}) /\ Len(Tail(todo)) = 0
      BY <2>2
    <3>3. Tail(todo) = << >>
      BY <3>2, EmptySeq
    <3> QED BY <3>1, <3>3
  <2> QED BY <1>8, <2>3 DEF Boot!CollectCheckers, BootInv
<1>9. CASE Boot!Run
  BY <1>9 DEF Boot!Run, BootInv, CheckersLast
<1>10. CASE UNCHANGED Boot!vars
  BY <1>10 DEF Boot!vars, BootInv, CheckersLast
<1> QED BY <1>1, <1>2, <1>3, <1>4, <1>5, <1>6, <1>7, <1>8, <1>9, <1>10 DEF Boot!Next

\* A step of the application is one of its start, or leaves that alone.
LEMMA BootSteps == [ApplicationNext]_allVars => [Boot!Next]_(Boot!vars)
  BY DEF ApplicationNext, Observe, allVars, startupVars, Boot!vars

\* /healthcheck asks every checker that a constructor published, in every
\* configuration that a process comes up with (handlers.go:83-97).
THEOREM CheckersAreCompleteHolds == ApplicationSpec => []CheckersAreComplete
<1>1. ApplicationInit => BootInv
  BY InitBoot DEF ApplicationInit
<1>2. BootInv /\ [ApplicationNext]_allVars => BootInv'
  BY BootSteps, NextBoot
<1>3. BootInv => CheckersAreComplete
  BY DEF BootInv, CheckersLast, CheckersAreComplete, Boot!CheckersAreComplete
<1> QED BY <1>1, <1>2, <1>3, PTL DEF ApplicationSpec

=============================================================================
