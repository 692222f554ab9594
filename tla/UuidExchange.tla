---------------------------- MODULE UuidExchange ----------------------------
(***************************************************************************)
(* What BatchUuidsProvider promises, without queues, strategies or         *)
(* goroutines: every request is part of exactly one exchange of at most    *)
(* Batch names with Mojang, and an exchange settles its requests at once:  *)
(* all fail, or each is told what Mojang said about its own name. One for  *)
(* which the provider panics on Mojang's answer is never settled.          *)
(*                                                                         *)
(* Nothing here corresponds to code: PeriodicStrategy and FullBusStrategy  *)
(* are shown to implement it.                                              *)
(***************************************************************************)
EXTENDS FiniteSets, Naturals

CONSTANTS Calls,     \* the goroutines that call GetUuid
          Names,     \* the names they ask about
          Fold,      \* names that differ in case only name the same account
          NoProfile, \* a nil profile and a nil error
          Failed,    \* an error
          Batch      \* how many names one exchange takes

VARIABLES phase,     \* where each call is
          name,      \* the name each call asks about
          answer     \* what each call was last told

vars == << phase, name, answer >>

Keys == { Fold[n] : n \in Names }

\* What a call about n may be told: its account, none, or an error.
Answers(n) == { Fold[n], NoProfile, Failed }

Init == /\ phase = [c \in Calls |-> "out"]
        /\ name \in [Calls -> Names]
        /\ answer = [c \in Calls |-> NoProfile]

\* A call asks about n, and forgets what it was told before.
Ask(c, n) == /\ phase[c] = "out"
             /\ phase' = [phase EXCEPT ![c] = "pending"]
             /\ name' = [name EXCEPT ![c] = n]
             /\ answer' = [answer EXCEPT ![c] = NoProfile]

\* One exchange about the calls in S. Calls about the same account are told
\* the same, and an error is told to everybody.
Exchange(S) ==
  /\ S # {} /\ Cardinality(S) <= Batch
  /\ \A c \in S : phase[c] = "pending"
  /\ phase' = [c \in Calls |-> IF c \in S THEN "settled" ELSE phase[c]]
  /\ \/ answer' = [c \in Calls |-> IF c \in S THEN Failed ELSE answer[c]]
     \/ \E found \in SUBSET Keys :
          answer' = [c \in Calls |->
                       IF c \notin S THEN answer[c]
                       ELSE IF Fold[name[c]] \in found THEN Fold[name[c]] ELSE NoProfile]
  /\ UNCHANGED name

\* A settled call takes its answer and leaves.
Leave(c) == /\ phase[c] = "settled"
            /\ phase' = [phase EXCEPT ![c] = "out"]
            /\ UNCHANGED << name, answer >>

Next == \/ \E c \in Calls : (\E n \in Names : Ask(c, n)) \/ Leave(c)
        \/ \E S \in SUBSET Calls : Exchange(S)

Spec == Init /\ [][Next]_vars

=============================================================================
