---------------------------- MODULE SingleFlight ----------------------------
(***************************************************************************)
(* What mojangtextures.Provider promises its callers, without its caches,  *)
(* its broadcaster or its goroutines: a call about a topic is either       *)
(* answered on its own (from a cache, or because it was refused), or it    *)
(* joins the flight of its topic, and when that flight lands every call    *)
(* that has joined it gets the very same answer, in the same step.         *)
(*                                                                         *)
(* Nothing here corresponds to code: TexturesProvider is shown to          *)
(* implement it.                                                           *)
(***************************************************************************)

CONSTANTS Calls,     \* the goroutines that call GetForUsername
          Topics,    \* what flights are about: the lower-cased usernames
          Answers    \* everything a call may be told

VARIABLES phase,     \* where each call is
          topic,     \* the topic of each call
          answer     \* the answer each call was last given

vars == << phase, topic, answer >>

Phases == {"out", "asking", "joined", "answered"}

\* The types of the variables.
TypeOK == /\ phase \in [Calls -> Phases]
          /\ topic \in [Calls -> Topics]
          /\ answer \in [Calls -> Answers]

Init == /\ phase = [c \in Calls |-> "out"]
        /\ topic \in [Calls -> Topics]
        /\ answer \in [Calls -> Answers]

\* A call about t begins.
Ask(c, t) == /\ phase[c] = "out"
             /\ phase' = [phase EXCEPT ![c] = "asking"]
             /\ topic' = [topic EXCEPT ![c] = t]
             /\ UNCHANGED answer

\* The call is answered without a flight.
AnswerAlone(c, a) == /\ phase[c] \in {"out", "asking"}
                     /\ phase' = [phase EXCEPT ![c] = "out"]
                     /\ answer' = [answer EXCEPT ![c] = a]
                     /\ UNCHANGED topic

\* The call joins the flight of its topic, or opens it.
Join(c) == /\ phase[c] = "asking"
           /\ phase' = [phase EXCEPT ![c] = "joined"]
           /\ UNCHANGED << topic, answer >>

\* The calls that are on the flight of t.
Aboard(t) == { c \in Calls : phase[c] = "joined" /\ topic[c] = t }

\* The flight of t lands with answer a: all aboard get it, and nobody else.
Land(t, a) == /\ Aboard(t) # {}
              /\ phase' = [c \in Calls |-> IF c \in Aboard(t) THEN "answered" ELSE phase[c]]
              /\ answer' = [c \in Calls |-> IF c \in Aboard(t) THEN a ELSE answer[c]]
              /\ UNCHANGED topic

\* The caller takes its answer and leaves.
Leave(c) == /\ phase[c] = "answered"
            /\ phase' = [phase EXCEPT ![c] = "out"]
            /\ UNCHANGED << topic, answer >>

\* The process is restarted: every call is gone, with what it was told.
Reset == /\ phase' = [c \in Calls |-> "out"]
         /\ answer' \in [Calls -> Answers]
         /\ UNCHANGED topic

Next == \/ \E c \in Calls : \/ \E t \in Topics : Ask(c, t)
                            \/ \E a \in Answers : AnswerAlone(c, a)
                            \/ Join(c)
                            \/ Leave(c)
        \/ \E t \in Topics, a \in Answers : Land(t, a)
        \/ Reset

Spec == Init /\ [][Next]_vars

=============================================================================
