---------------------------- MODULE FallbackChain ----------------------------
(***************************************************************************)
(* What the fallback chain promises a request, with breakers, retries and  *)
(* counters left out: it is moved forward along a chain of backends, never *)
(* back and never twice to the same one; once a chunk has reached the      *)
(* caller it stays where it is; it fails only when the chain is used up or *)
(* its committed backend breaks; and it does end, unless it is committed   *)
(* to a stream, whose length is the upstream's to decide.                  *)
(***************************************************************************)
EXTENDS Naturals

CONSTANTS Requests, NumBackends

VARIABLES
    at,         \* at[r]: the position in the chain, 0 before, NumBackends + 1 past it
    committed,  \* committed[r]: output of the backend at[r] has reached the caller
    outcome     \* outcome[r]: "pending", "done" or "failed"

vars == <<at, committed, outcome>>

Init ==
    /\ at = [r \in Requests |-> 0]
    /\ committed = [r \in Requests |-> FALSE]
    /\ outcome = [r \in Requests |-> "pending"]

\* Forward to another backend, or past the end of the chain, which is the failure.
Advance(r) ==
    /\ outcome[r] = "pending"
    /\ ~committed[r]
    /\ \E next \in (at[r] + 1)..(NumBackends + 1) :
           /\ at' = [at EXCEPT ![r] = next]
           /\ outcome' = [outcome EXCEPT ![r] = IF next > NumBackends THEN "failed" ELSE @]
    /\ UNCHANGED committed

Commit(r) ==
    /\ outcome[r] = "pending"
    /\ at[r] > 0
    /\ committed' = [committed EXCEPT ![r] = TRUE]
    /\ UNCHANGED <<at, outcome>>

\* Answered, cancelled, or ended by an error no backend can be blamed for.
Conclude(r) ==
    /\ outcome[r] = "pending"
    /\ at[r] > 0
    /\ outcome' = [outcome EXCEPT ![r] = "done"]
    /\ UNCHANGED <<at, committed>>

\* The committed backend breaks.
Break(r) ==
    /\ outcome[r] = "pending"
    /\ committed[r]
    /\ outcome' = [outcome EXCEPT ![r] = "failed"]
    /\ UNCHANGED <<at, committed>>

Step(r) == Advance(r) \/ Commit(r) \/ Conclude(r) \/ Break(r)

Next == \E r \in Requests : Step(r)

Safety == Init /\ [][Next]_vars

\* Promised as an outcome, not as the fairness of a step: how it gets there is the
\* implementation's business.
Promptness ==
    \A r \in Requests :
        at[r] > 0 /\ ~committed[r] ~> committed[r] \/ outcome[r] # "pending"

Spec == Safety /\ Promptness
==============================================================================
