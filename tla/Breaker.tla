------------------------------- MODULE Breaker -------------------------------
(***************************************************************************)
(* One circuit breaker of app/resilience.py: the record _Breaker and what  *)
(* the three methods of CircuitBreakerRegistry (allow, record_success,     *)
(* record_failure) make of it.  None of the methods awaits, so each is one *)
(* atomic function of the record.                                          *)
(***************************************************************************)
EXTENDS Naturals

CONSTANTS
    Threshold,  \* circuit_fail_threshold
    Cooldown    \* circuit_cooldown, in ticks of the clock

ASSUME BreakerAssumption ==
    /\ Threshold \in Nat \ {0}
    /\ Cooldown \in Nat

CircuitState == {"CLOSED", "OPEN", "HALF_OPEN"}

(***************************************************************************)
(* The code keeps opened_at and compares _now() - opened_at with the       *)
(* cooldown.  The record keeps what that comparison depends on: the time   *)
(* that is left, 0 in the states that never read it.                       *)
(***************************************************************************)
Breaker ==
    [state : CircuitState, consecutive_failures : Nat, wait : 0..Cooldown]

FreshBreaker == [state |-> "CLOSED", consecutive_failures |-> 0, wait |-> 0]

\* Tripped exactly when the failures in a row have reached the threshold.
Consistent(br) == br.state = "CLOSED" <=> br.consecutive_failures < Threshold

\* The breaker is open and its cooldown has not elapsed.
Cooling(br) == br.state = "OPEN" /\ br.wait > 0

\* (Mutant: nobody but the one probe, in the hope that it reports.)
AllowsOneProbe(br) == br.state = "CLOSED" \/ (br.state = "OPEN" /\ br.wait = 0)

\* (Mutant: the cooldown is not asked for.)
AllowsAlways(br) == TRUE

\* The answer of allow.
Allows(br) == ~Cooling(br)

\* (Mutant: the probe starts the cooldown anew.)
AfterAllowAnew(br) ==
    IF br.state = "OPEN" THEN [br EXCEPT !.state = "HALF_OPEN", !.wait = Cooldown] ELSE br

\* The breaker after an allow that answered True.
AfterAllow(br) == IF br.state = "OPEN" THEN [br EXCEPT !.state = "HALF_OPEN"] ELSE br

\* The breaker after record_success.
AfterSuccess(br) == FreshBreaker

\* (Mutant: opens one failure too late.)
AfterFailureTooLate(br) ==
    LET failures == br.consecutive_failures + 1
    IN  IF br.state = "HALF_OPEN" \/ failures > Threshold
        THEN [state |-> "OPEN", consecutive_failures |-> failures, wait |-> Cooldown]
        ELSE [br EXCEPT !.consecutive_failures = failures]

\* The breaker after record_failure; an open one starts its cooldown anew.
AfterFailure(br) ==
    LET failures == br.consecutive_failures + 1
    IN  IF br.state = "HALF_OPEN" \/ failures >= Threshold
        THEN [state |-> "OPEN", consecutive_failures |-> failures, wait |-> Cooldown]
        ELSE [br EXCEPT !.consecutive_failures = failures]

\* One tick of the clock.
AfterTick(br) == [br EXCEPT !.wait = IF @ > 0 THEN @ - 1 ELSE 0]
==============================================================================
