--------------------------- MODULE CircuitBreaker ---------------------------
(***************************************************************************)
(* The circuit breaker of one LLM provider (llm/circuit_breaker.py), as a  *)
(* record and the operations on it.  Time is relative: "since" is the time *)
(* since last_failure_time, as far as cooldown_seconds.  failure_count is  *)
(* only compared with failure_threshold and stops counting there.          *)
(***************************************************************************)
EXTENDS Naturals

CONSTANTS FailureThreshold,  \* failure_threshold
          Cooldown           \* cooldown_seconds, in clock ticks

ASSUME BreakerAssumption == FailureThreshold \in Nat \ {0} /\ Cooldown \in Nat

Breaker == [state : {"CLOSED", "OPEN", "HALF_OPEN"},
            failure_count : 0..FailureThreshold,
            since : 0..Cooldown]

NewBreaker == [state |-> "CLOSED", failure_count |-> 0, since |-> Cooldown]

CanExecute(b) == b.state = "OPEN" => b.since = Cooldown

\* can_execute turns an OPEN breaker that has cooled down to HALF_OPEN.
AfterCanExecute(b) == IF b.state = "OPEN" /\ CanExecute(b)
                      THEN [b EXCEPT !.state = "HALF_OPEN"] ELSE b

\* Mutant: closing the breaker keeps the count.
RecordSuccess_KeepsCount(b) == [b EXCEPT !.state = "CLOSED"]
RecordSuccess(b) == [state |-> "CLOSED", failure_count |-> 0, since |-> b.since]

RecordFailure(b) ==
  LET count == IF b.failure_count < FailureThreshold
               THEN b.failure_count + 1 ELSE FailureThreshold
  IN [state |-> IF count = FailureThreshold \/ b.state = "HALF_OPEN"
                THEN "OPEN" ELSE b.state,
      failure_count |-> count,
      since |-> 0]

\* One unit of time passes.
Age(b) == IF b.since < Cooldown THEN [b EXCEPT !.since = @ + 1] ELSE b
=============================================================================
