--------------------------- MODULE CircuitBreaker ---------------------------
(***************************************************************************)
(* The circuit breaker of the SLA services, called by several threads.     *)
(* Each use of the breaker's lock is one step; the protected call runs     *)
(* between two of them.  Time is abstracted to whether the recovery        *)
(* timeout has passed since the last failure, and the protected service to *)
(* whether it works.                                                       *)
(***************************************************************************)
EXTENDS Naturals

CONSTANTS Caller,
          FailureThreshold,   \* failure_threshold
          HalfOpenMaxCalls,   \* half_open_max_calls
          MaxFailures         \* bound on the failures counted

ASSUME BreakerAssumption == /\ FailureThreshold \in Nat \ {0}
                            /\ HalfOpenMaxCalls \in Nat \ {0}

VARIABLES circuit,          \* _state
          failure_count,
          success_count,
          half_open_calls,
          timed_out,        \* the recovery timeout has passed
          call,             \* per caller, how far its execute() is
          works             \* whether the protected service works

breakerVars == <<circuit, failure_count, success_count, half_open_calls, timed_out, call, works>>

BreakerInit ==
  /\ circuit = "CLOSED"
  /\ failure_count = 0
  /\ success_count = 0
  /\ half_open_calls = 0
  /\ timed_out = FALSE
  /\ call = [c \in Caller |-> "idle"]
  /\ works = TRUE

(* Mutant: the count of trial calls of the last time is kept.              *)
CheckKeepingCalls(c) ==
  LET recovers == circuit = "OPEN" /\ timed_out
      now == IF recovers THEN "HALF_OPEN" ELSE circuit
  IN  /\ call[c] = "idle"
      /\ circuit' = now
      /\ call' = [call EXCEPT ![c] = IF now = "CLOSED" THEN "running"
                                     ELSE IF now = "HALF_OPEN" THEN "asking" ELSE "idle"]
      /\ UNCHANGED <<failure_count, success_count, half_open_calls, timed_out, works>>

(* The first use of the lock, reading state: an open circuit recovers, and *)
(* the call starts, is turned away, or asks for a place among the trials.  *)
CheckState(c) ==
  LET recovers == circuit = "OPEN" /\ timed_out
      now == IF recovers THEN "HALF_OPEN" ELSE circuit
  IN  /\ call[c] = "idle"
      /\ circuit' = now
      /\ half_open_calls' = IF recovers THEN 0 ELSE half_open_calls
      /\ call' = [call EXCEPT ![c] = IF now = "CLOSED" THEN "running"
                                     ELSE IF now = "HALF_OPEN" THEN "asking" ELSE "idle"]
      /\ UNCHANGED <<failure_count, success_count, timed_out, works>>

(* The second use of the lock, when the first saw a half-open circuit.     *)
AskForTrial(c) ==
  /\ call[c] = "asking"
  /\ call' = [call EXCEPT ![c] =
       IF half_open_calls < HalfOpenMaxCalls THEN "running" ELSE "idle"]
  /\ UNCHANGED <<circuit, failure_count, success_count, half_open_calls, timed_out, works>>

(* Mutant: a failed trial keeps the successes counted before it.           *)
FailKeepingSuccesses(c) ==
  /\ call[c] = "running" /\ ~works
  /\ failure_count < MaxFailures
  /\ failure_count' = failure_count + 1
  /\ timed_out' = FALSE
  /\ circuit' = IF circuit = "HALF_OPEN" \/ failure_count' >= FailureThreshold
                THEN "OPEN" ELSE circuit
  /\ call' = [call EXCEPT ![c] = "idle"]
  /\ UNCHANGED <<success_count, half_open_calls, works>>

record_success(c) ==
  /\ call[c] = "running" /\ works
  /\ call' = [call EXCEPT ![c] = "idle"]
  /\ \/ /\ circuit = "HALF_OPEN"
        /\ half_open_calls' = half_open_calls + 1
        /\ IF success_count + 1 >= HalfOpenMaxCalls
           THEN circuit' = "CLOSED" /\ failure_count' = 0 /\ success_count' = 0
           ELSE success_count' = success_count + 1 /\ UNCHANGED <<circuit, failure_count>>
     \/ /\ circuit = "CLOSED"
        /\ failure_count' = IF failure_count = 0 THEN 0 ELSE failure_count - 1
        /\ UNCHANGED <<circuit, success_count, half_open_calls>>
     \/ /\ circuit = "OPEN"
        /\ UNCHANGED <<circuit, failure_count, success_count, half_open_calls>>
  /\ UNCHANGED <<timed_out, works>>

record_failure(c) ==
  /\ call[c] = "running" /\ ~works
  /\ failure_count < MaxFailures
  /\ failure_count' = failure_count + 1
  /\ timed_out' = FALSE
  /\ call' = [call EXCEPT ![c] = "idle"]
  /\ \/ /\ circuit = "HALF_OPEN"
        /\ circuit' = "OPEN" /\ success_count' = 0
     \/ /\ circuit = "CLOSED"
        /\ circuit' = IF failure_count' >= FailureThreshold THEN "OPEN" ELSE "CLOSED"
        /\ UNCHANGED success_count
     \/ /\ circuit = "OPEN"
        /\ UNCHANGED <<circuit, success_count>>
  /\ UNCHANGED <<half_open_calls, works>>

RecoveryTimeout ==
  /\ circuit = "OPEN" /\ ~timed_out
  /\ timed_out' = TRUE
  /\ UNCHANGED <<circuit, failure_count, success_count, half_open_calls, call, works>>

ServiceChanges ==
  /\ works' = ~works
  /\ UNCHANGED <<circuit, failure_count, success_count, half_open_calls, timed_out, call>>

BreakerNext ==
  \/ \E c \in Caller : CheckState(c) \/ AskForTrial(c) \/ record_success(c) \/ record_failure(c)
  \/ RecoveryTimeout
  \/ ServiceChanges

BreakerSpec == BreakerInit /\ [][BreakerNext]_breakerVars

-----------------------------------------------------------------------------
(* A half-open circuit always has a trial left: the calls it has admitted  *)
(* are the successes it has counted and too few to close it.  Were the two *)
(* counters to part, the circuit would turn every call away for ever, and  *)
(* no success or failure could be recorded to end that.                    *)
TrialLeft ==
  IF circuit = "HALF_OPEN"
  THEN half_open_calls = success_count /\ half_open_calls < HalfOpenMaxCalls
  ELSE success_count = 0

(* When the service works again for good, the circuit closes for good,     *)
(* whatever calls were still running when it opened.                       *)
ClosesAgain == <>[]works => <>[](circuit = "CLOSED")
=============================================================================
