--------------------------- MODULE CircuitBreaker ---------------------------
(***************************************************************************)
(* The circuit breaker of internal/router/fallback.go as operators on the  *)
(* breaker's fields.  Every method of the code holds the breaker's mutex   *)
(* for its whole body, so one operator application is one atomic step of   *)
(* the modules that use it.                                                *)
(*                                                                         *)
(* Time is abstracted to what the code asks of it: `elapsed' says whether  *)
(* more than recoveryTimeout has passed since lastFailureTime.  It becomes *)
(* FALSE when a failure is recorded and TRUE by an action of the           *)
(* environment.  The zero time of a new breaker is long past.              *)
(***************************************************************************)
EXTENDS Integers

CONSTANTS
    FailureThreshold,   \* threshold: failures before the circuit opens
    HalfOpenMaxCalls,   \* halfOpenMaxCalls
    FailureCap          \* bound: failureCount saturates here, see RecordFailure

(***************************************************************************)
(* NewFallbackHandler replaces a threshold that is not positive by 3, and  *)
(* halfOpenMaxCalls is the literal 3.  FailureCap only has to be large     *)
(* enough for the one comparison the code makes with failureCount.         *)
(***************************************************************************)
ASSUME BreakerAssumption ==
    /\ FailureThreshold \in Nat \ {0}
    /\ HalfOpenMaxCalls \in Nat \ {0}
    /\ FailureCap \in Nat
    /\ FailureCap >= FailureThreshold

CircuitState == {"closed", "half_open", "open"}

Breaker ==
    [state         : CircuitState,
     failureCount  : 0..FailureCap,
     successCount  : 0..HalfOpenMaxCalls,
     halfOpenCalls : 0..HalfOpenMaxCalls,
     elapsed       : BOOLEAN]

NewCircuitBreaker ==
    [state |-> "closed", failureCount |-> 0, successCount |-> 0,
     halfOpenCalls |-> 0, elapsed |-> TRUE]

\* How the counters of a breaker agree with its state.
Consistent(b) ==
    /\ b.state = "closed" => b.failureCount < FailureThreshold
    /\ b.state # "closed" => b.failureCount >= FailureThreshold
    /\ b.state # "half_open" => b.successCount = 0
    /\ b.state = "half_open" => b.successCount < HalfOpenMaxCalls

-----------------------------------------------------------------------------

\* Mutant of Allows: the bound on half-open calls is off by one.
AllowsOneMore(b) ==
    \/ b.state = "closed"
    \/ b.state = "open" /\ b.elapsed
    \/ b.state = "half_open" /\ b.halfOpenCalls <= HalfOpenMaxCalls

\* Mutant of Allows: nobody looks whether the recovery timeout has passed.
AllowsOpenNever(b) ==
    \/ b.state = "closed"
    \/ b.state = "half_open" /\ b.halfOpenCalls < HalfOpenMaxCalls

\* The answer of AllowRequest.
Allows(b) ==
    \/ b.state = "closed"
    \/ b.state = "open" /\ b.elapsed
    \/ b.state = "half_open" /\ b.halfOpenCalls < HalfOpenMaxCalls

\* Mutant of AllowRequest: halfOpenCalls is not reset on becoming half-open.
AllowRequestNoReset(b) ==
    CASE b.state = "closed"    -> b
      [] b.state = "open"      -> [b EXCEPT !.state = "half_open"]
      [] b.state = "half_open" -> [b EXCEPT !.halfOpenCalls = @ + 1]

\* The breaker after AllowRequest has answered TRUE (FALSE changes nothing).
\* The call that turns an open circuit half-open is not counted.
AllowRequest(b) ==
    CASE b.state = "closed"    -> b
      [] b.state = "open"      -> [b EXCEPT !.state = "half_open",
                                            !.halfOpenCalls = 0]
      [] b.state = "half_open" -> [b EXCEPT !.halfOpenCalls = @ + 1]

\* Mutant of RecordSuccess: a success does not clear the failures of a closed
\* circuit, so failures that are far apart add up.
RecordSuccessKeepsFailures(b) ==
    CASE b.state = "half_open" /\ b.successCount + 1 >= HalfOpenMaxCalls ->
           [b EXCEPT !.state = "closed", !.failureCount = 0, !.successCount = 0]
      [] b.state = "half_open" /\ b.successCount + 1 < HalfOpenMaxCalls ->
           [b EXCEPT !.successCount = @ + 1]
      [] b.state \in {"closed", "open"} -> b

\* Success in the half-open state closes the circuit after HalfOpenMaxCalls of
\* them; in the open state (a late answer) it is ignored.
RecordSuccess(b) ==
    CASE b.state = "half_open" /\ b.successCount + 1 >= HalfOpenMaxCalls ->
           [b EXCEPT !.state = "closed", !.failureCount = 0, !.successCount = 0]
      [] b.state = "half_open" /\ b.successCount + 1 < HalfOpenMaxCalls ->
           [b EXCEPT !.successCount = @ + 1]
      [] b.state = "closed" -> [b EXCEPT !.failureCount = 0]
      [] b.state = "open"   -> b

\* failureCount is an int that no test reads but "failureCount >= threshold":
\* saturating it at FailureCap >= FailureThreshold loses nothing.
Increment(n) == IF n < FailureCap THEN n + 1 ELSE n

\* The breaker b after a failure, in a given state and with a given successCount.
Failed(b, state, successCount) ==
    [state |-> state, failureCount |-> Increment(b.failureCount),
     successCount |-> successCount, halfOpenCalls |-> b.halfOpenCalls,
     elapsed |-> FALSE]

\* Mutant of RecordFailure: the successes of a failed half-open period survive.
RecordFailureKeepsSuccesses(b) ==
    IF b.state = "closed" /\ Increment(b.failureCount) < FailureThreshold
    THEN Failed(b, "closed", b.successCount)
    ELSE Failed(b, "open", b.successCount)

\* A failure reopens a half-open circuit at once, a closed one at the threshold;
\* in the open state (a late answer) it restarts the recovery timeout.
RecordFailure(b) ==
    CASE b.state = "half_open" -> Failed(b, "open", 0)
      [] b.state = "closed" /\ Increment(b.failureCount) >= FailureThreshold ->
           Failed(b, "open", b.successCount)
      [] b.state = "closed" /\ Increment(b.failureCount) < FailureThreshold ->
           Failed(b, "closed", b.successCount)
      [] b.state = "open" -> Failed(b, "open", b.successCount)
=============================================================================
