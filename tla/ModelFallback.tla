--------------------------- MODULE ModelFallback ---------------------------
(***************************************************************************)
(* internal/router/fallback.go: FallbackHandler.ExecuteWithFallback, run   *)
(* by many request goroutines at once over one shared circuit breaker per  *)
(* model.  A request walks its chain of models; the executor (the upstream *)
(* call) runs without any lock, so between the breaker's answer and the    *)
(* recording of the outcome every other request may move the breaker.      *)
(***************************************************************************)
EXTENDS CircuitBreaker, Sequences, FiniteSets

CONSTANTS
    Requests,   \* goroutines that run ExecuteWithFallback, one call after another
    Models,     \* model identifiers
    Chains      \* model chains the router hands out: never empty

ASSUME FallbackAssumption ==
    /\ IsFiniteSet(Requests)
    /\ Chains \subseteq Seq(Models) \ {<<>>}

VARIABLES
    breaker,        \* circuitBreakers: one breaker per model
    pc,             \* where each request is
    chain,          \* the argument `models'
    pos,            \* the loop index, from 1
    lastErr,        \* the local variable lastErr
    rateLimitErr,   \* the local variable rateLimitErr is set
    result          \* what the last call of ExecuteWithFallback returned

\* History, read by properties only.
VARIABLES
    failStreak,     \* failures recorded for a model since its last success
    okStreak,       \* successes recorded for a model since its last failure
    probes,         \* calls admitted for a model since it last became half-open
    outcomes        \* errors of the attempts of the current call

requestVars == <<pc, chain, pos, lastErr, rateLimitErr, result>>
historyVars == <<failStreak, okStreak, probes, outcomes>>
vars == <<breaker, requestVars, historyVars>>

\* What an upstream call may end in: UpstreamError 429, or any other error.
CallErrors == {"rate_limited", "error"}
Results == {"none", "ok", "all_skipped"} \cup CallErrors

Current(r) == chain[r][pos[r]]
InFlight(m) == {r \in Requests : pc[r] = "calling" /\ Current(r) = m}

TypeOK ==
    /\ breaker \in [Models -> Breaker]
    /\ pc \in [Requests -> {"idle", "next", "calling", "done"}]
    /\ chain \in [Requests -> Chains \cup {<<>>}]
    /\ pos \in [Requests -> Nat \ {0}]
    /\ lastErr \in [Requests -> CallErrors \cup {"none"}]
    /\ rateLimitErr \in [Requests -> BOOLEAN]
    /\ result \in [Requests -> Results]
    /\ failStreak \in [Models -> 0..FailureCap]
    /\ okStreak \in [Models -> 0..HalfOpenMaxCalls]
    /\ probes \in [Models -> 0..(HalfOpenMaxCalls + 1)]
    /\ outcomes \in [Requests -> SUBSET CallErrors]

\* getCircuitBreaker creates a model's breaker, in this state, when first asked.
Init ==
    /\ breaker = [m \in Models |-> NewCircuitBreaker]
    /\ pc = [r \in Requests |-> "idle"]
    /\ chain = [r \in Requests |-> <<>>]
    /\ pos = [r \in Requests |-> 1]
    /\ lastErr = [r \in Requests |-> "none"]
    /\ rateLimitErr = [r \in Requests |-> FALSE]
    /\ result = [r \in Requests |-> "none"]
    /\ failStreak = [m \in Models |-> 0]
    /\ okStreak = [m \in Models |-> 0]
    /\ probes = [m \in Models |-> 0]
    /\ outcomes = [r \in Requests |-> {}]

-----------------------------------------------------------------------------
(* ExecuteWithFallback, step by step *)

Start(r, c) ==
    /\ pc[r] \in {"idle", "done"}
    /\ pc' = [pc EXCEPT ![r] = "next"]
    /\ chain' = [chain EXCEPT ![r] = c]
    /\ result' = [result EXCEPT ![r] = "none"]
    /\ UNCHANGED <<breaker, pos, lastErr, rateLimitErr, historyVars>>

\* The local variables go out of scope, and are fresh in the next call.
Leave(r) ==
    /\ chain' = [chain EXCEPT ![r] = <<>>]
    /\ pos' = [pos EXCEPT ![r] = 1]
    /\ lastErr' = [lastErr EXCEPT ![r] = "none"]
    /\ rateLimitErr' = [rateLimitErr EXCEPT ![r] = FALSE]
    /\ outcomes' = [outcomes EXCEPT ![r] = {}]

\* The breaker refuses the model: `continue' with the next one.
Skip(r) ==
    /\ pc[r] = "next"
    /\ pos[r] <= Len(chain[r])
    /\ ~Allows(breaker[Current(r)])
    /\ pos' = [pos EXCEPT ![r] = @ + 1]
    /\ UNCHANGED <<breaker, pc, chain, lastErr, rateLimitErr, result, historyVars>>

\* The breaker admits the model: the upstream call begins.
Attempt(r) ==
    LET m == Current(r)
    IN  /\ pc[r] = "next"
        /\ pos[r] <= Len(chain[r])
        /\ Allows(breaker[m])
        /\ breaker' = [breaker EXCEPT ![m] = AllowRequest(@)]
        /\ pc' = [pc EXCEPT ![r] = "calling"]
        /\ probes' = [probes EXCEPT ![m] =
                        CASE breaker[m].state = "closed"    -> @
                          [] breaker[m].state = "open"      -> 1
                          [] breaker[m].state = "half_open" -> @ + 1]
        /\ UNCHANGED <<chain, pos, lastErr, rateLimitErr, result,
                       failStreak, okStreak, outcomes>>

\* The upstream call succeeds: the outcome is recorded and returned.
Succeed(r) ==
    LET m == Current(r)
    IN  /\ pc[r] = "calling"
        /\ breaker' = [breaker EXCEPT ![m] = RecordSuccess(@)]
        /\ pc' = [pc EXCEPT ![r] = "done"]
        /\ result' = [result EXCEPT ![r] = "ok"]
        /\ failStreak' = [failStreak EXCEPT ![m] = 0]
        /\ okStreak' = [okStreak EXCEPT ![m] = IF @ < HalfOpenMaxCalls THEN @ + 1 ELSE @]
        /\ Leave(r)
        /\ UNCHANGED probes

\* The upstream call fails: the error is kept, the failure recorded.
Fail(r, err) ==
    LET m == Current(r)
    IN  /\ pc[r] = "calling"
        /\ lastErr' = [lastErr EXCEPT ![r] = err]
        /\ rateLimitErr' = [rateLimitErr EXCEPT ![r] = @ \/ err = "rate_limited"]
        /\ breaker' = [breaker EXCEPT ![m] = RecordFailure(@)]
        /\ pos' = [pos EXCEPT ![r] = @ + 1]
        /\ pc' = [pc EXCEPT ![r] = "next"]
        /\ failStreak' = [failStreak EXCEPT ![m] = Increment(@)]
        /\ okStreak' = [okStreak EXCEPT ![m] = 0]
        /\ outcomes' = [outcomes EXCEPT ![r] = @ \cup {err}]
        /\ UNCHANGED <<chain, result, probes>>

\* Mutant of TerminalErr: the last error wins over an earlier rate limit.
TerminalErrLast(r) == IF lastErr[r] = "none" THEN "all_skipped" ELSE lastErr[r]

\* A rate limit is preferred to the last error; neither is there if every model
\* was skipped.
TerminalErr(r) ==
    CASE rateLimitErr[r]                          -> "rate_limited"
      [] ~rateLimitErr[r] /\ lastErr[r] # "none" -> lastErr[r]
      [] ~rateLimitErr[r] /\ lastErr[r] = "none" -> "all_skipped"

\* The chain is exhausted: the terminal error is chosen and returned.
Exhaust(r) ==
    /\ pc[r] = "next"
    /\ pos[r] > Len(chain[r])
    /\ result' = [result EXCEPT ![r] = TerminalErr(r)]
    /\ pc' = [pc EXCEPT ![r] = "done"]
    /\ Leave(r)
    /\ UNCHANGED <<breaker, failStreak, okStreak, probes>>

\* Environment: recoveryTimeout has passed since m's last recorded failure.
RecoveryElapses(m) ==
    /\ ~breaker[m].elapsed
    /\ breaker' = [breaker EXCEPT ![m].elapsed = TRUE]
    /\ UNCHANGED <<requestVars, historyVars>>

Step(r) ==
    \/ Skip(r)
    \/ Attempt(r)
    \/ Succeed(r)
    \/ \E err \in CallErrors : Fail(r, err)
    \/ Exhaust(r)

Next ==
    \/ \E r \in Requests : Step(r) \/ \E c \in Chains : Start(r, c)
    \/ \E m \in Models : RecoveryElapses(m)

Spec == Init /\ [][Next]_vars

(***************************************************************************)
(* Fairness.  A goroutine is scheduled, and an upstream call returns: the  *)
(* http.Client of NewOpenCodeClient has a timeout (5 minutes by default).  *)
(* Clocks advance.  FairSpec says nothing of arrivals; LoadedSpec assumes  *)
(* that clients keep sending requests.                                     *)
(***************************************************************************)
Fairness ==
    /\ \A r \in Requests : WF_vars(Step(r))
    /\ \A m \in Models : WF_vars(RecoveryElapses(m))

FairSpec == Spec /\ Fairness

LoadedSpec ==
    FairSpec /\ \A r \in Requests, c \in Chains : SF_vars(Start(r, c))

-----------------------------------------------------------------------------
(* Properties *)

(***************************************************************************)
(* The counters agree with the state: a closed breaker is below the        *)
(* threshold and counts no probe successes, an open one counts none        *)
(* either, a half-open one has fewer than it needs to close.  Each of      *)
(* RecordSuccess and RecordFailure keeps only its own part of this.        *)
(***************************************************************************)
BreakerConsistent == \A m \in Models : Consistent(breaker[m])

(***************************************************************************)
(* A half-open breaker that refuses requests is waiting for at least two   *)
(* calls that are still under way, whose outcomes will close or reopen it. *)
(* This is why the refusal is never permanent: every admitted call records *)
(* its outcome (fallback.go:206-226), whatever the outcome is.             *)
(***************************************************************************)
NoStuckHalfOpen ==
    \A m \in Models :
        breaker[m].state = "half_open" /\ ~Allows(breaker[m])
            => Cardinality(InFlight(m)) >= 2

(***************************************************************************)
(* A circuit moves only on evidence: it opens from closed after            *)
(* FailureThreshold failures in a row (whichever requests they belong to), *)
(* from half-open on a failure; it closes only after HalfOpenMaxCalls      *)
(* successes in a row, those of calls admitted before it opened included.  *)
(***************************************************************************)
Opens(m) == breaker[m].state # "open" /\ breaker'[m].state = "open"
Closes(m) == breaker[m].state # "closed" /\ breaker'[m].state = "closed"

MovesOnEvidence ==
    [][\A m \in Models :
          /\ Opens(m) => failStreak'[m] >= (IF breaker[m].state = "closed"
                                           THEN FailureThreshold ELSE 1)
          /\ Closes(m) => /\ breaker[m].state = "half_open"
                          /\ okStreak'[m] >= HalfOpenMaxCalls]_vars

(***************************************************************************)
(* A failed call returns a rate limit exactly when some attempt met one,   *)
(* and the generic message exactly when no model was attempted, in         *)
(* whatever order errors and skips came (fallback.go:231-240).             *)
(***************************************************************************)
TerminalErrorHonest ==
    [][\A r \in Requests : pc[r] = "next" /\ pc'[r] = "done" =>
          /\ result'[r] = "rate_limited" <=> "rate_limited" \in outcomes[r]
          /\ result'[r] = "all_skipped" <=> outcomes[r] = {}]_vars

(***************************************************************************)
(* While requests keep coming no breaker stays half-open, or open, for     *)
(* ever: the model is tested again after every outage.                     *)
(***************************************************************************)
BreakerRecovers ==
    \A m \in Models :
        /\ breaker[m].state = "half_open" ~> breaker[m].state # "half_open"
        /\ breaker[m].state = "open" ~> breaker[m].state # "open"
=============================================================================
