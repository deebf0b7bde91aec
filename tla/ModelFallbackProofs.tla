------------------------ MODULE ModelFallbackProofs ------------------------
(***************************************************************************)
(* Safety of the model breakers under any number of concurrent requests,   *)
(* any chains and any thresholds.                                          *)
(***************************************************************************)
EXTENDS ModelFallback, FiniteSetTheorems, TLAPS

-----------------------------------------------------------------------------
(* What each method does to a well-formed, consistent breaker: the only      *)
(* facts about the operators of CircuitBreaker that the proofs below need.   *)

\* A breaker starts well-formed and consistent (fallback.go:39-46).
LEMMA NewBreaker == NewCircuitBreaker \in Breaker /\ Consistent(NewCircuitBreaker)
BY BreakerAssumption DEF NewCircuitBreaker, Breaker, CircuitState, Consistent

\* AllowRequest keeps a closed breaker, makes an open one half-open with no
\* call counted, and counts one more call of a half-open one (fallback.go:49-72).
LEMMA AllowRequestFacts ==
    ASSUME NEW b \in Breaker, Consistent(b), Allows(b)
    PROVE  /\ AllowRequest(b) \in Breaker
           /\ Consistent(AllowRequest(b))
           /\ AllowRequest(b).successCount = b.successCount
           /\ b.state = "closed" => AllowRequest(b) = b
           /\ b.state = "open" => /\ AllowRequest(b).state = "half_open"
                                  /\ AllowRequest(b).halfOpenCalls = 0
           /\ b.state = "half_open" =>
                 /\ AllowRequest(b).state = "half_open"
                 /\ b.halfOpenCalls < HalfOpenMaxCalls
                 /\ AllowRequest(b).halfOpenCalls = b.halfOpenCalls + 1
<1>1. CASE b.state = "closed"
  BY <1>1 DEF AllowRequest
<1>2. CASE b.state = "open"
  <2>1. AllowRequest(b) = [b EXCEPT !.state = "half_open", !.halfOpenCalls = 0]
    BY <1>2 DEF AllowRequest
  <2> DEFINE n == [state |-> "half_open", failureCount |-> b.failureCount,
                   successCount |-> b.successCount, halfOpenCalls |-> 0,
                   elapsed |-> b.elapsed]
  <2>2. AllowRequest(b) = n
    BY <2>1 DEF Breaker
  <2>3. n \in Breaker /\ Consistent(n)
    BY <1>2, BreakerAssumption DEF Breaker, CircuitState, Consistent
  <2>4. QED
    BY <1>2, <2>2, <2>3
<1>3. CASE b.state = "half_open"
  <2>1. b.halfOpenCalls < HalfOpenMaxCalls
    BY <1>3 DEF Allows
  <2> DEFINE n == [state |-> "half_open", failureCount |-> b.failureCount,
                   successCount |-> b.successCount,
                   halfOpenCalls |-> b.halfOpenCalls + 1, elapsed |-> b.elapsed]
  <2>2. AllowRequest(b) = n
    BY <1>3 DEF AllowRequest, Breaker
  <2>3. n \in Breaker /\ Consistent(n)
    BY <1>3, <2>1, BreakerAssumption DEF Breaker, CircuitState, Consistent
  <2>4. QED
    BY <1>3, <2>1, <2>2, <2>3
<1>4. QED
  BY <1>1, <1>2, <1>3 DEF Breaker, CircuitState

\* RecordSuccess closes a half-open breaker or counts the success, and never
\* makes another one half-open (fallback.go:75-90).
LEMMA RecordSuccessFacts ==
    ASSUME NEW b \in Breaker, Consistent(b)
    PROVE  /\ RecordSuccess(b) \in Breaker
           /\ Consistent(RecordSuccess(b))
           /\ RecordSuccess(b).state = "half_open" =>
                 /\ b.state = "half_open"
                 /\ RecordSuccess(b).halfOpenCalls = b.halfOpenCalls
                 /\ RecordSuccess(b).successCount = b.successCount + 1
           /\ RecordSuccess(b).state # b.state =>
                 /\ b.state = "half_open"
                 /\ RecordSuccess(b).state = "closed"
                 /\ b.successCount + 1 = HalfOpenMaxCalls
           /\ b.state = "closed" => RecordSuccess(b).failureCount = 0
           /\ RecordSuccess(b).state = "closed" => RecordSuccess(b).failureCount = 0
<1>1. CASE b.state = "half_open" /\ b.successCount + 1 >= HalfOpenMaxCalls
  <2> DEFINE n == [state |-> "closed", failureCount |-> 0, successCount |-> 0,
                   halfOpenCalls |-> b.halfOpenCalls, elapsed |-> b.elapsed]
  <2>0. ~(b.successCount + 1 < HalfOpenMaxCalls)
    BY <1>1, BreakerAssumption DEF Breaker
  <2>1. RecordSuccess(b) = n
    BY <1>1, <2>0 DEF RecordSuccess, Breaker
  <2>2. n \in Breaker /\ Consistent(n)
    BY BreakerAssumption DEF Breaker, CircuitState, Consistent
  <2>3. b.successCount + 1 = HalfOpenMaxCalls
    BY <1>1, BreakerAssumption DEF Breaker, Consistent
  <2>4. QED
    BY <1>1, <2>1, <2>2, <2>3
<1>2. CASE b.state = "half_open" /\ b.successCount + 1 < HalfOpenMaxCalls
  <2>1. ~(b.successCount + 1 >= HalfOpenMaxCalls)
    BY <1>2, BreakerAssumption DEF Breaker
  <2> DEFINE n == [state |-> "half_open", failureCount |-> b.failureCount,
                   successCount |-> b.successCount + 1,
                   halfOpenCalls |-> b.halfOpenCalls, elapsed |-> b.elapsed]
  <2>2. RecordSuccess(b) = n
    BY <1>2, <2>1 DEF RecordSuccess, Breaker
  <2>3. n \in Breaker /\ Consistent(n)
    BY <1>2, BreakerAssumption DEF Breaker, CircuitState, Consistent
  <2>4. QED
    BY <1>2, <2>2, <2>3
<1>3. CASE b.state = "closed"
  <2> DEFINE n == [state |-> "closed", failureCount |-> 0,
                   successCount |-> b.successCount,
                   halfOpenCalls |-> b.halfOpenCalls, elapsed |-> b.elapsed]
  <2>1. RecordSuccess(b) = n
    BY <1>3 DEF RecordSuccess, Breaker
  <2>2. n \in Breaker /\ Consistent(n)
    BY <1>3, BreakerAssumption DEF Breaker, CircuitState, Consistent
  <2>3. QED
    BY <1>3, <2>1, <2>2
<1>4. CASE b.state = "open"
  <2>1. RecordSuccess(b) = b
    BY <1>4 DEF RecordSuccess
  <2>2. QED
    BY <1>4, <2>1
<1>5. QED
  BY <1>1, <1>2, <1>3, <1>4, BreakerAssumption DEF Breaker, CircuitState

\* RecordFailure leaves no breaker half-open; it opens a closed one only at
\* the threshold (fallback.go:93-109).
LEMMA RecordFailureFacts ==
    ASSUME NEW b \in Breaker, Consistent(b)
    PROVE  /\ RecordFailure(b) \in Breaker
           /\ Consistent(RecordFailure(b))
           /\ RecordFailure(b).state # "half_open"
           /\ RecordFailure(b).state = "closed" => b.state = "closed"
           /\ RecordFailure(b).failureCount = Increment(b.failureCount)
<1>1. /\ Increment(b.failureCount) \in 0..FailureCap
      /\ Increment(b.failureCount) >= b.failureCount
      /\ b.failureCount \in Nat
  BY BreakerAssumption DEF Breaker, Increment
<1>2. CASE b.state = "half_open"
  <2>1. RecordFailure(b) = Failed(b, "open", 0)
    BY <1>2 DEF RecordFailure
  <2>2. QED
    BY <1>1, <1>2, <2>1, BreakerAssumption
    DEF Failed, Breaker, CircuitState, Consistent
<1>3. CASE b.state = "closed" /\ Increment(b.failureCount) >= FailureThreshold
  <2>1. ~(Increment(b.failureCount) < FailureThreshold)
    BY <1>1, <1>3, BreakerAssumption
  <2>2. RecordFailure(b) = Failed(b, "open", b.successCount)
    BY <1>3, <2>1 DEF RecordFailure
  <2>3. QED
    BY <1>1, <1>3, <2>2, BreakerAssumption
    DEF Failed, Breaker, CircuitState, Consistent
<1>4. CASE b.state = "closed" /\ Increment(b.failureCount) < FailureThreshold
  <2>1. ~(Increment(b.failureCount) >= FailureThreshold)
    BY <1>1, <1>4, BreakerAssumption
  <2>2. RecordFailure(b) = Failed(b, "closed", b.successCount)
    BY <1>4, <2>1 DEF RecordFailure
  <2>3. QED
    BY <1>1, <1>4, <2>2, BreakerAssumption
    DEF Failed, Breaker, CircuitState, Consistent
<1>5. CASE b.state = "open"
  <2>1. RecordFailure(b) = Failed(b, "open", b.successCount)
    BY <1>5 DEF RecordFailure
  <2>2. QED
    BY <1>1, <1>5, <2>1, BreakerAssumption
    DEF Failed, Breaker, CircuitState, Consistent
<1>6. QED
  BY <1>1, <1>2, <1>3, <1>4, <1>5, BreakerAssumption DEF Breaker, CircuitState

-----------------------------------------------------------------------------
(* The invariant. *)

\* The calls of a half-open period: every one that was admitted is under way,
\* has been counted as a success, or has ended the period.
ProbesAccounted(m) ==
    breaker[m].state = "half_open" =>
        /\ Cardinality(InFlight(m)) + breaker[m].successCount
              >= breaker[m].halfOpenCalls + 1
        /\ probes[m] = breaker[m].halfOpenCalls + 1

\* A request that calls upstream does so for a model of its chain.
CallsInChain == \A r \in Requests : pc[r] = "calling" => pos[r] <= Len(chain[r])

IInv ==
    /\ TypeOK
    /\ CallsInChain
    /\ BreakerConsistent
    /\ \A m \in Models : ProbesAccounted(m)

-----------------------------------------------------------------------------

\* The loop index of a request within its chain names a model.
LEMMA CurrentIsModel ==
    ASSUME TypeOK, NEW r \in Requests, pos[r] <= Len(chain[r])
    PROVE  Current(r) \in Models
<1>1. chain[r] \in Seq(Models)
  <2>1. chain[r] \in Chains \cup {<<>>}
    BY DEF TypeOK
  <2>2. CASE chain[r] \in Chains
    BY <2>2, FallbackAssumption
  <2>3. CASE chain[r] = <<>>
    BY <2>3
  <2>4. QED
    BY <2>1, <2>2, <2>3
<1>2. pos[r] \in 1..Len(chain[r])
  BY <1>1 DEF TypeOK
<1>3. QED
  BY <1>1, <1>2 DEF Current

\* The calls under way for a model are finitely many.
LEMMA InFlightFinite ==
    ASSUME NEW m
    PROVE  IsFiniteSet(InFlight(m)) /\ Cardinality(InFlight(m)) \in Nat
<1>1. IsFiniteSet(InFlight(m))
  BY FallbackAssumption, FS_Subset DEF InFlight
<1>2. QED
  BY <1>1, FS_CardinalityType

\* Where requests are does not change: neither do the calls under way.
LEMMA SameInFlight ==
    ASSUME UNCHANGED <<pc, chain, pos>>, NEW m
    PROVE  InFlight(m)' = InFlight(m)
BY DEF InFlight, Current

\* A request that is not calling before or after does not count.
LEMMA OutsiderInFlight ==
    ASSUME TypeOK, NEW r \in Requests, NEW m,
           pc[r] # "calling", pc'[r] # "calling",
           \A q \in Requests \ {r} :
              pc'[q] = pc[q] /\ chain'[q] = chain[q] /\ pos'[q] = pos[q]
    PROVE  InFlight(m)' = InFlight(m)
BY DEF InFlight, Current

-----------------------------------------------------------------------------

LEMMA InitIInv == Init => IInv
<1> SUFFICES ASSUME Init PROVE IInv
  OBVIOUS
<1>1. TypeOK
  BY NewBreaker, BreakerAssumption DEF Init, TypeOK, Results, CallErrors
<1>2. CallsInChain
  BY DEF Init, CallsInChain
<1>3. BreakerConsistent
  BY NewBreaker DEF Init, BreakerConsistent
<1>4. \A m \in Models : ProbesAccounted(m)
  BY DEF Init, ProbesAccounted, NewCircuitBreaker
<1>5. QED
  BY <1>1, <1>2, <1>3, <1>4 DEF IInv

\* A step that leaves the breakers, the histories and the calls alone.
LEMMA BystanderStep ==
    ASSUME IInv, NEW r \in Requests, TypeOK', CallsInChain',
           UNCHANGED <<breaker, probes>>,
           pc[r] # "calling", pc'[r] # "calling",
           \A q \in Requests \ {r} :
              pc'[q] = pc[q] /\ chain'[q] = chain[q] /\ pos'[q] = pos[q]
    PROVE  IInv'
<1>1. BreakerConsistent'
  BY DEF IInv, BreakerConsistent
<1>2. ASSUME NEW m \in Models
      PROVE  ProbesAccounted(m)'
  <2>1. InFlight(m)' = InFlight(m)
    BY OutsiderInFlight DEF IInv
  <2>2. QED
    BY <2>1 DEF IInv, ProbesAccounted
<1>3. QED
  BY <1>1, <1>2 DEF IInv

LEMMA StartStep ==
    ASSUME IInv, NEW r \in Requests, NEW c \in Chains, Start(r, c)
    PROVE  IInv'
<1>1. TypeOK'
  BY DEF IInv, TypeOK, Start, historyVars, Results, CallErrors
<1>2. CallsInChain'
  BY DEF IInv, TypeOK, CallsInChain, Start
<1>3. QED
  BY <1>1, <1>2, BystanderStep DEF IInv, TypeOK, Start, historyVars

LEMMA SkipStep ==
    ASSUME IInv, NEW r \in Requests, Skip(r)
    PROVE  IInv'
<1>1. TypeOK'
  BY DEF IInv, TypeOK, Skip, historyVars
<1>2. CallsInChain'
  BY DEF IInv, TypeOK, CallsInChain, Skip
<1>3. QED
  BY <1>1, <1>2, BystanderStep DEF IInv, TypeOK, Skip, historyVars

LEMMA ExhaustStep ==
    ASSUME IInv, NEW r \in Requests, Exhaust(r)
    PROVE  IInv'
<1>0. TerminalErr(r) \in Results
  BY DEF IInv, TypeOK, TerminalErr, Results, CallErrors
<1>1. TypeOK'
  BY <1>0 DEF IInv, TypeOK, Exhaust, Leave, historyVars
<1>2. CallsInChain'
  BY DEF IInv, TypeOK, CallsInChain, Exhaust, Leave
<1>3. QED
  BY <1>1, <1>2, BystanderStep DEF IInv, TypeOK, Exhaust, Leave, historyVars

\* An admitted call joins the calls under way, and raises the count of the
\* half-open calls by one, from -1 as it were when it opens the period.
LEMMA AttemptStep ==
    ASSUME IInv, NEW r \in Requests, Attempt(r)
    PROVE  IInv'
<1> DEFINE m == Current(r)
           b == breaker[m]
<1>1. /\ m \in Models
      /\ b \in Breaker
      /\ Consistent(b)
      /\ Allows(b)
      /\ ProbesAccounted(m)
  BY CurrentIsModel DEF IInv, Attempt, TypeOK, BreakerConsistent
<1>2. /\ breaker' = [breaker EXCEPT ![m] = AllowRequest(b)]
      /\ breaker'[m] = AllowRequest(b)
      /\ \A k \in Models \ {m} : breaker'[k] = breaker[k] /\ probes'[k] = probes[k]
  BY <1>1 DEF IInv, TypeOK, Attempt
<1>3. /\ AllowRequest(b) \in Breaker
      /\ Consistent(AllowRequest(b))
  BY <1>1, AllowRequestFacts
<1>4. /\ AllowRequest(b).state = "half_open" =>
            probes'[m] = AllowRequest(b).halfOpenCalls + 1
      /\ probes'[m] \in 0..(HalfOpenMaxCalls + 1)
  <2>1. probes[m] \in 0..(HalfOpenMaxCalls + 1)
    BY <1>1 DEF IInv, TypeOK
  <2>2. CASE b.state = "closed"
    BY <1>1, <2>1, <2>2, AllowRequestFacts DEF IInv, TypeOK, Attempt
  <2>3. CASE b.state = "open"
    <3>1. probes'[m] = 1
      BY <1>1, <2>3 DEF IInv, TypeOK, Attempt
    <3>2. QED
      BY <1>1, <2>3, <3>1, AllowRequestFacts, BreakerAssumption
  <2>4. CASE b.state = "half_open"
    <3>1. probes'[m] = probes[m] + 1
      BY <1>1, <2>4 DEF IInv, TypeOK, Attempt
    <3>2. /\ AllowRequest(b).halfOpenCalls = b.halfOpenCalls + 1
          /\ b.halfOpenCalls < HalfOpenMaxCalls
      BY <1>1, <2>4, AllowRequestFacts
    <3>3. probes[m] = b.halfOpenCalls + 1
      BY <1>1, <2>4 DEF ProbesAccounted
    <3>4. b.halfOpenCalls \in Nat
      BY <1>1, BreakerAssumption DEF Breaker
    <3>5. QED
      BY <3>1, <3>2, <3>3, <3>4, BreakerAssumption
  <2>5. QED
    BY <1>1, <2>2, <2>3, <2>4 DEF Breaker, CircuitState
<1>5. TypeOK'
  <2>1. breaker' \in [Models -> Breaker]
    BY <1>2, <1>3 DEF IInv, TypeOK
  <2>2. probes' \in [Models -> 0..(HalfOpenMaxCalls + 1)]
    BY <1>4, <1>1 DEF IInv, TypeOK, Attempt
  <2>3. QED
    BY <2>1, <2>2 DEF IInv, TypeOK, Attempt
<1>6. CallsInChain'
  BY DEF IInv, TypeOK, CallsInChain, Attempt
<1>7. BreakerConsistent'
  BY <1>2, <1>3 DEF IInv, BreakerConsistent
<1>8. ASSUME NEW k \in Models
      PROVE  ProbesAccounted(k)'
  <2>1. /\ InFlight(k)' = IF k = m THEN InFlight(k) \cup {r} ELSE InFlight(k)
        /\ r \notin InFlight(m)
    BY DEF IInv, TypeOK, Attempt, InFlight, Current
  <2>2. CASE k # m
    BY <1>2, <2>1, <2>2 DEF IInv, ProbesAccounted
  <2>3. CASE k = m
    <3>1. Cardinality(InFlight(k)') = Cardinality(InFlight(m)) + 1
      <4>1. InFlight(k)' = InFlight(m) \cup {r}
        BY <2>1, <2>3
      <4>2. Cardinality(InFlight(m) \cup {r}) = Cardinality(InFlight(m)) + 1
        BY <2>1, InFlightFinite, FS_AddElement
      <4>3. QED
        BY <4>1, <4>2
    <3>2. Cardinality(InFlight(m)) \in Nat
      BY InFlightFinite
    <3>3. /\ AllowRequest(b).successCount = b.successCount
          /\ b.successCount \in Nat
          /\ b.halfOpenCalls \in Nat
      BY <1>1, AllowRequestFacts, BreakerAssumption DEF Breaker
    <3>4. ASSUME AllowRequest(b).state = "half_open"
          PROVE  Cardinality(InFlight(k)') + b.successCount
                    >= AllowRequest(b).halfOpenCalls + 1
      <4>1. CASE b.state = "closed"
        BY <1>1, <3>4, <4>1, AllowRequestFacts
      <4>2. CASE b.state = "open"
        BY <1>1, <3>1, <3>2, <3>3, <4>2, AllowRequestFacts
      <4>3. CASE b.state = "half_open"
        <5>1. Cardinality(InFlight(m)) + b.successCount >= b.halfOpenCalls + 1
          BY <1>1, <4>3 DEF ProbesAccounted
        <5>2. AllowRequest(b).halfOpenCalls = b.halfOpenCalls + 1
          BY <1>1, <4>3, AllowRequestFacts
        <5>3. QED
          BY <3>1, <3>2, <3>3, <5>1, <5>2
      <4>4. QED
        BY <1>1, <4>1, <4>2, <4>3 DEF Breaker, CircuitState
    <3>5. breaker'[k] = AllowRequest(b) /\ probes'[k] = probes'[m]
      BY <1>2, <2>3
    <3>6. QED
      BY <1>4, <2>3, <3>3, <3>4, <3>5 DEF ProbesAccounted
  <2>4. QED
    BY <2>2, <2>3
<1>9. QED
  BY <1>5, <1>6, <1>7, <1>8 DEF IInv

\* A call that ends leaves the calls under way, and no other call does.
LEMMA OneCallEnds ==
    ASSUME TypeOK, NEW r \in Requests, NEW k,
           pc[r] = "calling", pc'[r] # "calling",
           \A q \in Requests \ {r} :
              pc'[q] = pc[q] /\ chain'[q] = chain[q] /\ pos'[q] = pos[q]
    PROVE  /\ InFlight(k)' = IF k = Current(r) THEN InFlight(k) \ {r} ELSE InFlight(k)
           /\ Cardinality(InFlight(Current(r)) \ {r}) = Cardinality(InFlight(Current(r))) - 1
<1>1. InFlight(k)' = IF k = Current(r) THEN InFlight(k) \ {r} ELSE InFlight(k)
  BY DEF InFlight, Current
<1>2. r \in InFlight(Current(r))
  BY DEF InFlight
<1>3. QED
  BY <1>1, <1>2, InFlightFinite, FS_RemoveElement

\* A success moves a call from under way to the count of successes.
LEMMA SucceedStep ==
    ASSUME IInv, NEW r \in Requests, Succeed(r)
    PROVE  IInv'
<1> DEFINE m == Current(r)
           b == breaker[m]
<1>1. /\ m \in Models
      /\ b \in Breaker
      /\ Consistent(b)
      /\ ProbesAccounted(m)
  BY CurrentIsModel DEF IInv, Succeed, TypeOK, BreakerConsistent, CallsInChain
<1>2. /\ breaker' = [breaker EXCEPT ![m] = RecordSuccess(b)]
      /\ breaker'[m] = RecordSuccess(b)
      /\ \A k \in Models \ {m} : breaker'[k] = breaker[k]
      /\ probes' = probes
  BY <1>1 DEF IInv, TypeOK, Succeed
<1>3. /\ RecordSuccess(b) \in Breaker
      /\ Consistent(RecordSuccess(b))
  BY <1>1, RecordSuccessFacts
<1>4. TypeOK'
  <2>1. breaker' \in [Models -> Breaker]
    BY <1>2, <1>3 DEF IInv, TypeOK
  <2>2. /\ failStreak' \in [Models -> 0..FailureCap]
        /\ okStreak' \in [Models -> 0..HalfOpenMaxCalls]
    <3>0. 0 \in 0..FailureCap
      BY BreakerAssumption
    <3>1. failStreak' \in [Models -> 0..FailureCap]
      BY <3>0 DEF IInv, TypeOK, Succeed
    <3>2. \A n \in 0..HalfOpenMaxCalls :
             (IF n < HalfOpenMaxCalls THEN n + 1 ELSE n) \in 0..HalfOpenMaxCalls
      BY BreakerAssumption
    <3>3. okStreak' \in [Models -> 0..HalfOpenMaxCalls]
      BY <1>1, <3>2 DEF IInv, TypeOK, Succeed
    <3>4. QED
      BY <3>1, <3>3
  <2>3. QED
    BY <2>1, <2>2 DEF IInv, TypeOK, Succeed, Leave, Results
<1>5. CallsInChain'
  BY DEF IInv, TypeOK, CallsInChain, Succeed, Leave
<1>6. BreakerConsistent'
  BY <1>2, <1>3 DEF IInv, BreakerConsistent
<1>7. ASSUME NEW k \in Models
      PROVE  ProbesAccounted(k)'
  <2>1. /\ InFlight(k)' = IF k = m THEN InFlight(k) \ {r} ELSE InFlight(k)
        /\ Cardinality(InFlight(m) \ {r}) = Cardinality(InFlight(m)) - 1
    BY OneCallEnds DEF IInv, TypeOK, Succeed, Leave
  <2>2. CASE k # m
    BY <1>2, <2>1, <2>2 DEF IInv, ProbesAccounted
  <2>3. CASE k = m
    <3>1. SUFFICES ASSUME RecordSuccess(b).state = "half_open"
                   PROVE  /\ Cardinality(InFlight(m) \ {r}) + RecordSuccess(b).successCount
                                >= RecordSuccess(b).halfOpenCalls + 1
                          /\ probes[m] = RecordSuccess(b).halfOpenCalls + 1
      BY <1>2, <2>1, <2>3 DEF ProbesAccounted
    <3>2. /\ b.state = "half_open"
          /\ RecordSuccess(b).halfOpenCalls = b.halfOpenCalls
          /\ RecordSuccess(b).successCount = b.successCount + 1
      BY <1>1, <3>1, RecordSuccessFacts
    <3>3. /\ Cardinality(InFlight(m)) + b.successCount >= b.halfOpenCalls + 1
          /\ probes[m] = b.halfOpenCalls + 1
      BY <1>1, <3>2 DEF ProbesAccounted
    <3>4. /\ Cardinality(InFlight(m)) \in Nat
          /\ b.successCount \in Nat
          /\ b.halfOpenCalls \in Nat
      BY <1>1, InFlightFinite, BreakerAssumption DEF Breaker
    <3>5. QED
      BY <2>1, <3>2, <3>3, <3>4
  <2>4. QED
    BY <2>2, <2>3
<1>8. QED
  BY <1>4, <1>5, <1>6, <1>7 DEF IInv

\* A failure ends the half-open period of its model.
LEMMA FailStep ==
    ASSUME IInv, NEW r \in Requests, NEW err \in CallErrors, Fail(r, err)
    PROVE  IInv'
<1> DEFINE m == Current(r)
           b == breaker[m]
<1>1. /\ m \in Models
      /\ b \in Breaker
      /\ Consistent(b)
  BY CurrentIsModel DEF IInv, Fail, TypeOK, BreakerConsistent, CallsInChain
<1>2. /\ breaker' = [breaker EXCEPT ![m] = RecordFailure(b)]
      /\ breaker'[m] = RecordFailure(b)
      /\ \A k \in Models \ {m} : breaker'[k] = breaker[k]
      /\ probes' = probes
  BY <1>1 DEF IInv, TypeOK, Fail
<1>3. /\ RecordFailure(b) \in Breaker
      /\ Consistent(RecordFailure(b))
      /\ RecordFailure(b).state # "half_open"
  BY <1>1, RecordFailureFacts
<1>4. TypeOK'
  <2>1. breaker' \in [Models -> Breaker]
    BY <1>2, <1>3 DEF IInv, TypeOK
  <2>2. /\ failStreak' \in [Models -> 0..FailureCap]
        /\ okStreak' \in [Models -> 0..HalfOpenMaxCalls]
    <3>1. \A n \in 0..FailureCap : Increment(n) \in 0..FailureCap
      BY BreakerAssumption DEF Increment
    <3>2. failStreak' \in [Models -> 0..FailureCap]
      BY <1>1, <3>1 DEF IInv, TypeOK, Fail
    <3>0. 0 \in 0..HalfOpenMaxCalls
      BY BreakerAssumption
    <3>3. okStreak' \in [Models -> 0..HalfOpenMaxCalls]
      BY <3>0 DEF IInv, TypeOK, Fail
    <3>4. QED
      BY <3>2, <3>3
  <2>3. /\ pos' \in [Requests -> Nat \ {0}]
        /\ lastErr' \in [Requests -> CallErrors \cup {"none"}]
        /\ rateLimitErr' \in [Requests -> BOOLEAN]
    BY DEF IInv, TypeOK, Fail
  <2>4. QED
    BY <2>1, <2>2, <2>3 DEF IInv, TypeOK, Fail
<1>5. CallsInChain'
  BY DEF IInv, TypeOK, CallsInChain, Fail
<1>6. BreakerConsistent'
  BY <1>2, <1>3 DEF IInv, BreakerConsistent
<1>7. ASSUME NEW k \in Models
      PROVE  ProbesAccounted(k)'
  <2>1. CASE k = m
    BY <1>2, <1>3, <2>1 DEF ProbesAccounted
  <2>2. CASE k # m
    <3>1. InFlight(k)' = InFlight(k)
      BY <2>2, OneCallEnds DEF IInv, TypeOK, Fail
    <3>2. QED
      BY <1>2, <2>2, <3>1 DEF IInv, ProbesAccounted
  <2>3. QED
    BY <2>1, <2>2
<1>8. QED
  BY <1>4, <1>5, <1>6, <1>7 DEF IInv

\* The clock changes nothing but `elapsed'.
LEMMA RecoveryElapsesStep ==
    ASSUME IInv, NEW m \in Models, RecoveryElapses(m)
    PROVE  IInv'
<1>1. UNCHANGED <<pc, chain, pos, lastErr, rateLimitErr, result,
                  failStreak, okStreak, probes, outcomes>>
  BY DEF RecoveryElapses, requestVars, historyVars
<1>2. ASSUME NEW k \in Models
      PROVE  /\ breaker'[k] \in Breaker
             /\ breaker'[k].state = breaker[k].state
             /\ breaker'[k].failureCount = breaker[k].failureCount
             /\ breaker'[k].successCount = breaker[k].successCount
             /\ breaker'[k].halfOpenCalls = breaker[k].halfOpenCalls
  <2>1. breaker[k] \in Breaker
    BY DEF IInv, TypeOK
  <2>2. breaker'[k] = IF k = m THEN [breaker[k] EXCEPT !.elapsed = TRUE] ELSE breaker[k]
    BY DEF IInv, TypeOK, RecoveryElapses
  <2>3. QED
    BY <2>1, <2>2 DEF Breaker
<1>3. TypeOK'
  <2>1. breaker' \in [Models -> Breaker]
    BY <1>2 DEF IInv, TypeOK, RecoveryElapses
  <2>2. QED
    BY <1>1, <2>1 DEF IInv, TypeOK
<1>4. CallsInChain'
  BY <1>1 DEF IInv, CallsInChain
<1>5. BreakerConsistent'
  BY <1>2 DEF IInv, BreakerConsistent, Consistent
<1>6. ASSUME NEW k \in Models
      PROVE  ProbesAccounted(k)'
  BY <1>1, <1>2, SameInFlight DEF IInv, ProbesAccounted
<1>7. QED
  BY <1>3, <1>4, <1>5, <1>6 DEF IInv

LEMMA StutterStep ==
    ASSUME IInv, UNCHANGED vars
    PROVE  IInv'
<1>1. UNCHANGED <<breaker, pc, chain, pos, lastErr, rateLimitErr, result,
                  failStreak, okStreak, probes, outcomes>>
  BY DEF vars, requestVars, historyVars
<1>2. TypeOK' /\ CallsInChain' /\ BreakerConsistent'
  BY <1>1 DEF IInv, TypeOK, CallsInChain, BreakerConsistent
<1>3. ASSUME NEW m \in Models
      PROVE  ProbesAccounted(m)'
  BY <1>1, SameInFlight DEF IInv, ProbesAccounted
<1>4. QED
  BY <1>2, <1>3 DEF IInv

\* IInv is inductive.
THEOREM Inductive == Spec => []IInv
<1>1. IInv /\ [Next]_vars => IInv'
  <2> SUFFICES ASSUME IInv, [Next]_vars PROVE IInv'
    OBVIOUS
  <2>1. ASSUME NEW r \in Requests, NEW c \in Chains, Start(r, c) PROVE IInv'
    BY <2>1, StartStep
  <2>2. ASSUME NEW r \in Requests, Step(r) PROVE IInv'
    <3>1. CASE Skip(r)
      BY <3>1, SkipStep
    <3>2. CASE Attempt(r)
      BY <3>2, AttemptStep
    <3>3. CASE Succeed(r)
      BY <3>3, SucceedStep
    <3>4. ASSUME NEW err \in CallErrors, Fail(r, err) PROVE IInv'
      BY <3>4, FailStep
    <3>5. CASE Exhaust(r)
      BY <3>5, ExhaustStep
    <3>6. QED
      BY <2>2, <3>1, <3>2, <3>3, <3>4, <3>5 DEF Step
  <2>3. ASSUME NEW m \in Models, RecoveryElapses(m) PROVE IInv'
    BY <2>3, RecoveryElapsesStep
  <2>4. CASE UNCHANGED vars
    BY <2>4, StutterStep
  <2>5. QED
    BY <2>1, <2>2, <2>3, <2>4 DEF Next
<1>2. QED
  BY InitIInv, <1>1, PTL DEF Spec

\* Every variable keeps its type, the bounds of the counters included.
THEOREM TypeCorrect == Spec => []TypeOK
<1>1. IInv => TypeOK
  BY DEF IInv
<1>2. QED
  BY Inductive, <1>1, PTL

\* The counters of every breaker agree with its state, whatever order calls
\* are admitted in and their outcomes come back (fallback.go:49-109).
THEOREM BreakersConsistent == Spec => []BreakerConsistent
<1>1. IInv => BreakerConsistent
  BY DEF IInv
<1>2. QED
  BY Inductive, <1>1, PTL

\* A half-open breaker that refuses requests has two calls under way: it is
\* never stuck.  The router records every outcome (fallback.go:206-226).
THEOREM NeverStuckHalfOpen == Spec => []NoStuckHalfOpen
<1>1. IInv => NoStuckHalfOpen
  <2> SUFFICES ASSUME IInv, NEW m \in Models,
                      breaker[m].state = "half_open", ~Allows(breaker[m])
               PROVE  Cardinality(InFlight(m)) >= 2
    BY DEF NoStuckHalfOpen
  <2>1. breaker[m] \in Breaker /\ Consistent(breaker[m]) /\ ProbesAccounted(m)
    BY DEF IInv, TypeOK, BreakerConsistent
  <2>2. /\ breaker[m].halfOpenCalls = HalfOpenMaxCalls
        /\ breaker[m].successCount < HalfOpenMaxCalls
        /\ breaker[m].successCount \in Nat
    BY <2>1, BreakerAssumption DEF Allows, Breaker, Consistent
  <2>3. Cardinality(InFlight(m)) + breaker[m].successCount >= HalfOpenMaxCalls + 1
    BY <2>1, <2>2 DEF ProbesAccounted
  <2>4. QED
    BY <2>2, <2>3, InFlightFinite, BreakerAssumption
<1>2. QED
  BY Inductive, <1>1, PTL

-----------------------------------------------------------------------------
(* The evidence on which a circuit moves *)

\* The streaks of the history are at least what the breaker has counted.
Evidenced(m) ==
    /\ breaker[m].state = "closed" => failStreak[m] >= breaker[m].failureCount
    /\ breaker[m].state = "half_open" => okStreak[m] >= breaker[m].successCount

\* MovesOnEvidence, for one model.
Moves(m) ==
    /\ Opens(m) => failStreak'[m] >= (IF breaker[m].state = "closed"
                                     THEN FailureThreshold ELSE 1)
    /\ Closes(m) => /\ breaker[m].state = "half_open"
                    /\ okStreak'[m] >= HalfOpenMaxCalls

\* A step that leaves a model's state, counters and streaks alone moves nothing.
LEMMA QuietEvidence ==
    ASSUME NEW m \in Models, Evidenced(m),
           breaker'[m].state = breaker[m].state,
           breaker'[m].failureCount = breaker[m].failureCount,
           breaker'[m].successCount = breaker[m].successCount,
           failStreak'[m] = failStreak[m], okStreak'[m] = okStreak[m]
    PROVE  Evidenced(m)' /\ Moves(m)
BY DEF Evidenced, Moves, Opens, Closes

\* An admitted call makes an open circuit half-open at most, with no success.
LEMMA AttemptEvidence ==
    ASSUME IInv, NEW r \in Requests, Attempt(r), NEW k \in Models, Evidenced(k)
    PROVE  Evidenced(k)' /\ Moves(k)
<1> DEFINE m == Current(r)
           b == breaker[m]
<1>1. m \in Models /\ b \in Breaker /\ Consistent(b) /\ Allows(b)
  BY CurrentIsModel DEF IInv, Attempt, TypeOK, BreakerConsistent
<1>2. /\ breaker'[m] = AllowRequest(b)
      /\ \A n \in Models \ {m} : breaker'[n] = breaker[n]
      /\ failStreak' = failStreak /\ okStreak' = okStreak
  BY <1>1 DEF IInv, TypeOK, Attempt
<1>3. CASE k # m
  BY <1>2, <1>3, QuietEvidence
<1>4. CASE k = m
  <2>1. okStreak[m] \in Nat
    BY <1>1, BreakerAssumption DEF IInv, TypeOK
  <2>2. CASE b.state = "closed"
    BY <1>1, <1>2, <1>4, <2>2, AllowRequestFacts, QuietEvidence
  <2>3. CASE b.state = "open"
    <3>1. AllowRequest(b).state = "half_open" /\ AllowRequest(b).successCount = 0
      BY <1>1, <2>3, AllowRequestFacts DEF Consistent
    <3>2. QED
      BY <1>2, <1>4, <2>1, <2>3, <3>1 DEF Evidenced, Moves, Opens, Closes
  <2>4. CASE b.state = "half_open"
    <3>1. /\ AllowRequest(b).state = "half_open"
          /\ AllowRequest(b).successCount = b.successCount
      BY <1>1, <2>4, AllowRequestFacts
    <3>2. QED
      BY <1>2, <1>4, <2>4, <3>1 DEF Evidenced, Moves, Opens, Closes
  <2>5. QED
    BY <1>1, <2>2, <2>3, <2>4 DEF Breaker, CircuitState
<1>5. QED
  BY <1>3, <1>4

\* A success is counted in both, and closes the circuit when they are enough.
LEMMA SucceedEvidence ==
    ASSUME IInv, NEW r \in Requests, Succeed(r), NEW k \in Models, Evidenced(k)
    PROVE  Evidenced(k)' /\ Moves(k)
<1> DEFINE m == Current(r)
           b == breaker[m]
<1>1. m \in Models /\ b \in Breaker /\ Consistent(b)
  BY CurrentIsModel DEF IInv, Succeed, TypeOK, BreakerConsistent, CallsInChain
<1>2. /\ breaker'[m] = RecordSuccess(b)
      /\ failStreak'[m] = 0
      /\ okStreak'[m] = IF okStreak[m] < HalfOpenMaxCalls THEN okStreak[m] + 1
                                                          ELSE okStreak[m]
      /\ \A n \in Models \ {m} : /\ breaker'[n] = breaker[n]
                                 /\ failStreak'[n] = failStreak[n]
                                 /\ okStreak'[n] = okStreak[n]
  BY <1>1 DEF IInv, TypeOK, Succeed
<1>3. CASE k # m
  BY <1>2, <1>3, QuietEvidence
<1>4. CASE k = m
  <2>1. /\ okStreak[m] \in 0..HalfOpenMaxCalls
        /\ b.successCount \in 0..HalfOpenMaxCalls
        /\ b.state \in {"closed", "half_open", "open"}
    BY <1>1 DEF IInv, TypeOK, Breaker, CircuitState
  <2>2. b.state = "half_open" => okStreak[m] >= b.successCount
    BY <1>4 DEF Evidenced
  <2>3. Evidenced(k)'
    <3>1. RecordSuccess(b).state = "closed" => RecordSuccess(b).failureCount = 0
      BY <1>1, RecordSuccessFacts
    <3>2. RecordSuccess(b).state = "half_open" =>
              okStreak'[m] >= RecordSuccess(b).successCount
      <4>1. SUFFICES ASSUME RecordSuccess(b).state = "half_open"
                     PROVE  okStreak'[m] >= RecordSuccess(b).successCount
        OBVIOUS
      <4>2. /\ b.state = "half_open"
            /\ RecordSuccess(b).successCount = b.successCount + 1
            /\ RecordSuccess(b).successCount < HalfOpenMaxCalls
        BY <1>1, <4>1, RecordSuccessFacts DEF Consistent
      <4>3. QED
        BY <1>2, <2>1, <2>2, <4>2, BreakerAssumption
    <3>3. QED
      BY <1>2, <1>4, <3>1, <3>2 DEF Evidenced
  <2>4. Moves(k)
    <3>1. RecordSuccess(b).state # b.state =>
             /\ b.state = "half_open"
             /\ RecordSuccess(b).state = "closed"
             /\ b.successCount + 1 = HalfOpenMaxCalls
      BY <1>1, RecordSuccessFacts
    <3>2. ~Opens(m)
      BY <1>2, <3>1 DEF Opens
    <3>3. Closes(m) => b.state = "half_open" /\ okStreak'[m] >= HalfOpenMaxCalls
      <4>1. SUFFICES ASSUME Closes(m)
                     PROVE  b.state = "half_open" /\ okStreak'[m] >= HalfOpenMaxCalls
        OBVIOUS
      <4>2. b.state = "half_open" /\ b.successCount + 1 = HalfOpenMaxCalls
        BY <1>2, <3>1, <4>1 DEF Closes
      <4>3. QED
        BY <1>2, <2>1, <2>2, <4>2, BreakerAssumption
    <3>4. QED
      BY <1>4, <3>2, <3>3 DEF Moves
  <2>5. QED
    BY <1>4, <2>3, <2>4
<1>5. QED
  BY <1>3, <1>4

\* A failure is counted in both, and opens the circuit when they are enough.
LEMMA FailEvidence ==
    ASSUME IInv, NEW r \in Requests, NEW err \in CallErrors, Fail(r, err),
           NEW k \in Models, Evidenced(k)
    PROVE  Evidenced(k)' /\ Moves(k)
<1> DEFINE m == Current(r)
           b == breaker[m]
<1>1. m \in Models /\ b \in Breaker /\ Consistent(b)
  BY CurrentIsModel DEF IInv, Fail, TypeOK, BreakerConsistent, CallsInChain
<1>2. /\ breaker'[m] = RecordFailure(b)
      /\ failStreak'[m] = Increment(failStreak[m])
      /\ \A n \in Models \ {m} : /\ breaker'[n] = breaker[n]
                                 /\ failStreak'[n] = failStreak[n]
                                 /\ okStreak'[n] = okStreak[n]
  BY <1>1 DEF IInv, TypeOK, Fail
<1>3. CASE k # m
  BY <1>2, <1>3, QuietEvidence
<1>4. CASE k = m
  <2>1. /\ failStreak[m] \in 0..FailureCap
        /\ b.failureCount \in 0..FailureCap
    BY <1>1 DEF IInv, TypeOK, Breaker
  <2>2. /\ Increment(failStreak[m]) >= 1
        /\ failStreak[m] >= b.failureCount =>
              Increment(failStreak[m]) >= Increment(b.failureCount)
    BY <2>1, BreakerAssumption DEF Increment
  <2>3. /\ RecordFailure(b).state # "half_open"
        /\ RecordFailure(b).state = "closed" => b.state = "closed"
        /\ RecordFailure(b).failureCount = Increment(b.failureCount)
        /\ RecordFailure(b).state = "open" => Increment(b.failureCount) >= FailureThreshold
    BY <1>1, RecordFailureFacts DEF Consistent
  <2>4. b.state = "closed" => failStreak[m] >= b.failureCount
    BY <1>4 DEF Evidenced
  <2>5. Increment(failStreak[m]) \in Nat /\ Increment(b.failureCount) \in Nat
    BY <2>1, BreakerAssumption DEF Increment
  <2>6. Evidenced(k)'
    BY <1>2, <1>4, <2>2, <2>3, <2>4 DEF Evidenced
  <2>7. Opens(m) => failStreak'[m] >= (IF b.state = "closed"
                                       THEN FailureThreshold ELSE 1)
    BY <1>2, <2>2, <2>3, <2>4, <2>5, BreakerAssumption DEF Opens
  <2>8. ~Closes(m)
    BY <1>2, <2>3 DEF Closes
  <2>9. QED
    BY <1>4, <2>6, <2>7, <2>8 DEF Moves
<1>5. QED
  BY <1>3, <1>4

LEMMA EvidenceStep ==
    ASSUME IInv, [Next]_vars, NEW k \in Models, Evidenced(k)
    PROVE  Evidenced(k)' /\ Moves(k)
<1>1. ASSUME UNCHANGED <<breaker, failStreak, okStreak>> PROVE Evidenced(k)' /\ Moves(k)
  BY <1>1, QuietEvidence
<1>2. ASSUME NEW r \in Requests, NEW c \in Chains, Start(r, c)
      PROVE  Evidenced(k)' /\ Moves(k)
  BY <1>1, <1>2 DEF Start, historyVars
<1>3. ASSUME NEW r \in Requests, Step(r)
      PROVE  Evidenced(k)' /\ Moves(k)
  <2>1. CASE Skip(r)
    BY <1>1, <2>1 DEF Skip, historyVars
  <2>2. CASE Attempt(r)
    BY <2>2, AttemptEvidence
  <2>3. CASE Succeed(r)
    BY <2>3, SucceedEvidence
  <2>4. ASSUME NEW err \in CallErrors, Fail(r, err)
        PROVE  Evidenced(k)' /\ Moves(k)
    BY <2>4, FailEvidence
  <2>5. CASE Exhaust(r)
    BY <1>1, <2>5 DEF Exhaust
  <2>6. QED
    BY <1>3, <2>1, <2>2, <2>3, <2>4, <2>5 DEF Step
<1>4. ASSUME NEW m \in Models, RecoveryElapses(m)
      PROVE  Evidenced(k)' /\ Moves(k)
  <2>1. breaker' = [breaker EXCEPT ![m].elapsed = TRUE]
    BY <1>4 DEF RecoveryElapses
  <2>2. breaker[k] \in Breaker
    BY DEF IInv, TypeOK
  <2>3. breaker'[k] = IF k = m THEN [breaker[k] EXCEPT !.elapsed = TRUE] ELSE breaker[k]
    BY <2>1 DEF IInv, TypeOK
  <2>4. /\ breaker'[k].state = breaker[k].state
        /\ breaker'[k].failureCount = breaker[k].failureCount
        /\ breaker'[k].successCount = breaker[k].successCount
    BY <2>2, <2>3 DEF Breaker
  <2>5. failStreak' = failStreak /\ okStreak' = okStreak
    BY <1>4 DEF RecoveryElapses, historyVars
  <2>6. QED
    BY <2>4, <2>5, QuietEvidence
<1>5. CASE UNCHANGED vars
  BY <1>1, <1>5 DEF vars, historyVars
<1>6. QED
  BY <1>2, <1>3, <1>4, <1>5 DEF Next

\* A circuit opens only after the threshold's failures in a row, or one failed
\* probe, and closes only after the successes in a row it takes, whatever the
\* order in which answers come (fallback.go:75-109).
THEOREM CircuitsMoveOnEvidence == Spec => MovesOnEvidence
<1> DEFINE EInv == \A m \in Models : Evidenced(m)
<1>1. Init => EInv
  BY DEF Init, Evidenced, NewCircuitBreaker
<1>2. IInv /\ EInv /\ [Next]_vars => EInv'
  BY EvidenceStep
<1>3. IInv /\ EInv /\ [Next]_vars =>
        [\A m \in Models :
            /\ Opens(m) => failStreak'[m] >= (IF breaker[m].state = "closed"
                                             THEN FailureThreshold ELSE 1)
            /\ Closes(m) => /\ breaker[m].state = "half_open"
                            /\ okStreak'[m] >= HalfOpenMaxCalls]_vars
  BY EvidenceStep DEF Moves
<1> HIDE DEF EInv
<1>4. QED
  BY <1>1, <1>2, <1>3, Inductive, PTL DEF Spec, MovesOnEvidence

-----------------------------------------------------------------------------
(* The error a failed call returns *)

\* The local variables say what the attempts of the call have met.
ErrorsKept(r) ==
    /\ rateLimitErr[r] <=> "rate_limited" \in outcomes[r]
    /\ lastErr[r] = "none" <=> outcomes[r] = {}
    /\ lastErr[r] # "none" => lastErr[r] \in outcomes[r]

\* TerminalErrorHonest, for one request.
ReturnsHonestly(r) ==
    pc[r] = "next" /\ pc'[r] = "done" =>
        /\ result'[r] = "rate_limited" <=> "rate_limited" \in outcomes[r]
        /\ result'[r] = "all_skipped" <=> outcomes[r] = {}

\* A request whose locals are left alone keeps them, and does not return.
LEMMA QuietErrors ==
    ASSUME NEW q \in Requests, ErrorsKept(q),
           rateLimitErr'[q] = rateLimitErr[q], lastErr'[q] = lastErr[q],
           outcomes'[q] = outcomes[q], pc'[q] = pc[q] \/ pc'[q] # "done"
    PROVE  ErrorsKept(q)' /\ ReturnsHonestly(q)
BY DEF ErrorsKept, ReturnsHonestly

\* A failed attempt is remembered: the last error, and any rate limit.
LEMMA FailErrors ==
    ASSUME IInv, NEW r \in Requests, NEW err \in CallErrors, Fail(r, err),
           NEW q \in Requests, ErrorsKept(q)
    PROVE  ErrorsKept(q)' /\ ReturnsHonestly(q)
<1>1. CASE q # r
  BY <1>1, QuietErrors DEF IInv, TypeOK, Fail
<1>2. CASE q = r
  <2>1. /\ lastErr'[r] = err
        /\ outcomes'[r] = outcomes[r] \cup {err}
        /\ pc'[r] = "next"
    BY DEF IInv, TypeOK, Fail
  <2>2. rateLimitErr'[r] = (rateLimitErr[r] \/ err = "rate_limited")
    BY DEF IInv, TypeOK, Fail
  <2>3. rateLimitErr'[r] <=> "rate_limited" \in outcomes'[r]
    BY <1>2, <2>1, <2>2, Zenon DEF ErrorsKept
  <2>4. QED
    BY <1>2, <2>1, <2>3 DEF ErrorsKept, ReturnsHonestly, CallErrors
<1>3. QED
  BY <1>1, <1>2

\* The call returns: its errors decide what, and are forgotten.
LEMMA ExhaustErrors ==
    ASSUME IInv, NEW r \in Requests, Exhaust(r), NEW q \in Requests, ErrorsKept(q)
    PROVE  ErrorsKept(q)' /\ ReturnsHonestly(q)
<1>1. CASE q # r
  BY <1>1, QuietErrors DEF IInv, TypeOK, Exhaust, Leave
<1>2. CASE q = r
  <2>1. /\ lastErr'[r] = "none"
        /\ outcomes'[r] = {}
        /\ rateLimitErr'[r] = FALSE
        /\ result'[r] = TerminalErr(r)
    BY DEF IInv, TypeOK, Exhaust, Leave
  <2>2. /\ TerminalErr(r) = "rate_limited" <=> "rate_limited" \in outcomes[r]
        /\ TerminalErr(r) = "all_skipped" <=> outcomes[r] = {}
    <3>1. lastErr[r] \in CallErrors \cup {"none"}
      BY DEF IInv, TypeOK
    <3>2. CASE rateLimitErr[r]
      BY <1>2, <3>2 DEF TerminalErr, ErrorsKept
    <3>3. CASE ~rateLimitErr[r] /\ lastErr[r] # "none"
      BY <1>2, <3>1, <3>3 DEF TerminalErr, ErrorsKept, CallErrors
    <3>4. CASE ~rateLimitErr[r] /\ lastErr[r] = "none"
      BY <1>2, <3>4 DEF TerminalErr, ErrorsKept
    <3>5. QED
      BY <3>2, <3>3, <3>4
  <2>3. QED
    BY <1>2, <2>1, <2>2 DEF ErrorsKept, ReturnsHonestly
<1>3. QED
  BY <1>1, <1>2

\* A success returns no error; the errors met before it are forgotten.
LEMMA SucceedErrors ==
    ASSUME IInv, NEW r \in Requests, Succeed(r), NEW q \in Requests, ErrorsKept(q)
    PROVE  ErrorsKept(q)' /\ ReturnsHonestly(q)
<1>1. CASE q # r
  BY <1>1, QuietErrors DEF IInv, TypeOK, Succeed, Leave
<1>2. CASE q = r
  <2>1. /\ lastErr'[r] = "none"
        /\ outcomes'[r] = {}
        /\ rateLimitErr'[r] = FALSE
        /\ pc[r] = "calling"
    BY DEF IInv, TypeOK, Succeed, Leave
  <2>2. QED
    BY <1>2, <2>1 DEF ErrorsKept, ReturnsHonestly
<1>3. QED
  BY <1>1, <1>2

LEMMA ErrorsStep ==
    ASSUME IInv, [Next]_vars, NEW q \in Requests, ErrorsKept(q)
    PROVE  ErrorsKept(q)' /\ ReturnsHonestly(q)
<1>1. ASSUME NEW r \in Requests, NEW c \in Chains, Start(r, c)
      PROVE  ErrorsKept(q)' /\ ReturnsHonestly(q)
  <2>1. pc'[q] = pc[q] \/ pc'[q] # "done"
    BY <1>1 DEF IInv, TypeOK, Start
  <2>2. QED
    BY <1>1, <2>1, QuietErrors DEF Start, historyVars
<1>2. ASSUME NEW r \in Requests, Step(r)
      PROVE  ErrorsKept(q)' /\ ReturnsHonestly(q)
  <2>1. CASE Skip(r)
    BY <2>1, QuietErrors DEF Skip, historyVars
  <2>2. CASE Attempt(r)
    <3>1. pc'[q] = pc[q] \/ pc'[q] # "done"
      BY <2>2 DEF IInv, TypeOK, Attempt
    <3>2. QED
      BY <2>2, <3>1, QuietErrors DEF Attempt
  <2>3. CASE Succeed(r)
    BY <2>3, SucceedErrors
  <2>4. ASSUME NEW err \in CallErrors, Fail(r, err)
        PROVE  ErrorsKept(q)' /\ ReturnsHonestly(q)
    BY <2>4, FailErrors
  <2>5. CASE Exhaust(r)
    BY <2>5, ExhaustErrors
  <2>6. QED
    BY <1>2, <2>1, <2>2, <2>3, <2>4, <2>5 DEF Step
<1>3. ASSUME NEW m \in Models, RecoveryElapses(m)
      PROVE  ErrorsKept(q)' /\ ReturnsHonestly(q)
  BY <1>3, QuietErrors DEF RecoveryElapses, requestVars, historyVars
<1>4. CASE UNCHANGED vars
  BY <1>4, QuietErrors DEF vars, requestVars, historyVars
<1>5. QED
  BY <1>1, <1>2, <1>3, <1>4 DEF Next

\* A failed call reports a rate limit exactly when an attempt met one, and that
\* all models were skipped exactly when none was tried (fallback.go:229-241).
THEOREM TerminalErrorsHonest == Spec => TerminalErrorHonest
<1> DEFINE EInv == \A r \in Requests : ErrorsKept(r)
<1>1. Init => EInv
  BY DEF Init, ErrorsKept
<1>2. IInv /\ EInv /\ [Next]_vars => EInv'
  BY ErrorsStep
<1>3. IInv /\ EInv /\ [Next]_vars =>
        [\A r \in Requests : pc[r] = "next" /\ pc'[r] = "done" =>
            /\ result'[r] = "rate_limited" <=> "rate_limited" \in outcomes[r]
            /\ result'[r] = "all_skipped" <=> outcomes[r] = {}]_vars
  BY ErrorsStep DEF ReturnsHonestly
<1> HIDE DEF EInv
<1>4. QED
  BY <1>1, <1>2, <1>3, Inductive, PTL DEF Spec, TerminalErrorHonest
=============================================================================
