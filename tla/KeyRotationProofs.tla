-------------------------- MODULE KeyRotationProofs --------------------------
(***************************************************************************)
(* Safety of the key rotation for any number of concurrent calls, any      *)
(* lists of keys that reloads install and any thresholds.                  *)
(***************************************************************************)
EXTENDS KeyRotation, FiniteSetTheorems, TLAPS

-----------------------------------------------------------------------------
(* What each method does to a well-formed, consistent breaker: the only      *)
(* facts about the operators of CircuitBreaker that the proofs below need.   *)

\* A breaker starts well-formed and consistent (fallback.go:39-46).
LEMMA NewBreaker == NewCircuitBreaker \in Breaker /\ Consistent(NewCircuitBreaker)
BY BreakerAssumption DEF NewCircuitBreaker, Breaker, CircuitState, Consistent

\* AllowRequest keeps a closed breaker, makes an open one half-open with no
\* call counted, and counts one more call of a half-open one (fallback.go:49-72).
LEMMA AllowRequestFacts ==
    ASSUME NEW b \in Breaker, Consistent(b), Allows(b)
    PROVE  /\ AllowRequest(b) \in Breaker
           /\ Consistent(AllowRequest(b))
           /\ AllowRequest(b).successCount = b.successCount
           /\ b.state = "closed" => AllowRequest(b) = b
           /\ b.state = "open" => /\ AllowRequest(b).state = "half_open"
                                  /\ AllowRequest(b).halfOpenCalls = 0
           /\ b.state = "half_open" =>
                 /\ AllowRequest(b).state = "half_open"
                 /\ b.halfOpenCalls < HalfOpenMaxCalls
                 /\ AllowRequest(b).halfOpenCalls = b.halfOpenCalls + 1
<1>1. CASE b.state = "closed"
  BY <1>1 DEF AllowRequest
<1>2. CASE b.state = "open"
  <2>1. AllowRequest(b) = [b EXCEPT !.state = "half_open", !.halfOpenCalls = 0]
    BY <1>2 DEF AllowRequest
  <2> DEFINE n == [state |-> "half_open", failureCount |-> b.failureCount,
                   successCount |-> b.successCount, halfOpenCalls |-> 0,
                   elapsed |-> b.elapsed]
  <2>2. AllowRequest(b) = n
    BY <2>1 DEF Breaker
  <2>3. n \in Breaker /\ Consistent(n)
    BY <1>2, BreakerAssumption DEF Breaker, CircuitState, Consistent
  <2>4. QED
    BY <1>2, <2>2, <2>3
<1>3. CASE b.state = "half_open"
  <2>1. b.halfOpenCalls < HalfOpenMaxCalls
    BY <1>3 DEF Allows
  <2> DEFINE n == [state |-> "half_open", failureCount |-> b.failureCount,
                   successCount |-> b.successCount,
                   halfOpenCalls |-> b.halfOpenCalls + 1, elapsed |-> b.elapsed]
  <2>2. AllowRequest(b) = n
    BY <1>3 DEF AllowRequest, Breaker
  <2>3. n \in Breaker /\ Consistent(n)
    BY <1>3, <2>1, BreakerAssumption DEF Breaker, CircuitState, Consistent
  <2>4. QED
    BY <1>3, <2>1, <2>2, <2>3
<1>4. QED
  BY <1>1, <1>2, <1>3 DEF Breaker, CircuitState

\* RecordSuccess closes a half-open breaker or counts the success, and never
\* makes another one half-open (fallback.go:75-90).
LEMMA RecordSuccessFacts ==
    ASSUME NEW b \in Breaker, Consistent(b)
    PROVE  /\ RecordSuccess(b) \in Breaker
           /\ Consistent(RecordSuccess(b))
           /\ RecordSuccess(b).state = "half_open" =>
                 /\ b.state = "half_open"
                 /\ RecordSuccess(b).halfOpenCalls = b.halfOpenCalls
                 /\ RecordSuccess(b).successCount = b.successCount + 1
           /\ RecordSuccess(b).state # b.state =>
                 /\ b.state = "half_open"
                 /\ RecordSuccess(b).state = "closed"
                 /\ b.successCount + 1 = HalfOpenMaxCalls
           /\ b.state = "closed" => RecordSuccess(b).failureCount = 0
           /\ RecordSuccess(b).state = "closed" => RecordSuccess(b).failureCount = 0
<1>1. CASE b.state = "half_open" /\ b.successCount + 1 >= HalfOpenMaxCalls
  <2> DEFINE n == [state |-> "closed", failureCount |-> 0, successCount |-> 0,
                   halfOpenCalls |-> b.halfOpenCalls, elapsed |-> b.elapsed]
  <2>0. ~(b.successCount + 1 < HalfOpenMaxCalls)
    BY <1>1, BreakerAssumption DEF Breaker
  <2>1. RecordSuccess(b) = n
    BY <1>1, <2>0 DEF RecordSuccess, Breaker
  <2>2. n \in Breaker /\ Consistent(n)
    BY BreakerAssumption DEF Breaker, CircuitState, Consistent
  <2>3. b.successCount + 1 = HalfOpenMaxCalls
    BY <1>1, BreakerAssumption DEF Breaker, Consistent
  <2>4. QED
    BY <1>1, <2>1, <2>2, <2>3
<1>2. CASE b.state = "half_open" /\ b.successCount + 1 < HalfOpenMaxCalls
  <2>1. ~(b.successCount + 1 >= HalfOpenMaxCalls)
    BY <1>2, BreakerAssumption DEF Breaker
  <2> DEFINE n == [state |-> "half_open", failureCount |-> b.failureCount,
                   successCount |-> b.successCount + 1,
                   halfOpenCalls |-> b.halfOpenCalls, elapsed |-> b.elapsed]
  <2>2. RecordSuccess(b) = n
    BY <1>2, <2>1 DEF RecordSuccess, Breaker
  <2>3. n \in Breaker /\ Consistent(n)
    BY <1>2, BreakerAssumption DEF Breaker, CircuitState, Consistent
  <2>4. QED
    BY <1>2, <2>2, <2>3
<1>3. CASE b.state = "closed"
  <2> DEFINE n == [state |-> "closed", failureCount |-> 0,
                   successCount |-> b.successCount,
                   halfOpenCalls |-> b.halfOpenCalls, elapsed |-> b.elapsed]
  <2>1. RecordSuccess(b) = n
    BY <1>3 DEF RecordSuccess, Breaker
  <2>2. n \in Breaker /\ Consistent(n)
    BY <1>3, BreakerAssumption DEF Breaker, CircuitState, Consistent
  <2>3. QED
    BY <1>3, <2>1, <2>2
<1>4. CASE b.state = "open"
  <2>1. RecordSuccess(b) = b
    BY <1>4 DEF RecordSuccess
  <2>2. QED
    BY <1>4, <2>1
<1>5. QED
  BY <1>1, <1>2, <1>3, <1>4, BreakerAssumption DEF Breaker, CircuitState

\* RecordFailure leaves no breaker half-open; it opens a closed one only at
\* the threshold (fallback.go:93-109).
LEMMA RecordFailureFacts ==
    ASSUME NEW b \in Breaker, Consistent(b)
    PROVE  /\ RecordFailure(b) \in Breaker
           /\ Consistent(RecordFailure(b))
           /\ RecordFailure(b).state # "half_open"
           /\ RecordFailure(b).state = "closed" => b.state = "closed"
           /\ RecordFailure(b).failureCount = Increment(b.failureCount)
<1>1. /\ Increment(b.failureCount) \in 0..FailureCap
      /\ Increment(b.failureCount) >= b.failureCount
      /\ b.failureCount \in Nat
  BY BreakerAssumption DEF Breaker, Increment
<1>2. CASE b.state = "half_open"
  <2>1. RecordFailure(b) = Failed(b, "open", 0)
    BY <1>2 DEF RecordFailure
  <2>2. QED
    BY <1>1, <1>2, <2>1, BreakerAssumption
    DEF Failed, Breaker, CircuitState, Consistent
<1>3. CASE b.state = "closed" /\ Increment(b.failureCount) >= FailureThreshold
  <2>1. ~(Increment(b.failureCount) < FailureThreshold)
    BY <1>1, <1>3, BreakerAssumption
  <2>2. RecordFailure(b) = Failed(b, "open", b.successCount)
    BY <1>3, <2>1 DEF RecordFailure
  <2>3. QED
    BY <1>1, <1>3, <2>2, BreakerAssumption
    DEF Failed, Breaker, CircuitState, Consistent
<1>4. CASE b.state = "closed" /\ Increment(b.failureCount) < FailureThreshold
  <2>1. ~(Increment(b.failureCount) >= FailureThreshold)
    BY <1>1, <1>4, BreakerAssumption
  <2>2. RecordFailure(b) = Failed(b, "closed", b.successCount)
    BY <1>4, <2>1 DEF RecordFailure
  <2>3. QED
    BY <1>1, <1>4, <2>2, BreakerAssumption
    DEF Failed, Breaker, CircuitState, Consistent
<1>5. CASE b.state = "open"
  <2>1. RecordFailure(b) = Failed(b, "open", b.successCount)
    BY <1>5 DEF RecordFailure
  <2>2. QED
    BY <1>1, <1>5, <2>1, BreakerAssumption
    DEF Failed, Breaker, CircuitState, Consistent
<1>6. QED
  BY <1>1, <1>2, <1>3, <1>4, <1>5, BreakerAssumption DEF Breaker, CircuitState

-----------------------------------------------------------------------------
(* The invariant. *)

\* The local variables of a call fit where it is.
LocalsFit ==
    \A r \in Requests :
        /\ pc[r] = "idle" => attempt[r] = 0
        /\ pc[r] = "scan" => scanned[r] \in KeyLists
        /\ pc[r] \in {"picked", "sending"} => key[r] \in Keys
        /\ pc[r] \in {"scan", "picked", "sending"} => attempt[r] < keyCount[r]

\* The calls a half-open period admitted: each is under way, was counted as a
\* success, or ended without the breaker hearing of it.
CallsAccounted(k) ==
    keyCB[k].state = "half_open" =>
        Cardinality(InFlight(k)) + unrecorded[k] + keyCB[k].successCount
            >= keyCB[k].halfOpenCalls + 1

IInv ==
    /\ TypeOK
    /\ LocalsFit
    /\ \A k \in Keys : Consistent(keyCB[k])
    /\ \A k \in Keys : CallsAccounted(k)

-----------------------------------------------------------------------------

LEMMA Naturals ==
    /\ HalfOpenMaxCalls \in Nat \ {0}
    /\ MaxUnrecorded \in Nat
    /\ MaxUnrecorded = HalfOpenMaxCalls + 1
    /\ MaxOverrun \in Nat
BY BreakerAssumption, RotationAssumption, FS_CardinalityType DEF MaxUnrecorded, MaxOverrun

\* A list of keys has a length that is not zero, and keys in it.
LEMMA ListFacts ==
    ASSUME NEW list \in KeyLists
    PROVE  /\ Len(list) \in Nat \ {0}
           /\ \A i \in 1..Len(list) : list[i] \in Keys
<1>1. list \in Seq(Keys) /\ list # <<>>
  BY RotationAssumption
<1>2. QED
  BY <1>1

LEMMA ModuloFacts ==
    ASSUME NEW a \in Nat, NEW n \in Nat \ {0}
    PROVE  a % n \in 0..(n - 1)
OBVIOUS

\* Whatever place of the list a scan has come to, it names a key.
LEMMA ScanKeyIsKey ==
    ASSUME NEW r \in Requests, scanned[r] \in KeyLists, startIdx[r] \in Nat,
           NEW i \in Nat
    PROVE  ScanKey(r, i) \in Keys
<1>0. Len(scanned[r]) \in Nat \ {0} /\ startIdx[r] + i \in Nat
  BY ListFacts
<1>1. (startIdx[r] + i) % Len(scanned[r]) \in 0..(Len(scanned[r]) - 1)
  BY <1>0, ModuloFacts
<1>2. ((startIdx[r] + i) % Len(scanned[r])) + 1 \in 1..Len(scanned[r])
  BY <1>0, <1>1
<1>3. QED
  BY <1>2, ListFacts DEF ScanKey

\* The calls under way with a key are finitely many.
LEMMA InFlightFinite ==
    ASSUME NEW k
    PROVE  IsFiniteSet(InFlight(k)) /\ Cardinality(InFlight(k)) \in Nat
<1>1. IsFiniteSet(InFlight(k))
  BY RotationAssumption, FS_Subset DEF InFlight
<1>2. QED
  BY <1>1, FS_CardinalityType

\* The breaker of a key closes as the router's does, and clears one counter more.
LEMMA KeyRecordSuccessFacts ==
    ASSUME NEW b \in Breaker, Consistent(b)
    PROVE  /\ KeyRecordSuccess(b) \in Breaker
           /\ Consistent(KeyRecordSuccess(b))
           /\ KeyRecordSuccess(b).state = "half_open" =>
                 /\ b.state = "half_open"
                 /\ KeyRecordSuccess(b).halfOpenCalls = b.halfOpenCalls
                 /\ KeyRecordSuccess(b).successCount = b.successCount + 1
<1>1. CASE b.state = "half_open" /\ b.successCount + 1 >= HalfOpenMaxCalls
  <2> DEFINE n == [state |-> "closed", failureCount |-> 0, successCount |-> 0,
                   halfOpenCalls |-> 0, elapsed |-> b.elapsed]
  <2>0. ~(b.successCount + 1 < HalfOpenMaxCalls)
    BY <1>1, BreakerAssumption DEF Breaker
  <2>1. RecordSuccess(b) = [b EXCEPT !.state = "closed", !.failureCount = 0,
                                     !.successCount = 0]
    BY <1>1, <2>0 DEF RecordSuccess
  <2>2. KeyRecordSuccess(b) = n
    BY <1>1, <2>1 DEF KeyRecordSuccess, Breaker
  <2>3. n \in Breaker /\ Consistent(n)
    BY BreakerAssumption DEF Breaker, CircuitState, Consistent
  <2>4. QED
    BY <2>2, <2>3
<1>2. CASE ~(b.state = "half_open" /\ b.successCount + 1 >= HalfOpenMaxCalls)
  <2>1. KeyRecordSuccess(b) = RecordSuccess(b)
    BY <1>2 DEF KeyRecordSuccess
  <2>2. QED
    BY <2>1, RecordSuccessFacts
<1>3. QED
  BY <1>1, <1>2

-----------------------------------------------------------------------------

LEMMA InitIInv == Init => IInv
<1> SUFFICES ASSUME Init PROVE IInv
  OBVIOUS
<1>1. TypeOK
  <2>1. 0 = Len(NoKeys)
    BY DEF NoKeys
  <2>2. keyCount \in [Requests -> {Len(list) : list \in KeyLists \cup {NoKeys}}]
    BY <2>1 DEF Init
  <2>3. 0 \in 0..(IndexPeriod - 1)
    BY RotationAssumption
  <2>4. 0 \in 0..MaxUnrecorded
    BY Naturals
  <2>5. keyCB \in [Keys -> Breaker]
    BY NewBreaker DEF Init
  <2>6. 0 \in 0..MaxOverrun
    BY Naturals
  <2>7. QED
    BY <2>2, <2>3, <2>4, <2>5, <2>6 DEF Init, TypeOK
<1>2. LocalsFit
  BY DEF Init, LocalsFit
<1>3. \A k \in Keys : Consistent(keyCB[k])
  BY NewBreaker DEF Init
<1>4. \A k \in Keys : CallsAccounted(k)
  BY DEF Init, CallsAccounted, NewCircuitBreaker
<1>5. QED
  BY <1>1, <1>2, <1>3, <1>4 DEF IInv

\* A step that leaves the breakers, and the calls under way, alone.
LEMMA QuietStep ==
    ASSUME IInv, TypeOK', LocalsFit', UNCHANGED <<keyCB, unrecorded>>,
           \A k \in Keys : InFlight(k)' = InFlight(k)
    PROVE  IInv'
BY DEF IInv, CallsAccounted

\* A call that has no key before or after does not count.
LEMMA OutsiderInFlight ==
    ASSUME TypeOK, NEW r \in Requests, NEW k,
           pc[r] \notin {"picked", "sending"}, pc'[r] \notin {"picked", "sending"},
           \A q \in Requests \ {r} : pc'[q] = pc[q] /\ key'[q] = key[q]
    PROVE  InFlight(k)' = InFlight(k)
BY DEF InFlight

\* A call that ends leaves the calls under way, and no other call does.
LEMMA OneCallEnds ==
    ASSUME TypeOK, NEW r \in Requests, NEW k,
           pc[r] = "sending", pc'[r] \notin {"picked", "sending"},
           \A q \in Requests \ {r} : pc'[q] = pc[q] /\ key'[q] = key[q]
    PROVE  /\ InFlight(k)' = IF k = key[r] THEN InFlight(k) \ {r} ELSE InFlight(k)
           /\ Cardinality(InFlight(key[r]) \ {r}) = Cardinality(InFlight(key[r])) - 1
<1>1. InFlight(k)' = IF k = key[r] THEN InFlight(k) \ {r} ELSE InFlight(k)
  BY DEF InFlight
<1>2. r \in InFlight(key[r])
  BY DEF InFlight
<1>3. QED
  BY <1>1, <1>2, InFlightFinite, FS_RemoveElement

-----------------------------------------------------------------------------
(* The steps that send nothing *)

LEMMA BeginStep ==
    ASSUME IInv, NEW r \in Requests, Begin(r)
    PROVE  IInv'
<1>1. TypeOK'
  <2>1. Len(apiKeys) \in {Len(list) : list \in KeyLists \cup {NoKeys}}
    BY DEF IInv, TypeOK
  <2>2. keyCount' \in [Requests -> {Len(list) : list \in KeyLists \cup {NoKeys}}]
    BY <2>1 DEF IInv, TypeOK, Begin
  <2>3. \A q \in Requests : attempt'[q] <= keyCount'[q]
    <3>1. Len(apiKeys) \in Nat
      BY ListFacts DEF IInv, TypeOK
    <3>2. attempt[r] = 0
      BY DEF IInv, LocalsFit, Begin
    <3>3. QED
      BY <3>1, <3>2 DEF IInv, TypeOK, Begin
  <2>4. pc' \in [Requests -> {"idle", "claim", "scan", "picked", "sending"}]
    BY DEF IInv, TypeOK, Begin
  <2>5. QED
    BY <2>2, <2>3, <2>4 DEF IInv, TypeOK, Begin, sharedVars, historyVars
<1>2. LocalsFit'
  BY DEF IInv, TypeOK, LocalsFit, Begin
<1>3. QED
  BY <1>1, <1>2, QuietStep, OutsiderInFlight
  DEF IInv, TypeOK, Begin, sharedVars, historyVars

LEMMA ClaimSlotStep ==
    ASSUME IInv, NEW r \in Requests, ClaimSlot(r)
    PROVE  IInv'
<1>1. apiKeys \in KeyLists /\ Len(apiKeys) \in Nat \ {0}
  BY ListFacts DEF IInv, TypeOK
<1>2. keyNextIdx \in Nat /\ keyNextIdx + 1 \in Nat /\ IndexPeriod \in Nat \ {0}
  BY RotationAssumption DEF IInv, TypeOK
<1>3. keyNextIdx % Len(apiKeys) \in 0..(Len(apiKeys) - 1)
  BY <1>1, <1>2, ModuloFacts
<1>4. (keyNextIdx + 1) % IndexPeriod \in 0..(IndexPeriod - 1)
  BY <1>2, ModuloFacts
<1>5. TypeOK'
  <2>1. keyNextIdx' \in 0..(IndexPeriod - 1)
    BY <1>4 DEF ClaimSlot, Claimed
  <2>2. /\ scanned' \in [Requests -> KeyLists \cup {NoKeys}]
        /\ pc' \in [Requests -> {"idle", "claim", "scan", "picked", "sending"}]
    BY <1>1 DEF IInv, TypeOK, ClaimSlot
  <2>3. keyNextIdx % Len(apiKeys) \in Nat /\ keyNextIdx % Len(apiKeys) < Len(apiKeys)
    BY <1>1, <1>3
  <2>4. startIdx' \in [Requests -> Nat]
    BY <2>3 DEF IInv, TypeOK, ClaimSlot
  <2>5. \A q \in Requests : pc'[q] = "scan" => startIdx'[q] < Len(scanned'[q])
    BY <2>3 DEF IInv, TypeOK, ClaimSlot
  <2>6. undisturbed' \in [Requests -> BOOLEAN]
    BY DEF ClaimSlot, Disturb
  <2>7. considered' \in [Requests -> SUBSET Keys]
    BY DEF IInv, TypeOK, ClaimSlot, Disturb
  <2>8. QED
    BY <2>1, <2>2, <2>4, <2>5, <2>6, <2>7 DEF IInv, TypeOK, ClaimSlot
<1>6. LocalsFit'
  BY <1>1 DEF IInv, TypeOK, LocalsFit, ClaimSlot
<1>7. QED
  BY <1>5, <1>6, QuietStep, OutsiderInFlight DEF IInv, TypeOK, ClaimSlot

\* A call that returns leaves its local variables as a new one finds them.
LEMMA ReturnLocals ==
    ASSUME TypeOK, LocalsFit, NEW r \in Requests, Return(r)
    PROVE  /\ LocalsFit'
           /\ pc' \in [Requests -> {"idle", "claim", "scan", "picked", "sending"}]
           /\ attempt' \in [Requests -> Nat]
           /\ keyCount' \in [Requests -> {Len(list) : list \in KeyLists \cup {NoKeys}}]
           /\ \A q \in Requests : attempt'[q] <= keyCount'[q]
           /\ scanned' \in [Requests -> KeyLists \cup {NoKeys}]
           /\ startIdx' \in [Requests -> Nat]
           /\ \A q \in Requests : pc'[q] = "scan" => startIdx'[q] < Len(scanned'[q])
           /\ key' \in [Requests -> Keys \cup {NoKey}]
           /\ considered' \in [Requests -> SUBSET Keys]
           /\ undisturbed' \in [Requests -> BOOLEAN]
<1>1. 0 \in {Len(list) : list \in KeyLists \cup {NoKeys}}
  <2>1. Len(NoKeys) = 0
    BY DEF NoKeys
  <2>2. QED
    BY <2>1
<1>2. LocalsFit'
  BY DEF TypeOK, LocalsFit, Return, ForgetScan
<1>3. keyCount' \in [Requests -> {Len(list) : list \in KeyLists \cup {NoKeys}}]
  BY <1>1 DEF TypeOK, Return
<1>4. /\ pc' \in [Requests -> {"idle", "claim", "scan", "picked", "sending"}]
      /\ attempt' \in [Requests -> Nat]
      /\ scanned' \in [Requests -> KeyLists \cup {NoKeys}]
      /\ startIdx' \in [Requests -> Nat]
  BY DEF TypeOK, Return, ForgetScan
<1>5. /\ key' \in [Requests -> Keys \cup {NoKey}]
      /\ considered' \in [Requests -> SUBSET Keys]
      /\ undisturbed' \in [Requests -> BOOLEAN]
  BY DEF TypeOK, Return
<1>6. \A q \in Requests : attempt'[q] <= keyCount'[q]
  BY DEF TypeOK, Return
<1>7. \A q \in Requests : pc'[q] = "scan" => startIdx'[q] < Len(scanned'[q])
  BY DEF TypeOK, Return, ForgetScan
<1>8. QED
  BY <1>2, <1>3, <1>4, <1>5, <1>6, <1>7

LEMMA PickNothingStep ==
    ASSUME IInv, NEW r \in Requests, PickNothing(r)
    PROVE  IInv'
<1>1. Return(r) /\ UNCHANGED <<sharedVars, unrecorded, overrun>>
  BY DEF PickNothing
<1>2. LocalsFit' /\ TypeOK'
  BY <1>1, ReturnLocals DEF IInv, TypeOK, sharedVars
<1>3. \A k \in Keys : InFlight(k)' = InFlight(k)
  BY OutsiderInFlight DEF IInv, TypeOK, PickNothing, Return
<1>4. QED
  BY <1>1, <1>2, <1>3, QuietStep DEF sharedVars

LEMMA AttemptsUsedUpStep ==
    ASSUME IInv, NEW r \in Requests, AttemptsUsedUp(r)
    PROVE  IInv'
<1>1. Return(r) /\ UNCHANGED <<sharedVars, unrecorded, overrun>>
  BY DEF AttemptsUsedUp
<1>2. LocalsFit' /\ TypeOK'
  BY <1>1, ReturnLocals DEF IInv, TypeOK, sharedVars
<1>3. \A k \in Keys : InFlight(k)' = InFlight(k)
  BY OutsiderInFlight DEF IInv, TypeOK, AttemptsUsedUp, Return
<1>4. QED
  BY <1>1, <1>2, <1>3, QuietStep DEF sharedVars

LEMMA ReloadStep ==
    ASSUME IInv, NEW list \in KeyLists, Reload(list)
    PROVE  IInv'
<1>1. TypeOK'
  BY DEF IInv, TypeOK, Reload, requestVars
<1>2. LocalsFit'
  BY DEF IInv, LocalsFit, Reload, requestVars
<1>3. \A k \in Keys : InFlight(k)' = InFlight(k)
  BY DEF Reload, requestVars, InFlight
<1>4. QED
  BY <1>1, <1>2, <1>3, QuietStep DEF Reload

LEMMA CooldownExpiresStep ==
    ASSUME IInv, NEW k \in Keys, CooldownExpires(k)
    PROVE  IInv'
<1>1. TypeOK'
  BY Naturals DEF IInv, TypeOK, CooldownExpires, requestVars
<1>2. LocalsFit'
  BY DEF IInv, LocalsFit, CooldownExpires, requestVars
<1>3. \A n \in Keys : InFlight(n)' = InFlight(n)
  BY DEF CooldownExpires, requestVars, InFlight
<1>4. QED
  BY <1>1, <1>2, <1>3, QuietStep DEF CooldownExpires

\* The clock changes nothing of a breaker but `elapsed'.
LEMMA RecoveryElapsesStep ==
    ASSUME IInv, NEW k \in Keys, RecoveryElapses(k)
    PROVE  IInv'
<1>1. UNCHANGED <<apiKeys, keyNextIdx, keyCold, pc, attempt, keyCount, scanned,
                  startIdx, key, unrecorded, considered, undisturbed, overrun>>
  BY DEF RecoveryElapses, requestVars, historyVars
<1>2. ASSUME NEW n \in Keys
      PROVE  /\ keyCB'[n] \in Breaker
             /\ keyCB'[n].state = keyCB[n].state
             /\ keyCB'[n].failureCount = keyCB[n].failureCount
             /\ keyCB'[n].successCount = keyCB[n].successCount
             /\ keyCB'[n].halfOpenCalls = keyCB[n].halfOpenCalls
  <2>1. keyCB[n] \in Breaker
    BY DEF IInv, TypeOK
  <2>2. keyCB'[n] = IF n = k THEN [keyCB[n] EXCEPT !.elapsed = TRUE] ELSE keyCB[n]
    BY DEF IInv, TypeOK, RecoveryElapses
  <2>3. QED
    BY <2>1, <2>2 DEF Breaker
<1>3. TypeOK'
  <2>1. keyCB' \in [Keys -> Breaker]
    BY <1>2 DEF IInv, TypeOK, RecoveryElapses
  <2>2. QED
    BY <1>1, <2>1 DEF IInv, TypeOK
<1>4. LocalsFit'
  BY <1>1 DEF IInv, LocalsFit
<1>5. \A n \in Keys : Consistent(keyCB[n])'
  BY <1>2 DEF IInv, Consistent
<1>6. ASSUME NEW n \in Keys
      PROVE  CallsAccounted(n)'
  <2>1. InFlight(n)' = InFlight(n)
    BY <1>1 DEF InFlight
  <2>2. QED
    BY <1>1, <1>2, <2>1 DEF IInv, CallsAccounted
<1>7. QED
  BY <1>3, <1>4, <1>5, <1>6 DEF IInv

-----------------------------------------------------------------------------
(* The steps that begin or end a call upstream *)

\* A call that sends had its key in hand before.
LEMMA SendStep ==
    ASSUME IInv, NEW r \in Requests, Send(r)
    PROVE  IInv'
<1>1. key[r] \in Keys /\ pc[r] = "picked"
  BY DEF IInv, LocalsFit, Send
<1>2. overrun' \in [Keys -> 0..MaxOverrun]
  <2>1. ASSUME NEW k \in Keys PROVE overrun'[k] \in 0..MaxOverrun
    <3>1. overrun[k] \in 0..MaxOverrun
      BY DEF IInv, TypeOK
    <3>2. overrun'[k] \in {overrun[k], IF overrun[k] < MaxOverrun
                                        THEN overrun[k] + 1 ELSE overrun[k]}
      BY DEF IInv, TypeOK, Send
    <3>3. QED
      BY <3>1, <3>2, Naturals
  <2>2. QED
    BY <2>1 DEF IInv, TypeOK, Send
<1>3. pc' \in [Requests -> {"idle", "claim", "scan", "picked", "sending"}]
  BY DEF IInv, TypeOK, Send
<1>4. \A q \in Requests : pc'[q] = "scan" => pc[q] = "scan"
  BY DEF IInv, TypeOK, Send
<1>5. UNCHANGED <<apiKeys, keyNextIdx, keyCold, keyCB, attempt, keyCount, scanned,
                  startIdx, key, unrecorded, considered, undisturbed>>
  BY DEF Send, sharedVars
<1>6. TypeOK'
  BY <1>2, <1>3, <1>4, <1>5 DEF IInv, TypeOK
<1>7. LocalsFit'
  BY <1>1 DEF IInv, TypeOK, LocalsFit, Send
<1>8. \A k \in Keys : InFlight(k)' = InFlight(k)
  BY <1>1, <1>5 DEF IInv, TypeOK, Send, InFlight
<1>9. QED
  BY <1>5, <1>6, <1>7, <1>8, QuietStep

\* A picked key's call joins those under way, and raises the count of the
\* half-open calls by one, from -1 as it were when it opens the period.
LEMMA PickKeyStep ==
    ASSUME IInv, NEW r \in Requests, PickKey(r)
    PROVE  IInv'
<1>1. scanned[r] \in KeyLists /\ Len(scanned[r]) \in Nat \ {0} /\ startIdx[r] \in Nat
  BY ListFacts DEF IInv, TypeOK, LocalsFit, PickKey
<1>2. PICK i \in 0..(Len(scanned[r]) - 1) :
          LET k == ScanKey(r, i)
          IN  /\ Stops(r, i)
              /\ key' = [key EXCEPT ![r] = k]
              /\ keyCB' = [keyCB EXCEPT ![k] = KeyAllow(@)]
              /\ unrecorded' = [unrecorded EXCEPT ![k] =
                                   IF keyCB[k].state = "open" THEN 0 ELSE @]
              /\ considered' = [considered EXCEPT ![r] =
                                   IF undisturbed[r]
                                   THEN @ \cup {ScanKey(r, j) : j \in 0..i} ELSE {}]
  BY DEF PickKey
<1> DEFINE m == ScanKey(r, i)
           b == keyCB[m]
<1>3. m \in Keys /\ \A j \in 0..i : ScanKey(r, j) \in Keys
  BY <1>1, ScanKeyIsKey
<1>4. b \in Breaker /\ Consistent(b) /\ Allows(b) /\ CallsAccounted(m)
  BY <1>2, <1>3 DEF IInv, TypeOK, Stops, Usable
<1>5. /\ keyCB' = [keyCB EXCEPT ![m] = AllowRequest(b)]
      /\ keyCB'[m] = AllowRequest(b)
      /\ \A k \in Keys \ {m} : keyCB'[k] = keyCB[k] /\ unrecorded'[k] = unrecorded[k]
      /\ unrecorded'[m] = IF b.state = "open" THEN 0 ELSE unrecorded[m]
      /\ key' = [key EXCEPT ![r] = m]
  BY <1>2, <1>3 DEF IInv, TypeOK, KeyAllow
<1>6. AllowRequest(b) \in Breaker /\ Consistent(AllowRequest(b))
  BY <1>4, AllowRequestFacts
<1>7. TypeOK'
  <2>1. keyCB' \in [Keys -> Breaker]
    BY <1>5, <1>6 DEF IInv, TypeOK
  <2>2. unrecorded' \in [Keys -> 0..MaxUnrecorded]
    BY <1>2, <1>3, Naturals DEF IInv, TypeOK
  <2>3. key' \in [Requests -> Keys \cup {NoKey}]
    BY <1>3, <1>5 DEF IInv, TypeOK
  <2>4. considered' \in [Requests -> SUBSET Keys]
    <3>1. {ScanKey(r, j) : j \in 0..i} \subseteq Keys
      BY <1>3
    <3>2. QED
      BY <1>2, <3>1 DEF IInv, TypeOK
  <2>5. /\ pc' \in [Requests -> {"idle", "claim", "scan", "picked", "sending"}]
        /\ scanned' \in [Requests -> KeyLists \cup {NoKeys}]
        /\ startIdx' \in [Requests -> Nat]
        /\ \A q \in Requests : pc'[q] = "scan" => startIdx'[q] < Len(scanned'[q])
    BY DEF IInv, TypeOK, PickKey, ForgetScan
  <2>6. QED
    BY <2>1, <2>2, <2>3, <2>4, <2>5 DEF IInv, TypeOK, PickKey
<1>8. LocalsFit'
  BY <1>3, <1>5 DEF IInv, TypeOK, LocalsFit, PickKey, ForgetScan
<1>9. \A k \in Keys : Consistent(keyCB[k])'
  BY <1>5, <1>6 DEF IInv
<1>10. ASSUME NEW k \in Keys
       PROVE  CallsAccounted(k)'
  <2>1. /\ InFlight(k)' = IF k = m THEN InFlight(k) \cup {r} ELSE InFlight(k)
        /\ r \notin InFlight(m)
    BY <1>5 DEF IInv, TypeOK, PickKey, InFlight
  <2>2. CASE k # m
    BY <1>5, <2>1, <2>2 DEF IInv, CallsAccounted
  <2>3. CASE k = m
    <3>1. Cardinality(InFlight(k)') = Cardinality(InFlight(m)) + 1
      <4>1. InFlight(k)' = InFlight(m) \cup {r}
        BY <2>1, <2>3
      <4>2. Cardinality(InFlight(m) \cup {r}) = Cardinality(InFlight(m)) + 1
        BY <2>1, InFlightFinite, FS_AddElement
      <4>3. QED
        BY <4>1, <4>2
    <3>2. /\ Cardinality(InFlight(m)) \in Nat
          /\ unrecorded[m] \in Nat
          /\ b.successCount \in Nat
          /\ b.halfOpenCalls \in Nat
          /\ AllowRequest(b).successCount = b.successCount
      <4>1. Cardinality(InFlight(m)) \in Nat
        BY InFlightFinite
      <4>2. unrecorded[m] \in Nat
        BY <1>3, Naturals DEF IInv, TypeOK
      <4>3. b.successCount \in Nat /\ b.halfOpenCalls \in Nat
        BY <1>4, BreakerAssumption DEF Breaker
      <4>4. AllowRequest(b).successCount = b.successCount
        BY <1>4, AllowRequestFacts
      <4>5. QED
        BY <4>1, <4>2, <4>3, <4>4
    <3>3. ASSUME AllowRequest(b).state = "half_open"
          PROVE  Cardinality(InFlight(k)') + unrecorded'[m] + b.successCount
                    >= AllowRequest(b).halfOpenCalls + 1
      <4>1. CASE b.state = "closed"
        BY <1>4, <3>3, <4>1, AllowRequestFacts
      <4>2. CASE b.state = "open"
        <5>1. AllowRequest(b).halfOpenCalls = 0 /\ unrecorded'[m] = 0
          BY <1>4, <1>5, <4>2, AllowRequestFacts
        <5>2. QED
          BY <3>1, <3>2, <5>1
      <4>3. CASE b.state = "half_open"
        <5>1. Cardinality(InFlight(m)) + unrecorded[m] + b.successCount
                 >= b.halfOpenCalls + 1
          BY <1>4, <4>3 DEF CallsAccounted
        <5>2. AllowRequest(b).halfOpenCalls = b.halfOpenCalls + 1
          BY <1>4, <4>3, AllowRequestFacts
        <5>3. unrecorded'[m] = unrecorded[m]
          BY <1>5, <4>3
        <5>4. QED
          BY <3>1, <3>2, <5>1, <5>2, <5>3, SMTT(60)
      <4>4. QED
        BY <1>4, <4>1, <4>2, <4>3 DEF Breaker, CircuitState
    <3>4. keyCB'[k] = AllowRequest(b) /\ unrecorded'[k] = unrecorded'[m]
      BY <1>5, <2>3
    <3>5. QED
      BY <3>2, <3>3, <3>4 DEF CallsAccounted
  <2>4. QED
    BY <2>2, <2>3
<1>11. QED
  BY <1>7, <1>8, <1>9, <1>10 DEF IInv

\* A success moves a call from under way to the count of successes.
LEMMA AnswerOKStep ==
    ASSUME IInv, NEW r \in Requests, AnswerOK(r)
    PROVE  IInv'
<1> DEFINE m == key[r]
           b == keyCB[m]
<1>1. m \in Keys /\ b \in Breaker /\ Consistent(b) /\ CallsAccounted(m)
  BY DEF IInv, TypeOK, LocalsFit, AnswerOK
<1>2. /\ keyCB' = [keyCB EXCEPT ![m] = KeyRecordSuccess(b)]
      /\ keyCB'[m] = KeyRecordSuccess(b)
      /\ \A k \in Keys \ {m} : keyCB'[k] = keyCB[k]
      /\ unrecorded' = unrecorded
      /\ Return(r)
  BY <1>1 DEF IInv, TypeOK, AnswerOK
<1>3. KeyRecordSuccess(b) \in Breaker /\ Consistent(KeyRecordSuccess(b))
  BY <1>1, KeyRecordSuccessFacts
<1>4. TypeOK' /\ LocalsFit'
  <2>1. keyCB' \in [Keys -> Breaker]
    BY <1>2, <1>3 DEF IInv, TypeOK
  <2>2. QED
    BY <1>2, <2>1, ReturnLocals DEF IInv, TypeOK, AnswerOK
<1>5. \A k \in Keys : Consistent(keyCB[k])'
  BY <1>2, <1>3 DEF IInv
<1>6. ASSUME NEW k \in Keys
      PROVE  CallsAccounted(k)'
  <2>1. /\ InFlight(k)' = IF k = m THEN InFlight(k) \ {r} ELSE InFlight(k)
        /\ Cardinality(InFlight(m) \ {r}) = Cardinality(InFlight(m)) - 1
    BY <1>2, OneCallEnds DEF IInv, TypeOK, AnswerOK, Return
  <2>2. CASE k # m
    BY <1>2, <2>1, <2>2 DEF IInv, CallsAccounted
  <2>3. CASE k = m
    <3>1. SUFFICES ASSUME KeyRecordSuccess(b).state = "half_open"
                   PROVE  Cardinality(InFlight(m) \ {r}) + unrecorded[m]
                              + KeyRecordSuccess(b).successCount
                            >= KeyRecordSuccess(b).halfOpenCalls + 1
      BY <1>2, <2>1, <2>3 DEF CallsAccounted
    <3>2. /\ b.state = "half_open"
          /\ KeyRecordSuccess(b).halfOpenCalls = b.halfOpenCalls
          /\ KeyRecordSuccess(b).successCount = b.successCount + 1
      BY <1>1, <3>1, KeyRecordSuccessFacts
    <3>3. Cardinality(InFlight(m)) + unrecorded[m] + b.successCount
             >= b.halfOpenCalls + 1
      BY <1>1, <3>2 DEF CallsAccounted
    <3>4. /\ Cardinality(InFlight(m)) \in Nat
          /\ unrecorded[m] \in Nat
          /\ b.successCount \in Nat
          /\ b.halfOpenCalls \in Nat
      <4>1. Cardinality(InFlight(m)) \in Nat
        BY InFlightFinite
      <4>2. unrecorded[m] \in Nat
        BY <1>1, Naturals DEF IInv, TypeOK
      <4>3. b.successCount \in Nat /\ b.halfOpenCalls \in Nat
        BY <1>1, BreakerAssumption DEF Breaker
      <4>4. QED
        BY <4>1, <4>2, <4>3
    <3>5. QED
      BY <2>1, <3>2, <3>3, <3>4
  <2>4. QED
    BY <2>2, <2>3
<1>7. QED
  BY <1>4, <1>5, <1>6 DEF IInv

\* A call that goes on with its next attempt keeps its local variables.
LEMMA RetryLocals ==
    ASSUME TypeOK, LocalsFit, NEW r \in Requests, pc[r] = "sending", Retry(r)
    PROVE  /\ LocalsFit'
           /\ pc' \in [Requests -> {"idle", "claim", "scan", "picked", "sending"}]
           /\ attempt' \in [Requests -> Nat]
           /\ \A q \in Requests : attempt'[q] <= keyCount'[q]
           /\ key' \in [Requests -> Keys \cup {NoKey}]
<1>1. LocalsFit'
  BY DEF TypeOK, LocalsFit, Retry
<1>2. /\ pc' \in [Requests -> {"idle", "claim", "scan", "picked", "sending"}]
      /\ attempt' \in [Requests -> Nat]
      /\ key' \in [Requests -> Keys \cup {NoKey}]
  BY DEF TypeOK, Retry
<1>3. keyCount[r] \in Nat
  <2>1. \A list \in KeyLists \cup {NoKeys} : Len(list) \in Nat
    BY ListFacts DEF NoKeys
  <2>2. QED
    BY <2>1 DEF TypeOK
<1>4. \A q \in Requests : attempt'[q] <= keyCount'[q]
  BY <1>3 DEF TypeOK, LocalsFit, Retry
<1>5. QED
  BY <1>1, <1>2, <1>4

\* An answer the breaker is not told of is counted by the history instead.
LEMMA UnrecordedStep ==
    ASSUME IInv, NEW r \in Requests, TypeOK', LocalsFit',
           pc[r] = "sending", pc'[r] \notin {"picked", "sending"},
           \A q \in Requests \ {r} : pc'[q] = pc[q] /\ key'[q] = key[q],
           keyCB' = keyCB, NotRecorded(key[r])
    PROVE  IInv'
<1> DEFINE m == key[r]
           b == keyCB[m]
<1>1. m \in Keys /\ b \in Breaker /\ CallsAccounted(m)
  BY DEF IInv, TypeOK, LocalsFit
<1>2. /\ unrecorded'[m] = IF b.state = "half_open" /\ unrecorded[m] < MaxUnrecorded
                           THEN unrecorded[m] + 1 ELSE unrecorded[m]
      /\ \A k \in Keys \ {m} : unrecorded'[k] = unrecorded[k]
  BY <1>1 DEF IInv, TypeOK, NotRecorded
<1>3. ASSUME NEW k \in Keys
      PROVE  CallsAccounted(k)'
  <2>1. /\ InFlight(k)' = IF k = m THEN InFlight(k) \ {r} ELSE InFlight(k)
        /\ Cardinality(InFlight(m) \ {r}) = Cardinality(InFlight(m)) - 1
    BY OneCallEnds DEF IInv
  <2>2. CASE k # m
    BY <1>2, <2>1, <2>2 DEF IInv, CallsAccounted
  <2>3. CASE k = m
    <3>1. SUFFICES ASSUME b.state = "half_open"
                   PROVE  Cardinality(InFlight(m) \ {r}) + unrecorded'[m] + b.successCount
                            >= b.halfOpenCalls + 1
      BY <2>1, <2>3 DEF CallsAccounted
    <3>2. Cardinality(InFlight(m)) + unrecorded[m] + b.successCount
             >= b.halfOpenCalls + 1
      BY <1>1, <3>1 DEF CallsAccounted
    <3>3. /\ Cardinality(InFlight(m)) \in Nat
          /\ unrecorded[m] \in 0..MaxUnrecorded
          /\ b.successCount \in Nat
          /\ b.halfOpenCalls \in 0..HalfOpenMaxCalls
      <4>1. Cardinality(InFlight(m)) \in Nat
        BY InFlightFinite
      <4>2. unrecorded[m] \in 0..MaxUnrecorded
        BY <1>1 DEF IInv, TypeOK
      <4>3. b.successCount \in Nat /\ b.halfOpenCalls \in 0..HalfOpenMaxCalls
        BY <1>1, BreakerAssumption DEF Breaker
      <4>4. QED
        BY <4>1, <4>2, <4>3
    <3>4. Cardinality(InFlight(m) \ {r}) \in Nat
      BY InFlightFinite, FS_RemoveElement, FS_Subset, FS_CardinalityType
    <3>5. CASE unrecorded[m] < MaxUnrecorded
      BY <1>2, <2>1, <3>1, <3>2, <3>3, <3>5, Naturals
    <3>6. CASE unrecorded[m] = MaxUnrecorded
      BY <1>2, <3>3, <3>4, <3>6, Naturals
    <3>7. QED
      BY <3>3, <3>5, <3>6, Naturals
  <2>4. QED
    BY <2>2, <2>3
<1>4. QED
  BY <1>3 DEF IInv

LEMMA NotRecordedType ==
    ASSUME TypeOK, NEW k, NotRecorded(k)
    PROVE  unrecorded' \in [Keys -> 0..MaxUnrecorded]
<1>1. ASSUME NEW n \in Keys PROVE unrecorded'[n] \in 0..MaxUnrecorded
  <2>1. unrecorded[n] \in 0..MaxUnrecorded
    BY DEF TypeOK
  <2>2. CASE n # k
    BY <2>1, <2>2 DEF TypeOK, NotRecorded
  <2>3. CASE n = k
    <3>1. unrecorded'[n] = IF keyCB[n].state = "half_open" /\ unrecorded[n] < MaxUnrecorded
                            THEN unrecorded[n] + 1 ELSE unrecorded[n]
      BY <2>3 DEF TypeOK, NotRecorded
    <3>2. QED
      BY <2>1, <3>1, Naturals
  <2>4. QED
    BY <2>2, <2>3
<1>2. QED
  BY <1>1 DEF TypeOK, NotRecorded

LEMMA AnswerRateLimitedStep ==
    ASSUME IInv, NEW r \in Requests, AnswerRateLimited(r)
    PROVE  IInv'
<1>1. /\ pc[r] = "sending"
      /\ Retry(r)
      /\ NotRecorded(key[r])
      /\ UNCHANGED <<apiKeys, keyNextIdx, keyCB>>
  BY DEF AnswerRateLimited
<1>2. TypeOK' /\ LocalsFit'
  <2>1. keyCold' \in [Keys -> BOOLEAN]
    BY DEF IInv, TypeOK, AnswerRateLimited
  <2>2. unrecorded' \in [Keys -> 0..MaxUnrecorded]
    BY <1>1, NotRecordedType DEF IInv
  <2>3. UNCHANGED <<keyCount, scanned, startIdx, considered, undisturbed>>
    BY <1>1 DEF Retry
  <2>4. \A q \in Requests : pc'[q] = "scan" => pc[q] = "scan"
    BY <1>1 DEF IInv, TypeOK, Retry
  <2>5. overrun' \in [Keys -> 0..MaxOverrun]
    <3>1. 0 \in 0..MaxOverrun
      BY Naturals
    <3>2. overrun \in [Keys -> 0..MaxOverrun]
      BY DEF IInv, TypeOK
    <3>3. overrun' = [overrun EXCEPT ![key[r]] = IF keyCold[key[r]] THEN @ ELSE 0]
      BY DEF AnswerRateLimited
    <3>4. key[r] \in Keys
      BY <1>1 DEF IInv, LocalsFit
    <3>5. QED
      BY <3>1, <3>2, <3>3, <3>4
  <2>6. QED
    BY <1>1, <2>1, <2>2, <2>3, <2>4, <2>5, RetryLocals DEF IInv, TypeOK
<1>3. QED
  BY <1>1, <1>2, UnrecordedStep DEF IInv, TypeOK, Retry

LEMMA AnswerRejectedStep ==
    ASSUME IInv, NEW r \in Requests, AnswerRejected(r)
    PROVE  IInv'
<1>1. /\ pc[r] = "sending"
      /\ Return(r)
      /\ NotRecorded(key[r])
      /\ UNCHANGED <<apiKeys, keyNextIdx, keyCold, keyCB, overrun>>
  BY DEF AnswerRejected, sharedVars
<1>2. TypeOK' /\ LocalsFit'
  <2>1. unrecorded' \in [Keys -> 0..MaxUnrecorded]
    BY <1>1, NotRecordedType DEF IInv
  <2>2. QED
    BY <1>1, <2>1, ReturnLocals DEF IInv, TypeOK
<1>3. QED
  BY <1>1, <1>2, UnrecordedStep DEF IInv, TypeOK, Return

\* A failure ends the half-open period of its key.
LEMMA AnswerRetryableStep ==
    ASSUME IInv, NEW r \in Requests, AnswerRetryable(r)
    PROVE  IInv'
<1> DEFINE m == key[r]
           b == keyCB[m]
<1>1. m \in Keys /\ b \in Breaker /\ Consistent(b)
  BY DEF IInv, TypeOK, LocalsFit, AnswerRetryable
<1>2. /\ keyCB' = [keyCB EXCEPT ![m] = RecordFailure(b)]
      /\ keyCB'[m] = RecordFailure(b)
      /\ \A k \in Keys \ {m} : keyCB'[k] = keyCB[k]
      /\ unrecorded' = unrecorded
      /\ pc[r] = "sending"
      /\ Retry(r)
  BY <1>1 DEF IInv, TypeOK, AnswerRetryable, KeyRecordFailure
<1>3. /\ RecordFailure(b) \in Breaker
      /\ Consistent(RecordFailure(b))
      /\ RecordFailure(b).state # "half_open"
  BY <1>1, RecordFailureFacts
<1>4. TypeOK' /\ LocalsFit'
  <2>1. keyCB' \in [Keys -> Breaker]
    BY <1>2, <1>3 DEF IInv, TypeOK
  <2>2. UNCHANGED <<keyCount, scanned, startIdx, considered, undisturbed>>
    BY <1>2 DEF Retry
  <2>3. \A q \in Requests : pc'[q] = "scan" => pc[q] = "scan"
    BY <1>2 DEF IInv, TypeOK, Retry
  <2>4. QED
    BY <1>2, <2>1, <2>2, <2>3, RetryLocals DEF IInv, TypeOK, AnswerRetryable
<1>5. \A k \in Keys : Consistent(keyCB[k])'
  BY <1>2, <1>3 DEF IInv
<1>6. ASSUME NEW k \in Keys
      PROVE  CallsAccounted(k)'
  <2>1. CASE k = m
    BY <1>2, <1>3, <2>1 DEF CallsAccounted
  <2>2. CASE k # m
    <3>1. InFlight(k)' = InFlight(k)
      BY <1>2, <2>2, OneCallEnds DEF IInv, TypeOK, Retry
    <3>2. QED
      BY <1>2, <2>2, <3>1 DEF IInv, CallsAccounted
  <2>3. QED
    BY <2>1, <2>2
<1>7. QED
  BY <1>4, <1>5, <1>6 DEF IInv

LEMMA StutterStep ==
    ASSUME IInv, UNCHANGED vars
    PROVE  IInv'
<1>1. UNCHANGED <<apiKeys, keyNextIdx, keyCold, keyCB, pc, attempt, keyCount,
                  scanned, startIdx, key, unrecorded, considered, undisturbed,
                  overrun>>
  BY DEF vars, sharedVars, requestVars, historyVars
<1>2. TypeOK' /\ LocalsFit'
  BY <1>1 DEF IInv, TypeOK, LocalsFit
<1>3. \A k \in Keys : InFlight(k)' = InFlight(k)
  BY <1>1 DEF InFlight
<1>4. QED
  BY <1>1, <1>2, <1>3, QuietStep

-----------------------------------------------------------------------------

\* IInv is inductive.
THEOREM Inductive == Spec => []IInv
<1>1. IInv /\ [Next]_vars => IInv'
  <2> SUFFICES ASSUME IInv, [Next]_vars PROVE IInv'
    OBVIOUS
  <2>1. ASSUME NEW r \in Requests, Begin(r) PROVE IInv'
    BY <2>1, BeginStep
  <2>2. ASSUME NEW r \in Requests, Step(r) PROVE IInv'
    <3>1. CASE ClaimSlot(r)
      BY <3>1, ClaimSlotStep
    <3>2. CASE PickKey(r)
      BY <3>2, PickKeyStep
    <3>3. CASE PickNothing(r)
      BY <3>3, PickNothingStep
    <3>4. CASE AnswerOK(r)
      BY <3>4, AnswerOKStep
    <3>5. CASE AnswerRateLimited(r)
      BY <3>5, AnswerRateLimitedStep
    <3>6. CASE AnswerRetryable(r)
      BY <3>6, AnswerRetryableStep
    <3>7. CASE AnswerRejected(r)
      BY <3>7, AnswerRejectedStep
    <3>8. CASE AttemptsUsedUp(r)
      BY <3>8, AttemptsUsedUpStep
    <3>9. CASE Send(r)
      BY <3>9, SendStep
    <3>10. QED
      BY <2>2, <3>1, <3>2, <3>3, <3>4, <3>5, <3>6, <3>7, <3>8, <3>9 DEF Step, Answer
  <2>3. ASSUME NEW k \in Keys, CooldownExpires(k) PROVE IInv'
    BY <2>3, CooldownExpiresStep
  <2>4. ASSUME NEW k \in Keys, RecoveryElapses(k) PROVE IInv'
    BY <2>4, RecoveryElapsesStep
  <2>5. ASSUME NEW list \in KeyLists, Reload(list) PROVE IInv'
    BY <2>5, ReloadStep
  <2>6. CASE UNCHANGED vars
    BY <2>6, StutterStep
  <2>7. QED
    BY <2>1, <2>2, <2>3, <2>4, <2>5, <2>6 DEF Next
<1>2. QED
  BY InitIInv, <1>1, PTL DEF Spec

\* Every variable keeps its type: a scan never leaves its list, however
\* reloads change the keys while it runs (opencode.go:158-187).
THEOREM RotationTypes == Spec => []TypeOK
<1>1. IInv => TypeOK
  BY DEF IInv
<1>2. QED
  BY Inductive, <1>1, PTL

\* A half-open key that refuses every call, with none under way, has answered
\* at least twice without its breaker being told (opencode.go:256-272).
THEOREM KeysShelvedOnlyByUnrecorded == Spec => []ShelvedOnlyByUnrecorded
<1>1. IInv => ShelvedOnlyByUnrecorded
  <2> SUFFICES ASSUME IInv, NEW k \in Keys,
                      keyCB[k].state = "half_open", ~Allows(keyCB[k])
               PROVE  Cardinality(InFlight(k)) + unrecorded[k] >= 2
    BY DEF ShelvedOnlyByUnrecorded
  <2>1. keyCB[k] \in Breaker /\ Consistent(keyCB[k]) /\ CallsAccounted(k)
    BY DEF IInv, TypeOK
  <2>2. /\ keyCB[k].halfOpenCalls = HalfOpenMaxCalls
        /\ keyCB[k].successCount < HalfOpenMaxCalls
        /\ keyCB[k].successCount \in Nat
    BY <2>1, BreakerAssumption DEF Allows, Breaker, Consistent
  <2>3. Cardinality(InFlight(k)) + unrecorded[k] + keyCB[k].successCount
           >= HalfOpenMaxCalls + 1
    BY <2>1, <2>2 DEF CallsAccounted
  <2>4. Cardinality(InFlight(k)) \in Nat
    BY InFlightFinite
  <2>5. unrecorded[k] \in Nat
    BY Naturals DEF IInv, TypeOK
  <2>6. QED
    BY <2>2, <2>3, <2>4, <2>5, Naturals
<1>2. QED
  BY Inductive, <1>1, PTL

-----------------------------------------------------------------------------
(* Parked keys *)

\* The requests that go out with a parked key are those of calls that had taken
\* it; the call that parked it is not one of them.
Drains(k) ==
    keyCold[k] => Cardinality(Unsent(k)) + overrun[k] < Cardinality(Requests)

DrainsInv == \A k \in Keys : Drains(k)

LEMMA UnsentFinite ==
    ASSUME NEW k
    PROVE  IsFiniteSet(Unsent(k)) /\ Cardinality(Unsent(k)) \in Nat
<1>1. IsFiniteSet(Unsent(k))
  BY RotationAssumption, FS_Subset DEF Unsent
<1>2. QED
  BY <1>1, FS_CardinalityType

LEMMA Quantities ==
    ASSUME IInv, NEW k \in Keys
    PROVE  /\ overrun[k] \in Nat
           /\ Cardinality(Requests) \in Nat
           /\ Cardinality(Unsent(k)) \in Nat
BY UnsentFinite, Naturals, RotationAssumption, FS_CardinalityType DEF IInv, TypeOK

\* A step by which no call takes the key, and which neither parks it nor sends.
LEMMA QuietDrains ==
    ASSUME IInv, NEW k \in Keys, Drains(k), Unsent(k)' \subseteq Unsent(k),
           keyCold'[k] => keyCold[k], overrun'[k] = overrun[k]
    PROVE  Drains(k)'
<1>1. Cardinality(Unsent(k)') <= Cardinality(Unsent(k)) /\ Cardinality(Unsent(k)') \in Nat
  BY UnsentFinite, FS_Subset, FS_CardinalityType
<1>2. QED
  BY <1>1, Quantities DEF Drains

\* Steps of a call that leave it without a key it has not sent with.
LEMMA FewerUnsent ==
    ASSUME TypeOK, NEW r \in Requests, NEW k, pc'[r] # "picked",
           \A q \in Requests \ {r} : pc'[q] = pc[q] /\ key'[q] = key[q]
    PROVE  Unsent(k)' \subseteq Unsent(k) \ {r}
BY DEF Unsent

\* A key is taken by a scan only when it is not parked.
LEMMA PickKeyDrains ==
    ASSUME IInv, DrainsInv, NEW r \in Requests, PickKey(r)
    PROVE  DrainsInv'
<1>1. PICK i \in 0..(Len(scanned[r]) - 1) :
          Stops(r, i) /\ key' = [key EXCEPT ![r] = ScanKey(r, i)]
  BY DEF PickKey
<1>2. ~keyCold[ScanKey(r, i)]
  BY <1>1 DEF Stops, Usable
<1>3. keyCold' = keyCold /\ overrun' = overrun
  BY DEF PickKey
<1>4. ASSUME NEW k \in Keys PROVE Drains(k)'
  <2>1. CASE k = ScanKey(r, i)
    BY <1>2, <1>3, <2>1 DEF Drains
  <2>2. CASE k # ScanKey(r, i)
    <3>1. Unsent(k)' \subseteq Unsent(k)
      BY <1>1, <2>2 DEF IInv, TypeOK, PickKey, Unsent
    <3>2. QED
      BY <1>3, <3>1, QuietDrains DEF DrainsInv
  <2>3. QED
    BY <2>1, <2>2
<1>5. QED
  BY <1>4 DEF DrainsInv

\* Each request that goes out is one fewer to come.
LEMMA SendDrains ==
    ASSUME IInv, DrainsInv, NEW r \in Requests, Send(r)
    PROVE  DrainsInv'
<1>1. keyCold' = keyCold /\ pc[r] = "picked" /\ key' = key
  BY DEF Send, sharedVars
<1>2. ASSUME NEW k \in Keys PROVE Drains(k)'
  <2>1. Unsent(k)' \subseteq Unsent(k) \ {r}
    BY FewerUnsent DEF IInv, TypeOK, Send
  <2>2. CASE k # key[r]
    <3>1. overrun'[k] = overrun[k]
      BY <2>2 DEF IInv, TypeOK, Send
    <3>2. QED
      BY <1>1, <2>1, <3>1, QuietDrains DEF DrainsInv
  <2>3. CASE k = key[r]
    <3>1. r \in Unsent(k)
      BY <1>1, <2>3 DEF Unsent
    <3>2. IsFiniteSet(Unsent(k) \ {r})
          /\ Cardinality(Unsent(k) \ {r}) = Cardinality(Unsent(k)) - 1
      BY <3>1, UnsentFinite, FS_RemoveElement, FS_Subset
    <3>3. /\ Cardinality(Unsent(k)') <= Cardinality(Unsent(k)) - 1
          /\ Cardinality(Unsent(k)') \in Nat
      BY <2>1, <3>2, FS_Subset, FS_CardinalityType
    <3>4. overrun'[k] \in {overrun[k], overrun[k] + 1}
      BY <2>3 DEF IInv, TypeOK, Send
    <3>5. Drains(k)
      BY DEF DrainsInv
    <3>6. QED
      BY <1>1, <3>3, <3>4, <3>5, Quantities DEF Drains
  <2>4. QED
    BY <2>2, <2>3
<1>3. QED
  BY <1>2 DEF DrainsInv

\* The call that parks a key has sent: at most the others have it in hand.
LEMMA RateLimitedDrains ==
    ASSUME IInv, DrainsInv, NEW r \in Requests, AnswerRateLimited(r)
    PROVE  DrainsInv'
<1>1. key[r] \in Keys
  BY DEF IInv, LocalsFit, AnswerRateLimited
<1>2. ASSUME NEW k \in Keys PROVE Drains(k)'
  <2>1. Unsent(k)' \subseteq Unsent(k) \ {r}
    BY FewerUnsent DEF IInv, TypeOK, AnswerRateLimited, Retry
  <2>2. CASE k # key[r] \/ keyCold[k]
    <3>1. overrun'[k] = overrun[k] /\ keyCold'[k] = keyCold[k]
      BY <1>1, <2>2 DEF IInv, TypeOK, AnswerRateLimited
    <3>2. QED
      BY <2>1, <3>1, QuietDrains DEF DrainsInv
  <2>3. CASE k = key[r] /\ ~keyCold[k]
    <3>1. overrun'[k] = 0
      BY <2>3 DEF IInv, TypeOK, AnswerRateLimited
    <3>2. Unsent(k)' \subseteq Requests \ {r}
      BY <2>1 DEF Unsent
    <3>3. /\ IsFiniteSet(Requests \ {r})
          /\ Cardinality(Requests \ {r}) = Cardinality(Requests) - 1
      BY RotationAssumption, FS_RemoveElement, FS_Subset
    <3>4. /\ Cardinality(Unsent(k)') <= Cardinality(Requests) - 1
          /\ Cardinality(Unsent(k)') \in Nat
      BY <3>2, <3>3, FS_Subset, FS_CardinalityType
    <3>5. QED
      BY <3>1, <3>4, Quantities DEF Drains
  <2>4. QED
    BY <2>2, <2>3
<1>3. QED
  BY <1>2 DEF DrainsInv

LEMMA DrainsKept == IInv /\ DrainsInv /\ [Next]_vars => DrainsInv'
<1> SUFFICES ASSUME IInv, DrainsInv, [Next]_vars PROVE DrainsInv'
  OBVIOUS
<1>1. ASSUME UNCHANGED <<pc, key, keyCold, overrun>> PROVE DrainsInv'
  BY <1>1 DEF DrainsInv, Drains, Unsent
<1>2. ASSUME NEW r \in Requests, pc'[r] # "picked", UNCHANGED <<keyCold, overrun>>,
             \A q \in Requests \ {r} : pc'[q] = pc[q] /\ key'[q] = key[q]
      PROVE  DrainsInv'
  BY <1>2, FewerUnsent, QuietDrains DEF DrainsInv, IInv
<1>3. ASSUME NEW r \in Requests, Begin(r) PROVE DrainsInv'
  BY <1>2, <1>3 DEF IInv, TypeOK, Begin, sharedVars, historyVars
<1>4. ASSUME NEW r \in Requests, Step(r) PROVE DrainsInv'
  <2>1. CASE ClaimSlot(r)
    BY <1>2, <2>1 DEF IInv, TypeOK, ClaimSlot
  <2>2. CASE PickKey(r)
    BY <2>2, PickKeyDrains
  <2>3. CASE Send(r)
    BY <2>3, SendDrains
  <2>4. CASE AnswerRateLimited(r)
    BY <2>4, RateLimitedDrains
  <2>5. CASE Return(r) /\ UNCHANGED <<keyCold, overrun>>
    BY <1>2, <2>5 DEF IInv, TypeOK, Return
  <2>6. CASE Retry(r) /\ UNCHANGED <<keyCold, overrun>>
    BY <1>2, <2>6 DEF IInv, TypeOK, Retry
  <2>7. QED
    BY <1>4, <2>1, <2>2, <2>3, <2>4, <2>5, <2>6
    DEF Step, Answer, PickNothing, AttemptsUsedUp, AnswerOK, AnswerRetryable,
        AnswerRejected, sharedVars
<1>5. ASSUME NEW n \in Keys, CooldownExpires(n) PROVE DrainsInv'
  <2>1. ASSUME NEW k \in Keys PROVE Drains(k)'
    <3>1. CASE k = n
      BY <1>5, <3>1 DEF CooldownExpires, IInv, TypeOK, Drains
    <3>2. CASE k # n
      <4>1. keyCold'[k] = keyCold[k] /\ overrun'[k] = overrun[k]
        BY <1>5, <3>2 DEF CooldownExpires, IInv, TypeOK
      <4>2. Unsent(k)' \subseteq Unsent(k)
        BY <1>5 DEF CooldownExpires, requestVars, Unsent
      <4>3. QED
        BY <4>1, <4>2, QuietDrains DEF DrainsInv
    <3>3. QED
      BY <3>1, <3>2
  <2>2. QED
    BY <2>1 DEF DrainsInv
<1>6. ASSUME NEW n \in Keys, RecoveryElapses(n) PROVE DrainsInv'
  BY <1>1, <1>6 DEF RecoveryElapses, requestVars, historyVars
<1>7. ASSUME NEW list \in KeyLists, Reload(list) PROVE DrainsInv'
  BY <1>1, <1>7 DEF Reload, requestVars
<1>8. CASE UNCHANGED vars
  BY <1>1, <1>8 DEF vars, sharedVars, requestVars, historyVars
<1>9. QED
  BY <1>3, <1>4, <1>5, <1>6, <1>7, <1>8 DEF Next

LEMMA DrainsInit == Init => DrainsInv
BY DEF Init, DrainsInv, Drains

\* Once a key is parked no more requests go out with it, until its cooldown
\* ends, than there are other calls, each of which may have picked it before
\* (opencode.go:183-193, 248-253).
THEOREM ParkedKeysDrain == Spec => []ParkedKeyDrains
<1>1. IInv /\ DrainsInv => ParkedKeyDrains
  BY Quantities DEF DrainsInv, Drains, ParkedKeyDrains
<1>2. QED
  BY <1>1, DrainsInit, DrainsKept, Inductive, PTL DEF Spec

-----------------------------------------------------------------------------
(* Every key's turn *)

\* The key whose turn the i-th slot of the counter is.
TurnOf(i) == apiKeys[(i % Len(apiKeys)) + 1]

\* How many slots a call has scanned from, and the first slot after them.
Scans(r) == IF pc[r] \in {"picked", "sending"} THEN attempt[r] + 1 ELSE attempt[r]
AfterScans(r) == IF pc[r] = "scan" THEN keyNextIdx - 1 ELSE keyNextIdx

\* What an undisturbed call knows: its keys are those in force, and it has
\* considered the keys whose turn its slots were, the last ones claimed.
TurnsTaken(r) ==
    /\ keyCount[r] = Len(apiKeys)
    /\ considered[r] \subseteq KeysOf(apiKeys)
    /\ pc[r] = "scan" => /\ scanned[r] = apiKeys
                         /\ startIdx[r] = (keyNextIdx - 1) % Len(apiKeys)
    /\ \A j \in 1..Scans(r) : TurnOf(AfterScans(r) - j) \in considered[r]

TurnsKnown(r) ==
    /\ pc[r] = "idle" => considered[r] = {}
    /\ pc[r] # "idle" /\ undisturbed[r] => TurnsTaken(r)

TurnsInv == \A r \in Requests : TurnsKnown(r)

LEMMA Division ==
    ASSUME NEW a \in Int, NEW n \in Nat \ {0}
    PROVE  /\ a \div n \in Int
           /\ a % n \in 0..(n - 1)
           /\ a = n * (a \div n) + (a % n)
OBVIOUS

\* The remainder is the only one of its size.
LEMMA Remainder ==
    ASSUME NEW a \in Int, NEW n \in Nat \ {0}, NEW q \in Int, NEW e \in 0..(n - 1),
           a = n * q + e
    PROVE  a % n = e
<1> DEFINE p == a \div n
           d == a % n
<1>1. p \in Int /\ d \in 0..(n - 1) /\ n * q + e = n * p + d
  BY Division
<1> HIDE DEF p, d
<1>2. CASE q = p
  BY <1>1, <1>2 DEF d
<1>3. CASE q > p
  <2>1. n * (q - p) >= n
    BY <1>1, <1>3
  <2>2. n * (q - p) = d - e
    BY <1>1
  <2>3. QED
    BY <1>1, <2>1, <2>2
<1>4. CASE p > q
  <2>1. n * (p - q) >= n
    BY <1>1, <1>4
  <2>2. n * (p - q) = e - d
    BY <1>1
  <2>3. QED
    BY <1>1, <2>1, <2>2
<1>5. QED
  BY <1>1, <1>2, <1>3, <1>4

\* A multiple of the period makes no difference.
LEMMA Periodic ==
    ASSUME NEW a \in Int, NEW n \in Nat \ {0}, NEW m \in Int, m % n = 0
    PROVE  (a + m) % n = a % n
<1> DEFINE p == a \div n
           q == m \div n
           e == a % n
<1>1. p \in Int /\ q \in Int /\ e \in 0..(n - 1) /\ a = n * p + e /\ m = n * q
  BY Division
<1> HIDE DEF p, q, e
<1>2. a + m = n * (p + q) + e /\ a + m \in Int /\ p + q \in Int
  BY <1>1
<1>3. (a + m) % n = e
  BY <1>1, <1>2, Remainder
<1>4. QED
  BY <1>3 DEF e

\* A remainder is its own.
LEMMA Reduced ==
    ASSUME NEW a \in Int, NEW n \in Nat \ {0}
    PROVE  (a % n) % n = a % n
<1> DEFINE e == a % n
<1>1. e \in 0..(n - 1) /\ e = n * 0 + e
  BY Division
<1> HIDE DEF e
<1>2. e % n = e
  BY <1>1, Remainder
<1>3. QED
  BY <1>2 DEF e

\* n consecutive slots have every remainder.
LEMMA EveryRemainder ==
    ASSUME NEW a \in Int, NEW n \in Nat \ {0}, NEW e \in 0..(n - 1)
    PROVE  \E j \in 1..n : (a - j) % n = e
<1> DEFINE b == a - 1 - e
           q == b \div n
           d == b % n
<1>0. b \in Int
  OBVIOUS
<1> HIDE DEF b
<1>1. q \in Int /\ d \in 0..(n - 1) /\ b = n * q + d
  BY <1>0, Division
<1> HIDE DEF q, d
<1>2. a - (d + 1) = n * q + e /\ d + 1 \in 1..n /\ a - (d + 1) \in Int
  BY <1>1 DEF b
<1>3. (a - (d + 1)) % n = e
  BY <1>1, <1>2, Remainder
<1>4. QED
  BY <1>2, <1>3

\* That the counter is kept modulo IndexPeriod does not show in the turns.
LEMMA ClaimedTurn ==
    ASSUME TypeOK, NEW j \in Nat
    PROVE  (Claimed - 1 - j) % Len(apiKeys) = (keyNextIdx - j) % Len(apiKeys)
<1> DEFINE n == Len(apiKeys)
<1>1. /\ n \in Nat \ {0} /\ IndexPeriod \in Nat \ {0} /\ IndexPeriod % n = 0
      /\ keyNextIdx \in 0..(IndexPeriod - 1)
  BY ListFacts, RotationAssumption DEF TypeOK
<1> HIDE DEF n
<1> SUFFICES (Claimed - 1 - j) % n = (keyNextIdx - j) % n
  BY DEF n
<1>2. CASE keyNextIdx + 1 < IndexPeriod
  <2>1. keyNextIdx + 1 \in Int /\ IndexPeriod \in Nat \ {0}
        /\ keyNextIdx + 1 \in 0..(IndexPeriod - 1)
        /\ keyNextIdx + 1 = IndexPeriod * 0 + (keyNextIdx + 1)
    BY <1>1, <1>2
  <2>2. Claimed = keyNextIdx + 1
    BY <2>1, Remainder DEF Claimed
  <2>3. Claimed - 1 - j = keyNextIdx - j
    BY <1>1, <2>2
  <2>4. QED
    BY <2>3
<1>3. CASE keyNextIdx + 1 = IndexPeriod
  <2>1. IndexPeriod = IndexPeriod * 1 + 0 /\ 0 \in 0..(IndexPeriod - 1)
    BY <1>1
  <2>2. Claimed = 0
    BY <1>1, <1>3, <2>1, Remainder DEF Claimed
  <2>3. /\ keyNextIdx - j = (Claimed - 1 - j) + IndexPeriod
        /\ Claimed - 1 - j \in Int /\ IndexPeriod \in Int
    BY <1>1, <1>3, <2>2
  <2>4. ((Claimed - 1 - j) + IndexPeriod) % n = (Claimed - 1 - j) % n
    BY <1>1, <2>3, Periodic
  <2>5. QED
    BY <2>3, <2>4
<1>4. QED
  BY <1>1, <1>2, <1>3

\* A step of another call, or of none, either disturbs the call q or changes
\* nothing that it knows.
LEMMA OthersTurns ==
    ASSUME NEW q \in Requests, TurnsKnown(q),
           pc'[q] = pc[q], attempt'[q] = attempt[q], keyCount'[q] = keyCount[q],
           scanned'[q] = scanned[q], startIdx'[q] = startIdx[q],
           \/ considered'[q] = considered[q]
           \/ ~undisturbed'[q] /\ considered'[q] = {},
           pc[q] # "idle" /\ undisturbed'[q] =>
               undisturbed[q] /\ UNCHANGED <<apiKeys, keyNextIdx>>
    PROVE  TurnsKnown(q)'
BY DEF TurnsKnown, TurnsTaken, Scans, AfterScans, TurnOf, KeysOf

LEMMA BeginTurns ==
    ASSUME IInv, TurnsInv, NEW r \in Requests, Begin(r)
    PROVE  TurnsInv'
<1>1. ASSUME NEW q \in Requests \ {r} PROVE TurnsKnown(q)'
  BY <1>1, OthersTurns DEF TurnsInv, IInv, TypeOK, Begin, sharedVars, historyVars
<1>2. /\ pc'[r] = "claim" /\ attempt'[r] = 0 /\ keyCount'[r] = Len(apiKeys)
      /\ considered'[r] = {} /\ apiKeys' = apiKeys
  BY DEF TurnsInv, TurnsKnown, IInv, TypeOK, LocalsFit, Begin, sharedVars, historyVars
<1>3. Scans(r)' = 0
  BY <1>2 DEF Scans
<1>4. TurnsKnown(r)'
  BY <1>2, <1>3 DEF TurnsKnown, TurnsTaken
<1>5. QED
  BY <1>1, <1>4 DEF TurnsInv

LEMMA ClaimSlotTurns ==
    ASSUME IInv, TurnsInv, NEW r \in Requests, ClaimSlot(r)
    PROVE  TurnsInv'
<1>1. ASSUME NEW q \in Requests \ {r} PROVE TurnsKnown(q)'
  BY <1>1, OthersTurns DEF TurnsInv, IInv, TypeOK, ClaimSlot, Disturb
<1>2. /\ pc[r] = "claim" /\ pc'[r] = "scan"
      /\ UNCHANGED <<apiKeys, attempt, keyCount>>
      /\ undisturbed[r] => considered'[r] = considered[r]
      /\ scanned'[r] = apiKeys
      /\ startIdx'[r] = keyNextIdx % Len(apiKeys)
      /\ keyNextIdx' = Claimed
      /\ undisturbed'[r] = undisturbed[r]
  BY DEF IInv, TypeOK, ClaimSlot, Disturb
<1>3. SUFFICES ASSUME undisturbed[r] PROVE TurnsTaken(r)'
  BY <1>1, <1>2 DEF TurnsInv, TurnsKnown
<1>4. TurnsTaken(r)
  BY <1>2, <1>3 DEF TurnsInv, TurnsKnown
<1>5. attempt[r] \in Nat /\ keyNextIdx \in Nat /\ Claimed \in Int
  <2>1. keyNextIdx \in 0..(IndexPeriod - 1) /\ IndexPeriod \in Nat \ {0}
    BY RotationAssumption DEF IInv, TypeOK
  <2>2. keyNextIdx + 1 \in Nat
    BY <2>1
  <2>3. Claimed \in 0..(IndexPeriod - 1)
    BY <2>1, <2>2, ModuloFacts DEF Claimed
  <2>4. QED
    BY <2>1, <2>3 DEF IInv, TypeOK
<1>6. startIdx'[r] = (keyNextIdx' - 1) % Len(apiKeys)
  <2>1. (Claimed - 1 - 0) % Len(apiKeys) = (keyNextIdx - 0) % Len(apiKeys)
    BY ClaimedTurn DEF IInv
  <2>2. Claimed - 1 - 0 = Claimed - 1 /\ keyNextIdx - 0 = keyNextIdx
    BY <1>5
  <2>3. QED
    BY <1>2, <2>1, <2>2
<1>7. ASSUME NEW j \in 1..Scans(r)'
      PROVE  TurnOf(AfterScans(r) - j)' \in considered'[r]
  <2>1. j \in 1..Scans(r) /\ j \in Nat
    BY <1>2, <1>5, <1>7 DEF Scans
  <2>2. TurnOf(AfterScans(r) - j)' = apiKeys[((Claimed - 1 - j) % Len(apiKeys)) + 1]
    BY <1>2 DEF TurnOf, AfterScans
  <2>3. TurnOf(AfterScans(r) - j) = apiKeys[((keyNextIdx - j) % Len(apiKeys)) + 1]
    BY <1>2 DEF TurnOf, AfterScans
  <2>4. TurnOf(AfterScans(r) - j)' = TurnOf(AfterScans(r) - j)
    BY <2>1, <2>2, <2>3, ClaimedTurn DEF IInv
  <2>5. QED
    BY <1>2, <1>3, <1>4, <2>1, <2>4 DEF TurnsTaken
<1>8. QED
  BY <1>2, <1>3, <1>4, <1>6, <1>7 DEF TurnsTaken, KeysOf

\* The first key a scan visits is the one whose turn its slot is.
LEMMA PickKeyTurns ==
    ASSUME IInv, TurnsInv, NEW r \in Requests, PickKey(r)
    PROVE  TurnsInv'
<1>1. ASSUME NEW q \in Requests \ {r} PROVE TurnsKnown(q)'
  BY <1>1, OthersTurns DEF TurnsInv, IInv, TypeOK, PickKey, ForgetScan
<1>2. PICK i \in 0..(Len(scanned[r]) - 1) :
          considered' = [considered EXCEPT ![r] =
                            IF undisturbed[r]
                            THEN @ \cup {ScanKey(r, j) : j \in 0..i} ELSE {}]
  BY DEF PickKey
<1>3. /\ pc[r] = "scan" /\ pc'[r] = "picked"
      /\ UNCHANGED <<apiKeys, keyNextIdx, attempt, keyCount, undisturbed>>
      /\ undisturbed[r] => considered'[r] = considered[r] \cup {ScanKey(r, j) : j \in 0..i}
      /\ attempt[r] \in Nat /\ keyNextIdx \in Nat
  <2>1. considered \in [Requests -> SUBSET Keys]
    BY DEF IInv, TypeOK
  <2>2. undisturbed[r] => considered'[r] = considered[r] \cup {ScanKey(r, j) : j \in 0..i}
    BY <1>2, <2>1
  <2>3. /\ pc[r] = "scan" /\ pc'[r] = "picked"
        /\ UNCHANGED <<apiKeys, keyNextIdx, attempt, keyCount, undisturbed>>
    BY DEF IInv, TypeOK, PickKey
  <2>4. attempt[r] \in Nat /\ keyNextIdx \in Nat
    BY RotationAssumption DEF IInv, TypeOK
  <2>5. QED
    BY <2>2, <2>3, <2>4
<1>4. SUFFICES ASSUME undisturbed[r] PROVE TurnsTaken(r)'
  BY <1>1, <1>3 DEF TurnsInv, TurnsKnown
<1>5. TurnsTaken(r)
  BY <1>3, <1>4 DEF TurnsInv, TurnsKnown
<1>6. /\ scanned[r] = apiKeys /\ startIdx[r] = (keyNextIdx - 1) % Len(apiKeys)
      /\ Len(apiKeys) \in Nat \ {0} /\ apiKeys \in Seq(Keys)
  BY <1>3, <1>5, ListFacts, RotationAssumption DEF TurnsTaken, IInv, TypeOK
<1>7. startIdx[r] \in 0..(Len(apiKeys) - 1)
  <2>1. keyNextIdx - 1 \in Int
    BY <1>3
  <2>2. QED
    BY <1>6, <2>1, Division
<1>8. considered'[r] \subseteq KeysOf(apiKeys)
  <2>1. ASSUME NEW j \in 0..i PROVE ScanKey(r, j) \in KeysOf(apiKeys)
    <3>1. startIdx[r] + j \in Int
      BY <1>7
    <3>2. (startIdx[r] + j) % Len(apiKeys) \in 0..(Len(apiKeys) - 1)
      BY <1>6, <3>1, Division
    <3>3. ((startIdx[r] + j) % Len(apiKeys)) + 1 \in DOMAIN apiKeys
      BY <1>6, <3>2
    <3>4. QED
      BY <1>6, <3>3 DEF ScanKey, KeysOf
  <2>2. QED
    BY <1>3, <1>4, <1>5, <2>1 DEF TurnsTaken
<1>9. TurnOf(keyNextIdx - 1) \in considered'[r]
  <2>1. startIdx[r] + 0 = startIdx[r] /\ keyNextIdx - 1 \in Int /\ 0 \in 0..i
    BY <1>3, <1>7
  <2>2. (startIdx[r] + 0) % Len(apiKeys) = (keyNextIdx - 1) % Len(apiKeys)
    BY <1>6, <2>1, Reduced, ZenonT(40)
  <2>3. ScanKey(r, 0) = TurnOf(keyNextIdx - 1)
    BY <1>6, <2>2 DEF ScanKey, TurnOf
  <2>4. QED
    BY <1>3, <1>4, <2>1, <2>3
<1>10. ASSUME NEW j \in 1..Scans(r)'
       PROVE  TurnOf(AfterScans(r) - j)' \in considered'[r]
  <2>1. Scans(r)' = attempt[r] + 1 /\ Scans(r) = attempt[r] /\ j \in 1..(attempt[r] + 1)
    BY <1>3, <1>10 DEF Scans
  <2>2. TurnOf(AfterScans(r) - j)' = TurnOf(keyNextIdx - j)
    BY <1>3 DEF TurnOf, AfterScans
  <2>3. CASE j = 1
    BY <1>9, <2>2, <2>3
  <2>4. CASE j # 1
    <3>1. j - 1 \in 1..Scans(r) /\ AfterScans(r) - (j - 1) = keyNextIdx - j
      BY <1>3, <2>1, <2>4 DEF AfterScans
    <3>2. TurnOf(keyNextIdx - j) \in considered[r]
      BY <1>5, <3>1 DEF TurnsTaken
    <3>3. QED
      BY <1>3, <1>4, <2>2, <3>2
  <2>5. QED
    BY <2>3, <2>4
<1>11. QED
  BY <1>3, <1>5, <1>8, <1>10 DEF TurnsTaken, KeysOf

LEMMA ReturnTurns ==
    ASSUME IInv, TurnsInv, NEW r \in Requests, Return(r),
           UNCHANGED <<apiKeys, keyNextIdx>>
    PROVE  TurnsInv'
<1>1. ASSUME NEW q \in Requests \ {r} PROVE TurnsKnown(q)'
  BY <1>1, OthersTurns DEF TurnsInv, IInv, TypeOK, Return, ForgetScan
<1>2. TurnsKnown(r)'
  BY DEF IInv, TypeOK, Return, TurnsKnown
<1>3. QED
  BY <1>1, <1>2 DEF TurnsInv

LEMMA RetryTurns ==
    ASSUME IInv, TurnsInv, NEW r \in Requests, pc[r] = "sending", Retry(r),
           UNCHANGED <<apiKeys, keyNextIdx>>
    PROVE  TurnsInv'
<1>1. ASSUME NEW q \in Requests \ {r} PROVE TurnsKnown(q)'
  BY <1>1, OthersTurns DEF TurnsInv, IInv, TypeOK, Retry
<1>2. /\ pc'[r] = "claim" /\ attempt'[r] = attempt[r] + 1
      /\ UNCHANGED <<keyCount, considered, undisturbed>>
  BY DEF IInv, TypeOK, Retry
<1>3. Scans(r)' = Scans(r) /\ AfterScans(r)' = AfterScans(r)
  BY <1>2 DEF Scans, AfterScans
<1>4. TurnsKnown(r)'
  BY <1>2, <1>3 DEF TurnsInv, TurnsKnown, TurnsTaken, TurnOf, KeysOf
<1>5. QED
  BY <1>1, <1>4 DEF TurnsInv

\* Nothing a call knows of changes, or each call under way is disturbed.
LEMMA QuietTurns ==
    ASSUME TurnsInv, UNCHANGED requestVars,
           \/ UNCHANGED <<apiKeys, keyNextIdx, considered, undisturbed>>
           \/ \A q \in Requests : /\ undisturbed'[q] = (pc[q] = "idle")
                                  /\ considered'[q] = {}
    PROVE  TurnsInv'
<1> SUFFICES ASSUME NEW q \in Requests PROVE TurnsKnown(q)'
  BY DEF TurnsInv
<1>1. CASE pc[q] = "idle" /\ considered'[q] = {}
  BY <1>1 DEF requestVars, TurnsKnown
<1>2. CASE ~(pc[q] = "idle" /\ considered'[q] = {})
  BY <1>2, OthersTurns DEF TurnsInv, requestVars
<1>3. QED
  BY <1>1, <1>2

\* A call that sends has scanned already.
LEMMA SendTurns ==
    ASSUME IInv, TurnsInv, NEW r \in Requests, Send(r)
    PROVE  TurnsInv'
<1>1. ASSUME NEW q \in Requests \ {r} PROVE TurnsKnown(q)'
  BY <1>1, OthersTurns DEF TurnsInv, IInv, TypeOK, Send, sharedVars
<1>2. /\ pc[r] = "picked" /\ pc'[r] = "sending"
      /\ UNCHANGED <<apiKeys, keyNextIdx, attempt, keyCount, considered, undisturbed>>
  BY DEF IInv, TypeOK, Send, sharedVars
<1>3. Scans(r)' = Scans(r) /\ AfterScans(r)' = AfterScans(r)
  BY <1>2 DEF Scans, AfterScans
<1>4. TurnsKnown(r)'
  BY <1>2, <1>3 DEF TurnsInv, TurnsKnown, TurnsTaken, TurnOf, KeysOf
<1>5. QED
  BY <1>1, <1>4 DEF TurnsInv

LEMMA TurnsKept == IInv /\ TurnsInv /\ [Next]_vars => TurnsInv'
<1> SUFFICES ASSUME IInv, TurnsInv, [Next]_vars PROVE TurnsInv'
  OBVIOUS
<1>1. ASSUME NEW r \in Requests, Begin(r) PROVE TurnsInv'
  BY <1>1, BeginTurns
<1>2. ASSUME NEW r \in Requests, Step(r) PROVE TurnsInv'
  <2>1. CASE ClaimSlot(r)
    BY <2>1, ClaimSlotTurns
  <2>2. CASE PickKey(r)
    BY <2>2, PickKeyTurns
  <2>3. CASE Return(r) /\ UNCHANGED <<apiKeys, keyNextIdx>>
    BY <2>3, ReturnTurns
  <2>4. CASE pc[r] = "sending" /\ Retry(r) /\ UNCHANGED <<apiKeys, keyNextIdx>>
    BY <2>4, RetryTurns
  <2>5. CASE Send(r)
    BY <2>5, SendTurns
  <2>6. QED
    BY <1>2, <2>1, <2>2, <2>3, <2>4, <2>5
    DEF Step, Answer, PickNothing, AttemptsUsedUp, AnswerOK, AnswerRateLimited,
        AnswerRetryable, AnswerRejected, sharedVars
<1>3. ASSUME NEW k \in Keys, CooldownExpires(k) \/ RecoveryElapses(k)
      PROVE  TurnsInv'
  BY <1>3, QuietTurns DEF CooldownExpires, RecoveryElapses, historyVars
<1>4. ASSUME NEW list \in KeyLists, Reload(list) PROVE TurnsInv'
  BY <1>4, QuietTurns DEF Reload
<1>5. CASE UNCHANGED vars
  BY <1>5, QuietTurns DEF vars, sharedVars, historyVars
<1>6. QED
  BY <1>1, <1>2, <1>3, <1>4, <1>5 DEF Next

LEMMA TurnsInit == Init => TurnsInv
BY DEF Init, TurnsInv, TurnsKnown

\* A call that nobody disturbed has considered every configured key when its
\* attempts are used up, whatever the counter stood at when it began
\* (opencode.go:158-187, 227-229).
THEOREM EveryKeyIsTried == Spec => []EveryKeyTried
<1>1. IInv /\ TurnsInv => EveryKeyTried
  <2> SUFFICES ASSUME IInv, TurnsInv, NEW r \in Requests,
                      pc[r] = "claim", attempt[r] = keyCount[r], undisturbed[r]
               PROVE  considered[r] = KeysOf(apiKeys)
    BY DEF EveryKeyTried
  <2>1. TurnsTaken(r) /\ Scans(r) = Len(apiKeys) /\ AfterScans(r) = keyNextIdx
    BY DEF TurnsInv, TurnsKnown, TurnsTaken, Scans, AfterScans
  <2>2. /\ apiKeys \in Seq(Keys) /\ Len(apiKeys) \in Nat \ {0} /\ keyNextIdx \in Int
    BY ListFacts, RotationAssumption DEF IInv, TypeOK
  <2>3. ASSUME NEW i \in DOMAIN apiKeys PROVE apiKeys[i] \in considered[r]
    <3>1. i - 1 \in 0..(Len(apiKeys) - 1) /\ (i - 1) + 1 = i
      BY <2>2
    <3>2. PICK j \in 1..Len(apiKeys) : (keyNextIdx - j) % Len(apiKeys) = i - 1
      BY <2>2, <3>1, EveryRemainder
    <3>3. TurnOf(keyNextIdx - j) = apiKeys[i]
      BY <3>1, <3>2 DEF TurnOf
    <3>4. QED
      BY <2>1, <3>2, <3>3 DEF TurnsTaken
  <2>4. QED
    BY <2>1, <2>3 DEF TurnsTaken, KeysOf
<1>2. QED
  BY <1>1, TurnsInit, TurnsKept, Inductive, PTL DEF Spec
=============================================================================
