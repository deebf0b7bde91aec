---------------------------- MODULE KeyRotation ----------------------------
(***************************************************************************)
(* internal/client/opencode.go and key_circuit.go: the upstream client's   *)
(* rotation over the configured API keys.  ChatCompletion (and, with the   *)
(* same loop, SendAnthropicRequest) picks a key, sends the request, and on *)
(* a rate limit parks the key, on an infrastructure error charges the      *)
(* key's circuit breaker, and tries again, as many times as there were     *)
(* keys when it started.  All requests share the round-robin counter, the  *)
(* cooldowns and the breakers; each is atomic or under a mutex of its own, *)
(* and no lock is held across two of them except by the scan of pickKey.   *)
(* A reload of the configuration may replace the keys at any moment: the   *)
(* number of attempts is read when the call starts, the keys again by      *)
(* every pickKey, and cooldowns and breakers belong to the key itself.     *)
(***************************************************************************)
EXTENDS CircuitBreaker, Sequences, FiniteSets

CONSTANTS
    Requests,   \* goroutines that call ChatCompletion, one call after another
    Keys,       \* API keys
    KeyLists,   \* what configuredKeys() may return: never empty
    IndexPeriod,\* bound: keyNextIdx is kept modulo this, a multiple of their lengths
    Answers     \* what the upstream may answer, see AnswerKinds

\* "ok": a status below 400.  "rate_limited": 429.  "retryable": 500, 502, 503
\* or no status at all (network error, timeout, cancelled context).
\* "rejected": any other status of 400 or more.
AnswerKinds == {"ok", "rate_limited", "retryable", "rejected"}

ASSUME RotationAssumption ==
    /\ IsFiniteSet(Requests)
    /\ KeyLists \subseteq Seq(Keys) \ {<<>>}
    /\ IndexPeriod \in Nat \ {0}
    /\ \A list \in KeyLists : IndexPeriod % Len(list) = 0
    /\ Answers \subseteq AnswerKinds

KeysOf(list) == {list[i] : i \in DOMAIN list}

VARIABLES
    apiKeys,        \* configuredKeys(): the list of the configuration in force
    keyNextIdx,     \* the round-robin counter, modulo IndexPeriod
    keyCold,        \* keyCooldown holds a time for the key that is not past
    keyCB,          \* keyCB: one breaker per key
    pc,             \* where each request is
    attempt,        \* the loop index
    keyCount,       \* the local variable keyCount, read when the call starts
    scanned,        \* pickKey's keys, read before the slot is claimed
    startIdx,       \* pickKey's startIdx
    key             \* the key of the attempt

\* History, read by properties only.
VARIABLES
    unrecorded,     \* answers to a key, while it was half-open, that its breaker never saw
    considered,     \* keys the current call tried, or found cold or broken in some
                    \* scan, as long as it is undisturbed
    undisturbed,    \* during the current call no other has claimed a slot, nor
                    \* has a reload replaced the keys
    overrun          \* requests sent with a key since it was parked

sharedVars == <<apiKeys, keyNextIdx, keyCold, keyCB>>
requestVars == <<pc, attempt, keyCount, scanned, startIdx, key>>
historyVars == <<unrecorded, considered, undisturbed, overrun>>
vars == <<sharedVars, requestVars, historyVars>>

NoKey == "none"
NoKeys == <<>>
MaxUnrecorded == HalfOpenMaxCalls + 1   \* bound: unrecorded saturates here
MaxOverrun == Cardinality(Requests)     \* bound: overrun saturates here

\* The calls that have k in hand, and of these the ones that have not sent yet.
InFlight(k) == {r \in Requests : pc[r] \in {"picked", "sending"} /\ key[r] = k}
Unsent(k) == {r \in Requests : pc[r] = "picked" /\ key[r] = k}

TypeOK ==
    /\ apiKeys \in KeyLists
    /\ keyNextIdx \in 0..(IndexPeriod - 1)
    /\ keyCold \in [Keys -> BOOLEAN]
    /\ keyCB \in [Keys -> Breaker]
    /\ pc \in [Requests -> {"idle", "claim", "scan", "picked", "sending"}]
    /\ attempt \in [Requests -> Nat]
    /\ \A r \in Requests : attempt[r] <= keyCount[r]
    /\ keyCount \in [Requests -> {Len(list) : list \in KeyLists \cup {NoKeys}}]
    /\ scanned \in [Requests -> KeyLists \cup {NoKeys}]
    /\ startIdx \in [Requests -> Nat]
    /\ \A r \in Requests : pc[r] = "scan" => startIdx[r] < Len(scanned[r])
    /\ key \in [Requests -> Keys \cup {NoKey}]
    /\ unrecorded \in [Keys -> 0..MaxUnrecorded]
    /\ considered \in [Requests -> SUBSET Keys]
    /\ undisturbed \in [Requests -> BOOLEAN]
    /\ overrun \in [Keys -> 0..MaxOverrun]

Init ==
    /\ apiKeys \in KeyLists
    /\ keyNextIdx = 0
    /\ keyCold = [k \in Keys |-> FALSE]
    /\ keyCB = [k \in Keys |-> NewCircuitBreaker]
    /\ pc = [r \in Requests |-> "idle"]
    /\ attempt = [r \in Requests |-> 0]
    /\ keyCount = [r \in Requests |-> 0]
    /\ scanned = [r \in Requests |-> NoKeys]
    /\ startIdx = [r \in Requests |-> 0]
    /\ key = [r \in Requests |-> NoKey]
    /\ unrecorded = [k \in Keys |-> 0]
    /\ considered = [r \in Requests |-> {}]
    /\ undisturbed = [r \in Requests |-> TRUE]
    /\ overrun = [k \in Keys |-> 0]

-----------------------------------------------------------------------------
(* The breaker of a key: the router's, but for one more reset on closing *)

KeyAllow(b) == AllowRequest(b)

\* Mutant of KeyRecordSuccess: successes in the half-open state are not counted.
KeyRecordSuccessUncounted(b) ==
    IF b.state = "half_open" THEN b ELSE RecordSuccess(b)

KeyRecordSuccess(b) ==
    IF b.state = "half_open" /\ b.successCount + 1 >= HalfOpenMaxCalls
    THEN [RecordSuccess(b) EXCEPT !.halfOpenCalls = 0]
    ELSE RecordSuccess(b)

KeyRecordFailure(b) == RecordFailure(b)

-----------------------------------------------------------------------------
(* pickKey *)

\* Mutant of Usable: the cooldown is not looked at.
UsableThoughCold(k) == Allows(keyCB[k])

Usable(k) == ~keyCold[k] /\ Allows(keyCB[k])

\* The key a scan visits in its i-th iteration, from 0.
ScanKey(r, i) == scanned[r][((startIdx[r] + i) % Len(scanned[r])) + 1]

\* The iteration in which the scan stops: the first usable key, or none.
Stops(r, i) ==
    /\ Usable(ScanKey(r, i))
    /\ \A j \in 0..(i - 1) : ~Usable(ScanKey(r, j))

\* A slot claimed by r disturbs the calls under way but r's own; of a disturbed
\* call the history keeps nothing more.
Disturb(r) ==
    LET alone(q) == undisturbed[q] /\ (q = r \/ pc[q] = "idle")
    IN  /\ undisturbed' = [q \in Requests |-> alone(q)]
        /\ considered' = [q \in Requests |-> IF alone(q) THEN considered[q] ELSE {}]

\* Mutant of Claimed: the rotation does not advance.
ClaimedStays == keyNextIdx

\* The counter after the atomic increment.
Claimed == (keyNextIdx + 1) % IndexPeriod

\* The keys are read and a slot of the shared counter is claimed, outside the
\* lock of the scan.
ClaimSlot(r) ==
    /\ pc[r] = "claim"
    /\ attempt[r] < keyCount[r]
    /\ scanned' = [scanned EXCEPT ![r] = apiKeys]
    /\ startIdx' = [startIdx EXCEPT ![r] = keyNextIdx % Len(apiKeys)]
    /\ keyNextIdx' = Claimed
    /\ pc' = [pc EXCEPT ![r] = "scan"]
    /\ Disturb(r)
    /\ UNCHANGED <<apiKeys, keyCold, keyCB, attempt, keyCount, key, unrecorded,
                   overrun>>

\* pickKey returns, and its local variables go out of scope.
ForgetScan(r) ==
    /\ scanned' = [scanned EXCEPT ![r] = NoKeys]
    /\ startIdx' = [startIdx EXCEPT ![r] = 0]

\* The scan, under keyMu, finds a key; asking its breaker may turn it half-open.
\* The request is not sent yet: see Send.
PickKey(r) ==
    /\ pc[r] = "scan"
    /\ \E i \in 0..(Len(scanned[r]) - 1) :
          LET k == ScanKey(r, i)
          IN  /\ Stops(r, i)
              /\ key' = [key EXCEPT ![r] = k]
              /\ keyCB' = [keyCB EXCEPT ![k] = KeyAllow(@)]
              /\ unrecorded' = [unrecorded EXCEPT ![k] =
                                   IF keyCB[k].state = "open" THEN 0 ELSE @]
              /\ considered' = [considered EXCEPT ![r] =
                                   IF undisturbed[r]
                                   THEN @ \cup {ScanKey(r, j) : j \in 0..i} ELSE {}]
    /\ pc' = [pc EXCEPT ![r] = "picked"]
    /\ ForgetScan(r)
    /\ UNCHANGED <<apiKeys, keyNextIdx, keyCold, attempt, keyCount, undisturbed,
                   overrun>>

\* The call returns (ModelFallback allows it any error), and its local
\* variables go out of scope.
Return(r) ==
    /\ pc' = [pc EXCEPT ![r] = "idle"]
    /\ attempt' = [attempt EXCEPT ![r] = 0]
    /\ keyCount' = [keyCount EXCEPT ![r] = 0]
    /\ ForgetScan(r)
    /\ key' = [key EXCEPT ![r] = NoKey]
    /\ considered' = [considered EXCEPT ![r] = {}]
    /\ undisturbed' = [undisturbed EXCEPT ![r] = TRUE]

\* The scan finds nothing: break.
PickNothing(r) ==
    /\ pc[r] = "scan"
    /\ \A k \in KeysOf(scanned[r]) : ~Usable(k)
    /\ Return(r)
    /\ UNCHANGED <<sharedVars, unrecorded, overrun>>

-----------------------------------------------------------------------------
(* ChatCompletion *)

Begin(r) ==
    /\ pc[r] = "idle"
    /\ pc' = [pc EXCEPT ![r] = "claim"]
    /\ keyCount' = [keyCount EXCEPT ![r] = Len(apiKeys)]
    /\ UNCHANGED <<sharedVars, attempt, scanned, startIdx, key, historyVars>>

\* doRequest: the request goes out with the key that was picked, whether or not
\* another call has parked it since keyMu was released.
Send(r) ==
    /\ pc[r] = "picked"
    /\ pc' = [pc EXCEPT ![r] = "sending"]
    /\ overrun' = [overrun EXCEPT ![key[r]] =
                      IF keyCold[key[r]] /\ @ < MaxOverrun THEN @ + 1 ELSE @]
    /\ UNCHANGED <<sharedVars, attempt, keyCount, scanned, startIdx, key,
                   unrecorded, considered, undisturbed>>

\* continue: the loop index advances.
Retry(r) ==
    /\ attempt' = [attempt EXCEPT ![r] = @ + 1]
    /\ key' = [key EXCEPT ![r] = NoKey]
    /\ pc' = [pc EXCEPT ![r] = "claim"]
    /\ UNCHANGED <<keyCount, scanned, startIdx, considered, undisturbed>>

NotRecorded(k) ==
    unrecorded' = [unrecorded EXCEPT ![k] =
                      IF keyCB[k].state = "half_open" /\ @ < MaxUnrecorded
                      THEN @ + 1 ELSE @]

AnswerOK(r) ==
    /\ pc[r] = "sending"
    /\ "ok" \in Answers
    /\ keyCB' = [keyCB EXCEPT ![key[r]] = KeyRecordSuccess(@)]
    /\ Return(r)
    /\ UNCHANGED <<apiKeys, keyNextIdx, keyCold, unrecorded, overrun>>

\* 429: the key is parked; its breaker is not told.
AnswerRateLimited(r) ==
    /\ pc[r] = "sending"
    /\ "rate_limited" \in Answers
    /\ keyCold' = [keyCold EXCEPT ![key[r]] = TRUE]
    /\ Retry(r)
    /\ NotRecorded(key[r])
    /\ overrun' = [overrun EXCEPT ![key[r]] = IF keyCold[key[r]] THEN @ ELSE 0]
    /\ UNCHANGED <<apiKeys, keyNextIdx, keyCB>>

AnswerRetryable(r) ==
    /\ pc[r] = "sending"
    /\ "retryable" \in Answers
    /\ keyCB' = [keyCB EXCEPT ![key[r]] = KeyRecordFailure(@)]
    /\ Retry(r)
    /\ UNCHANGED <<apiKeys, keyNextIdx, keyCold, unrecorded, overrun>>

\* Any other error status is returned at once; the breaker is not told.
AnswerRejected(r) ==
    /\ pc[r] = "sending"
    /\ "rejected" \in Answers
    /\ Return(r)
    /\ NotRecorded(key[r])
    /\ UNCHANGED <<sharedVars, overrun>>

\* The loop ends with its last error.
AttemptsUsedUp(r) ==
    /\ pc[r] = "claim"
    /\ attempt[r] = keyCount[r]
    /\ Return(r)
    /\ UNCHANGED <<sharedVars, unrecorded, overrun>>

-----------------------------------------------------------------------------
(* Reloads and time *)

\* A reload installs a configuration with other keys (module ConfigReload).
Reload(list) ==
    /\ list # apiKeys
    /\ apiKeys' = list
    /\ undisturbed' = [r \in Requests |-> pc[r] = "idle"]
    /\ considered' = [r \in Requests |-> {}]
    /\ UNCHANGED <<keyNextIdx, keyCold, keyCB, requestVars, unrecorded, overrun>>

\* The cooldown of a key ends; the next scan deletes its entry.
CooldownExpires(k) ==
    /\ keyCold[k]
    /\ keyCold' = [keyCold EXCEPT ![k] = FALSE]
    /\ overrun' = [overrun EXCEPT ![k] = 0]
    /\ UNCHANGED <<apiKeys, keyNextIdx, keyCB, requestVars, unrecorded, considered,
                   undisturbed>>

RecoveryElapses(k) ==
    /\ ~keyCB[k].elapsed
    /\ keyCB' = [keyCB EXCEPT ![k].elapsed = TRUE]
    /\ UNCHANGED <<apiKeys, keyNextIdx, keyCold, requestVars, historyVars>>

-----------------------------------------------------------------------------

Answer(r) ==
    \/ AnswerOK(r)
    \/ AnswerRateLimited(r)
    \/ AnswerRetryable(r)
    \/ AnswerRejected(r)

Step(r) ==
    \/ ClaimSlot(r)
    \/ PickKey(r)
    \/ PickNothing(r)
    \/ Send(r)
    \/ Answer(r)
    \/ AttemptsUsedUp(r)

Next ==
    \/ \E r \in Requests : Begin(r) \/ Step(r)
    \/ \E k \in Keys : CooldownExpires(k) \/ RecoveryElapses(k)
    \/ \E list \in KeyLists : Reload(list)

Spec == Init /\ [][Next]_vars

\* Goroutines are scheduled, the http.Client's timeout ends every upstream
\* call, clocks advance; LoadedSpec adds that requests keep arriving.
Fairness ==
    /\ \A r \in Requests : WF_vars(Step(r))
    /\ \A k \in Keys : WF_vars(CooldownExpires(k)) /\ WF_vars(RecoveryElapses(k))

FairSpec == Spec /\ Fairness
LoadedSpec == FairSpec /\ \A r \in Requests : WF_vars(Begin(r))

-----------------------------------------------------------------------------
(* Properties *)

(***************************************************************************)
(* Parking a key does not stop at once what is sent with it: a call that   *)
(* took the key before another's 429 parked it still sends (opencode.go:   *)
(* 187, 253).  But that is all: until the cooldown ends, no more requests  *)
(* go out with the key than other calls had it in hand when it was parked, *)
(* one for each other call at most, whatever slots were claimed before,    *)
(* however often the calls retry, and although a reload may take the key   *)
(* away and bring it back.                                                 *)
(***************************************************************************)
ParkedKeyDrains ==
    \A k \in Keys : keyCold[k] => overrun[k] < Cardinality(Requests)

(***************************************************************************)
(* The only way a half-open key can refuse every request with no call      *)
(* under way is that at least two answers to it were not recorded (429 and *)
(* the returned 4xx of opencode.go:256-269): with outcomes recorded as the *)
(* router does, the key would never be stuck.                              *)
(***************************************************************************)
ShelvedOnlyByUnrecorded ==
    \A k \in Keys :
        keyCB[k].state = "half_open" /\ ~Allows(keyCB[k])
            => Cardinality(InFlight(k)) + unrecorded[k] >= 2

(***************************************************************************)
(* A call whose attempts are used up has sent the request with every       *)
(* configured key, but for those it found cold or broken (opencode.go:     *)
(* 227-229, "only after every configured key has been tried"), provided    *)
(* that meanwhile no other request claimed a slot of the shared counter    *)
(* and no reload replaced the keys; otherwise a key can come up twice and  *)
(* another be left out.                                                    *)
(***************************************************************************)
EveryKeyTried ==
    \A r \in Requests :
        pc[r] = "claim" /\ attempt[r] = keyCount[r] /\ undisturbed[r]
            => considered[r] = KeysOf(apiKeys)

(***************************************************************************)
(* A key whose breaker is testing it is not left there for ever while      *)
(* requests keep coming: it closes again, or opens for another try.        *)
(***************************************************************************)
KeyNotShelved ==
    \A k \in Keys : keyCB[k].state = "half_open" ~> keyCB[k].state # "half_open"
=============================================================================
