----------------------- MODULE MessagesHandlerProofs -----------------------
(***************************************************************************)
(* The coalescer and the deduplicator of MessagesHandler are right for any *)
(* number of requests, bodies and timers.                                  *)
(***************************************************************************)
EXTENDS MessagesHandler, TLAPS

\* What each step of a request says of its body.
BodyFits ==
    \A r \in Requests :
        /\ pc[r] # "idle" => body[r] \in Bodies
        /\ pc[r] \in {"looking", "storing", "streaming"} => body[r] \in Streams
        /\ pc[r] \in {"starting", "leading", "closing", "waiting"}
               => body[r] \in Bodies \ Streams

\* An entry of the coalescer is that of a request that leads with its body, and
\* every leading request has its entry; one that closes, closes its own.
LeadersHaveEntries ==
    /\ \A b \in Bodies \ Streams : inFlight[b] # NoRequest =>
           pc[inFlight[b]] = "leading" /\ body[inFlight[b]] = b
    /\ \A r \in Requests : pc[r] = "leading" => inFlight[body[r]] = r
    /\ \A r \in Requests : pc[r] = "closing" => leader[r] = r

\* The requests that took a token since the bucket was last filled.
Used == Rate - tokens

\* They are the latest ones, and the first of them filled the bucket: what came
\* before is older, and what came before the fill before that, a window old.
BucketFits ==
    /\ Used \in 1..Rate
    /\ \A i \in 1..Used : recent[i] <= age
    /\ \A i \in 1..(2 * Rate) :
          /\ i >= Used => recent[i] >= age
          /\ i >= Used + Rate => recent[i] = Window

\* The coalescer's part of the inductive invariant, and all of it but for the
\* rate limiter, which depends on nothing else.
CoalescerInv == BodyFits /\ LeadersHaveEntries /\ WaiterHasLeader
HandlerInv == TypeOK /\ CoalescerInv /\ EntryExpires

USE HandlerAssumption, NothingAssumption

-----------------------------------------------------------------------------

LEMMA HandlerInit == Init => HandlerInv
<1> SUFFICES ASSUME Init PROVE HandlerInv
  OBVIOUS
<1>1. TypeOK
  BY DEF Init, TypeOK, Timers, NoTimer
<1>2. CoalescerInv
  BY DEF Init, CoalescerInv, BodyFits, LeadersHaveEntries, WaiterHasLeader
<1>3. EntryExpires
  BY DEF Init, EntryExpires
<1>4. QED
  BY <1>1, <1>2, <1>3 DEF HandlerInv

-----------------------------------------------------------------------------
(* Types *)

\* The types of the bucket are a matter of arrivals and of time only.
BucketTypes ==
    /\ tokens \in 0..Rate
    /\ age \in 0..Window
    /\ recent \in [1..(2 * Rate) -> 0..Window]

\* Those of everything else.
RequestTypes ==
    /\ pc \in [Requests -> {"idle", "looking", "storing", "validating", "streaming",
                            "starting", "leading", "closing", "waiting"}]
    /\ body \in [Requests -> Bodies \cup {NoBody}]
    /\ leader \in [Requests -> Requests \cup {NoRequest}]
    /\ inFlight \in [Bodies \ Streams -> Requests \cup {NoRequest}]

DedupTypes ==
    /\ acquired \in [Streams -> Timers \cup {NoTimer}]
    /\ timer \in [Timers -> {"off", "pending", "cancelled"}]
    /\ timerBody \in [Timers -> Streams]

LEMMA TypesInParts == TypeOK <=> RequestTypes /\ BucketTypes /\ DedupTypes
BY DEF TypeOK, RequestTypes, BucketTypes, DedupTypes

LEMMA BucketTypesKept == BucketTypes /\ [Next]_vars => BucketTypes'
<1> SUFFICES ASSUME BucketTypes, [Next]_vars PROVE BucketTypes'
  OBVIOUS
<1> USE DEF BucketTypes
<1>1. ASSUME NEW r \in Requests, NEW b \in Bodies, Arrive(r, b) PROVE BucketTypes'
  <2>1. tokens' \in 0..Rate /\ age' \in 0..Window
    BY <1>1 DEF Arrive, TakeToken, Available, Refilled
  <2>2. recent' = [i \in 1..(2 * Rate) |-> IF i = 1 THEN 0 ELSE recent[i - 1]]
    BY <1>1 DEF Arrive
  <2>3. \A i \in 1..(2 * Rate) : i # 1 => i - 1 \in 1..(2 * Rate)
    OBVIOUS
  <2>4. recent' \in [1..(2 * Rate) -> 0..Window]
    BY <2>2, <2>3
  <2>5. QED
    BY <2>1, <2>4
<1>2. CASE Tick
  BY <1>2 DEF Tick
<1>3. CASE UNCHANGED bucketVars
  BY <1>3 DEF bucketVars
<1>4. QED
  BY <1>1, <1>2, <1>3
     DEF Next, Step, LookUp, Store, Validate, StreamEnds, Start, LeadEnds,
         FinishCloses, TimerFires, TimerExits, vars

LEMMA DedupTypesKept == TypeOK /\ BodyFits /\ [Next]_vars => DedupTypes'
<1> SUFFICES ASSUME RequestTypes, DedupTypes, BodyFits, [Next]_vars
             PROVE  DedupTypes'
  BY TypesInParts
<1> USE DEF DedupTypes
<1>1. ASSUME NEW r \in Requests, Store(r) PROVE DedupTypes'
  <2>1. body[r] \in Streams
    BY <1>1 DEF Store, BodyFits
  <2>2. QED
    BY <1>1, <2>1 DEF Store
<1>2. ASSUME NEW t \in Timers, TimerFires(t) PROVE DedupTypes'
  BY <1>2 DEF TimerFires, Release, NoTimer
<1>3. ASSUME NEW t \in Timers, TimerExits(t) PROVE DedupTypes'
  BY <1>3 DEF TimerExits
<1>4. CASE UNCHANGED dedupVars
  BY <1>4 DEF dedupVars
<1>5. QED
  BY <1>1, <1>2, <1>3, <1>4
     DEF Next, Step, Arrive, LookUp, Validate, StreamEnds, Start, LeadEnds,
         FinishCloses, Tick, vars

LEMMA RequestTypesKept == TypeOK /\ BodyFits /\ [Next]_vars => RequestTypes'
<1> SUFFICES ASSUME RequestTypes, BodyFits, [Next]_vars PROVE RequestTypes'
  BY TypesInParts
<1> USE DEF RequestTypes
<1>1. ASSUME NEW r \in Requests, NEW b \in Bodies, Arrive(r, b) PROVE RequestTypes'
  BY <1>1 DEF Arrive
<1>2. ASSUME NEW r \in Requests, LookUp(r) PROVE RequestTypes'
  BY <1>2 DEF LookUp, Answer, AnswerAll, GoTo
<1>3. ASSUME NEW r \in Requests, Store(r) PROVE RequestTypes'
  BY <1>3 DEF Store, GoTo
<1>4. ASSUME NEW r \in Requests, Validate(r) PROVE RequestTypes'
  BY <1>4 DEF Validate, Answer, AnswerAll, GoTo
<1>5. ASSUME NEW r \in Requests, StreamEnds(r) PROVE RequestTypes'
  BY <1>5 DEF StreamEnds, Answer, AnswerAll
<1>6. ASSUME NEW r \in Requests, Start(r) PROVE RequestTypes'
  <2>1. body[r] \in Bodies \ Streams
    BY <1>6 DEF Start, BodyFits
  <2>2. CASE Lead(r)
    BY <2>1, <2>2 DEF Lead, GoTo
  <2>3. CASE Wait(r)
    BY <2>1, <2>3 DEF Wait
  <2>4. QED
    BY <1>6, <2>2, <2>3 DEF Start
<1>7. ASSUME NEW r \in Requests, LeadEnds(r) PROVE RequestTypes'
  <2>1. body[r] \in Bodies \ Streams
    BY <1>7 DEF LeadEnds, BodyFits
  <2>2. QED
    BY <1>7, <2>1 DEF LeadEnds
<1>8. ASSUME NEW r \in Requests, FinishCloses(r) PROVE RequestTypes'
  BY <1>8 DEF FinishCloses, AnswerAll
<1>9. CASE UNCHANGED <<requestVars, inFlight>>
  BY <1>9 DEF requestVars
<1>10. QED
  BY <1>1, <1>2, <1>3, <1>4, <1>5, <1>6, <1>7, <1>8, <1>9
     DEF Next, Step, TimerFires, TimerExits, Tick, vars

\* Every action keeps the types, given the bodies of the requests it moves.
LEMMA TypesKept == TypeOK /\ BodyFits /\ [Next]_vars => TypeOK'
<1> SUFFICES ASSUME TypeOK, BodyFits, [Next]_vars PROVE TypeOK'
  OBVIOUS
<1>1. RequestTypes' /\ BucketTypes' /\ DedupTypes'
  BY TypesInParts, RequestTypesKept, BucketTypesKept, DedupTypesKept
<1>2. QED
  BY <1>1 DEF TypeOK, RequestTypes, BucketTypes, DedupTypes

-----------------------------------------------------------------------------
(* The coalescer *)

\* A request that neither leads, waits nor closes may be answered or sent to
\* another such step.
LEMMA OutsiderMoves ==
    ASSUME HandlerInv, NEW r \in Requests,
           pc[r] \notin {"leading", "waiting", "closing"},
           pc'[r] \notin {"leading", "waiting", "closing"},
           \A q \in Requests \ {r} :
              pc'[q] = pc[q] /\ body'[q] = body[q] /\ leader'[q] = leader[q],
           UNCHANGED inFlight, BodyFits'
    PROVE  CoalescerInv'
<1> USE DEF HandlerInv, TypeOK, CoalescerInv
<1>1. LeadersHaveEntries'
  <2>1. ASSUME NEW b \in Bodies \ Streams, inFlight[b] # NoRequest
        PROVE  pc'[inFlight[b]] = "leading" /\ body'[inFlight[b]] = b
    BY <2>1 DEF LeadersHaveEntries
  <2>2. ASSUME NEW q \in Requests, pc'[q] = "leading"
        PROVE  inFlight[body'[q]] = q
    BY <2>2 DEF LeadersHaveEntries
  <2>3. ASSUME NEW q \in Requests, pc'[q] = "closing"
        PROVE  leader'[q] = q
    BY <2>3 DEF LeadersHaveEntries
  <2>4. QED
    BY <2>1, <2>2, <2>3 DEF LeadersHaveEntries
<1>2. WaiterHasLeader'
  <2> SUFFICES ASSUME NEW w \in Requests, pc'[w] = "waiting"
               PROVE  /\ leader'[w] \in Requests
                      /\ body'[leader'[w]] = body'[w]
                      /\ \/ /\ pc'[leader'[w]] = "leading"
                            /\ inFlight[body'[w]] = leader'[w]
                         \/ /\ pc'[leader'[w]] = "closing"
                            /\ leader'[leader'[w]] = leader'[w]
    BY DEF WaiterHasLeader
  <2>1. w # r /\ leader'[w] = leader[w] /\ body'[w] = body[w] /\ pc[w] = "waiting"
    OBVIOUS
  <2>2. leader[w] \in Requests /\ leader[w] # r
    BY <2>1 DEF WaiterHasLeader
  <2>3. QED
    BY <2>1, <2>2 DEF WaiterHasLeader
<1>3. QED
  BY <1>1, <1>2

\* Nothing the coalescer looks at changes.
LEMMA SameCoalescer ==
    ASSUME CoalescerInv, UNCHANGED requestVars, UNCHANGED inFlight
    PROVE  CoalescerInv'
BY DEF CoalescerInv, BodyFits, LeadersHaveEntries, WaiterHasLeader, requestVars

LEMMA BodiesKept == HandlerInv /\ [Next]_vars => BodyFits'
<1> SUFFICES ASSUME HandlerInv, [Next]_vars PROVE BodyFits'
  OBVIOUS
<1> USE DEF HandlerInv, CoalescerInv, TypeOK, BodyFits
<1>1. ASSUME NEW r \in Requests, NEW b \in Bodies, Arrive(r, b) PROVE BodyFits'
  BY <1>1 DEF Arrive
<1>2. ASSUME NEW r \in Requests, LookUp(r) PROVE BodyFits'
  BY <1>2 DEF LookUp, Answer, AnswerAll, GoTo
<1>3. ASSUME NEW r \in Requests, Store(r) PROVE BodyFits'
  BY <1>3 DEF Store, GoTo
<1>4. ASSUME NEW r \in Requests, Validate(r) PROVE BodyFits'
  BY <1>4 DEF Validate, Answer, AnswerAll, GoTo
<1>5. ASSUME NEW r \in Requests, StreamEnds(r) PROVE BodyFits'
  BY <1>5 DEF StreamEnds, Answer, AnswerAll
<1>6. ASSUME NEW r \in Requests, Start(r) PROVE BodyFits'
  BY <1>6 DEF Start, Lead, Wait, GoTo
<1>7. ASSUME NEW r \in Requests, LeadEnds(r) PROVE BodyFits'
  BY <1>7 DEF LeadEnds
<1>8. ASSUME NEW r \in Requests, FinishCloses(r) PROVE BodyFits'
  BY <1>8 DEF FinishCloses, AnswerAll
<1>9. CASE UNCHANGED requestVars
  BY <1>9 DEF requestVars
<1>10. QED
  BY <1>1, <1>2, <1>3, <1>4, <1>5, <1>6, <1>7, <1>8, <1>9
     DEF Next, Step, TimerFires, TimerExits, Tick, vars

\* The first request for a body gets the entry.
LEMMA LeadKeeps ==
    ASSUME HandlerInv, NEW r \in Requests, pc[r] = "starting",
           inFlight[body[r]] = NoRequest, Lead(r), BodyFits'
    PROVE  CoalescerInv'
<1> USE DEF HandlerInv, TypeOK, CoalescerInv
<1>1. body[r] \in Bodies \ Streams
  BY DEF BodyFits
<1>2. LeadersHaveEntries'
  BY <1>1 DEF LeadersHaveEntries, Lead, GoTo
<1>3. WaiterHasLeader'
  BY <1>1 DEF WaiterHasLeader, BodyFits, Lead, GoTo
<1>4. QED
  BY <1>2, <1>3

\* A later request joins the leader it finds.
LEMMA WaitKeeps ==
    ASSUME HandlerInv, NEW r \in Requests, pc[r] = "starting",
           inFlight[body[r]] # NoRequest, Wait(r), BodyFits'
    PROVE  CoalescerInv'
<1> USE DEF HandlerInv, TypeOK, CoalescerInv
<1>1. body[r] \in Bodies \ Streams
  BY DEF BodyFits
<1>2. /\ inFlight[body[r]] \in Requests \ {r}
      /\ pc[inFlight[body[r]]] = "leading"
      /\ body[inFlight[body[r]]] = body[r]
  BY <1>1 DEF LeadersHaveEntries
<1>3. LeadersHaveEntries'
  BY <1>1, <1>2 DEF LeadersHaveEntries, Wait
<1>4. WaiterHasLeader'
  BY <1>1, <1>2 DEF WaiterHasLeader, Wait
<1>5. QED
  BY <1>3, <1>4

\* The leader takes its own entry out; those who wait on it still do.
LEMMA LeadEndsKeeps ==
    ASSUME HandlerInv, NEW r \in Requests, LeadEnds(r), BodyFits'
    PROVE  CoalescerInv'
<1> USE DEF HandlerInv, TypeOK, CoalescerInv, LeadEnds
<1>1. body[r] \in Bodies \ Streams /\ inFlight[body[r]] = r
  BY DEF BodyFits, LeadersHaveEntries
<1>2. LeadersHaveEntries'
  BY <1>1 DEF LeadersHaveEntries, BodyFits
<1>3. WaiterHasLeader'
  BY <1>1 DEF WaiterHasLeader
<1>4. QED
  BY <1>2, <1>3

\* Everyone who waits on the closing request is answered with it.
LEMMA FinishClosesKeeps ==
    ASSUME HandlerInv, NEW r \in Requests, FinishCloses(r), BodyFits'
    PROVE  CoalescerInv'
<1> USE DEF HandlerInv, TypeOK, CoalescerInv, FinishCloses, AnswerAll
<1>1. leader[r] = r
  BY DEF LeadersHaveEntries
<1>2. LeadersHaveEntries'
  BY <1>1 DEF LeadersHaveEntries, WaitersOn
<1>3. WaiterHasLeader'
  BY <1>1 DEF WaiterHasLeader, WaitersOn
<1>4. QED
  BY <1>2, <1>3

LEMMA CoalescerKept == HandlerInv /\ [Next]_vars => CoalescerInv'
<1> SUFFICES ASSUME HandlerInv, [Next]_vars PROVE CoalescerInv'
  OBVIOUS
<1>1. BodyFits'
  BY BodiesKept
<1> USE <1>1 DEF HandlerInv, TypeOK
<1>2. ASSUME NEW r \in Requests, NEW b \in Bodies, Arrive(r, b) PROVE CoalescerInv'
  BY <1>2, OutsiderMoves DEF Arrive
<1>3. ASSUME NEW r \in Requests, LookUp(r) PROVE CoalescerInv'
  <2>1. CASE Answer(r)
    BY <1>3, <2>1, OutsiderMoves DEF LookUp, Answer, AnswerAll
  <2>2. CASE GoTo(r, "storing")
    BY <1>3, <2>2, OutsiderMoves DEF LookUp, GoTo
  <2>3. QED
    BY <1>3, <2>1, <2>2 DEF LookUp
<1>4. ASSUME NEW r \in Requests, Store(r) PROVE CoalescerInv'
  BY <1>4, OutsiderMoves DEF Store, GoTo
<1>5. ASSUME NEW r \in Requests, Validate(r) PROVE CoalescerInv'
  <2>1. CASE Answer(r)
    BY <1>5, <2>1, OutsiderMoves DEF Validate, Answer, AnswerAll
  <2>2. CASE GoTo(r, "streaming") \/ GoTo(r, "starting")
    BY <1>5, <2>2, OutsiderMoves DEF Validate, GoTo
  <2>3. QED
    BY <1>5, <2>1, <2>2 DEF Validate
<1>6. ASSUME NEW r \in Requests, StreamEnds(r) PROVE CoalescerInv'
  BY <1>6, OutsiderMoves DEF StreamEnds, Answer, AnswerAll
<1>7. ASSUME NEW r \in Requests, Start(r) PROVE CoalescerInv'
  BY <1>7, LeadKeeps, WaitKeeps DEF Start
<1>8. ASSUME NEW r \in Requests, LeadEnds(r) PROVE CoalescerInv'
  BY <1>8, LeadEndsKeeps
<1>9. ASSUME NEW r \in Requests, FinishCloses(r) PROVE CoalescerInv'
  BY <1>9, FinishClosesKeeps
<1>10. CASE UNCHANGED requestVars /\ UNCHANGED inFlight
  BY <1>10, SameCoalescer
<1>11. QED
  BY <1>2, <1>3, <1>4, <1>5, <1>6, <1>7, <1>8, <1>9, <1>10
     DEF Next, Step, TimerFires, TimerExits, Tick, vars

-----------------------------------------------------------------------------
(* The deduplicator *)

\* A timer that releases takes every entry of its body with it, and cancels no
\* timer of another body.
LEMMA EntriesKept == HandlerInv /\ [Next]_vars => EntryExpires'
<1> SUFFICES ASSUME HandlerInv, [Next]_vars PROVE EntryExpires'
  OBVIOUS
<1> USE DEF HandlerInv, TypeOK, EntryExpires, NoTimer
<1>1. ASSUME NEW r \in Requests, Store(r) PROVE EntryExpires'
  <2>1. body[r] \in Streams
    BY <1>1 DEF Store, CoalescerInv, BodyFits
  <2>2. QED
    BY <1>1, <2>1 DEF Store, Timers
<1>2. ASSUME NEW t \in Timers, TimerFires(t) PROVE EntryExpires'
  BY <1>2 DEF TimerFires, Release, Timers
<1>3. ASSUME NEW t \in Timers, TimerExits(t) PROVE EntryExpires'
  BY <1>3 DEF TimerExits
<1>4. CASE UNCHANGED dedupVars
  BY <1>4 DEF dedupVars
<1>5. QED
  BY <1>1, <1>2, <1>3, <1>4
     DEF Next, Step, Arrive, LookUp, Validate, StreamEnds, Start, LeadEnds,
         FinishCloses, Tick, vars

-----------------------------------------------------------------------------
(* The rate limiter *)

LEMMA BucketInit == Init => BucketFits
BY DEF Init, BucketFits, Used

\* A request that takes a token joins those since the fill, or is the first of
\* them; time ages them all alike.
LEMMA BucketKept == TypeOK /\ BucketFits /\ [Next]_vars => BucketFits'
<1> SUFFICES ASSUME TypeOK, BucketFits, [Next]_vars PROVE BucketFits'
  OBVIOUS
<1>1. /\ tokens \in 0..Rate /\ age \in 0..Window
      /\ recent \in [1..(2 * Rate) -> 0..Window]
  BY DEF TypeOK
<1> USE <1>1
<1>2. ASSUME NEW r \in Requests, NEW b \in Bodies, Arrive(r, b) PROVE BucketFits'
  <2>1. \A i \in 1..(2 * Rate) : recent'[i] = IF i = 1 THEN 0 ELSE recent[i - 1]
    BY <1>2 DEF Arrive
  <2>2. CASE Refilled
    <3>1. tokens' = Rate - 1 /\ age' = 0
      BY <1>2, <2>2 DEF Arrive, TakeToken, Available
    <3>2. \A i \in 1..(2 * Rate) : i >= Used => recent[i] = Window
      BY <2>2 DEF Refilled, BucketFits
    <3>3. \A i \in 1..(2 * Rate) : i >= 1 + Rate => recent'[i] = Window
      BY <2>1, <3>2 DEF BucketFits
    <3>4. recent'[1] = 0 /\ \A i \in 1..(2 * Rate) : recent'[i] >= 0
      BY <2>1
    <3>5. QED
      BY <3>1, <3>3, <3>4 DEF BucketFits, Used
  <2>3. CASE ~Refilled
    <3>1. tokens' = tokens - 1 /\ age' = age /\ tokens > 0
      BY <1>2, <2>3 DEF Arrive, TakeToken, Available
    <3>2. Used' = Used + 1 /\ Used' \in 1..Rate
      BY <3>1 DEF Used, BucketFits
    <3>3. \A i \in 1..Used' : recent'[i] <= age'
      BY <2>1, <3>1, <3>2, SMTT(30) DEF BucketFits
    <3>4. \A i \in 1..(2 * Rate) :
             /\ i >= Used' => recent'[i] >= age'
             /\ i >= Used' + Rate => recent'[i] = Window
      BY <2>1, <3>1, <3>2 DEF BucketFits
    <3>5. QED
      BY <3>2, <3>3, <3>4 DEF BucketFits
  <2>4. QED
    BY <2>2, <2>3
<1>3. CASE Tick
  BY <1>3 DEF Tick, BucketFits, Used
<1>4. CASE UNCHANGED bucketVars
  BY <1>4 DEF bucketVars, BucketFits, Used
<1>5. QED
  BY <1>2, <1>3, <1>4
     DEF Next, Step, LookUp, Store, Validate, StreamEnds, Start, LeadEnds, FinishCloses,
         TimerFires, TimerExits, vars

-----------------------------------------------------------------------------

LEMMA HandlerStep == HandlerInv /\ [Next]_vars => HandlerInv'
BY TypesKept, CoalescerKept, EntriesKept DEF HandlerInv, CoalescerInv

\* No step of any request, timer or clock leaves the invariant.
THEOREM HandlerInvariant == Spec => []HandlerInv
BY HandlerInit, HandlerStep, PTL DEF Spec

(***************************************************************************)
(* Every variable of the handler keeps its type.                           *)
(***************************************************************************)
THEOREM HandlerTypes == Spec => []TypeOK
<1>1. HandlerInv => TypeOK
  BY DEF HandlerInv
<1>2. QED
  BY <1>1, HandlerInvariant, PTL

(***************************************************************************)
(* Identical requests never run the model chain at the same time           *)
(* (coalescer.go:49-61), for any number of requests and bodies.            *)
(***************************************************************************)
THEOREM OneCallPerBody == Spec => []OneUpstreamCall
<1>1. HandlerInv => OneUpstreamCall
  BY DEF HandlerInv, CoalescerInv, LeadersHaveEntries, OneUpstreamCall
<1>2. QED
  BY <1>1, HandlerInvariant, PTL

(***************************************************************************)
(* A waiter always waits on a request under way that will close the entry  *)
(* it is on (coalescer.go:64-83): no waiter is left behind.                *)
(***************************************************************************)
THEOREM WaitersHaveLeaders == Spec => []WaiterHasLeader
<1>1. HandlerInv => WaiterHasLeader
  BY DEF HandlerInv, CoalescerInv
<1>2. QED
  BY <1>1, HandlerInvariant, PTL

(***************************************************************************)
(* Every deduplicator entry has a pending timer that will release it       *)
(* (middleware.go:58-79), however requests and timers race.                *)
(***************************************************************************)
THEOREM EntriesExpire == Spec => []EntryExpires
<1>1. HandlerInv => EntryExpires
  BY DEF HandlerInv
<1>2. QED
  BY <1>1, HandlerInvariant, PTL

(***************************************************************************)
(* In any time shorter than a window a client gets fewer than 2 * Rate     *)
(* requests through, and it is refused only after Rate of them             *)
(* (middleware.go:114-141), for every rate and window.                     *)
(***************************************************************************)
THEOREM RateIsHeld == Spec => []RateHeld
<1>1. TypeOK /\ BucketFits => RateHeld
  BY DEF TypeOK, BucketFits, Used, RateHeld, Available, Refilled
<1>2. QED
  BY <1>1, BucketInit, BucketKept, HandlerTypes, PTL DEF Spec
=============================================================================
