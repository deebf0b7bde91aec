-------------------------- MODULE MessagesHandler --------------------------
(***************************************************************************)
(* internal/handlers/messages.go: HandleMessages, run by one goroutine per *)
(* HTTP request over the handler's shared rate limiter, deduplicator       *)
(* (middleware.go) and coalescer (coalescer.go).  What follows admission   *)
(* is in other modules: the stream in StreamingFallback, the model chain   *)
(* of a coalescing leader in ModelFallback.                                *)
(***************************************************************************)
EXTENDS Naturals, FiniteSets

CONSTANTS
    Requests,       \* goroutines, each serving one request after another
    Bodies,         \* request bodies, as told apart by hashRequest and hashBody
    Streams,        \* those that ask for a stream
    Invalid,        \* those that Validate refuses
    Rate,           \* RateLimiter.rate, of the one client modelled
    Window,         \* RateLimiter.window, in ticks
    MaxTimers       \* bound: release timers of the deduplicator at a time

ASSUME HandlerAssumption ==
    /\ Streams \subseteq Bodies /\ Streams # {} /\ Invalid \subseteq Bodies
    /\ Rate \in Nat \ {0} /\ Window \in Nat \ {0} /\ MaxTimers \in Nat \ {0}

Timers == 1..MaxTimers
NoTimer == 0

CONSTANTS NoRequest, NoBody     \* no entry of the coalescer; no request

ASSUME NothingAssumption == NoRequest \notin Requests /\ NoBody \notin Bodies

VARIABLES
    pc, body,       \* where each request is, and the body it brought
    leader,         \* the InFlightRequest it waits on, or is closing, by its leader
    tokens, age,    \* the client's bucket: tokens, ticks since lastFill
    acquired,       \* RequestDeduplicator.inFlight: the timer of each body's entry
    timer,          \* the goroutines that release entries: off, pending, cancelled
    timerBody,      \* the body each of them releases
    inFlight        \* RequestCoalescer.inFlight: the leader of each body

\* History, read by properties only: the ticks since each of the last 2 * Rate
\* admissions, the latest first, counted no further than Window.
VARIABLE recent

requestVars == <<pc, body, leader>>
bucketVars == <<tokens, age, recent>>
dedupVars == <<acquired, timer, timerBody>>
vars == <<requestVars, bucketVars, dedupVars, inFlight>>

TypeOK ==
    /\ pc \in [Requests -> {"idle", "looking", "storing", "validating", "streaming",
                            "starting", "leading", "closing", "waiting"}]
    /\ body \in [Requests -> Bodies \cup {NoBody}]
    /\ leader \in [Requests -> Requests \cup {NoRequest}]
    /\ tokens \in 0..Rate
    /\ age \in 0..Window
    /\ recent \in [1..(2 * Rate) -> 0..Window]
    /\ acquired \in [Streams -> Timers \cup {NoTimer}]
    /\ timer \in [Timers -> {"off", "pending", "cancelled"}]
    /\ timerBody \in [Timers -> Streams]
    /\ inFlight \in [Bodies \ Streams -> Requests \cup {NoRequest}]

\* A client without a bucket is treated as one whose bucket is due for a refill.
Init ==
    /\ pc = [r \in Requests |-> "idle"]
    /\ body = [r \in Requests |-> NoBody]
    /\ leader = [r \in Requests |-> NoRequest]
    /\ tokens = 0
    /\ age = Window
    /\ recent = [i \in 1..(2 * Rate) |-> Window]
    /\ acquired = [b \in Streams |-> NoTimer]
    /\ timer = [t \in Timers |-> "off"]
    /\ timerBody = [t \in Timers |-> CHOOSE b \in Streams : TRUE]
    /\ inFlight = [b \in Bodies \ Streams |-> NoRequest]

\* The requests rs are answered, in whatever way, and their handlers return.
AnswerAll(rs) ==
    /\ pc' = [r \in Requests |-> IF r \in rs THEN "idle" ELSE pc[r]]
    /\ body' = [r \in Requests |-> IF r \in rs THEN NoBody ELSE body[r]]
    /\ leader' = [r \in Requests |-> IF r \in rs THEN NoRequest ELSE leader[r]]

Answer(r) == AnswerAll({r})

\* The request goes on to the step p.
GoTo(r, p) ==
    /\ pc' = [pc EXCEPT ![r] = p]
    /\ UNCHANGED <<body, leader>>

-----------------------------------------------------------------------------
(* RateLimiter.Allow *)

Refilled == age >= Window

\* Mutant of Available: what is left of a window is kept for the next.
AvailableSaved == IF Refilled THEN tokens + Rate ELSE tokens

\* The tokens a request finds.
Available == IF Refilled THEN Rate ELSE tokens

\* Mutant of TakeToken: a refill does not move lastFill.
TakeTokenKeepsAge ==
    /\ tokens' = Available - 1
    /\ UNCHANGED age

TakeToken ==
    /\ tokens' = Available - 1
    /\ age' = IF Refilled THEN 0 ELSE age

\* Bound: a timer is left for every streaming request before its Store.
TimerLeft ==
    Cardinality({t \in Timers : timer[t] = "off"})
        > Cardinality({r \in Requests : pc[r] \in {"looking", "storing"}})

\* A POST arrives and is admitted.  (One that gets a 429 changes nothing.)
Arrive(r, b) ==
    /\ pc[r] = "idle"
    /\ Available > 0
    /\ b \in Streams => TimerLeft
    /\ TakeToken
    /\ recent' = [i \in 1..(2 * Rate) |-> IF i = 1 THEN 0 ELSE recent[i - 1]]
    /\ body' = [body EXCEPT ![r] = b]
    /\ pc' = [pc EXCEPT ![r] = IF b \in Streams THEN "looking" ELSE "validating"]
    /\ UNCHANGED <<leader, dedupVars, inFlight>>

\* Time passes; an age of Window or more is all the same to Allow.
Tick ==
    /\ age' = IF age < Window THEN age + 1 ELSE age
    /\ recent' = [i \in 1..(2 * Rate) |-> IF recent[i] < Window THEN recent[i] + 1 ELSE Window]
    /\ UNCHANGED <<requestVars, tokens, dedupVars, inFlight>>

-----------------------------------------------------------------------------
(* RequestDeduplicator.TryAcquire and Release *)

\* Load: a duplicate is dropped, with nothing written.
LookUp(r) ==
    /\ pc[r] = "looking"
    /\ IF acquired[body[r]] # NoTimer THEN Answer(r) ELSE GoTo(r, "storing")
    /\ UNCHANGED <<bucketVars, dedupVars, inFlight>>

\* Store, over whatever another request has stored since, and the goroutine
\* that will release the entry.
Store(r) ==
    \E t \in Timers :
        /\ pc[r] = "storing"
        /\ timer[t] = "off"
        /\ acquired' = [acquired EXCEPT ![body[r]] = t]
        /\ timer' = [timer EXCEPT ![t] = "pending"]
        /\ timerBody' = [timerBody EXCEPT ![t] = body[r]]
        /\ GoTo(r, "validating")
        /\ UNCHANGED <<bucketVars, inFlight>>

\* Mutant of Release: the entry is cancelled, not deleted.
ReleaseKeeps(t) ==
    LET held == acquired[timerBody[t]]
    IN  /\ acquired' = acquired
        /\ timer' = [u \in Timers |->
                        CASE u = t -> "off"
                          [] u # t /\ u = held -> "cancelled"
                          [] u # t /\ u # held -> timer[u]]

\* Deletes the body's entry, whoever stored it, and cancels that one's timer.
Release(t) ==
    LET held == acquired[timerBody[t]]
    IN  /\ acquired' = [acquired EXCEPT ![timerBody[t]] = NoTimer]
        /\ timer' = [u \in Timers |->
                        CASE u = t -> "off"
                          [] u # t /\ u = held -> "cancelled"
                          [] u # t /\ u # held -> timer[u]]

\* The 500 ms are over: also for a cancelled timer whose select finds both.
TimerFires(t) ==
    /\ timer[t] # "off"
    /\ Release(t)
    /\ UNCHANGED <<requestVars, bucketVars, timerBody, inFlight>>

TimerExits(t) ==
    /\ timer[t] = "cancelled"
    /\ timer' = [timer EXCEPT ![t] = "off"]
    /\ UNCHANGED <<requestVars, bucketVars, acquired, timerBody, inFlight>>

-----------------------------------------------------------------------------
(* After admission *)

Validate(r) ==
    /\ pc[r] = "validating"
    /\ IF body[r] \in Invalid THEN Answer(r)
       ELSE GoTo(r, IF body[r] \in Streams THEN "streaming" ELSE "starting")
    /\ UNCHANGED <<bucketVars, dedupVars, inFlight>>

\* handleStreaming returns.
StreamEnds(r) ==
    /\ pc[r] = "streaming"
    /\ Answer(r)
    /\ UNCHANGED <<bucketVars, dedupVars, inFlight>>

-----------------------------------------------------------------------------
(* RequestCoalescer *)

Lead(r) ==
    /\ inFlight' = [inFlight EXCEPT ![body[r]] = r]
    /\ GoTo(r, "leading")

Wait(r) ==
    /\ leader' = [leader EXCEPT ![r] = inFlight[body[r]]]
    /\ pc' = [pc EXCEPT ![r] = "waiting"]
    /\ UNCHANGED <<body, inFlight>>

\* Mutant of Start: the lookup and the insertion are not one critical section.
StartRacy(r) ==
    /\ pc[r] = "starting"
    /\ Lead(r) \/ (inFlight[body[r]] # NoRequest /\ Wait(r))
    /\ UNCHANGED <<bucketVars, dedupVars>>

\* The first request for a body leads; the others wait on its InFlightRequest.
Start(r) ==
    /\ pc[r] = "starting"
    /\ IF inFlight[body[r]] = NoRequest THEN Lead(r) ELSE Wait(r)
    /\ UNCHANGED <<bucketVars, dedupVars>>

\* handleNonStreaming returns, whatever its chain of models ended in, a failure
\* because the leader's own client left included; Finish, under its lock, takes
\* the entry it finds for the body out of the map.
LeadEnds(r) ==
    /\ pc[r] = "leading"
    /\ leader' = [leader EXCEPT ![r] = inFlight[body[r]]]
    /\ inFlight' = [inFlight EXCEPT ![body[r]] = NoRequest]
    /\ pc' = [pc EXCEPT ![r] = "closing"]
    /\ UNCHANGED <<body, bucketVars, dedupVars>>

WaitersOn(ifr) == {w \in Requests : pc[w] = "waiting" /\ leader[w] = ifr}

\* Mutant of FinishCloses: one waiter is sent a signal, the channel not closed.
FinishSignalsOne(r) ==
    /\ pc[r] = "closing"
    /\ AnswerAll({r} \cup (IF WaitersOn(leader[r]) = {} THEN {}
                         ELSE {CHOOSE w \in WaitersOn(leader[r]) : TRUE}))
    /\ UNCHANGED <<bucketVars, dedupVars, inFlight>>

\* Finish after its lock: the response is published to the waiters of the entry
\* taken out, who replay it to their clients; the leader writes it to its own.
FinishCloses(r) ==
    /\ pc[r] = "closing"
    /\ AnswerAll({r} \cup WaitersOn(leader[r]))
    /\ UNCHANGED <<bucketVars, dedupVars, inFlight>>

-----------------------------------------------------------------------------

Step(r) ==
    \/ LookUp(r) \/ Store(r) \/ Validate(r) \/ StreamEnds(r)
    \/ Start(r) \/ LeadEnds(r) \/ FinishCloses(r)

Next ==
    \/ \E r \in Requests : Step(r) \/ \E b \in Bodies : Arrive(r, b)
    \/ \E t \in Timers : TimerFires(t) \/ TimerExits(t)
    \/ Tick

Spec == Init /\ [][Next]_vars

(***************************************************************************)
(* Fairness: goroutines are scheduled and timers fire; an upstream call    *)
(* returns, by its timeout at the latest, and a stream ends                *)
(* (EventuallyReleased of StreamingFallback).  Nothing is assumed of       *)
(* arrivals.                                                               *)
(***************************************************************************)
FairSpec ==
    /\ Spec
    /\ \A r \in Requests : WF_vars(Step(r))
    /\ \A t \in Timers : WF_vars(TimerFires(t) \/ TimerExits(t))

-----------------------------------------------------------------------------
(* Properties *)

(***************************************************************************)
(* A client gets at most 2 * Rate - 1 requests through in any time shorter *)
(* than a window: the bucket is refilled at once (middleware.go:130-134),  *)
(* but the refill is charged to the request that causes it.  So the        *)
(* (2 * Rate)-th last admission is always a window ago.  And a request is  *)
(* refused only after Rate others within the last window.                  *)
(***************************************************************************)
RateHeld ==
    /\ recent[2 * Rate] = Window
    /\ Available = 0 => recent[Rate] < Window

(***************************************************************************)
(* Every entry of the deduplicator has a timer that will release it, so no *)
(* body is refused for ever, although two requests can store over each     *)
(* other and a timer releases whatever entry it finds (middleware.go:58-64,*)
(* 74-79).                                                                 *)
(***************************************************************************)
EntryExpires ==
    \A b \in Streams : acquired[b] # NoTimer =>
        /\ timer[acquired[b]] = "pending"
        /\ timerBody[acquired[b]] = b

(***************************************************************************)
(* Identical requests that are not streamed never run the model chain at   *)
(* the same time: one leads, and the entry is there until its answer is.   *)
(***************************************************************************)
OneUpstreamCall ==
    \A q, r \in Requests :
        /\ pc[q] = "leading" /\ pc[r] = "leading"
        /\ body[q] = body[r]
        => q = r

(***************************************************************************)
(* A waiter waits on a request with its own body that is still under way   *)
(* and will close the entry the waiter is on, and not another one.         *)
(***************************************************************************)
WaiterHasLeader ==
    \A w \in Requests : pc[w] = "waiting" =>
        /\ leader[w] \in Requests
        /\ body[leader[w]] = body[w]
        /\ \/ pc[leader[w]] = "leading" /\ inFlight[body[w]] = leader[w]
           \/ pc[leader[w]] = "closing" /\ leader[leader[w]] = leader[w]

(***************************************************************************)
(* Every request is answered: a waiter too, although Wait has no timeout   *)
(* of its own and the coalescer's window is never used (coalescer.go:82).  *)
(***************************************************************************)
EveryRequestAnswered ==
    \A r \in Requests : pc[r] # "idle" ~> pc[r] = "idle"
=============================================================================
