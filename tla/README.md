# oc-go-cc in TLA+

oc-go-cc is a local HTTP proxy. It takes requests in Anthropic's Messages
format (from Claude Code), chooses a chain of models, sends the request to an
upstream that speaks OpenAI's format or Anthropic's, under one of several API
keys, and turns the answer back. This directory holds TLA+ models of its
concurrent parts, TLC configurations that check them on small instances, and
theorems about them whose proofs TLAPS checks for every instance.

    tlc -workers 2 -config RequestEntry.cfg MCMessagesHandler.tla
    tlapm MessagesHandlerProofs.tla

`PROJECT.json` lists the components, the runs, for every property a mutant of
the model that breaks it, the source lines each definition translates (`map`),
the hazards, the findings and the theorems.

## The system

| Component | State | Operations | Talks to |
|---|---|---|---|
| Messages handler (`internal/handlers/messages.go`) | the response being written, `heartbeatDone`, the terminal error of the chain | `HandleMessages`, `handleStreaming`, `handleAnthropicStreaming`, `handleNonStreaming` | everything below |
| Rate limiter, deduplicator (`internal/middleware/middleware.go`) | token bucket per client; `sync.Map` of bodies in flight, one release timer per entry | `Allow`; `TryAcquire`, `Release`, timer | called by the handler |
| Coalescer (`internal/middleware/coalescer.go`) | map from body to its `InFlightRequest` | `Start`, `Finish`, `Wait` | handler; a channel wakes the waiters |
| Model fallback (`internal/router/fallback.go`) | one circuit breaker per model, shared by all requests | `ExecuteWithFallback` | calls the upstream client through an executor |
| Upstream client (`internal/client/opencode.go`, `key_circuit.go`) | round-robin counter, cooldown and breaker per API key | `ChatCompletion`, `SendAnthropicRequest` | upstream HTTP, configuration |
| Stream transformer (`internal/transformer/stream.go`, `response.go`) | open block, block index, tool calls started, stop reason sent | `ProxyStream` | reads the upstream, writes to the client |
| Request and response transformer (`internal/transformer/request.go`, `response.go`) | none | `TransformRequest`, `TransformResponse` | - |
| Model router, scenarios (`internal/router`) | none | `Route`, `DetectScenario` | configuration |
| Configuration (`internal/config`) | atomic pointer, callbacks, watcher and its debounce timer | `Load`, `Reload`, `OnReload`, `WatchConfig` | file system, signals, everyone |
| Server (`internal/server`) | in-flight counter, shutdown goroutine | `Start`, `Track` | signals, net/http |
| Daemon and CLI (`cmd/oc-go-cc`, `internal/daemon`) | the PID file, processes | `serve`, `serve --background`, `stop`, `status` | signals, file system |
| Metrics, response cache, health, token counting, autostart | counters, an unused cache, none | - | - |

A request passes the rate limiter, then (if it is streamed) the deduplicator,
then validation and routing. A streamed request runs `handleStreaming`: models
one by one, each through the client's key loop, its body passed to
`ProxyStream` or copied. A plain one goes through the coalescer, and the one
that leads runs `ExecuteWithFallback` for all.

What is hard here, and what correctness means:

- **Shared breakers under racing requests.** No lock is held during the
  upstream call, so outcomes arrive when the breaker has moved on. A breaker
  must open and close on evidence only, and never refuse a model for ever.
- **Key rotation.** Three shared structures are read and written in separate
  steps, and a request is sent after the lock is released. A parked key must
  come to rest, every usable key be tried, none shelved.
- **Stream translation.** Chunks may hold anything in any order and end
  anywhere; two fast paths look at one field only. The client must get a
  well-formed, terminated stream that has lost no more than the code is known
  to drop.
- **A streaming response with several writers and authors.** Several models, a
  heartbeat goroutine and a client that leaves. The client must get one
  message, or be told, and the goroutines must end.
- **Admission.** Timers, `Load`/`Store` pairs and channels across requests: no
  body refused for ever, no waiter left behind, the rate held.
- **Hot reload.** A file written in steps, a watcher with a debounce timer,
  signals, and reloads that run on several goroutines at once. What a request
  reads must be a complete configuration, and a file that is left alone must
  take effect.
- **Conversations.** The proxy keeps nothing: each request brings the whole
  conversation, in which other models have answered and from which the client
  has dropped parts. Every model must be sent what its validator takes, with
  nothing lost that had arrived, and a conversation must not fall back to a
  lesser model.
- **Processes.** One PID file without a lock, signals at any moment, crashes,
  reused PIDs, a drain with a time limit.

## The modules

| Module | Models | State and actions |
|---|---|---|
| `CircuitBreaker` | the breaker of `fallback.go:17-139` | operators on a record: `AllowRequest`, `RecordSuccess`, `RecordFailure`. `elapsed` stands for "`recoveryTimeout` has passed since `lastFailureTime`" |
| `ModelFallback` | `ExecuteWithFallback`, one goroutine per request | a program counter per request, the loop index and the local errors; one action for the breaker's answer, one for the recorded outcome |
| `KeyRotation` | the retry loop of `ChatCompletion` / `SendAnthropicRequest`, and `pickKey` | the claim of a slot, the scan under lock (`PickKey`), the request going out (`Send`), the upstream's answer, cooldown and recovery as actions of the clock, and a reload that replaces the keys |
| `MessageStream` | abstract: what a client may see of one Anthropic message | `message_start`; blocks that open under a new index, get deltas only while open, and close once; one stop reason; `message_stop` |
| `StreamTransformer` | `ProxyStream`: a line by a fast path or the JSON path, its tool calls one after another (`HandleToolCall`), its finish reason (`HandleFinish`); events are written one by one, between those | a chunk is the record of the fields the code branches on; `rest` is what of the line is not handled yet. It implements `MessageStream` (checked and proved) |
| `StreamingFallback` | `handleStreaming`, its heartbeat, `handleAnthropicStreaming`, the client and net/http | a program counter for the handler, one for the heartbeat; what the client has got: messages started, the last message, the error event |
| `MessagesHandler` | `HandleMessages` by concurrent requests over limiter, deduplicator, coalescer | a program counter per request; the bucket; entries, timers; leaders and waiters |
| `ServerLifecycle` | `serve`, `serve --background`, `stop`, `status`, `Server.Start`, `InFlightTracker` | what each PID runs and where it is, the PID file, each server's requests and shutdown goroutine |
| `ConfigReload` | `LoadFromPath`, `AtomicConfig.Reload`, `WatchConfig`, and the two reload callbacks of `main.go` and `server.go` | an editor that breaks and completes the file; events, timer and `SIGHUP`; a program counter for each goroutine that may run `Reload` |
| `ModelRouter` | `model_router.go`, `scenarios.go` | operators: `DetectScenario`, `Route`, `RouteWithModel` and their streaming variants; a text is the set of the kinds of words in it |
| `RequestTransformer` | `request.go` | operators: a conversation of blocks to the messages of OpenAI's format, `thinking` and `reasoning_effort` |
| `ResponseTransformer` | `transformContent` of `response.go` | operators: a complete answer to Anthropic's blocks |
| `Conversation` | `HandleMessages` from the body to the request each model is sent, and the answer back, around the three modules above | the client's conversation, which grows, is retried, loses its thinking, is compacted; the chain of models; what was sent |
| `ModelFallbackProofs`, `KeyRotationProofs`, `StreamTransformerProofs`, `MessagesHandlerProofs`, `StreamingFallbackProofs`, `ServerLifecycleProofs`, `ConfigReloadProofs`, `ConversationProofs` | theorems | |
| `MC*` | instances for TLC | |

The modules meet where the code's parts do. `MessagesHandler` ends a streaming
request in one action `StreamEnds`: that `handleStreaming` returns is
`EventuallyReleased` of `StreamingFallback`. The latter's `ConnectFails` is
"no key answered" of `KeyRotation`, and its `ProxyEnds` rests on `ClosedAtEnd`
of `StreamTransformer`. The leader's call is one step, `LeadEnds`, in
`MessagesHandler`; its inside is `ModelFallback`. `Swaps` of `ConfigReload` is
`Reload` of `KeyRotation`. The chain `Conversation` computes is what
`ModelFallback` and `StreamingFallback` take any of, and its `ModelFails` is
either one's failed attempt.

Definitions whose comment begins "Mutant of" are not part of the models. Each
is a plausible bug in the definition it names, and breaks a property.

### How the code is abstracted

- A mutex-protected section, a `sync.Map` or `atomic` operation and a system
  call are one step each. Between two of them anything may happen.
- Clocks: a timeout is an action that may happen at any moment when it is
  armed. Only the rate limiter counts ticks, its windows being about amounts.
- Texts and payloads: only what the code branches on. For the router a text is
  the set of the kinds of words in it; `Conversation` counts one token for each
  block the router sees, and the threshold is that many.
- A content of the configuration file is a number, and settings are the keys
  and the port: what decides whether a configuration can be used, and what a
  callback changes.
- `TransformRequest` never returns an error, so the branch for it in
  `handleStreaming` (`messages.go:368-372`) is left out.
- Writing to a response from two goroutines at once is a data race. The model
  lets whatever is written meanwhile come out torn (`HandlerWrites`).

## What the runs check

| Run | Instance | Properties and what they say |
|---|---|---|
| `BreakerContention` | 3 requests, 1 model that is its own fallback, threshold 2, 2 half-open calls | `BreakerConsistent`; `NoStuckHalfOpen`: a half-open breaker that refuses has two calls under way; `MovesOnEvidence`: a circuit opens and closes only on a run of recorded outcomes; `TerminalErrorHonest`: the error returned says what happened; `BreakerRecovers` (liveness): while requests come, an opened model is tested again |
| `KeyRotation` | 2 requests, 2 keys of which reloads take one away and bring it back, all answers | `ParkedKeyDrains`: once a key is parked, only calls that had picked it before still send with it; `ShelvedOnlyByUnrecorded`: what it takes for a key to be stuck; `EveryKeyTried`: an undisturbed call considers every key |
| `StreamEvents` | up to 6 chunks: 11 kinds of text, reasoning, usage and finish chunks, or 11 of parallel tool calls, among them ones a fast path handles in part | `ImplementsMessageStream` (refinement); `NothingElseDropped`: a fragment is lost only where a fast path returns before it (`stream.go:320`, 384), or with the name of its tool call; `ClosedAtEnd`, `EventuallyStopped` (liveness) |
| `StreamingFallback` | every chain of 1 to 3 models of both formats | `OneMessage`, `ClientTold`, `QuotaTold`, `EventuallyReleased` (liveness) |
| `RequestEntry` | 3 requests; a plain, a streamed and an invalid body; rate 2, window 2, 2 timers | `RateHeld`, `EntryExpires`, `OneUpstreamCall`, `WaiterHasLeader`, `EveryRequestAnswered` (liveness) |
| `ServerLifecycle` | 3 PIDs, at most 2 of them servers, 1 request at a time | `SettledServerKeepsFile`, `DrainHonoured`, `StopsEventually` (liveness) |
| `ConfigReload` | 2 edits, one of them refused unless the environment has a key; 2 timer goroutines and the watcher's loop; 2 environments; `--port` given | `PublishedComplete`: what requests read has been validated and carries `--port`; `NeverBack`: an older content comes back only when reloads overlap; `SettledFileApplied` (liveness): a file left alone takes effect |
| `Conversation` | conversations of 5 messages; answers with at most one text and two tool calls (`SomeAnswers`), their results in any order; one model of each family; 3 configurations; a client that streams or not, asking for a known model or not | `ToolCallsAnswered`, `ReasoningAsRequired`, `EveryTurnArrives`: what every model is sent, compared with what users said and models answered (of translated streams: what they brought); `ScenarioNeverDrops` |

Every one of them also checks its module's `TypeOK`.

Four runs must find a violation: the code does what a comment, or the
documentation, says it does not.

| Run | Property | What TLC shows |
|---|---|---|
| `KeyShelved` | `KeyNotShelved` | four answers of 429 (which the key's breaker is not told, `opencode.go:259`) leave a half-open key refused for ever |
| `StreamMixed` | `ClosedAtEnd` | a tool call after text: the text block's stop carries the tool's index (`stream.go:519`) |
| `StreamEscapes` | `TextIntact` | the content fast path does not decode JSON escapes (`stream.go:276`) |
| `ModelMisnamed` | `NamesModelTried` | a plain request goes to an Anthropic endpoint under the name the client asked for (`messages.go:568`); only the streaming path replaces it (`messages.go:347`) |

### Why the bounds are enough

- `BreakerContention`: with two half-open calls, and the uncounted probe, a
  period admits three, as many as there are requests; a threshold of 2 tells
  "failures in a row" from "failures"; a second position in the chain lets a
  request be refused and fail in one call. Counters saturate where no guard
  tells further values apart.
- `KeyRotation`: with two requests and two keys every scan of one request can
  fall between any two steps of the other, "another key" exists, and a list can
  lose a key and get it back. One half-open call is the smallest budget, so it
  runs out soonest. The round-robin counter is kept modulo `IndexPeriod`, a
  multiple of both lengths: only its remainder is used (`opencode.go:163`).
- `StreamEvents`: six chunks hold role, reasoning, text, reasoning again, a
  finish and the usage; or two tool calls started, extended, finished.
- `StreamingFallback`: with three models there is one before and one after a
  failure; formats alternate in every way.
- `RequestEntry`: one leader, one waiter, and one that arrives while the leader
  closes. `MaxTimers` = 2: two timers for one body are what the race of
  `TryAcquire` makes. `Rate` = 2 tells `Rate`, `2*Rate - 1` and `2*Rate` apart.
- `ConfigReload`: three contents are the start's, one that is refused and one
  that is taken; three goroutines make every overlap of two reloads while a
  third starts. One event of each kind waits at most: more of them set the same
  timer again.
- `Conversation`: three turns of the user and two answers: a call, its results,
  an answer of another family, and a turn after it; the long conversation is
  reached on the way.
- `ServerLifecycle`: a server, another that starts, and a command between
  them, PIDs reused (`MaxServers` = 2, `MaxActive` = 1: a request is in flight
  or none is, which is all the drain asks).

For the safety properties most of this is moot: but for the ones that find a
violation, they are proved for all values of the constants. The bounds matter
for liveness.

### Fairness

- Goroutines are scheduled: weak fairness on each one's steps.
- Calls end because of timeouts in the code, never because an upstream is
  assumed to behave: the client's HTTP timeout (`ModelFallback`,
  `KeyRotation`), the two-minute context of an attempt (`TimesOut` in
  `StreamingFallback`), the 15 seconds of the drain (`DrainExpires`).
- `SF_vars(HeartbeatStops)` (`StreamingFallback`), `SF_vars(TakesEvent(k))` and
  `SF_vars(TakesSignal)` (`ConfigReload`): Go's `select` picks at random among
  ready cases, so a case that is ready again and again is taken. The watcher's
  loop is not ready while it runs a reload itself.
- Writes to a client return, by the server's `WriteTimeout`.
- `LoadedSpec` (`ModelFallback`, `KeyRotation`) adds that requests keep coming:
  a breaker is only ever tested by a request. In `ModelFallback` this is strong
  fairness of `Start`, since a request starts again whenever it is done.
- Nothing is assumed of arrivals elsewhere, of users and editors, of clients
  staying, or of requests ending (`ServerLifecycle`).

Deadlock is not checked where a response is served once and the system stops
(`StreamEvents`, `StreamMixed`, `StreamEscapes`, `StreamingFallback`), or where
the server has ended and the edits are used up (`ConfigReload`).

## What is proved

All for arbitrary constants, under the modules' named assumptions only.

**ModelFallback** (`FallbackAssumption`: finitely many requests, non-empty
chains over the models; `BreakerAssumption`: thresholds are positive).
`TypeCorrect`, `BreakersConsistent`, `NeverStuckHalfOpen`,
`CircuitsMoveOnEvidence`, `TerminalErrorsHonest`.
`NoStuckHalfOpen` is not inductive: a refusal says the counter is spent, and
not who spent it. `IInv` adds `ProbesAccounted`: the calls a half-open period
admitted are recorded as successes or still in flight. It follows that a spent
budget without enough successes has calls under way. `CallsInChain` keeps the
index within the chain. What each breaker method does to a consistent breaker
is proved first, as it is in `KeyRotationProofs`, whose keys have the same
breakers. The two action properties rest on an
invariant each beside `IInv`: `Evidenced` (a breaker's counters are no larger
than the runs of outcomes the history counts) and `ErrorsKept` (a call's local
variables say which errors it has met).

**KeyRotation** (`RotationAssumption`: finitely many requests, lists that are
not empty, and a period that their lengths divide). `RotationTypes`,
`KeysShelvedOnlyByUnrecorded`, `ParkedKeysDrain`, `EveryKeyIsTried`, for any
lists that reloads install. `IInv` adds `CallsAccounted`: a call a half-open
period admitted is under way, was counted as a success, or ended without the
breaker being told. It is `ProbesAccounted` with one more term, and this term
is what `KeyShelved` exploits. `LocalsFit` says that a scan has a list, that a
call is sent with a key, and that attempts are left while it is.
`ParkedKeyDrains` counts: the requests sent with a key since it was parked
(`overrun`), and the calls that have it in hand and have not sent, are together
fewer than the calls, since the one that parked it has let it go and a scan
does not pick it again. `EveryKeyTried` rests on `TurnsInv`: a call with which
no other call and no reload interfered has considered the keys whose turn its
slots were, and its slots are the last ones claimed. Consecutive slots, as many
as there are keys, are every key's turn, also where the counter wraps, which is
arithmetic about the remainder (`keyNextIdx % IndexPeriod % Len(apiKeys)`) and
where the period being a multiple of every length is used.

**StreamTransformer** (`StreamAssumption`: upstreams send chunks; any chunks,
any number of them). The events sent and the ones still to be written are one
sequence, `Whole`. The invariant `StreamInv` says of every event in it that
the ones before allow it (`WellFormed`, `Allowed`: a start under a new index,
deltas and stops of an open block, the stop reason with none open, nothing after
`message_stop`), and relates what is open at its end to the local variables:
`contentIndex` is the open text or thinking block (`TextFits`), and
`startedToolCalls` the open tool blocks (`ToolFits`). Handling a line appends
events that are allowed; writing one only moves the boundary between `sent` and
`st.out`, and, since each event is allowed by those before it, is a step of
`MessageStream` or leaves its state alone.
- `StreamTypes` is unconditional.
- `AlwaysClosed` and `StreamIsMessageStream`, the refinement, assume
  `OrdinaryUpstreams`: each kind of upstream keeps text and tool calls apart
  (`Unmixed`) and sends no finish reason in a chunk that the content fast path
  takes. This is not a convenience: `StreamMixed` shows that without the first
  the code sends a stream that is not well-formed, and without the second a
  stop reason can go out while a block is open (see below). `OrdinaryInstance`,
  which TLC evaluates, says that the upstreams of `StreamEvents` satisfy it.
- `NothingElseIsDropped` is unconditional. What the fast paths return before is
  counted in `overlooked`, not assumed away: `CountInv` says that the deltas of
  each kind in `Whole`, those the rest of the line will make, and those
  overlooked are as many as the fragments received, and that a tool call whose
  name was handled has its block, while arguments behind an overlooked name are
  overlooked too.

**MessagesHandler** (`HandlerAssumption`, `NothingAssumption`; requests and
bodies may be infinite). `HandlerTypes`, `OneCallPerBody`,
`WaitersHaveLeaders`, `EntriesExpire`, `RateIsHeld`. `HandlerInv` adds
`BodyFits` (a step says what kind of body the request has) and
`LeadersHaveEntries` (each leader owns its body's entry and each entry has its
leader), from which one leader per body follows. `EntryExpires` is inductive by
itself, and the step to look at is `Release`: it deletes whatever entry the
body has, and cancels exactly that entry's timer. `RateHeld` bounds what any
window admits, a sum over the past that `recent` holds as the ages of the last
`2*Rate` grants. `BucketFits` ties it to the bucket: the latest `Rate - tokens`
grants are those since the last fill, the one that caused it included; the
earlier ones came before it, and all but the latest `Rate - 1` of these are a
window old. Hence at most `2*Rate - 1` in a window, for every rate and window.

**StreamingFallback** (`ChainsAssumption`: chains are non-empty).
`StreamingTypes`, `OneMessageOnly`, `ClientIsTold`, `QuotaIsTold`, for chains of
any length. `StreamingInv` adds `StartsBounded` (a model starts at most one
message: the type of `starts` needs it), `CleanSoFar` (without a broken copy
the loop continues only with nothing sent), `ErrorsNoted` (`rateLimitStreamErr`
is set iff some answer was a 429, and the error event comes last) and
`EndsKnown` (the context outlives the handler unless the client has left).

**ServerLifecycle** (`LifecycleAssumption`: `NoPid` is not a PID and the bounds
are numbers; PIDs may be infinitely many). `LifecycleTypes`, `DrainIsHonoured`,
`SettledServersKeepFile`. `DrainHonoured` needs that only a server told to stop
drains (`DrainsWhenSignalled`). `SettledServerKeepsFile` is about all the other
processes: whoever is there while a server is in charge (`InCharge`) has yet to
read the PID file, or has read that server's PID in it (`OthersHarmless`), which
leads to "already running", or to the signal that ends its being in charge, but
not to a write or a removal. A server that wrote its PID while another command
was under way is not settled, and nothing is promised of its file: the race of
two `serve` commands.

**ConfigReload** (`EditsAssumption`, `ReloaderAssumption`,
`SettingsAssumption`, `UnusableAssumption`; the number of edits and of
goroutines is arbitrary). `ReloadTypes`, `AlwaysComplete`,
`BackOnlyIfOverlapping`. The invariant says of every reload that has read the
file that it holds a validated configuration, with `--port` once its callbacks
have run, and of the history bit `alone` that when it is set what a reload has
read is no older than what is published.

**Conversation** (`ConversationAssumption`: words and answers are what their
names say, and no model with an Anthropic endpoint is DeepSeek's or Kimi's;
`ConfigsAssumption`, `RouterAssumption`: configurations hold model
configurations). `ConversationTypes`, `ToolCallsAreAnswered`,
`ReasoningIsAsRequired`, `EveryTurnIsSentOn`, `ScenariosNeverDrop`, for answers
of any number of texts and calls, results in any order, any words, any
configurations and any `MaxTurns`.
- *What the statements leave out.* A translated stream may bring any part of
  the answer (`Streamed`: texts, calls and reasoning can be lost, and a text
  stands for what became of it), so of streaming clients `EveryTurnArrives`
  says only that what came through is kept from then on. That `ProxyStream`
  loses things is the subject of `StreamMixed`, `StreamEscapes` and
  `NothingElseDropped`. `ReasoningAsRequired` leaves out one request,
  `LeftToDecide`: a DeepSeek model configured with neither thinking field, for
  a history without thinking, is told nothing (`request.go:111`). The comment
  at `request.go:88-93` says that it must be told not to think; the
  configuration `DefaultOnly` of the run has such a model.
- *Induction.* Both translations put sequences together from what each element
  yields (`FlattenSeq`), so what they compute is an induction over data. The
  library's theorems for it take an operator, which the provers cannot
  instantiate. `InductionOnNat` and `InductionOnSeq` say the same of a set (a
  set of sequences that has the empty one, and each one longer, has all), and
  are proved from the well-foundedness of `Nat`. From them follow the lemmas on
  `FlattenSeq` and on `FlatMap`, the map and flatten of a function: types, `\o`,
  `FlatMapTwice` (one after another is their composition), `FlattenParts` (where
  in the whole each element of a part is).
- *Round trip.* `Tells(blocks, reply)` says that a message's blocks say, call
  and think what was delivered of the answer. `ReceivedFacts`: the blocks the
  client gets tell the reply, on every path of `Received`, whatever the order
  of text and calls. `ThinkingDropped` and `WordsDropped`: what `ClientForgets`
  leaves tells the reply without its reasoning.
- *Invariant.* `IInv` says that turns alternate (`Turns`): each of the user's
  has no thinking and the results of exactly the calls before it (`Answering`),
  each answer tells its reply; a request is tried only behind a turn of the
  user; and what was sent is the translation of the history as it is. None of
  the properties is inductive, since none says what the *next* request will
  hold.
- *Requests.* `TurnedFacts`, `UserMessageFacts` and `AssistantMessageFacts` say
  what one turn becomes; `LaidOut` where its messages are. `EveryTurnArrives` is
  then the sum over the turns; `ToolCallsAnswered` compares a turn with the next
  (`CallsFollowed`) and with the one before (`ResultsBehindCalls`);
  `ReasoningAsRequired` looks at one.
- *Scenario.* `ScenarioNeverDrops` needs `HeldUp`: the scenario the history
  would be routed to now is no lower than the last one. `AppendAtLeast` and
  `ForgetAtLeast` say that growing, and dropping thinking, leave the router at
  least as much to go by. A client that compacts begins anew.

TLC checked `IInv` and `HeldUp` as invariants of the run `Conversation`'s
instance before they were proved.

Only model-checked: liveness (`BreakerRecovers`, `EventuallyStopped`,
`EventuallyReleased`, `EveryRequestAnswered`, `StopsEventually`,
`SettledFileApplied`), which with fairness and `ENABLED` is out of the prover's
reach. The four properties that find a violation are false, and so not proved.

## What is not modelled, and why

- Autostart writes one unit file and calls the platform's service manager.
- Metrics are counters only a page reads; the response cache is constructed and
  never used; health only reports; token counting calls a library.
- Windows variants of the daemon.
- Headers, logging, request ids, how tokens are counted, text lengths.
- In the transformers: temperature, `max_tokens`, tool schemas and
  `cache_control`, which are copied; usage and the stop reason of a complete
  answer. Images leave a mark the model has, and the
  conversations of the run hold none.
- In the configuration: `${VAR}` in the file, and every field that neither makes
  a configuration unusable nor is changed by a callback.
- Upstreams whose JSON has spaces, or that send usage before the finish reason,
  or anything after it: the chunks are the compact ones of the tests, usage last
  (`MaySend`). The code handles the other orders at `stream.go:407` and 513-515.
- `replaceModelInRawBody` finds the first `"model":"` of the text and returns
  the body as it is when there is none; `RawBody` replaces the name.
- `os.WriteFile` truncates the PID file and then writes it (`paths.go:73`);
  `WritePID` is one step, so no command reads an empty file.

## Behaviour worth knowing that no run shows

Seen while modelling, and in the models where they cover it:

- `fallback.go:34` calls `halfOpenMaxCalls` the maximum of test calls; the one
  that makes the breaker half-open is not counted, so one more is admitted.
- With requests racing on the round-robin counter a request can try one key
  twice and leave another out (`opencode.go:163`), in spite of 227-229.
- The content fast path drops a finish reason or a tool call in the same chunk
  (`stream.go:320-327`). If only usage follows, the message's stop reason comes
  with it, before the block is stopped (`stream.go:411`, 161); a tool call
  whose name comes after an empty content is lost with all its arguments. The
  finish fast path drops text and arguments that come with the reason
  (`stream.go:384`; `stream_test.go:596` knows). It always sends `end_turn`
  (`stream.go:376`), whatever the reason (`CONTRIBUTING.md:57`).
- The finish test takes `"finish_reason": null`, with a space, for a reason.
- Identical streaming requests can both be admitted (`middleware.go:49-58`); a
  refused duplicate gets an empty answer with status 200.
- The limiter's client is `RemoteAddr`, port included: one per connection.
- The coalescer's window is stored and never read (`coalescer.go:29-30`).
- In the streaming path status 200 goes out first (`messages.go:284`), so the
  branch that propagates a 429 with `Retry-After` (`messages.go:317-318`,
  419-421) is never taken; the quota is told in an event (`QuotaTold`).
- A keepalive can land inside a copied event (`messages.go:301`); a clean end
  in the middle of a copied stream counts as success (`Faults`).
- A streaming attempt does not end when the client leaves (its context is
  `Background`, `messages.go:341`), so the test at 486 is dead for a copy.
- `Finish` is not deferred: a panic in the leader would leave its waiters.
- Two `serve` commands started together both pass the check; the one that fails
  to bind removes the other's PID file. `SettledServerKeepsFile` says when a
  server is safe from this.
- `stop` removes the PID file without waiting: `Process.Wait` fails for a
  process that is not a child (`process_unix.go:34`), in spite of the comment
  at line 22.
- When copying an Anthropic stream breaks, the next model starts a second
  message in the same response (`messages.go:357`); `stream.go:126-128` takes
  care that a translated one does not. `OneMessage` says that only this can do
  it.
- Two reloads that overlap can leave the older configuration in force, or the
  log level of one and the rest of the other (`atomic.go:34-77`). `NeverBack`
  and `SettledFileApplied` say that nothing else can.
- An edit between the load at the start and the watcher's `Add` is not seen
  (`main.go:135`). `hot_reload` is read once, at the start; without it there is
  no handler for `SIGHUP`, which then ends the server.
- `OC_GO_CC_API_KEY` has no effect on a file that has `api_keys`
  (`loader.go:104`, 134): only the single-key field is replaced.
- The configuration is read several times in a request, so a reload in between
  mixes two.
- `CONFIGURATION.md:117-118` names the system prompt as the trigger of the
  complex and think scenarios; `HandleMessages` gives the router the messages
  only (`messages.go:190-204`), and thinking blocks have no text there. The
  long-context threshold is 100000 tokens when it is not configured; line 116
  says 80K.
- `request.go:88-93` says that thinking must be switched off for a history
  without thinking. It is, only if the model's configuration has `thinking` or
  `reasoning_effort` (`request.go:111`); a DeepSeek model with neither is sent
  nothing.
- A streamed request with neither a fast nor a default model configured is sent
  to a model with an empty name; a plain one is refused. The streaming route
  never uses the fallbacks of the default model.
- Asking for a known model by name forces `max_tokens` to 4096
  (`model_router.go:127`).
- An answer with tool calls that ends with `"stop"` reaches the client with the
  stop reason `end_turn` (`response.go:126`). In a complete answer the text
  comes after the tool calls, in a streamed one where the upstream put it.
- A block of an unknown type is dropped without a word (`request.go:209`).
- `replaceModelInRawBody` replaces the first `"model":"` of the text, wherever
  it is.

## Plan

Done: the modules above, their runs and their proofs. In order, most important
first, what is left:

1. Abstract specifications: a response as "one message or one error", which
   `StreamingFallback` implements where no copy breaks; a coalescer as "one call
   answers all that joined it", which `MessagesHandler` implements.
2. A composition of `ModelFallback` and `KeyRotation` with a client that leaves:
   what its cancellation charges to which breakers.
3. Upstreams that space their JSON, or send usage before the finish reason
   (`stream.go:327`, 407).
