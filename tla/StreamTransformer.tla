------------------------- MODULE StreamTransformer -------------------------
(***************************************************************************)
(* internal/transformer/stream.go: ProxyStream turns the OpenAI chunks of  *)
(* one upstream response into Anthropic events, line by line.  A chunk is  *)
(* abstracted to the fields the code branches on, and a text to whether it *)
(* is empty and whether its JSON form has escapes.  Handling a chunk, one  *)
(* tool call of it or its finish reason changes the local variables of     *)
(* ProxyStream and yields a sequence of events, which are then written to  *)
(* the client one by one: a write fails when the client has gone, and ends *)
(* the stream there.  The upstream may be cut off after any chunk; what is *)
(* left of a line that was cut is malformed and skipped, or handled as the *)
(* chunk it still is.                                                      *)
(***************************************************************************)
EXTENDS Integers, Sequences, FiniteSets

CONSTANTS
    Upstreams,  \* kinds of upstream: each the set of chunks (of Chunk) it may send
    MaxChunks   \* bound: how many it sends before the stream ends

FinishReasons == {"stop", "length", "tool_calls", "content_filter"}

\* An element of delta.tool_calls: its index, whether it carries the function's
\* name, whether its arguments are non-empty.
ToolCall == [index : Nat, named : BOOLEAN, args : BOOLEAN]

\* reasoning, content: the field of the delta, "absent" (or null), "empty",
\* "some"; content is "escaped" when it is not empty and its JSON form has
\* escapes: a newline, a quote, a backslash.  contentFirst: the raw line has
\* `"delta":{"content":"', i.e. content is a string and the delta's first field.
\* finish: "none" when null or absent.  choices: FALSE for a chunk that has none,
\* which is how usage is sent alone.
Chunk ==
    [choices : BOOLEAN, reasoning : {"absent", "empty", "some"},
     content : {"absent", "empty", "some", "escaped"}, contentFirst : BOOLEAN,
     tools : Seq(ToolCall), finish : FinishReasons \cup {"none"}, usage : BOOLEAN]

\* The delta and the finish reason are in the choices.
ChoicesOnly(c) ==
    ~c.choices => /\ c.reasoning = "absent" /\ c.content = "absent" /\ ~c.contentFirst
                  /\ c.tools = <<>> /\ c.finish = "none"

ASSUME StreamAssumption ==
    /\ \A u \in Upstreams : u \subseteq Chunk /\ \A c \in u : ChoicesOnly(c)
    /\ MaxChunks \in Nat

VARIABLES
    upstream,   \* the kind of upstream that answers
    st,         \* the local variables of ProxyStream, and the events not yet written
    rest,       \* what of the line at hand is left: tool calls, finish reason
    sent,       \* events the client has received
    pc,         \* "start", "read", "write", "last" (the final writes), "done", "gone"
    received,   \* number of chunks received
    finished,   \* the upstream has sent its finish reason
    named       \* the tool call indexes it has named

\* History, read by properties only.
VARIABLES
    heard,      \* the tool call indexes named in tool calls that the code looks at
    due,        \* the non-empty fragments received, by kind of delta
    overlooked  \* those of them that no path looks at, or that no block can take

historyVars == <<heard, due, overlooked>>
vars == <<upstream, st, rest, sent, pc, received, finished, named, historyVars>>

NoTools == [i \in {} |-> 0]

Locals0 ==
    [contentIndex |-> 0, contentStarted |-> FALSE, reasoningStarted |-> FALSE,
     stopSent |-> FALSE, startedToolCalls |-> NoTools, out |-> <<>>]

NothingLeft == [tools |-> <<>>, finish |-> "none"]

-----------------------------------------------------------------------------
(* Events, and the pieces of code that emit them *)

BlockStartEvent(i, kind) == [type |-> "content_block_start", index |-> i, kind |-> kind]
\* intact: the delta carries the text the upstream meant.
BlockDeltaEvent(i, kind, intact) ==
    [type |-> "content_block_delta", index |-> i, kind |-> kind, intact |-> intact]
BlockStopEvent(i) == [type |-> "content_block_stop", index |-> i]
MessageDeltaEvent(reason) == [type |-> "message_delta", reason |-> reason]

Emit(s, e) == [s EXCEPT !.out = Append(s.out, e)]

\* if *contentStarted || *reasoningStarted { ... }
CloseContentBlock(s) ==
    IF s.contentStarted \/ s.reasoningStarted
    THEN [Emit(s, BlockStopEvent(s.contentIndex))
            EXCEPT !.contentStarted = FALSE, !.reasoningStarted = FALSE]
    ELSE s

\* The n-th smallest of a set of block indexes.
Smallest(indexes, n) ==
    CHOOSE i \in indexes : Cardinality({j \in indexes : j <= i}) = n

\* Tool blocks are stopped in the order of their block index, then forgotten.
CloseToolBlocks(s) ==
    LET open == {s.startedToolCalls[i] : i \in DOMAIN s.startedToolCalls}
        stops == [n \in 1..Cardinality(open) |-> BlockStopEvent(Smallest(open, n))]
    IN  [s EXCEPT !.out = s.out \o stops, !.startedToolCalls = NoTools]

\* Mutant of LeaveBlock: the next block reuses the index.
LeaveBlockSameIndex(s, isOpen) == IF isOpen THEN CloseContentBlock(s) ELSE s

\* The block of the other kind, if open, is stopped and its index left behind.
LeaveBlock(s, isOpen) ==
    IF isOpen
    THEN [CloseContentBlock(s) EXCEPT !.contentIndex = s.contentIndex + 1]
    ELSE s

SendText(s, intact) ==
    LET started == [LeaveBlock(s, s.reasoningStarted) EXCEPT !.contentStarted = TRUE]
        opened == IF s.contentStarted THEN s
                  ELSE Emit(started, BlockStartEvent(started.contentIndex, "text"))
    IN  Emit(opened, BlockDeltaEvent(opened.contentIndex, "text", intact))

SendThinking(s) ==
    LET started == [LeaveBlock(s, s.contentStarted) EXCEPT !.reasoningStarted = TRUE]
        opened == IF s.reasoningStarted THEN s
                  ELSE Emit(started, BlockStartEvent(started.contentIndex, "thinking"))
    IN  Emit(opened, BlockDeltaEvent(opened.contentIndex, "thinking", TRUE))

\* A tool call gets the block b.
StartToolBlock(s, tc, b) ==
    Emit([s EXCEPT !.contentIndex = b,
                   !.startedToolCalls =
                       [i \in DOMAIN s.startedToolCalls \cup {tc.index} |->
                           IF i = tc.index THEN b ELSE s.startedToolCalls[i]]],
         BlockStartEvent(b, "tool_use"))

SendArguments(s, tc) ==
    IF tc.args THEN Emit(s, BlockDeltaEvent(s.startedToolCalls[tc.index], "tool_use", TRUE))
    ELSE s

\* Mutant of SendToolCall: a new tool block does not get an index of its own.
SendToolCallSameIndex(s, tc) ==
    LET known == tc.index \in DOMAIN s.startedToolCalls
    IN  CASE known -> SendArguments(s, tc)
          [] ~known /\ tc.named ->
               SendArguments(StartToolBlock(s, tc, s.contentIndex), tc)
          [] ~known /\ ~tc.named -> s

\* One tool call of a chunk.  An unknown index without a name is ignored.
SendToolCall(s, tc) ==
    LET known == tc.index \in DOMAIN s.startedToolCalls
    IN  CASE known -> SendArguments(s, tc)
          [] ~known /\ tc.named ->
               SendArguments(StartToolBlock(s, tc, s.contentIndex + 1), tc)
          [] ~known /\ ~tc.named -> s

MapFinishReason(reason) ==
    CASE reason = "length"     -> "max_tokens"
      [] reason = "tool_calls" -> "tool_use"
      [] reason \notin {"length", "tool_calls"} -> "end_turn"

\* The tail that every way of finishing shares.
Finish(s, reason) ==
    [Emit(CloseToolBlocks(CloseContentBlock(s)), MessageDeltaEvent(reason))
        EXCEPT !.stopSent = TRUE]

-----------------------------------------------------------------------------
(* processSSELine *)

\* Mutant of TakesContentPath: reasoning in the same chunk is not looked for.
TakesContentPathBlindly(c) == c.contentFirst

\* The content fast path returns whatever else the chunk holds.
TakesContentPath(c) == c.reasoning = "absent" /\ c.contentFirst

\* The finish fast path; a chunk with usage goes through the JSON path.
TakesFinishPath(c) == ~TakesContentPath(c) /\ c.finish # "none" /\ ~c.usage

\* The content is cut out of the raw line, up to the next quote: an escaped
\* quote ends it and other escapes are passed on as they stand.
ContentPath(s, c) ==
    IF c.content \in {"some", "escaped"} THEN SendText(s, c.content = "some") ELSE s

FinishPath(s) == Finish(s, "end_turn")

\* A chunk without choices: only its usage counts.
UsageOnly(s, c) ==
    CASE ~c.usage -> s
      [] c.usage /\ s.stopSent  -> Emit(s, MessageDeltaEvent("none"))
      [] c.usage /\ ~s.stopSent ->
           [Emit(s, MessageDeltaEvent("end_turn")) EXCEPT !.stopSent = TRUE]

\* The JSON path up to its tool calls.
JSONPath(s, c) ==
    LET thought == IF c.reasoning = "some" THEN SendThinking(s) ELSE s
    IN  IF c.content \in {"some", "escaped"} THEN SendText(thought, TRUE) ELSE thought

\* What the JSON path has still to handle.
Rest(c) ==
    IF TakesContentPath(c) \/ TakesFinishPath(c) \/ ~c.choices THEN NothingLeft
    ELSE [tools |-> c.tools, finish |-> c.finish]

ProcessSSELine(s, c) ==
    CASE TakesContentPath(c) -> ContentPath(s, c)
      [] TakesFinishPath(c)  -> FinishPath(s)
      [] ~TakesContentPath(c) /\ ~TakesFinishPath(c) /\ ~c.choices -> UsageOnly(s, c)
      [] ~TakesContentPath(c) /\ ~TakesFinishPath(c) /\ c.choices  -> JSONPath(s, c)

\* Mutant of EmitTerminalEvents: tool blocks are left open.
EmitTerminalEventsTextOnly(s) ==
    LET closed == CloseContentBlock(s)
        ended == IF closed.stopSent THEN closed
                 ELSE Emit(closed, MessageDeltaEvent("end_turn"))
    IN  Emit(ended, [type |-> "message_stop"])

EmitTerminalEvents(s) ==
    LET closed == CloseToolBlocks(CloseContentBlock(s))
        ended == IF closed.stopSent THEN closed
                 ELSE [Emit(closed, MessageDeltaEvent("end_turn")) EXCEPT !.stopSent = TRUE]
    IN  Emit(ended, [type |-> "message_stop"])

-----------------------------------------------------------------------------
(* ProxyStream *)

\* The i-th of these tool calls has been named, before them or among them.
Announced(calls, tools, i) ==
    \/ tools[i].index \in calls
    \/ \E j \in 1..i : tools[j].named /\ tools[j].index = tools[i].index

\* A fast path returns before the tool calls, and the finish path before text
\* and reasoning too.  Arguments the code does look at are ignored when it has
\* not seen the call's name.
Overlooked(c) ==
    LET cut == TakesContentPath(c) \/ TakesFinishPath(c)
    IN  [text |-> IF TakesFinishPath(c) /\ c.content \in {"some", "escaped"} THEN 1 ELSE 0,
         thinking |-> IF TakesFinishPath(c) /\ c.reasoning = "some" THEN 1 ELSE 0,
         tool_use |-> Cardinality({i \in 1..Len(c.tools) :
                          c.tools[i].args /\ (cut \/ ~Announced(heard, c.tools, i))})]

Fragments(c) ==
    [text |-> IF c.content \in {"some", "escaped"} THEN 1 ELSE 0,
     thinking |-> IF c.reasoning = "some" THEN 1 ELSE 0,
     tool_use |-> Cardinality({i \in 1..Len(c.tools) : c.tools[i].args})]

Init ==
    /\ upstream \in Upstreams
    /\ st = Locals0
    /\ rest = NothingLeft
    /\ sent = <<>>
    /\ pc = "start"
    /\ received = 0
    /\ finished = FALSE
    /\ named = {}
    /\ heard = {}
    /\ due = [text |-> 0, thinking |-> 0, tool_use |-> 0]
    /\ overlooked = [text |-> 0, thinking |-> 0, tool_use |-> 0]

\* message_start goes out before anything is read.
Start ==
    /\ pc = "start"
    /\ st' = Emit(st, [type |-> "message_start"])
    /\ pc' = "write"
    /\ UNCHANGED <<upstream, rest, sent, received, finished, named, historyVars>>

NamedIn(tools) == {tools[i].index : i \in {i \in 1..Len(tools) : tools[i].named}}

\* What an OpenAI upstream sends: usage alone after the finish reason, nothing
\* else there, and arguments only for a tool call it has named.
MaySend(c) ==
    /\ finished <=> ~c.choices
    /\ \A i \in 1..Len(c.tools) :
          c.tools[i].args => Announced(named, c.tools, i)

\* A complete line is read and handled, but for what JSONPath leaves.
Receive(c) ==
    /\ pc = "read"
    /\ received < MaxChunks
    /\ MaySend(c)
    /\ st' = ProcessSSELine(st, c)
    /\ rest' = Rest(c)
    /\ received' = received + 1
    /\ finished' = (finished \/ c.finish # "none")
    /\ named' = named \cup NamedIn(c.tools)
    /\ heard' = heard \cup NamedIn(Rest(c).tools)
    /\ due' = [k \in DOMAIN due |-> due[k] + Fragments(c)[k]]
    /\ overlooked' = [k \in DOMAIN overlooked |-> overlooked[k] + Overlooked(c)[k]]
    /\ pc' = "write"
    /\ UNCHANGED <<upstream, sent>>

\* Mutant of UpstreamEnds: the stream is abandoned where it is.
UpstreamEndsAbandons ==
    /\ pc = "read"
    /\ pc' = "last"
    /\ UNCHANGED <<upstream, st, rest, sent, received, finished, named, historyVars>>

\* End of file or a read error, after any chunk: both end in emitTerminalEvents.
UpstreamEnds ==
    /\ pc = "read"
    /\ st' = EmitTerminalEvents(st)
    /\ pc' = "last"
    /\ UNCHANGED <<upstream, rest, sent, received, finished, named, historyVars>>

\* writeSSEEvent, for the next event of the handler that runs.
WriteEvent ==
    /\ pc \in {"write", "last"}
    /\ st.out # <<>>
    /\ sent' = Append(sent, Head(st.out))
    /\ st' = [st EXCEPT !.out = Tail(st.out)]
    /\ UNCHANGED <<upstream, rest, pc, received, finished, named, historyVars>>

\* The loop over the chunk's tool calls.
HandleToolCall ==
    /\ pc = "write"
    /\ st.out = <<>>
    /\ rest.tools # <<>>
    /\ st' = SendToolCall(st, Head(rest.tools))
    /\ rest' = [rest EXCEPT !.tools = Tail(rest.tools)]
    /\ UNCHANGED <<upstream, sent, pc, received, finished, named, historyVars>>

\* The chunk's finish reason.
HandleFinish ==
    /\ pc = "write"
    /\ st.out = <<>>
    /\ rest.tools = <<>>
    /\ rest.finish # "none"
    /\ st' = Finish(st, MapFinishReason(rest.finish))
    /\ rest' = NothingLeft
    /\ UNCHANGED <<upstream, sent, pc, received, finished, named, historyVars>>

HandlerReturns ==
    /\ pc \in {"write", "last"}
    /\ st.out = <<>>
    /\ rest = NothingLeft
    /\ pc' = IF pc = "write" THEN "read" ELSE "done"
    /\ UNCHANGED <<upstream, st, rest, sent, received, finished, named, historyVars>>

\* The client's context is done before a read, or a write to it fails.
ClientGone ==
    /\ \/ pc = "read"
       \/ pc \in {"write", "last"} /\ st.out # <<>>
    /\ pc' = "gone"
    /\ UNCHANGED <<upstream, st, rest, sent, received, finished, named, historyVars>>

Next ==
    \/ Start
    \/ \E c \in upstream : Receive(c)
    \/ UpstreamEnds
    \/ WriteEvent
    \/ HandleToolCall
    \/ HandleFinish
    \/ HandlerReturns
    \/ ClientGone

Spec == Init /\ [][Next]_vars

\* The handler is scheduled, and the http.Client's timeout ends the upstream.
FairSpec ==
    /\ Spec
    /\ WF_vars(Start)
    /\ WF_vars(UpstreamEnds \/ \E c \in upstream : Receive(c))
    /\ WF_vars(WriteEvent \/ HandleToolCall \/ HandleFinish \/ HandlerReturns)

-----------------------------------------------------------------------------
(* What a client makes of the events it has received *)

Places(events, type) == {n \in 1..Len(events) : events[n].type = type}

Deltas(events, kind) ==
    {n \in Places(events, "content_block_delta") : events[n].kind = kind}

BlockOf(event) == [index |-> event.index, kind |-> event.kind]

\* Blocks started, and not stopped since.
OpenBlocks(events) ==
    {BlockOf(events[n]) :
        n \in {n \in Places(events, "content_block_start") :
                  \A m \in Places(events, "content_block_stop") :
                      m > n => events[m].index # events[n].index}}

\* The deltas of a block, and how many each block has.
DeltasOf(events, b) ==
    {n \in Places(events, "content_block_delta") : BlockOf(events[n]) = b}
Extended(events) ==
    [b \in {BlockOf(events[n]) : n \in Places(events, "content_block_delta")} |->
        Cardinality(DeltasOf(events, b))]

UsedIndexes(events) == {events[n].index : n \in Places(events, "content_block_start")}

StopReasons(events) ==
    {n \in Places(events, "message_delta") : events[n].reason # "none"}

Phase(events) ==
    CASE events = <<>> -> "idle"
      [] events # <<>> /\ Places(events, "message_stop") # {} -> "stopped"
      [] events # <<>> /\ Places(events, "message_stop") = {} ->
           IF StopReasons(events) = {} THEN "open" ELSE "ended"

LastIndex(events) ==
    LET used == UsedIndexes(events)
    IN  IF used = {} THEN -1 ELSE CHOOSE i \in used : \A j \in used : j <= i

Client ==
    INSTANCE MessageStream WITH
        phase <- Phase(sent),
        blocks <- OpenBlocks(sent),
        lastIndex <- LastIndex(sent),
        extended <- Extended(sent)

-----------------------------------------------------------------------------
(* What the properties below ask of an upstream *)

CarriesText(c) == c.content \in {"some", "escaped"} \/ c.reasoning = "some"

\* An answer is text and reasoning, or tool calls.
Unmixed(u) == (\A c \in u : c.tools = <<>>) \/ (\A c \in u : ~CarriesText(c))

\* And its finish reason is not in a chunk that the content path takes, which
\* drops it: usage alone would then bring a stop reason while a block is open.
Ordinary(u) == Unmixed(u) /\ \A c \in u : TakesContentPath(c) => c.finish = "none"

-----------------------------------------------------------------------------
(* Properties *)

TypeOK ==
    /\ st.contentIndex \in Nat
    /\ st.contentStarted \in BOOLEAN
    /\ st.reasoningStarted \in BOOLEAN
    /\ st.stopSent \in BOOLEAN
    /\ \A i \in DOMAIN st.startedToolCalls : st.startedToolCalls[i] \in 1..st.contentIndex
    /\ rest \in [tools : Seq(ToolCall), finish : FinishReasons \cup {"none"}]
    /\ pc \in {"start", "read", "write", "last", "done", "gone"}
    /\ received \in 0..MaxChunks
    /\ finished \in BOOLEAN
    /\ named \subseteq Nat
    /\ heard \subseteq Nat
    /\ due \in [{"text", "thinking", "tool_use"} -> Nat]
    /\ overlooked \in [{"text", "thinking", "tool_use"} -> Nat]

(***************************************************************************)
(* The events form an Anthropic message stream at every moment, whatever   *)
(* the upstream sends and wherever it is cut off.                          *)
(***************************************************************************)
ImplementsMessageStream == Client!Spec

(***************************************************************************)
(* stream.go:141-145: a stream that ends without the client leaving has no *)
(* block open, exactly one stop reason, and message_stop as its last event *)
(* (and only there).                                                       *)
(***************************************************************************)
ClosedAtEnd ==
    pc = "done" =>
        /\ OpenBlocks(sent) = {}
        /\ Cardinality(StopReasons(sent)) = 1
        /\ Places(sent, "message_stop") = {Len(sent)}

(***************************************************************************)
(* The fast paths do drop things: in a chunk that one of them takes, the   *)
(* tool calls, and in one that the finish path takes the text and the      *)
(* reasoning too (stream.go:320, 384; stream_test.go:596 says so of an     *)
(* argument that comes with the finish reason); with a call's name go the  *)
(* arguments that follow it.  Nothing else is lost: every other non-empty  *)
(* fragment of reasoning, text and arguments has its delta once its chunk  *)
(* is handled, in whatever order chunks and kinds come, in particular      *)
(* reasoning that shares a chunk with text (stream.go:266-271).            *)
(***************************************************************************)
NothingElseDropped ==
    pc \in {"read", "done"} =>
        \A kind \in DOMAIN due :
            Cardinality(Deltas(sent, kind)) + overlooked[kind] = due[kind]

(***************************************************************************)
(* CONTRIBUTING.md:58, `delta.content` becomes `content_block_delta`: the  *)
(* text a delta carries is the text the upstream sent.                     *)
(***************************************************************************)
TextIntact == \A n \in Deltas(sent, "text") : sent[n].intact

(***************************************************************************)
(* Unless the client leaves, its stream is terminated.                     *)
(***************************************************************************)
EventuallyStopped == <>(Places(sent, "message_stop") # {} \/ pc = "gone")
=============================================================================
