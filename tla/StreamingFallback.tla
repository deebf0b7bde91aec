------------------------- MODULE StreamingFallback -------------------------
(***************************************************************************)
(* internal/handlers/messages.go: handleStreaming.  One streaming request: *)
(* the handler tries the models of a chain one after another into a        *)
(* response whose status line is already out, a heartbeat goroutine writes *)
(* comments into the same response, and the client may leave at any time.  *)
(* OpenAI-format upstreams go through ProxyStream, which terminates every  *)
(* message it starts (module StreamTransformer); Anthropic-format ones are *)
(* copied byte by byte.                                                    *)
(*                                                                         *)
(* TransformRequest never fails (transformMessage returns no error), so    *)
(* the branch of messages.go:368-372 is left out.                          *)
(***************************************************************************)
EXTENDS Naturals, Sequences

CONSTANT Chains     \* model chains, each model given by the format it speaks

Formats == {"openai", "anthropic"}

ASSUME ChainsAssumption == Chains \subseteq Seq(Formats) \ {<<>>}

VARIABLES
    pc,             \* where the handler is
    chain,          \* the models to try
    pos,            \* the loop index, from 1
    rateLimitErr,   \* rateLimitStreamErr is set
    copied,         \* how much of a message the current copy has passed on
    heartbeat,      \* the goroutine: not started, in its select, in a write, gone
    conn,           \* the connection: "down" once the client left or a write
                    \* deadline passed
    ctxDone         \* clientCtx is cancelled

\* What the client has been sent.
VARIABLES
    status,         \* the status line: 0 before responseWriter.wroteHeader
    starts,         \* message_start events
    message,        \* the last message: "none", "open" or "complete"
    mid,            \* a copied event is cut between two writes
    told            \* the error event: "none", "quota" or "failed"

\* History, read by properties only.
VARIABLES
    answers,        \* the errors the models were given up with
    faults          \* what went wrong with the response

localVars == <<pc, chain, pos, rateLimitErr, copied>>
clientVars == <<starts, message, mid, told>>
envVars == <<conn, ctxDone>>
vars == <<localVars, heartbeat, envVars, status, clientVars, answers, faults>>

Errors == {"rate_limited", "error"}

\* A copied stream ended inside a message ("cut") or failed ("broken"); or an
\* event was torn, because a copy ended inside it or two writers met.
Faults == {"cut", "broken", "torn"}

TypeOK ==
    /\ pc \in {"start", "loop", "connecting", "proxying", "copying", "returned"}
    /\ chain \in Chains
    /\ pos \in 1..(Len(chain) + 1)
    /\ rateLimitErr \in BOOLEAN
    /\ copied \in {"nothing", "open", "all"}
    /\ heartbeat \in {"off", "waiting", "writing", "stopped"}
    /\ conn \in {"up", "down"}
    /\ ctxDone \in BOOLEAN
    /\ status \in {0, 200, 429, 502}
    /\ starts \in 0..Len(chain)
    /\ message \in {"none", "open", "complete"}
    /\ mid \in BOOLEAN
    /\ told \in {"none", "quota", "failed"}
    /\ answers \subseteq Errors
    /\ faults \subseteq Faults

Init ==
    /\ pc = "start"
    /\ chain \in Chains
    /\ pos = 1
    /\ rateLimitErr = FALSE
    /\ copied = "nothing"
    /\ heartbeat = "off"
    /\ conn = "up"
    /\ ctxDone = FALSE
    /\ status = 0
    /\ starts = 0
    /\ message = "none"
    /\ mid = FALSE
    /\ told = "none"
    /\ answers = {}
    /\ faults = {}

-----------------------------------------------------------------------------
(* The response has two writers *)

\* While the heartbeat is inside its write, what the handler writes races with
\* it on the connection's buffer: it may come out torn.
HandlerWrites ==
    \E clash \in {FALSE, heartbeat = "writing"} :
        faults' = faults \cup (IF clash THEN {"torn"} ELSE {})

\* The ticker's case of the select is taken.
HeartbeatTick ==
    /\ heartbeat = "waiting"
    /\ heartbeat' = "writing"
    /\ UNCHANGED <<localVars, envVars, status, clientVars, answers, faults>>

\* The keepalive goes out; inside a copied event, its blank line ends the event.
HeartbeatWrites ==
    /\ heartbeat = "writing"
    /\ heartbeat' = "waiting"
    /\ faults' = faults \cup (IF mid THEN {"torn"} ELSE {})
    /\ UNCHANGED <<localVars, envVars, status, clientVars, answers>>

\* heartbeatDone, closed when the handler returns, or the client's context.
HeartbeatStops ==
    /\ heartbeat = "waiting"
    /\ pc = "returned" \/ ctxDone
    /\ heartbeat' = "stopped"
    /\ UNCHANGED <<localVars, envVars, status, clientVars, answers, faults>>

-----------------------------------------------------------------------------
(* handleStreaming *)

\* The headers go out at once, before any model is tried.
Begin ==
    /\ pc = "start"
    /\ pc' = "loop"
    /\ status' = 200
    /\ heartbeat' = "waiting"
    /\ UNCHANGED <<chain, pos, rateLimitErr, copied, envVars, clientVars, answers, faults>>

Return ==
    /\ pc' = "returned"
    /\ UNCHANGED <<chain, pos, rateLimitErr, answers>>

\* Mutant of NextModel: a later error hides the rate limit.
NextModelForgets(err) ==
    /\ rateLimitErr' = (err = "rate_limited")
    /\ answers' = answers \cup {err}
    /\ pos' = pos + 1
    /\ pc' = "loop"
    /\ UNCHANGED chain

\* noteStreamErr, and on to the next model.
NextModel(err) ==
    /\ rateLimitErr' = (rateLimitErr \/ err = "rate_limited")
    /\ answers' = answers \cup {err}
    /\ pos' = pos + 1
    /\ pc' = "loop"
    /\ UNCHANGED chain

\* After an error: the end if the client has gone, else the next model.
AfterError(err) == IF ctxDone THEN Return ELSE NextModel(err)

TryModel ==
    /\ pc = "loop"
    /\ pos <= Len(chain)
    /\ IF ctxDone THEN Return
       ELSE pc' = "connecting" /\ UNCHANGED <<chain, pos, rateLimitErr, answers>>
    /\ UNCHANGED <<copied, heartbeat, envVars, status, clientVars, faults>>

\* No key gets an answer for this model (module KeyRotation).
ConnectFails(err) ==
    /\ pc = "connecting"
    /\ AfterError(err)
    /\ UNCHANGED <<copied, heartbeat, envVars, status, clientVars, faults>>

\* Mutant of AllFailed: the error goes out as a status and a JSON body.
AllFailedAsStatus ==
    /\ pc = "loop"
    /\ pos > Len(chain)
    /\ HandlerWrites
    /\ Return
    /\ UNCHANGED <<copied, heartbeat, envVars, status, clientVars>>

AllFailed ==
    /\ pc = "loop"
    /\ pos > Len(chain)
    /\ IF status = 0
       THEN /\ status' = (IF rateLimitErr THEN 429 ELSE 502)
            /\ UNCHANGED told
       ELSE /\ told' = (IF rateLimitErr THEN "quota" ELSE "failed")
            /\ UNCHANGED status
    /\ HandlerWrites
    /\ Return
    /\ UNCHANGED <<copied, heartbeat, envVars, starts, message, mid>>

-----------------------------------------------------------------------------
(* ProxyStream: a message, which it always terminates *)

ProxyStarts ==
    /\ pc = "connecting"
    /\ chain[pos] = "openai"
    /\ pc' = "proxying"
    /\ starts' = starts + 1
    /\ message' = "open"
    /\ HandlerWrites
    /\ UNCHANGED <<chain, pos, rateLimitErr, copied, heartbeat, envVars, status,
                   mid, told, answers>>

\* An event of the message; its content is StreamTransformer's.
ProxyEvent ==
    /\ pc = "proxying"
    /\ HandlerWrites
    /\ UNCHANGED <<localVars, heartbeat, envVars, status, clientVars, answers>>

\* Mutant of ProxyEnds: a stream that is cut short is abandoned for the next model.
ProxyEndsOrFails ==
    /\ pc = "proxying"
    /\ \/ message' = "complete" /\ Return
       \/ UNCHANGED message /\ AfterError("error")
    /\ HandlerWrites
    /\ UNCHANGED <<copied, heartbeat, envVars, status, starts, mid, told>>

\* The upstream's stream ends, cleanly or not: the terminal events are sent.
ProxyEnds ==
    /\ pc = "proxying"
    /\ message' = "complete"
    /\ HandlerWrites
    /\ Return
    /\ UNCHANGED <<copied, heartbeat, envVars, status, starts, mid, told>>

\* A write fails or the context is cancelled: ErrClientDisconnected.
ProxyLosesClient ==
    /\ pc = "proxying"
    /\ conn = "down" \/ ctxDone
    /\ Return
    /\ UNCHANGED <<copied, heartbeat, envVars, status, clientVars, faults>>

-----------------------------------------------------------------------------
(* handleAnthropicStreaming: io.Copy of the upstream's own bytes *)

CopyStarts ==
    /\ pc = "connecting"
    /\ chain[pos] = "anthropic"
    /\ pc' = "copying"
    /\ copied' = "nothing"
    /\ UNCHANGED <<chain, pos, rateLimitErr, heartbeat, envVars, status, clientVars,
                   answers, faults>>

\* A write that ends inside an event: reads stop anywhere in the bytes.
CopyPart ==
    /\ pc = "copying"
    /\ copied # "all"
    /\ mid' = TRUE
    /\ HandlerWrites
    /\ UNCHANGED <<localVars, heartbeat, envVars, status, starts, message, told, answers>>

\* A write that ends with an event: message_start, an event of the message, or
\* message_stop.
CopyEvent ==
    /\ pc = "copying"
    /\ \/ /\ copied = "nothing"
          /\ copied' = "open"
          /\ starts' = starts + 1
          /\ message' = "open"
       \/ /\ copied = "open"
          /\ copied' \in {"open", "all"}
          /\ message' = (IF copied' = "all" THEN "complete" ELSE "open")
          /\ UNCHANGED starts
    /\ mid' = FALSE
    /\ HandlerWrites
    /\ UNCHANGED <<pc, chain, pos, rateLimitErr, heartbeat, envVars, status, told, answers>>

\* EOF: success, whatever has been copied.
CopyEnds ==
    /\ pc = "copying"
    /\ faults' = faults \cup (IF copied = "all" THEN {} ELSE {"cut"})
                        \cup (IF mid THEN {"torn"} ELSE {})
    /\ mid' = FALSE
    /\ Return
    /\ UNCHANGED <<copied, heartbeat, envVars, status, starts, message, told>>

\* Mutant of CopyBreaks: the same model is tried again.
CopyBreaksRetries ==
    /\ pc = "copying"
    /\ pc' = "loop"
    /\ faults' = faults \cup {"broken"}
    /\ mid' = FALSE
    /\ UNCHANGED <<chain, pos, rateLimitErr, copied, heartbeat, envVars, status, starts,
                   message, told, answers>>

\* The upstream's bytes end in an error, or a write to the client does.
CopyBreaks ==
    /\ pc = "copying"
    /\ faults' = faults \cup {"broken"} \cup (IF mid THEN {"torn"} ELSE {})
    /\ mid' = FALSE
    /\ AfterError("error")
    /\ UNCHANGED <<copied, heartbeat, envVars, status, starts, message, told>>

-----------------------------------------------------------------------------
(* The client and net/http *)

\* The client closes the connection, or the server's WriteTimeout passes.
ConnectionLost ==
    /\ conn = "up"
    /\ conn' = "down"
    /\ UNCHANGED <<localVars, heartbeat, ctxDone, status, clientVars, answers, faults>>

\* net/http cancels the request's context when it sees the connection closed,
\* and when the handler has returned.
CancelContext ==
    /\ ~ctxDone
    /\ conn = "down" \/ pc = "returned"
    /\ ctxDone' = TRUE
    /\ UNCHANGED <<localVars, heartbeat, conn, status, clientVars, answers, faults>>

-----------------------------------------------------------------------------

\* Mutant of TimesOut: a copy runs under a context without a deadline.
TimesOutUnlessCopying == ConnectFails("error") \/ ProxyEnds

\* The attempt's own context expires after 2 minutes, and ends the attempt.
TimesOut == ConnectFails("error") \/ ProxyEnds \/ CopyBreaks

Handler ==
    \/ Begin
    \/ TryModel
    \/ \E err \in Errors : ConnectFails(err)
    \/ AllFailed
    \/ ProxyStarts \/ ProxyEvent \/ ProxyEnds \/ ProxyLosesClient
    \/ CopyStarts \/ CopyPart \/ CopyEvent \/ CopyEnds \/ CopyBreaks

Heartbeat == HeartbeatTick \/ HeartbeatWrites \/ HeartbeatStops

Next == Handler \/ Heartbeat \/ ConnectionLost \/ CancelContext

Spec == Init /\ [][Next]_vars

(***************************************************************************)
(* Fairness.  Nothing is assumed of the upstream or of the client: an      *)
(* attempt ends because its context expires.  Goroutines are scheduled,    *)
(* writes return (WriteTimeout), and a select that finds two cases ready   *)
(* again and again takes each of them, since Go chooses at random.         *)
(***************************************************************************)
FairSpec ==
    /\ Spec
    /\ WF_vars(Begin) /\ WF_vars(TryModel) /\ WF_vars(AllFailed)
    /\ WF_vars(TimesOut)
    /\ WF_vars(HeartbeatWrites) /\ SF_vars(HeartbeatStops)

-----------------------------------------------------------------------------
(* Properties *)

(***************************************************************************)
(* The client gets one message, and no error event after a complete one,   *)
(* unless a copied stream failed under way: whatever ProxyStream starts it *)
(* also ends, so no second model ever writes after it (stream.go:121-131). *)
(***************************************************************************)
OneMessage ==
    starts > 1 \/ (message = "complete" /\ told # "none") => "broken" \in faults

(***************************************************************************)
(* A client that is still there when the handler returns has a complete    *)
(* message or an error event, however many models failed before and in     *)
(* whichever way, unless a copied stream ended early without an error or   *)
(* an event was torn.                                                      *)
(***************************************************************************)
ClientTold ==
    pc = "returned" /\ conn = "up" /\ faults \cap {"cut", "torn"} = {}
        => message = "complete" \/ told # "none"

(***************************************************************************)
(* The error event speaks of the quota exactly when some model of the      *)
(* chain answered 429, wherever in the chain it stood (messages.go:317).   *)
(***************************************************************************)
QuotaTold == told # "none" => (told = "quota" <=> "rate_limited" \in answers)

(***************************************************************************)
(* The handler returns and its heartbeat goroutine ends, with upstreams    *)
(* that never answer, hang in the middle of a stream, or answer for ever,  *)
(* and whether or not the client stays.                                    *)
(***************************************************************************)
EventuallyReleased == <>[](pc = "returned" /\ heartbeat = "stopped")
=============================================================================
