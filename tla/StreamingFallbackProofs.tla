---------------------- MODULE StreamingFallbackProofs ----------------------
(***************************************************************************)
(* What a streaming client is told, for chains of any length.              *)
(***************************************************************************)
EXTENDS StreamingFallback, TLAPS

\* Each model starts at most one message.
StartsBounded ==
    /\ pc \in {"connecting", "proxying", "copying"} => pos <= Len(chain)
    /\ pc \in {"start", "loop", "connecting"} => starts < pos
    /\ pc = "copying" /\ copied = "nothing" => starts < pos
    /\ pc \in {"proxying", "copying", "returned"} => starts <= pos
    /\ pc = "returned" => starts <= Len(chain)

\* As long as no copy has broken, the loop only goes on with an empty response,
\* and an attempt has started as much of a message as it knows of.
CleanSoFar ==
    "broken" \notin faults =>
        /\ pc \in {"start", "loop", "connecting"} => starts = 0 /\ message = "none"
        /\ pc = "proxying" => starts = 1
        /\ pc = "copying" /\ copied = "nothing" => starts = 0 /\ message = "none"
        /\ pc \in {"copying", "returned"} => starts <= 1
        /\ message = "complete" => told = "none"

\* The error event is the last thing the handler does, in a response whose
\* status is out, and speaks of the quota if a 429 was noted.
ErrorsNoted ==
    /\ rateLimitErr <=> "rate_limited" \in answers
    /\ pc # "start" => status # 0
    /\ told # "none" => pc = "returned" /\ (told = "quota" <=> rateLimitErr)

\* The context is only cancelled of a client that left or was served; a copied
\* message that is all there is complete.
EndsKnown ==
    /\ ctxDone => conn = "down" \/ pc = "returned"
    /\ pc = "copying" /\ copied = "all" => message = "complete"

\* The parts of the type invariant.
LoopTypes ==
    /\ pc \in {"start", "loop", "connecting", "proxying", "copying", "returned"}
    /\ chain \in Chains
    /\ pos \in 1..(Len(chain) + 1)
    /\ starts \in 0..Len(chain)
FlagTypes == rateLimitErr \in BOOLEAN /\ ctxDone \in BOOLEAN /\ mid \in BOOLEAN
StepTypes ==
    /\ copied \in {"nothing", "open", "all"}
    /\ heartbeat \in {"off", "waiting", "writing", "stopped"}
    /\ conn \in {"up", "down"}
    /\ status \in {0, 200, 429, 502}
    /\ message \in {"none", "open", "complete"}
    /\ told \in {"none", "quota", "failed"}
HistoryTypes == answers \subseteq Errors /\ faults \subseteq Faults

\* The inductive invariant.
StreamingInv ==
    TypeOK /\ StartsBounded /\ CleanSoFar /\ ErrorsNoted /\ EndsKnown /\ ClientTold

USE ChainsAssumption

-----------------------------------------------------------------------------

LEMMA TypeParts == TypeOK <=> LoopTypes /\ FlagTypes /\ StepTypes /\ HistoryTypes
BY DEF TypeOK, LoopTypes, FlagTypes, StepTypes, HistoryTypes

LEMMA ChainLength ==
    LoopTypes => Len(chain) \in Nat \ {0} /\ pos \in Nat \ {0} /\ starts \in Nat
BY DEF LoopTypes

LEMMA StreamingInit == Init => StreamingInv
<1> SUFFICES ASSUME Init PROVE StreamingInv
  OBVIOUS
<1>1. Len(chain) \in Nat \ {0}
  BY DEF Init
<1>2. LoopTypes
  BY <1>1 DEF Init, LoopTypes
<1>3. FlagTypes /\ StepTypes
  BY DEF Init, FlagTypes, StepTypes
<1>4. HistoryTypes
  BY DEF Init, HistoryTypes
<1>5. StartsBounded /\ CleanSoFar /\ ErrorsNoted /\ EndsKnown /\ ClientTold
  BY <1>1 DEF Init, StartsBounded, CleanSoFar, ErrorsNoted, EndsKnown, ClientTold
<1>6. QED
  BY TypeParts, <1>2, <1>3, <1>4, <1>5 DEF StreamingInv

\* Two writers that meet can tear an event, and do nothing else.
LEMMA WritesOnlyTear ==
    HandlerWrites => faults \subseteq faults' /\ faults' \subseteq faults \cup {"torn"}
BY DEF HandlerWrites

\* Types of the loop: a message is only started by a model that has not started one.
LEMMA LoopTypesKept == LoopTypes /\ StartsBounded /\ [Next]_vars => LoopTypes'
<1> SUFFICES ASSUME LoopTypes, StartsBounded, [Next]_vars PROVE LoopTypes'
  OBVIOUS
<1>0. Len(chain) \in Nat \ {0} /\ pos \in Nat \ {0} /\ starts \in Nat
  BY ChainLength
<1> USE <1>0 DEF LoopTypes, StartsBounded, clientVars, envVars
<1>1. CASE Begin
  BY <1>1 DEF Begin
<1>2. CASE TryModel
  BY <1>2 DEF TryModel, Return
<1>3. ASSUME NEW err \in Errors, ConnectFails(err) PROVE LoopTypes'
  BY <1>3 DEF ConnectFails, AfterError, NextModel, Return, Errors
<1>4. CASE AllFailed
  BY <1>4, WritesOnlyTear DEF AllFailed, Return
<1>5. CASE ProxyStarts
  BY <1>5, WritesOnlyTear DEF ProxyStarts
<1>6. CASE ProxyEvent
  BY <1>6, WritesOnlyTear DEF ProxyEvent, localVars
<1>7. CASE ProxyEnds
  BY <1>7, WritesOnlyTear DEF ProxyEnds, Return
<1>8. CASE ProxyLosesClient
  BY <1>8 DEF ProxyLosesClient, Return
<1>9. CASE CopyStarts
  BY <1>9 DEF CopyStarts
<1>10. CASE CopyPart
  BY <1>10, WritesOnlyTear DEF CopyPart, localVars
<1>11. CASE CopyEvent
  BY <1>11, WritesOnlyTear DEF CopyEvent
<1>12. CASE CopyEnds
  BY <1>12 DEF CopyEnds, Return
<1>13. CASE CopyBreaks
  BY <1>13 DEF CopyBreaks, AfterError, NextModel, Return, Errors
<1>14. CASE Heartbeat
  BY <1>14 DEF Heartbeat, HeartbeatTick, HeartbeatWrites, HeartbeatStops, localVars
<1>15. CASE ConnectionLost \/ CancelContext
  BY <1>15 DEF ConnectionLost, CancelContext, localVars
<1>16. CASE UNCHANGED vars
  BY <1>16 DEF vars, localVars
<1>17. QED
  BY <1>1, <1>2, <1>3, <1>4, <1>5, <1>6, <1>7, <1>8, <1>9, <1>10, <1>11, <1>12,
     <1>13, <1>14, <1>15, <1>16 DEF Next, Handler

\* Types of the flags.
LEMMA FlagTypesKept == FlagTypes /\ [Next]_vars => FlagTypes'
<1> SUFFICES ASSUME FlagTypes, [Next]_vars PROVE FlagTypes'
  OBVIOUS
<1> USE DEF FlagTypes, clientVars, envVars
<1>1. CASE Begin
  BY <1>1 DEF Begin
<1>2. CASE TryModel
  BY <1>2 DEF TryModel, Return
<1>3. ASSUME NEW err \in Errors, ConnectFails(err) PROVE FlagTypes'
  BY <1>3 DEF ConnectFails, AfterError, NextModel, Return, Errors
<1>4. CASE AllFailed
  BY <1>4, WritesOnlyTear DEF AllFailed, Return
<1>5. CASE ProxyStarts
  BY <1>5, WritesOnlyTear DEF ProxyStarts
<1>6. CASE ProxyEvent
  BY <1>6, WritesOnlyTear DEF ProxyEvent, localVars
<1>7. CASE ProxyEnds
  BY <1>7, WritesOnlyTear DEF ProxyEnds, Return
<1>8. CASE ProxyLosesClient
  BY <1>8 DEF ProxyLosesClient, Return
<1>9. CASE CopyStarts
  BY <1>9 DEF CopyStarts
<1>10. CASE CopyPart
  BY <1>10, WritesOnlyTear DEF CopyPart, localVars
<1>11. CASE CopyEvent
  BY <1>11, WritesOnlyTear DEF CopyEvent
<1>12. CASE CopyEnds
  BY <1>12 DEF CopyEnds, Return
<1>13. CASE CopyBreaks
  BY <1>13 DEF CopyBreaks, AfterError, NextModel, Return, Errors
<1>14. CASE Heartbeat
  BY <1>14 DEF Heartbeat, HeartbeatTick, HeartbeatWrites, HeartbeatStops, localVars
<1>15. CASE ConnectionLost \/ CancelContext
  BY <1>15 DEF ConnectionLost, CancelContext, localVars
<1>16. CASE UNCHANGED vars
  BY <1>16 DEF vars, localVars
<1>17. QED
  BY <1>1, <1>2, <1>3, <1>4, <1>5, <1>6, <1>7, <1>8, <1>9, <1>10, <1>11, <1>12,
     <1>13, <1>14, <1>15, <1>16 DEF Next, Handler

\* Types of the request's steps.
LEMMA StepTypesKept == StepTypes /\ [Next]_vars => StepTypes'
<1> SUFFICES ASSUME StepTypes, [Next]_vars PROVE StepTypes'
  OBVIOUS
<1> USE DEF StepTypes, clientVars, envVars
<1>1. CASE Begin
  BY <1>1 DEF Begin
<1>2. CASE TryModel
  BY <1>2 DEF TryModel, Return
<1>3. ASSUME NEW err \in Errors, ConnectFails(err) PROVE StepTypes'
  BY <1>3 DEF ConnectFails, AfterError, NextModel, Return, Errors
<1>4. CASE AllFailed
  BY <1>4, WritesOnlyTear DEF AllFailed, Return
<1>5. CASE ProxyStarts
  BY <1>5, WritesOnlyTear DEF ProxyStarts
<1>6. CASE ProxyEvent
  BY <1>6, WritesOnlyTear DEF ProxyEvent, localVars
<1>7. CASE ProxyEnds
  BY <1>7, WritesOnlyTear DEF ProxyEnds, Return
<1>8. CASE ProxyLosesClient
  BY <1>8 DEF ProxyLosesClient, Return
<1>9. CASE CopyStarts
  BY <1>9 DEF CopyStarts
<1>10. CASE CopyPart
  BY <1>10, WritesOnlyTear DEF CopyPart, localVars
<1>11. CASE CopyEvent
  BY <1>11, WritesOnlyTear DEF CopyEvent
<1>12. CASE CopyEnds
  BY <1>12 DEF CopyEnds, Return
<1>13. CASE CopyBreaks
  BY <1>13 DEF CopyBreaks, AfterError, NextModel, Return, Errors
<1>14. CASE Heartbeat
  BY <1>14 DEF Heartbeat, HeartbeatTick, HeartbeatWrites, HeartbeatStops, localVars
<1>15. CASE ConnectionLost \/ CancelContext
  BY <1>15 DEF ConnectionLost, CancelContext, localVars
<1>16. CASE UNCHANGED vars
  BY <1>16 DEF vars, localVars
<1>17. QED
  BY <1>1, <1>2, <1>3, <1>4, <1>5, <1>6, <1>7, <1>8, <1>9, <1>10, <1>11, <1>12,
     <1>13, <1>14, <1>15, <1>16 DEF Next, Handler

\* Types of the history.
LEMMA HistoryTypesKept == HistoryTypes /\ [Next]_vars => HistoryTypes'
<1> SUFFICES ASSUME HistoryTypes, [Next]_vars PROVE HistoryTypes'
  OBVIOUS
<1> USE DEF HistoryTypes, Faults, clientVars, envVars
<1>1. CASE Begin
  BY <1>1 DEF Begin
<1>2. CASE TryModel
  BY <1>2 DEF TryModel, Return
<1>3. ASSUME NEW err \in Errors, ConnectFails(err) PROVE HistoryTypes'
  BY <1>3 DEF ConnectFails, AfterError, NextModel, Return, Errors
<1>4. CASE AllFailed
  BY <1>4, WritesOnlyTear DEF AllFailed, Return
<1>5. CASE ProxyStarts
  BY <1>5, WritesOnlyTear DEF ProxyStarts
<1>6. CASE ProxyEvent
  BY <1>6, WritesOnlyTear DEF ProxyEvent, localVars
<1>7. CASE ProxyEnds
  BY <1>7, WritesOnlyTear DEF ProxyEnds, Return
<1>8. CASE ProxyLosesClient
  BY <1>8 DEF ProxyLosesClient, Return
<1>9. CASE CopyStarts
  BY <1>9 DEF CopyStarts
<1>10. CASE CopyPart
  BY <1>10, WritesOnlyTear DEF CopyPart, localVars
<1>11. CASE CopyEvent
  BY <1>11, WritesOnlyTear DEF CopyEvent
<1>12. CASE CopyEnds
  BY <1>12 DEF CopyEnds, Return
<1>13. CASE CopyBreaks
  BY <1>13 DEF CopyBreaks, AfterError, NextModel, Return, Errors
<1>14. CASE Heartbeat
  BY <1>14 DEF Heartbeat, HeartbeatTick, HeartbeatWrites, HeartbeatStops, localVars
<1>15. CASE ConnectionLost \/ CancelContext
  BY <1>15 DEF ConnectionLost, CancelContext, localVars
<1>16. CASE UNCHANGED vars
  BY <1>16 DEF vars, localVars
<1>17. QED
  BY <1>1, <1>2, <1>3, <1>4, <1>5, <1>6, <1>7, <1>8, <1>9, <1>10, <1>11, <1>12,
     <1>13, <1>14, <1>15, <1>16 DEF Next, Handler

\* A message is only started by an attempt whose model has not started one.
LEMMA StartsStayBounded == LoopTypes /\ StartsBounded /\ [Next]_vars => StartsBounded'
<1> SUFFICES ASSUME LoopTypes, StartsBounded, [Next]_vars PROVE StartsBounded'
  OBVIOUS
<1>0. Len(chain) \in Nat \ {0} /\ pos \in Nat \ {0} /\ starts \in Nat
  BY ChainLength
<1> USE <1>0 DEF LoopTypes, StartsBounded, clientVars, envVars
<1>1. CASE Begin
  BY <1>1 DEF Begin
<1>2. CASE TryModel
  BY <1>2 DEF TryModel, Return
<1>3. ASSUME NEW err \in Errors, ConnectFails(err) PROVE StartsBounded'
  BY <1>3 DEF ConnectFails, AfterError, NextModel, Return, Errors
<1>4. CASE AllFailed
  BY <1>4, WritesOnlyTear DEF AllFailed, Return
<1>5. CASE ProxyStarts
  BY <1>5, WritesOnlyTear DEF ProxyStarts
<1>6. CASE ProxyEvent
  BY <1>6, WritesOnlyTear DEF ProxyEvent, localVars
<1>7. CASE ProxyEnds
  BY <1>7, WritesOnlyTear DEF ProxyEnds, Return
<1>8. CASE ProxyLosesClient
  BY <1>8 DEF ProxyLosesClient, Return
<1>9. CASE CopyStarts
  BY <1>9 DEF CopyStarts
<1>10. CASE CopyPart
  BY <1>10, WritesOnlyTear DEF CopyPart, localVars
<1>11. CASE CopyEvent
  BY <1>11, WritesOnlyTear DEF CopyEvent
<1>12. CASE CopyEnds
  BY <1>12 DEF CopyEnds, Return
<1>13. CASE CopyBreaks
  BY <1>13 DEF CopyBreaks, AfterError, NextModel, Return, Errors
<1>14. CASE Heartbeat
  BY <1>14 DEF Heartbeat, HeartbeatTick, HeartbeatWrites, HeartbeatStops, localVars
<1>15. CASE ConnectionLost \/ CancelContext
  BY <1>15 DEF ConnectionLost, CancelContext, localVars
<1>16. CASE UNCHANGED vars
  BY <1>16 DEF vars, localVars
<1>17. QED
  BY <1>1, <1>2, <1>3, <1>4, <1>5, <1>6, <1>7, <1>8, <1>9, <1>10, <1>11, <1>12,
     <1>13, <1>14, <1>15, <1>16 DEF Next, Handler

\* Without a broken copy the loop goes on with nothing sent, and what an attempt
\* starts is terminated before the handler returns.
LEMMA CleanStays ==
    /\ LoopTypes /\ FlagTypes /\ StepTypes /\ HistoryTypes
    /\ CleanSoFar /\ ErrorsNoted /\ [Next]_vars
    => CleanSoFar'
<1> SUFFICES ASSUME LoopTypes, FlagTypes, StepTypes, HistoryTypes,
                    CleanSoFar, ErrorsNoted, [Next]_vars
              PROVE CleanSoFar'
  OBVIOUS
<1>0. Len(chain) \in Nat \ {0} /\ pos \in Nat \ {0} /\ starts \in Nat
  BY ChainLength
<1> USE <1>0 DEF LoopTypes, FlagTypes, StepTypes, HistoryTypes, CleanSoFar,
                     ErrorsNoted, clientVars, envVars
<1>1. CASE Begin
  BY <1>1 DEF Begin
<1>2. CASE TryModel
  BY <1>2 DEF TryModel, Return
<1>3. ASSUME NEW err \in Errors, ConnectFails(err) PROVE CleanSoFar'
  BY <1>3 DEF ConnectFails, AfterError, NextModel, Return, Errors
<1>4. CASE AllFailed
  BY <1>4, WritesOnlyTear DEF AllFailed, Return
<1>5. CASE ProxyStarts
  BY <1>5, WritesOnlyTear DEF ProxyStarts
<1>6. CASE ProxyEvent
  BY <1>6, WritesOnlyTear DEF ProxyEvent, localVars
<1>7. CASE ProxyEnds
  BY <1>7, WritesOnlyTear DEF ProxyEnds, Return
<1>8. CASE ProxyLosesClient
  BY <1>8 DEF ProxyLosesClient, Return
<1>9. CASE CopyStarts
  BY <1>9 DEF CopyStarts
<1>10. CASE CopyPart
  BY <1>10, WritesOnlyTear DEF CopyPart, localVars
<1>11. CASE CopyEvent
  BY <1>11, WritesOnlyTear DEF CopyEvent
<1>12. CASE CopyEnds
  BY <1>12 DEF CopyEnds, Return
<1>13. CASE CopyBreaks
  BY <1>13 DEF CopyBreaks, AfterError, NextModel, Return, Errors
<1>14. CASE Heartbeat
  BY <1>14 DEF Heartbeat, HeartbeatTick, HeartbeatWrites, HeartbeatStops, localVars
<1>15. CASE ConnectionLost \/ CancelContext
  BY <1>15 DEF ConnectionLost, CancelContext, localVars
<1>16. CASE UNCHANGED vars
  BY <1>16 DEF vars, localVars
<1>17. QED
  BY <1>1, <1>2, <1>3, <1>4, <1>5, <1>6, <1>7, <1>8, <1>9, <1>10, <1>11, <1>12,
     <1>13, <1>14, <1>15, <1>16 DEF Next, Handler

\* rateLimitStreamErr is kept by every later error, and read once, at the end.
LEMMA ErrorsStayNoted ==
    LoopTypes /\ FlagTypes /\ StepTypes /\ HistoryTypes /\ ErrorsNoted /\ [Next]_vars
        => ErrorsNoted'
<1> SUFFICES ASSUME LoopTypes, FlagTypes, StepTypes, HistoryTypes, ErrorsNoted, [Next]_vars
              PROVE ErrorsNoted'
  OBVIOUS
<1>0. Len(chain) \in Nat \ {0} /\ pos \in Nat \ {0} /\ starts \in Nat
  BY ChainLength
<1> USE <1>0 DEF LoopTypes, FlagTypes, StepTypes, HistoryTypes, ErrorsNoted,
                     clientVars, envVars
<1>1. CASE Begin
  BY <1>1 DEF Begin
<1>2. CASE TryModel
  BY <1>2 DEF TryModel, Return
<1>3. ASSUME NEW err \in Errors, ConnectFails(err) PROVE ErrorsNoted'
  <2>1. CASE ctxDone
    BY <1>3, <2>1 DEF ConnectFails, AfterError, Return
  <2>2. CASE ~ctxDone
    <3>1. NextModel(err) /\ UNCHANGED <<told, status>> /\ pc = "connecting"
      BY <1>3, <2>2 DEF ConnectFails, AfterError
    <3>2. rateLimitErr' <=> "rate_limited" \in answers'
      BY <3>1, Zenon DEF NextModel, ErrorsNoted
    <3>3. (told # "none") = FALSE /\ status # 0
      BY <3>1 DEF ErrorsNoted
    <3>4. QED
      BY <3>1, <3>2, <3>3 DEF NextModel, ErrorsNoted
  <2>3. QED
    BY <2>1, <2>2
<1>4. CASE AllFailed
  BY <1>4, WritesOnlyTear DEF AllFailed, Return
<1>5. CASE ProxyStarts
  BY <1>5, WritesOnlyTear DEF ProxyStarts
<1>6. CASE ProxyEvent
  BY <1>6, WritesOnlyTear DEF ProxyEvent, localVars
<1>7. CASE ProxyEnds
  BY <1>7, WritesOnlyTear DEF ProxyEnds, Return
<1>8. CASE ProxyLosesClient
  BY <1>8 DEF ProxyLosesClient, Return
<1>9. CASE CopyStarts
  BY <1>9 DEF CopyStarts
<1>10. CASE CopyPart
  BY <1>10, WritesOnlyTear DEF CopyPart, localVars
<1>11. CASE CopyEvent
  BY <1>11, WritesOnlyTear DEF CopyEvent
<1>12. CASE CopyEnds
  BY <1>12 DEF CopyEnds, Return
<1>13. CASE CopyBreaks
  BY <1>13 DEF CopyBreaks, AfterError, NextModel, Return, Errors
<1>14. CASE Heartbeat
  BY <1>14 DEF Heartbeat, HeartbeatTick, HeartbeatWrites, HeartbeatStops, localVars
<1>15. CASE ConnectionLost \/ CancelContext
  BY <1>15 DEF ConnectionLost, CancelContext, localVars
<1>16. CASE UNCHANGED vars
  BY <1>16 DEF vars, localVars
<1>17. QED
  BY <1>1, <1>2, <1>3, <1>4, <1>5, <1>6, <1>7, <1>8, <1>9, <1>10, <1>11, <1>12,
     <1>13, <1>14, <1>15, <1>16 DEF Next, Handler

\* The context outlives the handler unless the client leaves.
LEMMA EndsStayKnown ==
    LoopTypes /\ FlagTypes /\ StepTypes /\ HistoryTypes /\ EndsKnown /\ [Next]_vars
        => EndsKnown'
<1> SUFFICES ASSUME LoopTypes, FlagTypes, StepTypes, HistoryTypes, EndsKnown, [Next]_vars
              PROVE EndsKnown'
  OBVIOUS
<1>0. Len(chain) \in Nat \ {0} /\ pos \in Nat \ {0} /\ starts \in Nat
  BY ChainLength
<1> USE <1>0 DEF LoopTypes, FlagTypes, StepTypes, HistoryTypes, EndsKnown, clientVars,
                     envVars
<1>1. CASE Begin
  BY <1>1 DEF Begin
<1>2. CASE TryModel
  BY <1>2 DEF TryModel, Return
<1>3. ASSUME NEW err \in Errors, ConnectFails(err) PROVE EndsKnown'
  BY <1>3 DEF ConnectFails, AfterError, NextModel, Return, Errors
<1>4. CASE AllFailed
  BY <1>4, WritesOnlyTear DEF AllFailed, Return
<1>5. CASE ProxyStarts
  BY <1>5, WritesOnlyTear DEF ProxyStarts
<1>6. CASE ProxyEvent
  BY <1>6, WritesOnlyTear DEF ProxyEvent, localVars
<1>7. CASE ProxyEnds
  BY <1>7, WritesOnlyTear DEF ProxyEnds, Return
<1>8. CASE ProxyLosesClient
  BY <1>8 DEF ProxyLosesClient, Return
<1>9. CASE CopyStarts
  BY <1>9 DEF CopyStarts
<1>10. CASE CopyPart
  BY <1>10, WritesOnlyTear DEF CopyPart, localVars
<1>11. CASE CopyEvent
  BY <1>11, WritesOnlyTear DEF CopyEvent
<1>12. CASE CopyEnds
  BY <1>12 DEF CopyEnds, Return
<1>13. CASE CopyBreaks
  BY <1>13 DEF CopyBreaks, AfterError, NextModel, Return, Errors
<1>14. CASE Heartbeat
  BY <1>14 DEF Heartbeat, HeartbeatTick, HeartbeatWrites, HeartbeatStops, localVars
<1>15. CASE ConnectionLost \/ CancelContext
  BY <1>15 DEF ConnectionLost, CancelContext, localVars
<1>16. CASE UNCHANGED vars
  BY <1>16 DEF vars, localVars
<1>17. QED
  BY <1>1, <1>2, <1>3, <1>4, <1>5, <1>6, <1>7, <1>8, <1>9, <1>10, <1>11, <1>12,
     <1>13, <1>14, <1>15, <1>16 DEF Next, Handler

\* Each way to return leaves a complete message, an error event, a client that is
\* gone or a fault.
LEMMA ClientStaysTold ==
    /\ LoopTypes /\ FlagTypes /\ StepTypes /\ HistoryTypes
    /\ ErrorsNoted /\ EndsKnown /\ ClientTold /\ [Next]_vars
    => ClientTold'
<1> SUFFICES ASSUME LoopTypes, FlagTypes, StepTypes, HistoryTypes,
                    ErrorsNoted, EndsKnown, ClientTold, [Next]_vars
              PROVE ClientTold'
  OBVIOUS
<1>0. Len(chain) \in Nat \ {0} /\ pos \in Nat \ {0} /\ starts \in Nat
  BY ChainLength
<1> USE <1>0 DEF LoopTypes, FlagTypes, StepTypes, HistoryTypes, ErrorsNoted, EndsKnown,
                     ClientTold, clientVars, envVars
<1>1. CASE Begin
  BY <1>1 DEF Begin
<1>2. CASE TryModel
  BY <1>2 DEF TryModel, Return
<1>3. ASSUME NEW err \in Errors, ConnectFails(err) PROVE ClientTold'
  BY <1>3 DEF ConnectFails, AfterError, NextModel, Return, Errors
<1>4. CASE AllFailed
  BY <1>4, WritesOnlyTear DEF AllFailed, Return
<1>5. CASE ProxyStarts
  BY <1>5, WritesOnlyTear DEF ProxyStarts
<1>6. CASE ProxyEvent
  BY <1>6, WritesOnlyTear DEF ProxyEvent, localVars
<1>7. CASE ProxyEnds
  BY <1>7, WritesOnlyTear DEF ProxyEnds, Return
<1>8. CASE ProxyLosesClient
  BY <1>8 DEF ProxyLosesClient, Return
<1>9. CASE CopyStarts
  BY <1>9 DEF CopyStarts
<1>10. CASE CopyPart
  BY <1>10, WritesOnlyTear DEF CopyPart, localVars
<1>11. CASE CopyEvent
  BY <1>11, WritesOnlyTear DEF CopyEvent
<1>12. CASE CopyEnds
  BY <1>12 DEF CopyEnds, Return
<1>13. CASE CopyBreaks
  BY <1>13 DEF CopyBreaks, AfterError, NextModel, Return, Errors
<1>14. CASE Heartbeat
  BY <1>14 DEF Heartbeat, HeartbeatTick, HeartbeatWrites, HeartbeatStops, localVars
<1>15. CASE ConnectionLost \/ CancelContext
  BY <1>15 DEF ConnectionLost, CancelContext, localVars
<1>16. CASE UNCHANGED vars
  BY <1>16 DEF vars, localVars
<1>17. QED
  BY <1>1, <1>2, <1>3, <1>4, <1>5, <1>6, <1>7, <1>8, <1>9, <1>10, <1>11, <1>12,
     <1>13, <1>14, <1>15, <1>16 DEF Next, Handler

LEMMA StreamingStep == StreamingInv /\ [Next]_vars => StreamingInv'
<1> SUFFICES ASSUME StreamingInv, [Next]_vars PROVE StreamingInv'
  OBVIOUS
<1>1. LoopTypes /\ FlagTypes /\ StepTypes /\ HistoryTypes
  BY TypeParts DEF StreamingInv
<1>2. LoopTypes' /\ FlagTypes' /\ StepTypes' /\ HistoryTypes'
  BY <1>1, LoopTypesKept, FlagTypesKept, StepTypesKept, HistoryTypesKept DEF StreamingInv
<1>3. TypeOK'
  BY <1>2 DEF TypeOK, LoopTypes, FlagTypes, StepTypes, HistoryTypes
<1>4. StartsBounded' /\ CleanSoFar' /\ ErrorsNoted' /\ EndsKnown' /\ ClientTold'
  BY <1>1, StartsStayBounded, CleanStays, ErrorsStayNoted, EndsStayKnown, ClientStaysTold
     DEF StreamingInv
<1>5. QED
  BY <1>3, <1>4 DEF StreamingInv

\* No step of the handler, the heartbeat or the client leaves the invariant.
THEOREM StreamingInvariant == Spec => []StreamingInv
BY StreamingInit, StreamingStep, PTL DEF Spec

(***************************************************************************)
(* Every variable of a streaming request keeps its type.                   *)
(***************************************************************************)
THEOREM StreamingTypes == Spec => []TypeOK
<1>1. StreamingInv => TypeOK
  BY DEF StreamingInv
<1>2. QED
  BY <1>1, StreamingInvariant, PTL

(***************************************************************************)
(* Only a copied stream that breaks under way can make a response hold a   *)
(* second message, or an error after a complete one (messages.go:348-357), *)
(* for chains of any length.                                               *)
(***************************************************************************)
THEOREM OneMessageOnly == Spec => []OneMessage
<1>1. StreamingInv => OneMessage
  <2> SUFFICES ASSUME StreamingInv, "broken" \notin faults
               PROVE  ~(starts > 1) /\ ~(message = "complete" /\ told # "none")
    BY DEF OneMessage
  <2>1. starts \in Nat
    BY ChainLength, TypeParts DEF StreamingInv
  <2>2. QED
    BY <2>1 DEF StreamingInv, TypeOK, CleanSoFar
<1>2. QED
  BY <1>1, StreamingInvariant, PTL

(***************************************************************************)
(* A client that stays gets a complete message or an error event, unless a *)
(* copy was cut without an error or an event was torn.                     *)
(***************************************************************************)
THEOREM ClientIsTold == Spec => []ClientTold
<1>1. StreamingInv => ClientTold
  BY DEF StreamingInv
<1>2. QED
  BY <1>1, StreamingInvariant, PTL

(***************************************************************************)
(* The error event names the quota exactly when some model answered 429.   *)
(***************************************************************************)
THEOREM QuotaIsTold == Spec => []QuotaTold
<1>1. StreamingInv => QuotaTold
  BY DEF StreamingInv, ErrorsNoted, QuotaTold
<1>2. QED
  BY <1>1, StreamingInvariant, PTL
=============================================================================
