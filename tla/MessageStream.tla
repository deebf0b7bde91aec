--------------------------- MODULE MessageStream ---------------------------
(***************************************************************************)
(* What a client of the Anthropic Messages API may receive on one stream:  *)
(* the order of events that internal/transformer/stream.go promises.  The  *)
(* API itself is not part of the repository; this is the use stream.go     *)
(* makes of its events (the types of pkg/types/anthropic.go).              *)
(*                                                                         *)
(* A message is a message_start, content blocks, one message_delta with    *)
(* the stop reason, and message_stop.  A block is started once, under an   *)
(* index no block before it had, extended, and stopped once.  Text and     *)
(* thinking blocks stand alone; tool_use blocks may overlap one another,   *)
(* as parallel tool calls do.                                              *)
(***************************************************************************)
EXTENDS Integers

VARIABLES
    phase,      \* "idle", "open", "ended" after the stop reason, "stopped"
    blocks,     \* the blocks started and not stopped, as [index, kind]
    lastIndex,  \* the largest index used, -1 before the first
    extended    \* how many deltas each block has got, for those that have any

vars == <<phase, blocks, lastIndex, extended>>

Kinds == {"text", "thinking", "tool_use"}

TypeOK ==
    /\ phase \in {"idle", "open", "ended", "stopped"}
    /\ \A b \in blocks : b.index \in 0..lastIndex /\ b.kind \in Kinds
    /\ lastIndex \in Nat \cup {-1}
    /\ \A b \in DOMAIN extended : b.index \in 0..lastIndex /\ extended[b] \in Nat \ {0}

Init ==
    /\ phase = "idle"
    /\ blocks = {}
    /\ lastIndex = -1
    /\ extended = [b \in {} |-> 0]

MessageStart ==
    /\ phase = "idle"
    /\ phase' = "open"
    /\ UNCHANGED <<blocks, lastIndex, extended>>

BlockStart(i, kind) ==
    /\ phase = "open"
    /\ i > lastIndex
    /\ \A b \in blocks : kind = "tool_use" /\ b.kind = "tool_use"
    /\ blocks' = blocks \cup {[index |-> i, kind |-> kind]}
    /\ lastIndex' = i
    /\ UNCHANGED <<phase, extended>>

BlockDelta(b) ==
    /\ b \in blocks
    /\ extended' = [d \in DOMAIN extended \cup {b} |->
                       (IF d \in DOMAIN extended THEN extended[d] ELSE 0)
                           + (IF d = b THEN 1 ELSE 0)]
    /\ UNCHANGED <<phase, blocks, lastIndex>>

BlockStop(b) ==
    /\ b \in blocks
    /\ blocks' = blocks \ {b}
    /\ UNCHANGED <<phase, lastIndex, extended>>

\* The stop reason.  Usage may follow in another message_delta: a stutter.
MessageDelta ==
    /\ phase = "open"
    /\ blocks = {}
    /\ phase' = "ended"
    /\ UNCHANGED <<blocks, lastIndex, extended>>

MessageStop ==
    /\ phase = "ended"
    /\ phase' = "stopped"
    /\ UNCHANGED <<blocks, lastIndex, extended>>

Next ==
    \/ MessageStart
    \/ \E i \in (lastIndex + 1)..(lastIndex + 2), kind \in Kinds : BlockStart(i, kind)
    \/ \E b \in blocks : BlockDelta(b) \/ BlockStop(b)
    \/ MessageDelta
    \/ MessageStop

Spec == Init /\ [][Next]_vars
=============================================================================
