---------------------- MODULE StreamTransformerProofs ----------------------
(***************************************************************************)
(* What ProxyStream sends is an Anthropic message stream, complete and     *)
(* closed, for any kinds of upstream that keep text and tool calls apart   *)
(* and answers of any length.                                              *)
(*                                                                         *)
(* The proof is about one sequence, the events sent and those a handler    *)
(* has yet to write: every handler of StreamTransformer appends events     *)
(* that may follow it, and a write moves the boundary within it.           *)
(***************************************************************************)
EXTENDS StreamTransformer, FiniteSetTheorems, FunctionTheorems, SequenceTheorems, TLAPS

Kinds == {"text", "thinking", "tool_use"}

Event ==
    [type : {"message_start", "message_stop"}]
    \cup [type : {"content_block_start"}, index : Nat, kind : Kinds]
    \cup [type : {"content_block_delta"}, index : Nat, kind : Kinds, intact : BOOLEAN]
    \cup [type : {"content_block_stop"}, index : Nat]
    \cup [type : {"message_delta"}, reason : {"end_turn", "max_tokens", "tool_use", "none"}]

\* m is the largest index used, -1 when there is none.
LastIs(events, m) ==
    IF UsedIndexes(events) = {} THEN m = -1
    ELSE m \in UsedIndexes(events) /\ \A i \in UsedIndexes(events) : i <= m

\* The event e may follow the events p: as MessageStream has it.
Allowed(p, e) ==
    /\ e.type = "message_start" <=> p = <<>>
    /\ e.type = "content_block_start" =>
          /\ Phase(p) = "open"
          /\ \E m \in Nat \cup {-1} : LastIs(p, m) /\ e.index \in (m + 1)..(m + 2)
          /\ \A b \in OpenBlocks(p) : e.kind = "tool_use" /\ b.kind = "tool_use"
    /\ e.type = "content_block_stop" =>
          \E b \in OpenBlocks(p) : \A d \in OpenBlocks(p) : d.index = e.index <=> d = b
    /\ e.type = "content_block_delta" => BlockOf(e) \in OpenBlocks(p)
    /\ e.type = "message_delta" =>
          e.reason = "none" \/ (Phase(p) = "open" /\ OpenBlocks(p) = {})
    /\ e.type = "message_stop" => Phase(p) = "ended"

WellFormed(events) ==
    \A n \in 1..Len(events) : Allowed(SubSeq(events, 1, n - 1), events[n])

-----------------------------------------------------------------------------
(* Sequences of events *)

LEMMA EventFields ==
    ASSUME NEW e \in Event
    PROVE  /\ e.type \in {"message_start", "message_stop", "content_block_start",
                          "content_block_delta", "content_block_stop", "message_delta"}
           /\ e.type = "content_block_start" => e.index \in Nat /\ e.kind \in Kinds
           /\ e.type = "content_block_delta" => e.index \in Nat /\ e.kind \in Kinds
           /\ e.type = "content_block_stop" => e.index \in Nat
           /\ e.type = "message_delta" =>
                 e.reason \in {"end_turn", "max_tokens", "tool_use", "none"}
BY DEF Event

LEMMA Appended ==
    ASSUME NEW p \in Seq(Event), NEW e \in Event
    PROVE  /\ Append(p, e) \in Seq(Event)
           /\ Len(Append(p, e)) = Len(p) + 1
           /\ Len(p) \in Nat
           /\ Append(p, e)[Len(p) + 1] = e
           /\ \A n \in 1..Len(p) : Append(p, e)[n] = p[n]
           /\ Append(p, e) # <<>>
OBVIOUS

LEMMA PlacesAppended ==
    ASSUME NEW p \in Seq(Event), NEW e \in Event, NEW type
    PROVE  Places(Append(p, e), type) =
               Places(p, type) \cup (IF e.type = type THEN {Len(p) + 1} ELSE {})
BY Appended DEF Places

LEMMA PlacesFacts ==
    ASSUME NEW p \in Seq(Event), NEW type
    PROVE  /\ Places(p, type) \subseteq 1..Len(p)
           /\ IsFiniteSet(Places(p, type))
           /\ \A n \in Places(p, type) : p[n] \in Event /\ p[n].type = type
<1>1. Places(p, type) \subseteq 1..Len(p) /\ Len(p) \in Nat
  BY DEF Places
<1>2. IsFiniteSet(Places(p, type))
  <2>1. IsFiniteSet(1..Len(p))
    BY <1>1, FS_Interval
  <2>2. QED
    BY <1>1, <2>1, FS_Subset
<1>3. QED
  BY <1>1, <1>2 DEF Places

LEMMA UsedAppended ==
    ASSUME NEW p \in Seq(Event), NEW e \in Event
    PROVE  UsedIndexes(Append(p, e)) =
               UsedIndexes(p) \cup (IF e.type = "content_block_start" THEN {e.index} ELSE {})
BY Appended, PlacesAppended, PlacesFacts DEF UsedIndexes

LEMMA ReasonsAppended ==
    ASSUME NEW p \in Seq(Event), NEW e \in Event
    PROVE  StopReasons(Append(p, e)) =
               StopReasons(p) \cup (IF e.type = "message_delta" /\ e.reason # "none"
                                    THEN {Len(p) + 1} ELSE {})
BY Appended, PlacesAppended, PlacesFacts DEF StopReasons

LEMMA DeltasAppended ==
    ASSUME NEW p \in Seq(Event), NEW e \in Event, NEW kind
    PROVE  Deltas(Append(p, e), kind) =
               Deltas(p, kind) \cup (IF e.type = "content_block_delta" /\ e.kind = kind
                                     THEN {Len(p) + 1} ELSE {})
BY Appended, PlacesAppended, PlacesFacts DEF Deltas

\* The block that starts at n is not stopped again.
Unstopped(p, n) ==
    \A m \in Places(p, "content_block_stop") : m > n => p[m].index # p[n].index

LEMMA OpenIs ==
    ASSUME NEW p \in Seq(Event), NEW b
    PROVE  b \in OpenBlocks(p) <=>
               \E n \in Places(p, "content_block_start") :
                  b = BlockOf(p[n]) /\ Unstopped(p, n)
BY DEF OpenBlocks, Unstopped

LEMMA OpenFacts ==
    ASSUME NEW p \in Seq(Event), NEW b \in OpenBlocks(p)
    PROVE  b \in [index : Nat, kind : Kinds] /\ b.index \in UsedIndexes(p)
BY OpenIs, PlacesFacts, EventFields DEF UsedIndexes, BlockOf

LEMMA OpenAppended ==
    ASSUME NEW p \in Seq(Event), NEW e \in Event
    PROVE  /\ e.type = "content_block_start" =>
                 OpenBlocks(Append(p, e)) =
                     OpenBlocks(p) \cup {BlockOf(e)}
           /\ e.type = "content_block_stop" =>
                 OpenBlocks(Append(p, e)) = {b \in OpenBlocks(p) : b.index # e.index}
           /\ e.type \notin {"content_block_start", "content_block_stop"} =>
                 OpenBlocks(Append(p, e)) = OpenBlocks(p)
<1> DEFINE q == Append(p, e)
           starts == Places(p, "content_block_start")
           stops == Places(p, "content_block_stop")
<1>1. /\ q \in Seq(Event) /\ Len(p) \in Nat
      /\ q[Len(p) + 1] = e
      /\ \A n \in starts \cup stops : q[n] = p[n] /\ n \in 1..Len(p)
  BY Appended, PlacesFacts
<1>2. /\ Places(q, "content_block_start") =
             starts \cup (IF e.type = "content_block_start" THEN {Len(p) + 1} ELSE {})
      /\ Places(q, "content_block_stop") =
             stops \cup (IF e.type = "content_block_stop" THEN {Len(p) + 1} ELSE {})
  BY PlacesAppended
<1> HIDE DEF q, starts, stops
<1>3. ASSUME NEW n \in starts
      PROVE  Unstopped(q, n) <=>
                 /\ Unstopped(p, n)
                 /\ e.type = "content_block_stop" => e.index # p[n].index
  BY <1>1, <1>2 DEF Unstopped, stops
<1>4. e.type = "content_block_start" => Unstopped(q, Len(p) + 1)
  BY <1>1, <1>2 DEF Unstopped, stops
<1>5. CASE e.type = "content_block_start"
  <2>1. \A b : b \in OpenBlocks(q) <=>
                  b \in OpenBlocks(p) \/ b = BlockOf(e)
    BY <1>1, <1>2, <1>3, <1>4, <1>5, OpenIs DEF starts
  <2>2. QED
    BY <1>5, <2>1 DEF q
<1>6. CASE e.type = "content_block_stop"
  <2>1. \A b : b \in OpenBlocks(q) <=> b \in OpenBlocks(p) /\ b.index # e.index
    BY <1>1, <1>2, <1>3, <1>6, OpenIs DEF starts, BlockOf
  <2>2. QED
    BY <1>6, <2>1 DEF q
<1>7. CASE e.type \notin {"content_block_start", "content_block_stop"}
  <2>1. \A b : b \in OpenBlocks(q) <=> b \in OpenBlocks(p)
    BY <1>1, <1>2, <1>3, <1>7, OpenIs DEF starts
  <2>2. QED
    BY <1>7, <2>1 DEF q
<1>8. QED
  BY <1>5, <1>6, <1>7

LEMMA DeltasOfAppended ==
    ASSUME NEW p \in Seq(Event), NEW e \in Event, NEW b
    PROVE  DeltasOf(Append(p, e), b) =
               DeltasOf(p, b) \cup (IF e.type = "content_block_delta" /\ BlockOf(e) = b
                                    THEN {Len(p) + 1} ELSE {})
BY Appended, PlacesAppended, PlacesFacts DEF DeltasOf

LEMMA DeltasOfFacts ==
    ASSUME NEW p \in Seq(Event), NEW b
    PROVE  /\ IsFiniteSet(DeltasOf(p, b)) /\ Len(p) + 1 \notin DeltasOf(p, b)
           /\ Cardinality(DeltasOf(p, b)) \in Nat
           /\ b \in DOMAIN Extended(p) <=> DeltasOf(p, b) # {}
           /\ b \in DOMAIN Extended(p) => Extended(p)[b] = Cardinality(DeltasOf(p, b))
<1>1. /\ Places(p, "content_block_delta") \subseteq 1..Len(p) /\ Len(p) \in Nat
      /\ IsFiniteSet(Places(p, "content_block_delta"))
  BY PlacesFacts
<1>2. DeltasOf(p, b) \subseteq Places(p, "content_block_delta")
  BY DEF DeltasOf
<1>3. IsFiniteSet(DeltasOf(p, b)) /\ Cardinality(DeltasOf(p, b)) \in Nat
  BY <1>1, <1>2, FS_Subset, FS_CardinalityType
<1>4. Len(p) + 1 \notin DeltasOf(p, b)
  BY <1>1, <1>2
<1>5. /\ b \in DOMAIN Extended(p) <=> DeltasOf(p, b) # {}
      /\ b \in DOMAIN Extended(p) => Extended(p)[b] = Cardinality(DeltasOf(p, b))
  BY DEF Extended, DeltasOf
<1>6. QED
  BY <1>3, <1>4, <1>5

\* What a further event does to the blocks' numbers of deltas.
LEMMA ExtendedAppended ==
    ASSUME NEW p \in Seq(Event), NEW e \in Event
    PROVE  /\ e.type # "content_block_delta" => Extended(Append(p, e)) = Extended(p)
           /\ e.type = "content_block_delta" =>
                 Extended(Append(p, e)) =
                     [d \in DOMAIN Extended(p) \cup {BlockOf(e)} |->
                         (IF d \in DOMAIN Extended(p) THEN Extended(p)[d] ELSE 0)
                             + (IF d = BlockOf(e) THEN 1 ELSE 0)]
<1> DEFINE q == Append(p, e)
<1>1. q \in Seq(Event)
  BY Appended
<1>2. \A b : DeltasOf(q, b) =
                DeltasOf(p, b) \cup (IF e.type = "content_block_delta" /\ BlockOf(e) = b
                                     THEN {Len(p) + 1} ELSE {})
  BY DeltasOfAppended
<1> HIDE DEF q
<1>3. /\ Extended(p) = [d \in DOMAIN Extended(p) |-> Extended(p)[d]]
      /\ Extended(q) = [d \in DOMAIN Extended(q) |-> Extended(q)[d]]
  BY DEF Extended
<1>4. CASE e.type # "content_block_delta"
  <2>1. \A b : DeltasOf(q, b) = DeltasOf(p, b)
    BY <1>2, <1>4
  <2>2. \A b : b \in DOMAIN Extended(q) <=> b \in DOMAIN Extended(p)
    BY <1>1, <2>1, DeltasOfFacts
  <2>3. DOMAIN Extended(q) = DOMAIN Extended(p)
    BY <2>2
  <2>4. \A b \in DOMAIN Extended(q) : Extended(q)[b] = Extended(p)[b]
    BY <1>1, <2>1, <2>2, DeltasOfFacts
  <2>5. QED
    BY <1>3, <1>4, <2>3, <2>4 DEF q
<1>5. CASE e.type = "content_block_delta"
  <2> DEFINE c == BlockOf(e)
  <2>1. \A b : DeltasOf(q, b) = DeltasOf(p, b) \cup (IF c = b THEN {Len(p) + 1} ELSE {})
    BY <1>2, <1>5
  <2> HIDE DEF c
  <2>2. \A b : b \in DOMAIN Extended(q) <=> b \in DOMAIN Extended(p) \/ b = c
    BY <1>1, <2>1, DeltasOfFacts
  <2>3. DOMAIN Extended(q) = DOMAIN Extended(p) \cup {c}
    BY <2>2
  <2>4. ASSUME NEW b \in DOMAIN Extended(q)
        PROVE  Extended(q)[b] =
                   (IF b \in DOMAIN Extended(p) THEN Extended(p)[b] ELSE 0)
                       + (IF b = c THEN 1 ELSE 0)
    <3>1. Extended(q)[b] = Cardinality(DeltasOf(q, b))
      BY <1>1, DeltasOfFacts
    <3>2. Cardinality(DeltasOf(q, b)) =
              Cardinality(DeltasOf(p, b)) + (IF b = c THEN 1 ELSE 0)
      <4>1. CASE b = c
        <5>1. DeltasOf(q, b) = DeltasOf(p, b) \cup {Len(p) + 1}
          BY <2>1, <4>1
        <5>2. Cardinality(DeltasOf(p, b) \cup {Len(p) + 1}) = Cardinality(DeltasOf(p, b)) + 1
          BY DeltasOfFacts, FS_AddElement
        <5>3. (IF b = c THEN 1 ELSE 0) = 1
          BY <4>1
        <5>4. QED
          BY <5>1, <5>2, <5>3, Zenon
      <4>2. CASE b # c
        <5>1. DeltasOf(q, b) = DeltasOf(p, b) \cup {}
          BY <2>1, <4>2
        <5>2. DeltasOf(q, b) = DeltasOf(p, b)
          BY <5>1
        <5>3. Cardinality(DeltasOf(p, b)) \in Nat
          BY DeltasOfFacts
        <5>4. QED
          BY <4>2, <5>2, <5>3
      <4>3. QED
        BY <4>1, <4>2
    <3>3. Cardinality(DeltasOf(p, b)) =
              IF b \in DOMAIN Extended(p) THEN Extended(p)[b] ELSE 0
      BY DeltasOfFacts, FS_EmptySet
    <3>4. QED
      BY <3>1, <3>2, <3>3
  <2>5. QED
    BY <1>3, <1>5, <2>3, <2>4 DEF q, c
<1>6. QED
  BY <1>4, <1>5

\* The phase a client is in after one more event.
LEMMA PhaseAppended ==
    ASSUME NEW p \in Seq(Event), NEW e \in Event, Allowed(p, e)
    PROVE  Phase(Append(p, e)) =
               CASE e.type = "message_start" -> "open"
                 [] e.type = "message_stop" -> "stopped"
                 [] e.type = "message_delta" /\ e.reason # "none" -> "ended"
                 [] e.type \notin {"message_start", "message_stop"}
                       /\ ~(e.type = "message_delta" /\ e.reason # "none") -> Phase(p)
<1> DEFINE q == Append(p, e)
<1>1. /\ q # <<>> /\ Len(p) \in Nat
      /\ Places(q, "message_stop") =
             Places(p, "message_stop") \cup (IF e.type = "message_stop" THEN {Len(p) + 1} ELSE {})
      /\ StopReasons(q) =
             StopReasons(p) \cup (IF e.type = "message_delta" /\ e.reason # "none"
                                  THEN {Len(p) + 1} ELSE {})
  BY Appended, PlacesAppended, ReasonsAppended
<1>2. p = <<>> => Places(p, "message_stop") = {} /\ StopReasons(p) = {}
  BY DEF Places, StopReasons
<1>3. p = <<>> <=> e.type = "message_start"
  BY DEF Allowed
<1> HIDE DEF q
<1>4. CASE e.type = "message_start"
  BY <1>1, <1>2, <1>3, <1>4 DEF Phase, q
<1>5. CASE e.type = "message_stop"
  BY <1>1, <1>5 DEF Phase, q
<1>6. CASE e.type = "message_delta" /\ e.reason # "none"
  <2>1. Phase(p) = "open"
    BY <1>6 DEF Allowed
  <2>2. Places(p, "message_stop") = {}
    BY <2>1, <1>3, <1>6 DEF Phase
  <2>3. Phase(q) = "ended"
    BY <1>1, <1>6, <2>2 DEF Phase
  <2>4. QED
    BY <1>6, <2>3 DEF q
<1>7. CASE e.type \notin {"message_start", "message_stop"}
              /\ ~(e.type = "message_delta" /\ e.reason # "none")
  <2>1. Phase(q) = Phase(p)
    BY <1>1, <1>3, <1>7 DEF Phase
  <2>2. QED
    BY <1>7, <2>1 DEF q
<1>8. QED
  BY <1>4, <1>5, <1>6, <1>7

LEMMA LastIsLastIndex ==
    ASSUME NEW p \in Seq(Event), NEW m, LastIs(p, m)
    PROVE  LastIndex(p) = m
<1>1. UsedIndexes(p) \subseteq Nat
  BY PlacesFacts, EventFields DEF UsedIndexes
<1>2. CASE UsedIndexes(p) = {}
  BY <1>2 DEF LastIndex, LastIs
<1>3. CASE UsedIndexes(p) # {}
  <2>1. m \in UsedIndexes(p) /\ \A i \in UsedIndexes(p) : i <= m
    BY <1>3 DEF LastIs
  <2>2. \A k \in UsedIndexes(p) : (\A j \in UsedIndexes(p) : j <= k) => k = m
    BY <1>1, <2>1
  <2>3. (CHOOSE i \in UsedIndexes(p) : \A j \in UsedIndexes(p) : j <= i) = m
    BY <2>1, <2>2
  <2>4. QED
    BY <1>3, <2>3 DEF LastIndex
<1>4. QED
  BY <1>2, <1>3

LEMMA LastIsAppended ==
    ASSUME NEW p \in Seq(Event), NEW e \in Event, NEW m \in Nat \cup {-1}, LastIs(p, m)
    PROVE  /\ e.type # "content_block_start" => LastIs(Append(p, e), m)
           /\ e.type = "content_block_start" /\ e.index > m => LastIs(Append(p, e), e.index)
<1>1. UsedIndexes(p) \subseteq Nat
  BY PlacesFacts, EventFields DEF UsedIndexes
<1>2. CASE e.type # "content_block_start"
  BY <1>2, UsedAppended DEF LastIs
<1>3. CASE e.type = "content_block_start" /\ e.index > m
  <2>1. UsedIndexes(Append(p, e)) = UsedIndexes(p) \cup {e.index} /\ e.index \in Nat
    BY <1>3, UsedAppended, EventFields
  <2>2. \A i \in UsedIndexes(p) : i <= e.index
    BY <1>1, <1>3, <2>1 DEF LastIs
  <2>3. QED
    BY <1>3, <2>1, <2>2 DEF LastIs
<1>4. QED
  BY <1>2, <1>3

-----------------------------------------------------------------------------
(* Well-formed sequences of events *)

LEMMA WellFormedEmpty == <<>> \in Seq(Event) /\ WellFormed(<<>>)
BY DEF WellFormed

LEMMA WellFormedAppended ==
    ASSUME NEW p \in Seq(Event), NEW e \in Event, WellFormed(p), Allowed(p, e)
    PROVE  WellFormed(Append(p, e))
<1> DEFINE q == Append(p, e)
<1>1. /\ q \in Seq(Event) /\ Len(q) = Len(p) + 1 /\ Len(p) \in Nat
      /\ q[Len(p) + 1] = e /\ \A n \in 1..Len(p) : q[n] = p[n]
  BY Appended
<1> HIDE DEF q
<1>2. ASSUME NEW n \in 1..Len(q)
      PROVE  SubSeq(q, 1, n - 1) = SubSeq(p, 1, n - 1)
  BY <1>1
<1>3. SubSeq(p, 1, Len(p)) = p
  BY SubSeqFull
<1>4. ASSUME NEW n \in 1..Len(q)
      PROVE  Allowed(SubSeq(q, 1, n - 1), q[n])
  <2>1. CASE n \in 1..Len(p)
    BY <1>1, <1>2, <2>1 DEF WellFormed
  <2>2. CASE n = Len(p) + 1
    <3>1. n - 1 = Len(p)
      BY <1>1, <2>2
    <3>2. QED
      BY <1>1, <1>2, <1>3, <2>2, <3>1
  <2>3. QED
    BY <1>1, <2>1, <2>2
<1>5. QED
  BY <1>4 DEF WellFormed, q

\* What is next in a well-formed sequence is allowed where it stands.
LEMMA NextAllowed ==
    ASSUME NEW p \in Seq(Event), NEW o \in Seq(Event), o # <<>>, WellFormed(p \o o)
    PROVE  Allowed(p, Head(o))
<1> DEFINE q == p \o o
<1>1. /\ q \in Seq(Event) /\ Len(q) = Len(p) + Len(o)
      /\ Len(p) \in Nat /\ Len(o) \in Nat \ {0}
      /\ q[Len(p) + 1] = o[1] /\ \A n \in 1..Len(p) : q[n] = p[n]
  BY EmptySeq, LenProperties, ConcatProperties
<1> HIDE DEF q
<1>2. SubSeq(q, 1, Len(p)) = p
  BY <1>1
<1>3. Allowed(SubSeq(q, 1, (Len(p) + 1) - 1), q[Len(p) + 1])
  BY <1>1 DEF WellFormed, q
<1>4. (Len(p) + 1) - 1 = Len(p) /\ Head(o) = o[1]
  BY <1>1
<1>5. QED
  BY <1>1, <1>2, <1>3, <1>4

LEMMA WriteMoves ==
    ASSUME NEW p \in Seq(Event), NEW o \in Seq(Event), o # <<>>
    PROVE  /\ Head(o) \in Event /\ Tail(o) \in Seq(Event)
           /\ Append(p, Head(o)) \o Tail(o) = p \o o
<1> DEFINE a == Append(p, Head(o))
           t == Tail(o)
<1>1. /\ Head(o) \in Event /\ t \in Seq(Event) /\ Len(t) = Len(o) - 1
      /\ \A i \in 1..Len(t) : t[i] = o[i + 1]
  BY HeadTailProperties
<1>2. Len(o) \in Nat \ {0} /\ Len(p) \in Nat /\ Head(o) = o[1]
  BY EmptySeq, LenProperties
<1>3. /\ a \in Seq(Event) /\ Len(a) = Len(p) + 1
      /\ a[Len(p) + 1] = o[1] /\ \A n \in 1..Len(p) : a[n] = p[n]
  BY <1>1, <1>2, Appended
<1> HIDE DEF a, t
<1>4. /\ a \o t \in Seq(Event)
      /\ Len(a \o t) = Len(a) + Len(t)
      /\ \A i \in 1..(Len(a) + Len(t)) :
            (a \o t)[i] = IF i <= Len(a) THEN a[i] ELSE t[i - Len(a)]
  BY <1>1, <1>3, ConcatProperties
<1>5. /\ p \o o \in Seq(Event)
      /\ Len(p \o o) = Len(p) + Len(o)
      /\ \A i \in 1..(Len(p) + Len(o)) :
            (p \o o)[i] = IF i <= Len(p) THEN p[i] ELSE o[i - Len(p)]
  BY ConcatProperties
<1>6. Len(a) + Len(t) = Len(p) + Len(o)
  BY <1>1, <1>2, <1>3
<1>7. ASSUME NEW i \in 1..(Len(p) + Len(o))
      PROVE  (a \o t)[i] = (p \o o)[i]
  <2>1. CASE i <= Len(p)
    BY <1>2, <1>3, <1>4, <1>5, <1>6, <2>1
  <2>2. CASE i = Len(p) + 1
    BY <1>2, <1>3, <1>4, <1>5, <1>6, <2>2
  <2>3. CASE i > Len(p) + 1
    <3>1. i - Len(a) \in 1..Len(t) /\ (i - Len(a)) + 1 = i - Len(p)
      BY <1>1, <1>2, <1>3, <2>3
    <3>2. t[i - Len(a)] = o[i - Len(p)]
      BY <1>1, <3>1
    <3>3. QED
      BY <1>2, <1>3, <1>4, <1>5, <1>6, <2>3, <3>2
  <2>4. i <= Len(p) \/ i = Len(p) + 1 \/ i > Len(p) + 1
    BY <1>2
  <2>5. QED
    BY <2>1, <2>2, <2>3, <2>4
<1>8. a \o t = p \o o
  BY <1>4, <1>5, <1>6, <1>7, SeqEqual
<1>9. QED
  BY <1>1, <1>8 DEF a, t

-----------------------------------------------------------------------------
(* The abstract stream *)

\* An event that may follow those the client has is a step of MessageStream.
LEMMA WriteRefines ==
    ASSUME sent \in Seq(Event), NEW e \in Event, sent' = Append(sent, e), Allowed(sent, e)
    PROVE  [Client!Next]_(Client!vars)
<1>1. /\ e.type \in {"message_start", "message_stop", "content_block_start",
                     "content_block_delta", "content_block_stop", "message_delta"}
      /\ e.type = "content_block_start" => e.index \in Nat /\ e.kind \in Kinds
  BY EventFields
<1>2. /\ Phase(sent)' = Phase(Append(sent, e))
      /\ OpenBlocks(sent)' = OpenBlocks(Append(sent, e))
      /\ LastIndex(sent)' = LastIndex(Append(sent, e))
      /\ Extended(sent)' = Extended(Append(sent, e))
  BY DEF Phase, OpenBlocks, LastIndex, UsedIndexes, Places, StopReasons, Extended, DeltasOf,
         BlockOf
<1>3. /\ e.type # "content_block_start" => LastIndex(sent)' = LastIndex(sent)
      /\ e.type # "content_block_delta" => Extended(sent)' = Extended(sent)
  <2>0. e.type # "content_block_delta" => Extended(sent)' = Extended(sent)
    BY <1>2, ExtendedAppended
  <2>1. SUFFICES ASSUME e.type # "content_block_start"
                 PROVE  LastIndex(Append(sent, e)) = LastIndex(sent)
    BY <1>2, <2>0
  <2>2. UsedIndexes(Append(sent, e)) = UsedIndexes(sent)
    BY <2>1, UsedAppended
  <2>3. QED
    BY <2>2 DEF LastIndex
<1>4. CASE e.type = "message_start"
  <2>1. sent = <<>> /\ Phase(sent) = "idle"
    BY <1>4 DEF Allowed, Phase
  <2>2. Phase(sent)' = "open"
    BY <1>2, <1>4, PhaseAppended
  <2>3. OpenBlocks(sent)' = OpenBlocks(sent)
    BY <1>2, <1>4, OpenAppended
  <2>4. Client!MessageStart
    BY <1>3, <1>4, <2>1, <2>2, <2>3 DEF Client!MessageStart
  <2>5. QED
    BY <2>4 DEF Client!Next
<1>5. CASE e.type = "content_block_start"
  <2>1. PICK m \in Nat \cup {-1} : LastIs(sent, m) /\ e.index \in (m + 1)..(m + 2)
    BY <1>5 DEF Allowed
  <2>2. e.index > m /\ e.index \in (LastIndex(sent) + 1)..(LastIndex(sent) + 2)
        /\ LastIndex(sent) = m
    BY <2>1, LastIsLastIndex
  <2>3. LastIndex(sent)' = e.index
    <3>1. LastIs(Append(sent, e), e.index)
      BY <1>5, <2>1, <2>2, LastIsAppended
    <3>2. QED
      BY <1>2, <3>1, Appended, LastIsLastIndex
  <2>4. Phase(sent) = "open" /\ Phase(sent)' = "open"
    BY <1>2, <1>5, PhaseAppended DEF Allowed
  <2>5. OpenBlocks(sent)' = OpenBlocks(sent) \cup {[index |-> e.index, kind |-> e.kind]}
    BY <1>2, <1>5, OpenAppended DEF BlockOf
  <2>6. \A b \in OpenBlocks(sent) : e.kind = "tool_use" /\ b.kind = "tool_use"
    BY <1>5 DEF Allowed
  <2>7. Client!BlockStart(e.index, e.kind)
    BY <1>3, <1>5, <2>2, <2>3, <2>4, <2>5, <2>6 DEF Client!BlockStart, BlockOf
  <2>8. e.kind \in Client!Kinds
    BY <1>1, <1>5 DEF Client!Kinds, Kinds
  <2>9. QED
    BY <2>2, <2>7, <2>8 DEF Client!Next
<1>6. CASE e.type = "content_block_stop"
  <2>1. PICK b \in OpenBlocks(sent) :
           \A d \in OpenBlocks(sent) : d.index = e.index <=> d = b
    BY <1>6 DEF Allowed
  <2>2. OpenBlocks(sent)' = {d \in OpenBlocks(sent) : d.index # e.index}
    BY <1>2, <1>6, OpenAppended
  <2>3. OpenBlocks(sent)' = OpenBlocks(sent) \ {b}
    BY <2>1, <2>2
  <2>4. Phase(sent)' = Phase(sent)
    BY <1>2, <1>6, PhaseAppended
  <2>5. Client!BlockStop(b)
    BY <1>3, <1>6, <2>3, <2>4 DEF Client!BlockStop
  <2>6. QED
    BY <2>5 DEF Client!Next
<1>7. CASE e.type = "message_delta" /\ e.reason # "none"
  <2>1. Phase(sent) = "open" /\ OpenBlocks(sent) = {}
    BY <1>7 DEF Allowed
  <2>2. Phase(sent)' = "ended"
    BY <1>2, <1>7, PhaseAppended
  <2>3. OpenBlocks(sent)' = OpenBlocks(sent)
    BY <1>2, <1>7, OpenAppended
  <2>4. Client!MessageDelta
    BY <1>3, <1>7, <2>1, <2>2, <2>3 DEF Client!MessageDelta
  <2>5. QED
    BY <2>4 DEF Client!Next
<1>8. CASE e.type = "message_stop"
  <2>1. Phase(sent) = "ended"
    BY <1>8 DEF Allowed
  <2>2. Phase(sent)' = "stopped"
    BY <1>2, <1>8, PhaseAppended
  <2>3. OpenBlocks(sent)' = OpenBlocks(sent)
    BY <1>2, <1>8, OpenAppended
  <2>4. Client!MessageStop
    BY <1>3, <1>8, <2>1, <2>2, <2>3 DEF Client!MessageStop
  <2>5. QED
    BY <2>4 DEF Client!Next
<1>9. CASE e.type = "content_block_delta"
  <2>1. BlockOf(e) \in OpenBlocks(sent)
    BY <1>9 DEF Allowed
  <2>2. Phase(sent)' = Phase(sent) /\ OpenBlocks(sent)' = OpenBlocks(sent)
    BY <1>2, <1>9, PhaseAppended, OpenAppended
  <2>3. Extended(sent)' =
            [d \in DOMAIN Extended(sent) \cup {BlockOf(e)} |->
                (IF d \in DOMAIN Extended(sent) THEN Extended(sent)[d] ELSE 0)
                    + (IF d = BlockOf(e) THEN 1 ELSE 0)]
    BY <1>2, <1>9, ExtendedAppended
  <2>4. Client!BlockDelta(BlockOf(e))
    BY <1>3, <1>9, <2>1, <2>2, <2>3 DEF Client!BlockDelta
  <2>5. QED
    BY <2>1, <2>4 DEF Client!Next
<1>10. CASE e.type = "message_delta" /\ e.reason = "none"
  <2>1. Phase(sent)' = Phase(sent)
    BY <1>2, <1>10, PhaseAppended
  <2>2. OpenBlocks(sent)' = OpenBlocks(sent)
    BY <1>2, <1>10, OpenAppended
  <2>3. QED
    BY <1>3, <1>10, <2>1, <2>2 DEF Client!vars
<1>11. QED
  BY <1>1, <1>4, <1>5, <1>6, <1>7, <1>8, <1>9, <1>10

-----------------------------------------------------------------------------
(* What every handler keeps: the events sent, p, and those to be written    *)
(* are well formed, and stopSent says whether the stop reason is among them *)

ToolBlocks == UNION {[D -> Nat] : D \in SUBSET Nat}

Locals ==
    [contentIndex : Nat, contentStarted : BOOLEAN, reasoningStarted : BOOLEAN,
     stopSent : BOOLEAN, startedToolCalls : ToolBlocks, out : Seq(Event)]

Whole(p, s) == p \o s.out

Sound(p, s) ==
    /\ p \in Seq(Event) /\ s \in Locals
    /\ WellFormed(Whole(p, s))
    /\ Phase(Whole(p, s)) = IF s.stopSent THEN "ended" ELSE "open"
    /\ Cardinality(StopReasons(Whole(p, s))) = IF s.stopSent THEN 1 ELSE 0

LEMMA WholeIsSequence ==
    ASSUME NEW p \in Seq(Event), NEW s \in Locals
    PROVE  Whole(p, s) \in Seq(Event)
BY ConcatProperties DEF Whole, Locals

LEMMA Emits ==
    ASSUME NEW p \in Seq(Event), NEW s \in Locals, NEW e \in Event
    PROVE  /\ Emit(s, e) \in Locals
           /\ Whole(p, Emit(s, e)) = Append(Whole(p, s), e)
           /\ Emit(s, e).contentIndex = s.contentIndex
           /\ Emit(s, e).contentStarted = s.contentStarted
           /\ Emit(s, e).reasoningStarted = s.reasoningStarted
           /\ Emit(s, e).stopSent = s.stopSent
           /\ Emit(s, e).startedToolCalls = s.startedToolCalls
<1>1. s.out \in Seq(Event) /\ Append(s.out, e) \in Seq(Event)
  BY DEF Locals
<1>2. Emit(s, e) \in Locals /\ Emit(s, e).out = Append(s.out, e)
  BY <1>1 DEF Emit, Locals
<1>3. p \o Append(s.out, e) = Append(p \o s.out, e)
  <2> DEFINE o == s.out
  <2>1. /\ o \in Seq(Event) /\ Append(o, e) \in Seq(Event)
        /\ Len(Append(o, e)) = Len(o) + 1 /\ Append(o, e)[Len(o) + 1] = e
        /\ \A i \in 1..Len(o) : Append(o, e)[i] = o[i]
        /\ Len(o) \in Nat /\ Len(p) \in Nat
    BY <1>1, Appended
  <2> HIDE DEF o
  <2> DEFINE w == p \o o
             a == Append(o, e)
  <2>2. /\ w \in Seq(Event) /\ Len(w) = Len(p) + Len(o)
        /\ \A i \in 1..(Len(p) + Len(o)) :
              w[i] = IF i <= Len(p) THEN p[i] ELSE o[i - Len(p)]
    BY <2>1, ConcatProperties
  <2>3. /\ p \o a \in Seq(Event) /\ Len(p \o a) = Len(p) + Len(a)
        /\ \A i \in 1..(Len(p) + Len(a)) :
              (p \o a)[i] = IF i <= Len(p) THEN p[i] ELSE a[i - Len(p)]
    BY <2>1, ConcatProperties
  <2> HIDE DEF w
  <2>4. /\ Append(w, e) \in Seq(Event) /\ Len(Append(w, e)) = Len(w) + 1
        /\ Append(w, e)[Len(w) + 1] = e
        /\ \A i \in 1..Len(w) : Append(w, e)[i] = w[i]
    BY <2>2, Appended
  <2>5. ASSUME NEW i \in 1..(Len(p) + Len(o) + 1)
        PROVE  (p \o a)[i] = Append(w, e)[i]
    <3>1. CASE i <= Len(p)
      BY <2>1, <2>2, <2>3, <2>4, <3>1
    <3>2. CASE i > Len(p) /\ i <= Len(p) + Len(o)
      <4>1. i - Len(p) \in 1..Len(o)
        BY <2>1, <3>2
      <4>2. (p \o a)[i] = o[i - Len(p)]
        BY <2>1, <2>3, <3>2, <4>1
      <4>3. Append(w, e)[i] = o[i - Len(p)]
        BY <2>1, <2>2, <2>4, <3>2
      <4>4. QED
        BY <4>2, <4>3
    <3>3. CASE i = Len(p) + Len(o) + 1
      BY <2>1, <2>2, <2>3, <2>4, <3>3
    <3>4. i <= Len(p) \/ (i > Len(p) /\ i <= Len(p) + Len(o)) \/ i = Len(p) + Len(o) + 1
      BY <2>1
    <3>5. QED
      BY <3>1, <3>2, <3>3, <3>4
  <2>6. Len(p \o a) = Len(p) + Len(o) + 1 /\ Len(Append(w, e)) = Len(p) + Len(o) + 1
    BY <2>1, <2>2, <2>3, <2>4
  <2>7. p \o a = Append(w, e)
    BY <2>3, <2>4, <2>5, <2>6, SeqEqual
  <2>8. QED
    BY <2>7 DEF o, w
<1>4. QED
  BY <1>2, <1>3 DEF Whole, Emit, Locals

LEMMA SoundFacts ==
    ASSUME NEW p, NEW s, Sound(p, s)
    PROVE  /\ Whole(p, s) \in Seq(Event) /\ Whole(p, s) # <<>>
           /\ Places(Whole(p, s), "message_stop") = {}
           /\ s.stopSent <=> StopReasons(Whole(p, s)) # {}
<1>1. Whole(p, s) \in Seq(Event)
  BY WholeIsSequence DEF Sound
<1>2. Phase(Whole(p, s)) = IF s.stopSent THEN "ended" ELSE "open"
  BY DEF Sound
<1>3. QED
  BY <1>1, <1>2 DEF Phase

\* An event that is not the beginning or the end of the message, nor its stop reason.
LEMMA SoundEmit ==
    ASSUME NEW p, NEW s, Sound(p, s), NEW e \in Event, Allowed(Whole(p, s), e),
           e.type \notin {"message_start", "message_stop"},
           e.type = "message_delta" => e.reason = "none"
    PROVE  Sound(p, Emit(s, e))
<1>1. /\ Emit(s, e) \in Locals /\ Emit(s, e).stopSent = s.stopSent
      /\ Whole(p, Emit(s, e)) = Append(Whole(p, s), e)
  BY Emits DEF Sound
<1>2. WellFormed(Append(Whole(p, s), e))
  BY SoundFacts, WellFormedAppended DEF Sound
<1>3. Phase(Append(Whole(p, s), e)) = Phase(Whole(p, s))
  BY SoundFacts, PhaseAppended
<1>4. StopReasons(Append(Whole(p, s), e)) = StopReasons(Whole(p, s))
  BY SoundFacts, ReasonsAppended
<1>5. QED
  BY <1>1, <1>2, <1>3, <1>4 DEF Sound

\* The stop reason is sent when no block is open, and never twice.
LEMMA SoundReason ==
    ASSUME NEW p, NEW s, Sound(p, s), ~s.stopSent, OpenBlocks(Whole(p, s)) = {},
           NEW reason \in {"end_turn", "max_tokens", "tool_use"}
    PROVE  LET t == [Emit(s, MessageDeltaEvent(reason)) EXCEPT !.stopSent = TRUE]
           IN  /\ Sound(p, t) /\ t.stopSent
               /\ OpenBlocks(Whole(p, t)) = {}
               /\ t.contentStarted = s.contentStarted
               /\ t.reasoningStarted = s.reasoningStarted
               /\ t.startedToolCalls = s.startedToolCalls
<1> DEFINE e == MessageDeltaEvent(reason)
           t == [Emit(s, e) EXCEPT !.stopSent = TRUE]
           w == Whole(p, s)
<1>1. e \in Event /\ e.type = "message_delta" /\ e.reason # "none"
  BY DEF MessageDeltaEvent, Event
<1>2. w \in Seq(Event) /\ w # <<>> /\ StopReasons(w) = {}
  BY SoundFacts
<1>3. Allowed(w, e)
  BY <1>1, <1>2 DEF Allowed, Sound
<1>4. /\ t \in Locals /\ t.stopSent /\ Whole(p, t) = Append(w, e)
      /\ t.contentStarted = s.contentStarted /\ t.reasoningStarted = s.reasoningStarted
      /\ t.startedToolCalls = s.startedToolCalls
  <2>1. Emit(s, e) \in Locals /\ Whole(p, Emit(s, e)) = Append(w, e)
    BY <1>1, Emits DEF Sound
  <2>2. t \in Locals /\ t.stopSent /\ t.out = Emit(s, e).out
    BY <2>1 DEF Locals
  <2>3. /\ t.contentStarted = Emit(s, e).contentStarted
        /\ t.reasoningStarted = Emit(s, e).reasoningStarted
        /\ t.startedToolCalls = Emit(s, e).startedToolCalls
    BY <2>1 DEF Locals
  <2>4. QED
    BY <1>1, <2>1, <2>2, <2>3, Emits DEF Whole, Sound
<1> HIDE DEF t, w, e
<1>5. WellFormed(Append(w, e))
  BY <1>1, <1>2, <1>3, WellFormedAppended DEF Sound, w
<1>6. Phase(Append(w, e)) = "ended" /\ OpenBlocks(Append(w, e)) = OpenBlocks(w)
  BY <1>1, <1>2, <1>3, PhaseAppended, OpenAppended
<1>7. StopReasons(Append(w, e)) = {Len(w) + 1}
  BY <1>1, <1>2, ReasonsAppended
<1>8. Cardinality(StopReasons(Append(w, e))) = 1
  BY <1>7, FS_Singleton
<1>9. Sound(p, t)
  BY <1>4, <1>5, <1>6, <1>8 DEF Sound
<1>10. QED
  BY <1>4, <1>6, <1>9 DEF t, w, e

\* The other local variables do not matter.
LEMMA SoundRelabelled ==
    ASSUME NEW p, NEW s, Sound(p, s), NEW t \in Locals,
           t.out = s.out, t.stopSent = s.stopSent
    PROVE  Sound(p, t) /\ Whole(p, t) = Whole(p, s)
BY DEF Sound, Whole

-----------------------------------------------------------------------------
(* Text and reasoning *)

\* The content block that is open, if one is, is the one of the local variables,
\* and contentIndex is its index or the next.
TextFits(p, s) ==
    /\ s.startedToolCalls = NoTools
    /\ ~(s.contentStarted /\ s.reasoningStarted)
    /\ OpenBlocks(Whole(p, s)) =
          CASE s.contentStarted -> {[index |-> s.contentIndex, kind |-> "text"]}
            [] s.reasoningStarted -> {[index |-> s.contentIndex, kind |-> "thinking"]}
            [] ~s.contentStarted /\ ~s.reasoningStarted -> {}
    /\ ~s.stopSent =>
          LastIs(Whole(p, s), IF s.contentStarted \/ s.reasoningStarted
                              THEN s.contentIndex ELSE s.contentIndex - 1)

LEMMA ContentBlockCloses ==
    ASSUME NEW p, NEW s, Sound(p, s), TextFits(p, s)
    PROVE  LET t == CloseContentBlock(s)
           IN  /\ Sound(p, t)
               /\ ~t.contentStarted /\ ~t.reasoningStarted
               /\ t.startedToolCalls = NoTools
               /\ t.stopSent = s.stopSent
               /\ t.contentIndex = s.contentIndex
               /\ OpenBlocks(Whole(p, t)) = {}
               /\ \A m \in Nat \cup {-1} :
                     LastIs(Whole(p, s), m) => LastIs(Whole(p, t), m)
<1> DEFINE t == CloseContentBlock(s)
           e == BlockStopEvent(s.contentIndex)
           w == Whole(p, s)
<1>1. CASE ~(s.contentStarted \/ s.reasoningStarted)
  <2>1. t = s
    BY <1>1 DEF CloseContentBlock
  <2>2. ~s.contentStarted /\ ~s.reasoningStarted
    BY <1>1
  <2>3. OpenBlocks(w) = {}
    BY <2>2 DEF TextFits
  <2>4. QED
    BY <2>1, <2>2, <2>3 DEF TextFits
<1>2. CASE s.contentStarted \/ s.reasoningStarted
  <2>1. e \in Event /\ e.type = "content_block_stop" /\ e.index = s.contentIndex
        /\ s.contentIndex \in Nat
    BY DEF Sound, Locals, BlockStopEvent, Event
  <2>2. PICK b : OpenBlocks(w) = {b} /\ b.index = s.contentIndex
    <3> DEFINE text == [index |-> s.contentIndex, kind |-> "text"]
               thinking == [index |-> s.contentIndex, kind |-> "thinking"]
    <3>1. OpenBlocks(w) = {text} \/ OpenBlocks(w) = {thinking}
      BY <1>2 DEF TextFits
    <3>2. text.index = s.contentIndex /\ thinking.index = s.contentIndex
      OBVIOUS
    <3>3. QED
      BY <3>1, <3>2
  <2>3. w \in Seq(Event) /\ w # <<>>
    BY SoundFacts
  <2>4. Allowed(w, e)
    BY <2>1, <2>2, <2>3 DEF Allowed
  <2> DEFINE d == Emit(s, e)
  <2>5. /\ Sound(p, d) /\ Whole(p, d) = Append(w, e) /\ d \in Locals
        /\ d.stopSent = s.stopSent /\ d.startedToolCalls = s.startedToolCalls
        /\ d.contentIndex = s.contentIndex
    <3>1. p \in Seq(Event) /\ s \in Locals
      BY DEF Sound
    <3>2. Sound(p, d)
      BY <2>1, <2>4, SoundEmit
    <3>3. QED
      BY <2>1, <3>1, <3>2, Emits
  <2>6. t = [d EXCEPT !.contentStarted = FALSE, !.reasoningStarted = FALSE]
    BY <1>2 DEF CloseContentBlock
  <2> HIDE DEF d, t, e, w
  <2>7. /\ t \in Locals /\ t.out = d.out /\ t.stopSent = d.stopSent
        /\ ~t.contentStarted /\ ~t.reasoningStarted
        /\ t.contentIndex = d.contentIndex /\ t.startedToolCalls = d.startedToolCalls
    BY <2>5, <2>6 DEF Locals
  <2>8. Sound(p, t) /\ Whole(p, t) = Append(w, e)
    BY <2>5, <2>7, SoundRelabelled
  <2>9. OpenBlocks(Append(w, e)) = {}
    BY <2>1, <2>2, <2>3, OpenAppended
  <2>10. \A m \in Nat \cup {-1} : LastIs(w, m) => LastIs(Append(w, e), m)
    BY <2>1, <2>3, LastIsAppended
  <2>11. QED
    BY <2>5, <2>7, <2>8, <2>9, <2>10 DEF TextFits, t, w
<1>3. QED
  BY <1>1, <1>2

\* Leaving a block makes contentIndex the next one.
LEMMA BlockIsLeft ==
    ASSUME NEW p, NEW s, Sound(p, s), TextFits(p, s), ~s.stopSent,
           NEW isOpen \in BOOLEAN, isOpen <=> s.contentStarted \/ s.reasoningStarted
    PROVE  LET t == LeaveBlock(s, isOpen)
           IN  /\ Sound(p, t) /\ TextFits(p, t)
               /\ ~t.contentStarted /\ ~t.reasoningStarted /\ ~t.stopSent
<1> DEFINE c == CloseContentBlock(s)
           t == LeaveBlock(s, isOpen)
<1>1. CASE ~isOpen
  BY <1>1 DEF LeaveBlock
<1>2. CASE isOpen
  <2>1. /\ Sound(p, c) /\ ~c.contentStarted /\ ~c.reasoningStarted
        /\ c.startedToolCalls = NoTools /\ c.stopSent = s.stopSent
        /\ c.contentIndex = s.contentIndex
        /\ OpenBlocks(Whole(p, c)) = {}
        /\ LastIs(Whole(p, c), s.contentIndex)
    <3>1. LastIs(Whole(p, s), s.contentIndex) /\ s.contentIndex \in Nat
      BY <1>2 DEF TextFits, Sound, Locals
    <3>2. QED
      BY <3>1, ContentBlockCloses
  <2>2. t = [c EXCEPT !.contentIndex = s.contentIndex + 1]
    BY <1>2 DEF LeaveBlock
  <2>3. c \in Locals /\ s.contentIndex \in Nat
    BY <2>1 DEF Sound, Locals
  <2> HIDE DEF c, t
  <2>4. /\ t \in Locals /\ t.out = c.out /\ t.stopSent = c.stopSent
        /\ t.contentStarted = c.contentStarted
        /\ t.reasoningStarted = c.reasoningStarted
        /\ t.startedToolCalls = c.startedToolCalls
        /\ t.contentIndex = s.contentIndex + 1
    BY <2>2, <2>3 DEF Locals
  <2>5. Sound(p, t) /\ Whole(p, t) = Whole(p, c)
    BY <2>1, <2>4, SoundRelabelled
  <2>6. t.contentIndex - 1 = s.contentIndex
    BY <2>3, <2>4
  <2>7. TextFits(p, t)
    BY <2>1, <2>4, <2>5, <2>6 DEF TextFits
  <2>8. QED
    BY <2>1, <2>4, <2>5, <2>7 DEF t
<1>3. QED
  BY <1>1, <1>2

\* A content block is started under the next index.
LEMMA BlockOpens ==
    ASSUME NEW p, NEW s, Sound(p, s), TextFits(p, s),
           ~s.contentStarted, ~s.reasoningStarted, ~s.stopSent,
           NEW kind \in {"text", "thinking"}, NEW t \in Locals,
           t.out = s.out, t.stopSent = s.stopSent, t.contentIndex = s.contentIndex,
           t.startedToolCalls = s.startedToolCalls,
           t.contentStarted <=> kind = "text", t.reasoningStarted <=> kind = "thinking"
    PROVE  LET o == Emit(t, BlockStartEvent(t.contentIndex, kind))
           IN  /\ Sound(p, o) /\ TextFits(p, o) /\ ~o.stopSent
               /\ o.contentStarted = t.contentStarted
               /\ o.reasoningStarted = t.reasoningStarted
<1> DEFINE e == BlockStartEvent(t.contentIndex, kind)
           o == Emit(t, e)
           w == Whole(p, s)
<1>1. /\ e \in Event /\ e.type = "content_block_start" /\ t.contentIndex \in Nat
      /\ e.index = t.contentIndex /\ e.kind = kind
  BY DEF Locals, BlockStartEvent, Event, Kinds
<1>2. Sound(p, t) /\ Whole(p, t) = w
  BY SoundRelabelled
<1>3. /\ w \in Seq(Event) /\ w # <<>> /\ OpenBlocks(w) = {} /\ Phase(w) = "open"
      /\ LastIs(w, t.contentIndex - 1)
  BY SoundFacts DEF TextFits, Sound
<1> HIDE DEF w, e
<1>4. t.contentIndex - 1 \in Nat \cup {-1}
      /\ t.contentIndex \in ((t.contentIndex - 1) + 1)..((t.contentIndex - 1) + 2)
      /\ t.contentIndex > t.contentIndex - 1
  BY <1>1
<1>5. Allowed(w, e)
  BY <1>1, <1>3, <1>4 DEF Allowed
<1>6. /\ Sound(p, o) /\ Whole(p, o) = Append(w, e)
      /\ o.contentIndex = t.contentIndex /\ o.stopSent = t.stopSent
      /\ o.contentStarted = t.contentStarted
      /\ o.reasoningStarted = t.reasoningStarted
      /\ o.startedToolCalls = t.startedToolCalls
  <2>1. p \in Seq(Event)
    BY DEF Sound
  <2>2. Sound(p, o)
    BY <1>1, <1>2, <1>5, SoundEmit
  <2>3. QED
    BY <1>1, <1>2, <2>1, <2>2, Emits
<1>7. OpenBlocks(Append(w, e)) = {[index |-> t.contentIndex, kind |-> kind]}
  BY <1>1, <1>3, OpenAppended DEF BlockOf
<1>8. LastIs(Append(w, e), t.contentIndex)
  BY <1>1, <1>3, <1>4, LastIsAppended
<1> HIDE DEF o
<1>9. TextFits(p, o)
  BY <1>6, <1>7, <1>8 DEF TextFits
<1>10. QED
  BY <1>6, <1>9 DEF o, e

\* A delta to an open block changes nothing but the events.
LEMMA DeltaIsSent ==
    ASSUME NEW p, NEW s, Sound(p, s), NEW i \in Nat, NEW kind \in Kinds,
           NEW intact \in BOOLEAN,
           [index |-> i, kind |-> kind] \in OpenBlocks(Whole(p, s))
    PROVE  LET t == Emit(s, BlockDeltaEvent(i, kind, intact))
           IN  /\ Sound(p, t)
               /\ OpenBlocks(Whole(p, t)) = OpenBlocks(Whole(p, s))
               /\ \A m \in Nat \cup {-1} : LastIs(Whole(p, s), m) => LastIs(Whole(p, t), m)
               /\ t.contentIndex = s.contentIndex /\ t.stopSent = s.stopSent
               /\ t.contentStarted = s.contentStarted
               /\ t.reasoningStarted = s.reasoningStarted
               /\ t.startedToolCalls = s.startedToolCalls
<1> DEFINE e == BlockDeltaEvent(i, kind, intact)
           w == Whole(p, s)
<1>1. e \in Event /\ e.type = "content_block_delta"
  BY DEF BlockDeltaEvent, Event
<1>2. w \in Seq(Event) /\ w # <<>> /\ BlockOf(e) \in OpenBlocks(w)
  BY SoundFacts DEF BlockOf, BlockDeltaEvent
<1> HIDE DEF e, w
<1>3. Allowed(w, e)
  BY <1>1, <1>2 DEF Allowed
<1>4. Sound(p, Emit(s, e)) /\ Whole(p, Emit(s, e)) = Append(w, e)
  <2>1. p \in Seq(Event) /\ s \in Locals
    BY DEF Sound
  <2>2. Sound(p, Emit(s, e))
    BY <1>1, <1>3, SoundEmit DEF w
  <2>3. QED
    BY <1>1, <2>1, <2>2, Emits DEF w
<1>5. /\ OpenBlocks(Append(w, e)) = OpenBlocks(w)
      /\ \A m \in Nat \cup {-1} : LastIs(w, m) => LastIs(Append(w, e), m)
  BY <1>1, <1>2, OpenAppended, LastIsAppended
<1>6. QED
  BY <1>1, <1>4, <1>5, Emits DEF Sound, e, w

LEMMA TextDelta ==
    ASSUME NEW p, NEW s, Sound(p, s), TextFits(p, s), ~s.stopSent,
           NEW kind \in {"text", "thinking"}, NEW intact \in BOOLEAN,
           kind = "text" => s.contentStarted, kind = "thinking" => s.reasoningStarted
    PROVE  LET t == Emit(s, BlockDeltaEvent(s.contentIndex, kind, intact))
           IN  Sound(p, t) /\ TextFits(p, t) /\ ~t.stopSent
<1> DEFINE t == Emit(s, BlockDeltaEvent(s.contentIndex, kind, intact))
<1>1. /\ s.contentIndex \in Nat /\ LastIs(Whole(p, s), s.contentIndex) /\ kind \in Kinds
      /\ [index |-> s.contentIndex, kind |-> kind] \in OpenBlocks(Whole(p, s))
  <2>1. OpenBlocks(Whole(p, s)) = {[index |-> s.contentIndex, kind |-> kind]}
    BY DEF TextFits
  <2>2. QED
    BY <2>1 DEF Sound, Locals, TextFits, Kinds
<1>2. /\ Sound(p, t)
      /\ OpenBlocks(Whole(p, t)) = OpenBlocks(Whole(p, s))
      /\ LastIs(Whole(p, t), s.contentIndex)
      /\ t.contentIndex = s.contentIndex /\ t.stopSent = s.stopSent
      /\ t.contentStarted = s.contentStarted
      /\ t.reasoningStarted = s.reasoningStarted
      /\ t.startedToolCalls = s.startedToolCalls
  BY <1>1, DeltaIsSent
<1> HIDE DEF t
<1>3. TextFits(p, t)
  BY <1>2 DEF TextFits
<1>4. QED
  BY <1>2, <1>3 DEF t

LEMMA TextIsSent ==
    ASSUME NEW p, NEW s, Sound(p, s), TextFits(p, s), ~s.stopSent, NEW intact \in BOOLEAN
    PROVE  LET t == SendText(s, intact)
           IN  Sound(p, t) /\ TextFits(p, t) /\ ~t.stopSent
<1> DEFINE l == LeaveBlock(s, s.reasoningStarted)
           started == [l EXCEPT !.contentStarted = TRUE]
           fresh == Emit(started, BlockStartEvent(started.contentIndex, "text"))
           opened == IF s.contentStarted THEN s ELSE fresh
<1>1. SUFFICES Sound(p, opened) /\ TextFits(p, opened) /\ ~opened.stopSent
               /\ opened.contentStarted
  <2>1. SendText(s, intact) = Emit(opened, BlockDeltaEvent(opened.contentIndex, "text", intact))
    BY DEF SendText
  <2> HIDE DEF opened
  <2>2. QED
    BY <1>1, <2>1, TextDelta
<1>2. CASE s.contentStarted
  BY <1>2
<1>3. CASE ~s.contentStarted
  <2>1. s.reasoningStarted \in BOOLEAN
    BY DEF Sound, Locals
  <2>2. /\ Sound(p, l) /\ TextFits(p, l)
        /\ ~l.contentStarted /\ ~l.reasoningStarted /\ ~l.stopSent
    BY <1>3, <2>1, BlockIsLeft
  <2> HIDE DEF l
  <2>3. /\ started \in Locals /\ started.out = l.out /\ started.stopSent = l.stopSent
        /\ started.contentIndex = l.contentIndex
        /\ started.startedToolCalls = l.startedToolCalls
        /\ started.contentStarted /\ ~started.reasoningStarted
    BY <2>2 DEF Sound, Locals
  <2> HIDE DEF started
  <2>4. /\ Sound(p, fresh) /\ TextFits(p, fresh) /\ ~fresh.stopSent
        /\ fresh.contentStarted = started.contentStarted
    BY <2>2, <2>3, BlockOpens, ZenonT(60)
  <2>5. QED
    BY <1>3, <2>3, <2>4
<1>4. QED
  BY <1>2, <1>3

LEMMA ThinkingIsSent ==
    ASSUME NEW p, NEW s, Sound(p, s), TextFits(p, s), ~s.stopSent
    PROVE  LET t == SendThinking(s)
           IN  Sound(p, t) /\ TextFits(p, t) /\ ~t.stopSent
<1> DEFINE l == LeaveBlock(s, s.contentStarted)
           started == [l EXCEPT !.reasoningStarted = TRUE]
           fresh == Emit(started, BlockStartEvent(started.contentIndex, "thinking"))
           opened == IF s.reasoningStarted THEN s ELSE fresh
<1>1. SUFFICES Sound(p, opened) /\ TextFits(p, opened) /\ ~opened.stopSent
               /\ opened.reasoningStarted
  <2>1. SendThinking(s) =
            Emit(opened, BlockDeltaEvent(opened.contentIndex, "thinking", TRUE))
    BY DEF SendThinking
  <2> HIDE DEF opened
  <2>2. QED
    BY <1>1, <2>1, TextDelta
<1>2. CASE s.reasoningStarted
  BY <1>2
<1>3. CASE ~s.reasoningStarted
  <2>1. s.contentStarted \in BOOLEAN
    BY DEF Sound, Locals
  <2>2. /\ Sound(p, l) /\ TextFits(p, l)
        /\ ~l.contentStarted /\ ~l.reasoningStarted /\ ~l.stopSent
    BY <1>3, <2>1, BlockIsLeft
  <2> HIDE DEF l
  <2>3. /\ started \in Locals /\ started.out = l.out /\ started.stopSent = l.stopSent
        /\ started.contentIndex = l.contentIndex
        /\ started.startedToolCalls = l.startedToolCalls
        /\ ~started.contentStarted /\ started.reasoningStarted
    BY <2>2 DEF Sound, Locals
  <2> HIDE DEF started
  <2>4. /\ Sound(p, fresh) /\ TextFits(p, fresh) /\ ~fresh.stopSent
        /\ fresh.reasoningStarted = started.reasoningStarted
    BY <2>2, <2>3, BlockOpens
  <2>5. QED
    BY <1>3, <2>3, <2>4
<1>4. QED
  BY <1>2, <1>3

-----------------------------------------------------------------------------
(* Tool calls *)

\* Every tool block that is open is one of a tool call, and contentIndex is the
\* last index used.
ToolFits(p, s) ==
    /\ ~s.contentStarted /\ ~s.reasoningStarted
    /\ IsFiniteSet(DOMAIN s.startedToolCalls)
    /\ \A i \in DOMAIN s.startedToolCalls : s.startedToolCalls[i] \in 1..s.contentIndex
    /\ OpenBlocks(Whole(p, s)) =
          {[index |-> s.startedToolCalls[i], kind |-> "tool_use"] :
              i \in DOMAIN s.startedToolCalls}
    /\ s.stopSent => DOMAIN s.startedToolCalls = {}
    /\ ~s.stopSent =>
          LastIs(Whole(p, s), IF s.contentIndex = 0 THEN -1 ELSE s.contentIndex)

LEMMA ToolBlockFields ==
    ASSUME NEW blocks \in ToolBlocks
    PROVE  /\ DOMAIN blocks \subseteq Nat
           /\ \A i \in DOMAIN blocks : blocks[i] \in Nat
           /\ blocks = [i \in DOMAIN blocks |-> blocks[i]]
BY DEF ToolBlocks

LEMMA ToolBlockStarts ==
    ASSUME NEW p, NEW s, Sound(p, s), ToolFits(p, s), ~s.stopSent,
           NEW tc \in ToolCall, tc.index \notin DOMAIN s.startedToolCalls
    PROVE  LET t == StartToolBlock(s, tc, s.contentIndex + 1)
           IN  /\ Sound(p, t) /\ ToolFits(p, t) /\ ~t.stopSent
               /\ tc.index \in DOMAIN t.startedToolCalls
<1> DEFINE b == s.contentIndex + 1
           e == BlockStartEvent(b, "tool_use")
           blocks == s.startedToolCalls
           more == [i \in DOMAIN blocks \cup {tc.index} |->
                       IF i = tc.index THEN b ELSE blocks[i]]
           l == [s EXCEPT !.contentIndex = b, !.startedToolCalls = more]
           t == StartToolBlock(s, tc, b)
           w == Whole(p, s)
           m == IF s.contentIndex = 0 THEN -1 ELSE s.contentIndex
<1>1. /\ p \in Seq(Event) /\ s \in Locals /\ s.contentIndex \in Nat /\ b \in Nat
      /\ blocks \in ToolBlocks /\ tc.index \in Nat
  BY DEF Sound, Locals, ToolCall
<1>2. /\ e \in Event /\ e.type = "content_block_start" /\ e.index = b
      /\ e.kind = "tool_use"
  BY <1>1 DEF BlockStartEvent, Event, Kinds
<1>3. more \in ToolBlocks
  <2>1. DOMAIN blocks \cup {tc.index} \in SUBSET Nat
    BY <1>1, ToolBlockFields
  <2>2. \A i \in DOMAIN blocks : blocks[i] \in Nat
    BY <1>1, ToolBlockFields
  <2> HIDE DEF blocks, b
  <2>3. more \in [DOMAIN blocks \cup {tc.index} -> Nat]
    BY <1>1, <2>2
  <2>4. QED
    BY <2>1, <2>3 DEF ToolBlocks
<1>4. /\ l \in Locals /\ l.out = s.out /\ l.stopSent = s.stopSent
      /\ l.contentIndex = b /\ l.startedToolCalls = more
      /\ l.contentStarted = s.contentStarted
      /\ l.reasoningStarted = s.reasoningStarted
  <2> HIDE DEF more, b
  <2>1. QED
    BY <1>1, <1>3 DEF Locals
<1>5. t = Emit(l, e)
  BY DEF StartToolBlock
<1> HIDE DEF l, t
<1>6. Sound(p, l) /\ Whole(p, l) = w
  BY <1>4, SoundRelabelled
<1>7. /\ w \in Seq(Event) /\ w # <<>> /\ Phase(w) = "open"
      /\ LastIs(w, m)
  BY SoundFacts DEF ToolFits, Sound
<1>8. m \in Nat \cup {-1} /\ b \in (m + 1)..(m + 2) /\ b > m
  BY <1>1
<1>9. \A d \in OpenBlocks(w) : d.kind = "tool_use"
  BY DEF ToolFits
<1> HIDE DEF w, e, m
<1>10. Allowed(w, e)
  BY <1>2, <1>7, <1>8, <1>9 DEF Allowed
<1>11. Sound(p, t)
  BY <1>2, <1>5, <1>6, <1>10, SoundEmit
<1>12. /\ Whole(p, t) = Append(w, e) /\ t.contentIndex = b /\ t.stopSent = s.stopSent
       /\ t.contentStarted = s.contentStarted
       /\ t.reasoningStarted = s.reasoningStarted
       /\ t.startedToolCalls = more
  BY <1>1, <1>2, <1>4, <1>5, <1>6, Emits
<1>13. LastIs(Append(w, e), b)
  BY <1>2, <1>7, <1>8, LastIsAppended
<1>14. /\ DOMAIN more = DOMAIN blocks \cup {tc.index}
       /\ more[tc.index] = b
       /\ \A i \in DOMAIN blocks : more[i] = blocks[i]
  BY DEF blocks
<1>15. OpenBlocks(Append(w, e)) = {[index |-> more[i], kind |-> "tool_use"] : i \in DOMAIN more}
  <2>1. OpenBlocks(w) = {[index |-> blocks[i], kind |-> "tool_use"] : i \in DOMAIN blocks}
    BY DEF ToolFits, w
  <2>2. OpenBlocks(Append(w, e)) = OpenBlocks(w) \cup {[index |-> b, kind |-> "tool_use"]}
    BY <1>2, <1>7, OpenAppended DEF BlockOf
  <2> HIDE DEF blocks, more, b
  <2>3. QED
    BY <1>14, <2>1, <2>2
<1>16. IsFiniteSet(DOMAIN more)
  <2>1. IsFiniteSet(DOMAIN blocks)
    BY DEF ToolFits
  <2>2. QED
    BY <1>14, <2>1, FS_AddElement
<1>17. \A i \in DOMAIN more : more[i] \in 1..b
  <2>1. \A i \in DOMAIN blocks : blocks[i] \in 1..s.contentIndex
    BY DEF ToolFits
  <2>2. \A i \in DOMAIN blocks : blocks[i] \in 1..b
    BY <1>1, <2>1
  <2>3. b \in 1..b
    BY <1>1
  <2> HIDE DEF blocks, more, b
  <2>4. QED
    BY <1>14, <2>2, <2>3
<1>18. ToolFits(p, t)
  <2>1. b # 0 /\ ~s.contentStarted /\ ~s.reasoningStarted
    BY <1>1 DEF ToolFits
  <2> HIDE DEF blocks, more, b
  <2>2. QED
    BY <1>12, <1>13, <1>15, <1>16, <1>17, <2>1 DEF ToolFits
<1>19. QED
  BY <1>11, <1>12, <1>14, <1>18 DEF t

LEMMA ArgumentsAreSent ==
    ASSUME NEW p, NEW s, Sound(p, s), ToolFits(p, s), ~s.stopSent,
           NEW tc \in ToolCall, tc.index \in DOMAIN s.startedToolCalls
    PROVE  LET t == SendArguments(s, tc)
           IN  Sound(p, t) /\ ToolFits(p, t) /\ ~t.stopSent
<1> DEFINE b == s.startedToolCalls[tc.index]
           t == Emit(s, BlockDeltaEvent(b, "tool_use", TRUE))
           m == IF s.contentIndex = 0 THEN -1 ELSE s.contentIndex
<1>1. CASE ~tc.args
  BY <1>1 DEF SendArguments
<1>2. CASE tc.args
  <2>1. /\ b \in Nat /\ "tool_use" \in Kinds /\ m \in Nat \cup {-1}
        /\ LastIs(Whole(p, s), m)
        /\ [index |-> b, kind |-> "tool_use"] \in OpenBlocks(Whole(p, s))
    <3>1. s.startedToolCalls \in ToolBlocks /\ s.contentIndex \in Nat
      BY DEF Sound, Locals
    <3>2. QED
      BY <3>1, ToolBlockFields DEF Kinds, ToolFits
  <2> HIDE DEF b, m
  <2>2. /\ Sound(p, t)
        /\ OpenBlocks(Whole(p, t)) = OpenBlocks(Whole(p, s))
        /\ LastIs(Whole(p, t), m)
        /\ t.contentIndex = s.contentIndex /\ t.stopSent = s.stopSent
        /\ t.contentStarted = s.contentStarted
        /\ t.reasoningStarted = s.reasoningStarted
        /\ t.startedToolCalls = s.startedToolCalls
    <3>1. TRUE \in BOOLEAN
      OBVIOUS
    <3>2. \A n \in Nat \cup {-1} : LastIs(Whole(p, s), n) => LastIs(Whole(p, t), n)
      BY <2>1, <3>1, DeltaIsSent
    <3>3. LastIs(Whole(p, t), m)
      BY <2>1, <3>2
    <3>4. /\ Sound(p, t)
          /\ OpenBlocks(Whole(p, t)) = OpenBlocks(Whole(p, s))
      BY <2>1, <3>1, DeltaIsSent
    <3>5. /\ t.contentIndex = s.contentIndex /\ t.stopSent = s.stopSent
          /\ t.contentStarted = s.contentStarted
          /\ t.reasoningStarted = s.reasoningStarted
          /\ t.startedToolCalls = s.startedToolCalls
      <4> DEFINE e == BlockDeltaEvent(b, "tool_use", TRUE)
      <4>1. e \in Event /\ p \in Seq(Event) /\ s \in Locals
        BY <2>1 DEF BlockDeltaEvent, Event, Kinds, Sound
      <4> HIDE DEF e
      <4>2. QED
        BY <4>1, Emits DEF e
    <3>6. QED
      BY <3>3, <3>4, <3>5
  <2> HIDE DEF t
  <2>3. ToolFits(p, t)
    BY <2>2 DEF ToolFits, m
  <2>4. SendArguments(s, tc) = t
    BY <1>2 DEF SendArguments, t, b
  <2>5. QED
    BY <2>2, <2>3, <2>4
<1>3. QED
  BY <1>1, <1>2

LEMMA ToolCallIsSent ==
    ASSUME NEW p, NEW s, Sound(p, s), ToolFits(p, s), ~s.stopSent, NEW tc \in ToolCall
    PROVE  LET t == SendToolCall(s, tc)
           IN  Sound(p, t) /\ ToolFits(p, t) /\ ~t.stopSent
<1>1. CASE tc.index \in DOMAIN s.startedToolCalls
  BY <1>1, ArgumentsAreSent DEF SendToolCall
<1>2. CASE tc.index \notin DOMAIN s.startedToolCalls /\ tc.named
  <2> DEFINE started == StartToolBlock(s, tc, s.contentIndex + 1)
  <2>1. /\ Sound(p, started) /\ ToolFits(p, started) /\ ~started.stopSent
        /\ tc.index \in DOMAIN started.startedToolCalls
    BY <1>2, ToolBlockStarts
  <2>2. SendToolCall(s, tc) = SendArguments(started, tc)
    BY <1>2 DEF SendToolCall
  <2> HIDE DEF started
  <2>3. QED
    BY <2>1, <2>2, ArgumentsAreSent
<1>3. CASE tc.index \notin DOMAIN s.startedToolCalls /\ ~tc.named
  BY <1>3 DEF SendToolCall
<1>4. QED
  BY <1>1, <1>2, <1>3 DEF ToolCall

-----------------------------------------------------------------------------
(* The tool blocks are stopped *)

\* How many elements of a set of indexes are not above i: its place among them.
Rank(S, i) == Cardinality({j \in S : j <= i})

LEMMA Ranked ==
    ASSUME NEW S \in SUBSET Nat, IsFiniteSet(S)
    PROVE  /\ \A i \in S : Rank(S, i) \in 1..Cardinality(S)
           /\ \A i, j \in S : Rank(S, i) = Rank(S, j) => i = j
           /\ \A n \in 1..Cardinality(S) : \E i \in S : Rank(S, i) = n
<1> DEFINE below(i) == {j \in S : j <= i}
           f == [i \in S |-> Rank(S, i)]
<1>1. Cardinality(S) \in Nat
  BY FS_CardinalityType
<1>2. ASSUME NEW i \in S
      PROVE  /\ IsFiniteSet(below(i)) /\ Cardinality(below(i)) \in Nat
             /\ Rank(S, i) \in 1..Cardinality(S) /\ i \in below(i)
  <2>1. below(i) \in SUBSET S /\ i \in below(i)
    OBVIOUS
  <2>2. IsFiniteSet(below(i)) /\ Cardinality(below(i)) <= Cardinality(S)
    BY <2>1, FS_Subset
  <2>3. Cardinality(below(i)) \in Nat /\ Cardinality(below(i)) # 0
    BY <2>1, <2>2, FS_CardinalityType, FS_EmptySet
  <2>4. QED
    BY <1>1, <2>1, <2>2, <2>3 DEF Rank
<1>3. ASSUME NEW i \in S, NEW j \in S, i < j
      PROVE  Rank(S, i) # Rank(S, j)
  <2>1. below(i) \in SUBSET below(j) /\ j \notin below(i) /\ j \in below(j)
    <3>1. \A k \in S : k <= i => k <= j
      BY <1>3
    <3>2. ~(j <= i) /\ j <= j
      BY <1>3
    <3>3. QED
      BY <3>1, <3>2
  <2>2. IsFiniteSet(below(j)) /\ below(i) # below(j)
    BY <1>2, <2>1
  <2>3. Cardinality(below(i)) # Cardinality(below(j))
    BY <2>1, <2>2, FS_Subset
  <2>4. QED
    BY <2>3 DEF Rank
<1>4. \A i, j \in S : Rank(S, i) = Rank(S, j) => i = j
  <2>1. \A i, j \in S : i < j \/ j < i \/ i = j
    OBVIOUS
  <2>2. QED
    BY <1>3, <2>1
<1>5. f \in [S -> 1..Cardinality(S)]
  BY <1>2
<1>6. f \in Injection(S, 1..Cardinality(S))
  <2>1. \A i, j \in S : f[i] = f[j] => i = j
    BY <1>4
  <2> HIDE DEF f
  <2>2. QED
    BY <1>5, <2>1, Fun_IsInj
<1>7. IsFiniteSet(1..Cardinality(S)) /\ Cardinality(1..Cardinality(S)) = Cardinality(S)
  BY <1>1, FS_Interval
<1>8. f \in Surjection(S, 1..Cardinality(S))
  <2> HIDE DEF f
  <2>1. QED
    BY <1>6, <1>7, FS_Injection
<1>9. \A n \in 1..Cardinality(S) : \E i \in S : f[i] = n
  <2> HIDE DEF f
  <2>1. QED
    BY <1>8, Fun_SurjectionProperties
<1>10. \A n \in 1..Cardinality(S) : \E i \in S : Rank(S, i) = n
  BY <1>9
<1>11. QED
  BY <1>2, <1>4, <1>10

\* Smallest enumerates a set without repetition.
LEMMA SmallestEnumerates ==
    ASSUME NEW S \in SUBSET Nat, IsFiniteSet(S)
    PROVE  /\ \A n \in 1..Cardinality(S) : Smallest(S, n) \in S
           /\ \A n, m \in 1..Cardinality(S) : Smallest(S, n) = Smallest(S, m) => n = m
           /\ \A i \in S : \E n \in 1..Cardinality(S) : Smallest(S, n) = i
<1>1. ASSUME NEW n \in 1..Cardinality(S)
      PROVE  Smallest(S, n) \in S /\ Rank(S, Smallest(S, n)) = n
  <2>1. \E i \in S : Rank(S, i) = n
    BY Ranked
  <2>2. Smallest(S, n) = CHOOSE i \in S : Rank(S, i) = n
    BY DEF Smallest, Rank
  <2>3. QED
    BY <2>1, <2>2
<1>2. ASSUME NEW i \in S
      PROVE  \E n \in 1..Cardinality(S) : Smallest(S, n) = i
  <2> DEFINE n == Rank(S, i)
  <2>1. n \in 1..Cardinality(S)
    BY Ranked
  <2> HIDE DEF n
  <2>2. Smallest(S, n) \in S /\ Rank(S, Smallest(S, n)) = n
    BY <1>1, <2>1
  <2>3. Smallest(S, n) = i
    <3>1. Rank(S, Smallest(S, n)) = Rank(S, i)
      BY <2>2 DEF n
    <3>2. \A j \in S : Rank(S, j) = Rank(S, i) => j = i
      BY Ranked
    <3>3. QED
      BY <2>2, <3>1, <3>2
  <2>4. QED
    BY <2>1, <2>3
<1>3. QED
  BY <1>1, <1>2

\* What stopping blocks does to a stream: nothing but that.
LEMMA StopsAppended ==
    ASSUME NEW p \in Seq(Event), NEW o \in Seq(Event),
           \A k \in 1..Len(o) : o[k].type = "content_block_stop"
    PROVE  LET q == p \o o
           IN  /\ q \in Seq(Event)
               /\ p # <<>> => Phase(q) = Phase(p)
               /\ StopReasons(q) = StopReasons(p)
               /\ UsedIndexes(q) = UsedIndexes(p)
               /\ \A kind : Deltas(q, kind) = Deltas(p, kind)
               /\ OpenBlocks(q) =
                     {b \in OpenBlocks(p) : \A k \in 1..Len(o) : o[k].index # b.index}
<1> DEFINE q == p \o o
           starts == Places(p, "content_block_start")
           stops == Places(p, "content_block_stop")
<1>1. /\ q \in Seq(Event) /\ Len(q) = Len(p) + Len(o)
      /\ Len(p) \in Nat /\ Len(o) \in Nat
      /\ \A n \in 1..Len(p) : q[n] = p[n]
      /\ \A k \in 1..Len(o) : q[Len(p) + k] = o[k]
  BY ConcatProperties, LenProperties
<1>2. p # <<>> => q # <<>>
  BY <1>1, EmptySeq
<1> HIDE DEF q
<1>3. \A n \in 1..Len(q) : n \in 1..Len(p) \/ \E k \in 1..Len(o) : n = Len(p) + k
  <2>1. ASSUME NEW n \in 1..Len(q), n \notin 1..Len(p)
        PROVE  n - Len(p) \in 1..Len(o) /\ n = Len(p) + (n - Len(p))
    BY <1>1, <2>1
  <2>2. QED
    BY <2>1
<1>4. \A n \in 1..Len(p) : n \in 1..Len(q)
  BY <1>1
<1>5. \A k \in 1..Len(o) : Len(p) + k \in 1..Len(q) /\ Len(p) + k > Len(p)
  BY <1>1
<1>6. ASSUME NEW type, type # "content_block_stop"
      PROVE  Places(q, type) = Places(p, type)
  <2>1. ASSUME NEW n \in 1..Len(q), q[n].type = type
        PROVE  n \in 1..Len(p)
    BY <1>1, <1>3, <1>6, <2>1
  <2>2. QED
    BY <1>1, <1>4, <2>1 DEF Places
<1>7. \A n : n \in Places(q, "content_block_stop") <=>
                n \in stops \/ \E k \in 1..Len(o) : n = Len(p) + k
  <2>1. ASSUME NEW n \in Places(q, "content_block_stop")
        PROVE  n \in stops \/ \E k \in 1..Len(o) : n = Len(p) + k
    BY <1>1, <1>3, <2>1 DEF Places
  <2>2. \A n \in stops : n \in Places(q, "content_block_stop")
    BY <1>1, <1>4 DEF Places
  <2>3. \A k \in 1..Len(o) : Len(p) + k \in Places(q, "content_block_stop")
    BY <1>1, <1>5 DEF Places
  <2>4. QED
    BY <2>1, <2>2, <2>3
<1>8. \A type : \A n \in Places(p, type) : n \in 1..Len(p)
  BY DEF Places
<1>9. StopReasons(q) = StopReasons(p)
  BY <1>1, <1>6, <1>8 DEF StopReasons
<1>10. UsedIndexes(q) = UsedIndexes(p)
  <2>1. Places(q, "content_block_start") = Places(p, "content_block_start")
    BY <1>6
  <2>2. \A n \in Places(p, "content_block_start") : q[n].index = p[n].index
    BY <1>1, <1>8
  <2>3. QED
    BY <2>1, <2>2 DEF UsedIndexes
<1>11. \A kind : Deltas(q, kind) = Deltas(p, kind)
  BY <1>1, <1>6, <1>8 DEF Deltas
<1>12. p # <<>> => Phase(q) = Phase(p)
  BY <1>2, <1>6, <1>9 DEF Phase
<1>13. ASSUME NEW n \in starts
       PROVE  Unstopped(q, n) <=>
                 Unstopped(p, n) /\ \A k \in 1..Len(o) : o[k].index # p[n].index
  <2>1. n \in 1..Len(p) /\ q[n] = p[n]
    BY <1>1, <1>8
  <2>2. \A m \in stops : m \in 1..Len(p) /\ q[m] = p[m]
    BY <1>1, <1>8
  <2>3. \A k \in 1..Len(o) : q[Len(p) + k] = o[k] /\ Len(p) + k > n
    BY <1>1, <2>1
  <2>4. ASSUME Unstopped(p, n), \A k \in 1..Len(o) : o[k].index # p[n].index
        PROVE  Unstopped(q, n)
    <3>1. SUFFICES ASSUME NEW m \in Places(q, "content_block_stop"), m > n
                   PROVE  q[m].index # q[n].index
      BY DEF Unstopped
    <3>2. CASE m \in stops
      BY <2>1, <2>2, <2>4, <3>1, <3>2 DEF Unstopped
    <3>3. ASSUME NEW k \in 1..Len(o), m = Len(p) + k
          PROVE  q[m].index # q[n].index
      BY <2>1, <2>3, <2>4, <3>3
    <3>4. QED
      BY <1>7, <3>1, <3>2, <3>3
  <2>5. ASSUME Unstopped(q, n)
        PROVE  Unstopped(p, n) /\ \A k \in 1..Len(o) : o[k].index # p[n].index
    <3>1. \A m \in Places(q, "content_block_stop") : m > n => q[m].index # p[n].index
      BY <2>1, <2>5 DEF Unstopped
    <3>2. \A m \in stops : m > n => p[m].index # p[n].index
      BY <1>7, <2>2, <3>1
    <3>3. ASSUME NEW k \in 1..Len(o)
          PROVE  o[k].index # p[n].index
      <4>1. Len(p) + k \in Places(q, "content_block_stop")
        BY <1>7
      <4>2. QED
        BY <2>3, <3>1, <4>1
    <3>4. QED
      BY <3>2, <3>3 DEF Unstopped
  <2>6. QED
    BY <2>4, <2>5
<1>14. \A b : b \in OpenBlocks(q) <=>
                 b \in OpenBlocks(p) /\ \A k \in 1..Len(o) : o[k].index # b.index
  <2>1. Places(q, "content_block_start") = starts /\ \A n \in starts : q[n] = p[n]
    BY <1>1, <1>6, <1>8
  <2> HIDE DEF starts
  <2>2. ASSUME NEW b
        PROVE  b \in OpenBlocks(q) <=>
                  \E n \in starts : b = [index |-> p[n].index, kind |-> p[n].kind]
                                    /\ Unstopped(q, n)
    BY <1>1, <2>1, OpenIs DEF BlockOf
  <2>3. ASSUME NEW b
        PROVE  b \in OpenBlocks(p) <=>
                  \E n \in starts : b = [index |-> p[n].index, kind |-> p[n].kind]
                                    /\ Unstopped(p, n)
    BY OpenIs DEF starts, BlockOf
  <2>4. QED
    BY <1>13, <2>2, <2>3
<1>15. OpenBlocks(q) = {b \in OpenBlocks(p) : \A k \in 1..Len(o) : o[k].index # b.index}
  BY <1>14
<1>16. QED
  BY <1>1, <1>9, <1>10, <1>11, <1>12, <1>15 DEF q

LEMMA StopsWellFormed ==
    ASSUME NEW p \in Seq(Event), NEW o \in Seq(Event), p # <<>>, WellFormed(p),
           \A k \in 1..Len(o) :
              /\ o[k].type = "content_block_stop"
              /\ \E b \in OpenBlocks(p) : \A d \in OpenBlocks(p) : d.index = o[k].index <=> d = b
              /\ \A j \in 1..Len(o) : o[j].index = o[k].index => j = k
    PROVE  WellFormed(p \o o)
<1> DEFINE q == p \o o
<1>1. /\ q \in Seq(Event) /\ Len(q) = Len(p) + Len(o)
      /\ Len(p) \in Nat /\ Len(o) \in Nat
      /\ \A n \in 1..Len(p) : q[n] = p[n]
      /\ \A k \in 1..Len(o) : q[Len(p) + k] = o[k]
  BY ConcatProperties, LenProperties
<1> HIDE DEF q
<1>2. ASSUME NEW n \in 1..Len(p)
      PROVE  Allowed(SubSeq(q, 1, n - 1), q[n])
  <2>1. SubSeq(q, 1, n - 1) = SubSeq(p, 1, n - 1)
    BY <1>1
  <2>2. QED
    BY <1>1, <2>1 DEF WellFormed
<1>3. ASSUME NEW k \in 1..Len(o)
      PROVE  Allowed(SubSeq(q, 1, (Len(p) + k) - 1), q[Len(p) + k])
  <2> DEFINE before == SubSeq(o, 1, k - 1)
             r == p \o before
  <2>1. /\ before \in Seq(Event) /\ Len(before) = k - 1
        /\ \A j \in 1..(k - 1) : before[j] = o[j] /\ j \in 1..Len(o)
    BY <1>1
  <2> HIDE DEF before
  <2>2. /\ r \in Seq(Event) /\ Len(r) = Len(p) + (k - 1)
        /\ \A i \in 1..(Len(p) + (k - 1)) :
              r[i] = IF i <= Len(p) THEN p[i] ELSE before[i - Len(p)]
    <3>1. /\ r \in Seq(Event) /\ Len(r) = Len(p) + Len(before)
          /\ \A i \in 1..(Len(p) + Len(before)) :
                r[i] = IF i <= Len(p) THEN p[i] ELSE before[i - Len(p)]
      <4>1. before \in Seq(Event)
        BY <2>1
      <4>2. QED
        BY <4>1, ConcatProperties
    <3> HIDE DEF r
    <3>2. QED
      BY <2>1, <3>1
  <2>3. SubSeq(q, 1, (Len(p) + k) - 1) = r
    <3> DEFINE u == SubSeq(q, 1, (Len(p) + k) - 1)
    <3>1. /\ (Len(p) + k) - 1 \in Nat /\ (Len(p) + k) - 1 <= Len(q)
          /\ (Len(p) + k) - 1 = Len(p) + (k - 1)
      BY <1>1
    <3>2. /\ u \in Seq(Event) /\ Len(u) = Len(p) + (k - 1)
          /\ \A i \in 1..(Len(p) + (k - 1)) : u[i] = q[i]
      BY <1>1, <3>1
    <3> HIDE DEF u, r
    <3>3. ASSUME NEW i \in 1..(Len(p) + (k - 1))
          PROVE  u[i] = r[i]
      <4>1. CASE i <= Len(p)
        BY <1>1, <2>2, <3>2, <4>1
      <4>2. CASE i > Len(p)
        <5>1. i - Len(p) \in 1..(k - 1) /\ i = Len(p) + (i - Len(p))
          BY <1>1, <4>2
        <5>2. q[i] = o[i - Len(p)] /\ before[i - Len(p)] = o[i - Len(p)]
          BY <1>1, <2>1, <5>1
        <5>3. ~(i <= Len(p))
          BY <1>1, <4>2
        <5>4. QED
          BY <2>2, <3>2, <5>2, <5>3
      <4>3. i <= Len(p) \/ i > Len(p)
        BY <1>1
      <4>4. QED
        BY <4>1, <4>2, <4>3
    <3>4. u = r
      BY <2>2, <3>2, <3>3, SeqEqual, SMTT(30)
    <3>5. QED
      BY <3>4 DEF u
  <2>4. OpenBlocks(r) = {b \in OpenBlocks(p) : \A j \in 1..(k - 1) : o[j].index # b.index}
    <3>1. \A j \in 1..Len(before) : before[j].type = "content_block_stop"
      BY <2>1
    <3>2. OpenBlocks(r) =
            {b \in OpenBlocks(p) : \A j \in 1..Len(before) : before[j].index # b.index}
      BY <2>1, <3>1, StopsAppended
    <3>3. ASSUME NEW b
          PROVE  (\A j \in 1..Len(before) : before[j].index # b.index)
                   <=> (\A j \in 1..(k - 1) : o[j].index # b.index)
      <4>1. Len(before) = k - 1 /\ \A j \in 1..(k - 1) : before[j] = o[j]
        BY <2>1
      <4> HIDE DEF before
      <4>2. QED
        BY <4>1
    <3> HIDE DEF r, before
    <3>4. QED
      BY <3>2, <3>3
  <2>5. r # <<>>
    <3>1. Len(p) # 0
      BY EmptySeq
    <3>2. Len(r) # 0
      BY <1>1, <2>2, <3>1
    <3>3. QED
      BY <3>2, EmptySeq
  <2> HIDE DEF r
  <2>6. PICK b \in OpenBlocks(p) : \A d \in OpenBlocks(p) : d.index = o[k].index <=> d = b
    OBVIOUS
  <2>7. b \in OpenBlocks(r)
    <3>1. \A j \in 1..(k - 1) : j \in 1..Len(o) /\ j # k
      BY <1>1
    <3>2. b.index = o[k].index
      BY <2>6
    <3>3. \A j \in 1..(k - 1) : o[j].index # b.index
      BY <3>1, <3>2
    <3>4. QED
      BY <2>4, <2>6, <3>3
  <2>8. \A d \in OpenBlocks(r) : d.index = o[k].index <=> d = b
    BY <2>4, <2>6
  <2>9. Allowed(r, o[k])
    BY <2>5, <2>7, <2>8 DEF Allowed
  <2>10. QED
    BY <1>1, <2>3, <2>9
<1>4. \A n \in 1..Len(q) : n \in 1..Len(p) \/ \E k \in 1..Len(o) : n = Len(p) + k
  <2>1. ASSUME NEW n \in 1..Len(q), n \notin 1..Len(p)
        PROVE  n - Len(p) \in 1..Len(o) /\ n = Len(p) + (n - Len(p))
    BY <1>1, <2>1
  <2>2. QED
    BY <2>1
<1>5. QED
  BY <1>2, <1>3, <1>4 DEF WellFormed, q

\* The blocks open are those of the tool calls.
OnlyTools(p, s) ==
    /\ ~s.contentStarted /\ ~s.reasoningStarted
    /\ IsFiniteSet(DOMAIN s.startedToolCalls)
    /\ OpenBlocks(Whole(p, s)) =
          {[index |-> s.startedToolCalls[i], kind |-> "tool_use"] :
              i \in DOMAIN s.startedToolCalls}

LEMMA ToolStops ==
    ASSUME NEW s \in Locals, IsFiniteSet(DOMAIN s.startedToolCalls)
    PROVE  LET blocks == s.startedToolCalls
               open == {blocks[i] : i \in DOMAIN blocks}
               stops == [n \in 1..Cardinality(open) |-> BlockStopEvent(Smallest(open, n))]
               t == CloseToolBlocks(s)
           IN  /\ open \in SUBSET Nat /\ IsFiniteSet(open)
               /\ stops \in Seq(Event) /\ Len(stops) = Cardinality(open)
               /\ \A n \in 1..Cardinality(open) :
                     /\ stops[n].type = "content_block_stop"
                     /\ stops[n].index = Smallest(open, n)
               /\ t \in Locals /\ t.out = s.out \o stops
               /\ t.startedToolCalls = NoTools /\ t.stopSent = s.stopSent
               /\ t.contentIndex = s.contentIndex
               /\ t.contentStarted = s.contentStarted
               /\ t.reasoningStarted = s.reasoningStarted
<1> DEFINE blocks == s.startedToolCalls
           open == {blocks[i] : i \in DOMAIN blocks}
           stops == [n \in 1..Cardinality(open) |-> BlockStopEvent(Smallest(open, n))]
           t == CloseToolBlocks(s)
<1>1. s.out \in Seq(Event) /\ blocks \in ToolBlocks
  BY DEF Locals
<1>2. open \in SUBSET Nat
  <2>1. \A i \in DOMAIN blocks : blocks[i] \in Nat
    BY <1>1, ToolBlockFields
  <2>2. QED
    BY <2>1
<1>3. IsFiniteSet(open) /\ Cardinality(open) \in Nat
  <2>1. blocks \in Surjection(DOMAIN blocks, open)
    <3>1. blocks \in [DOMAIN blocks -> open]
      <4>1. blocks = [i \in DOMAIN blocks |-> blocks[i]]
        BY <1>1, ToolBlockFields
      <4>2. QED
        BY <4>1
    <3>2. \A i \in open : \E j \in DOMAIN blocks : blocks[j] = i
      OBVIOUS
    <3> HIDE DEF blocks, open
    <3>3. QED
      BY <3>1, <3>2, Fun_IsSurj
  <2>2. IsFiniteSet(DOMAIN blocks)
    OBVIOUS
  <2> HIDE DEF blocks, open
  <2>3. QED
    BY <2>1, <2>2, FS_Surjection, FS_CardinalityType
<1> HIDE DEF open
<1>4. /\ stops \in Seq(Event) /\ Len(stops) = Cardinality(open)
      /\ \A n \in 1..Cardinality(open) :
            /\ stops[n].type = "content_block_stop"
            /\ stops[n].index = Smallest(open, n)
  <2>1. \A n \in 1..Cardinality(open) :
           /\ BlockStopEvent(Smallest(open, n)) \in Event
           /\ BlockStopEvent(Smallest(open, n)).type = "content_block_stop"
           /\ BlockStopEvent(Smallest(open, n)).index = Smallest(open, n)
    BY <1>2, <1>3, SmallestEnumerates DEF BlockStopEvent, Event
  <2>2. QED
    BY <1>3, <2>1
<1>5. t = [s EXCEPT !.out = s.out \o stops, !.startedToolCalls = NoTools]
  BY DEF CloseToolBlocks, open
<1> HIDE DEF stops, t
<1>6. s.out \o stops \in Seq(Event) /\ NoTools \in ToolBlocks
  <2>1. NoTools \in [{} -> Nat]
    BY DEF NoTools
  <2>2. QED
    BY <1>1, <1>4, <2>1, ConcatProperties DEF ToolBlocks
<1>7. /\ t \in Locals /\ t.out = s.out \o stops /\ t.startedToolCalls = NoTools
      /\ t.stopSent = s.stopSent
      /\ t.contentIndex = s.contentIndex
      /\ t.contentStarted = s.contentStarted
      /\ t.reasoningStarted = s.reasoningStarted
  BY <1>1, <1>5, <1>6 DEF Locals
<1>8. QED
  BY <1>2, <1>3, <1>4, <1>7 DEF open, stops, t

LEMMA ToolBlocksClose ==
    ASSUME NEW p, NEW s, Sound(p, s), OnlyTools(p, s)
    PROVE  LET t == CloseToolBlocks(s)
           IN  /\ Sound(p, t)
               /\ ~t.contentStarted /\ ~t.reasoningStarted
               /\ t.startedToolCalls = NoTools
               /\ t.stopSent = s.stopSent
               /\ OpenBlocks(Whole(p, t)) = {}
<1> DEFINE blocks == s.startedToolCalls
           open == {blocks[i] : i \in DOMAIN blocks}
           stops == [n \in 1..Cardinality(open) |-> BlockStopEvent(Smallest(open, n))]
           t == CloseToolBlocks(s)
           w == Whole(p, s)
<1>1. /\ p \in Seq(Event) /\ s \in Locals /\ s.out \in Seq(Event)
      /\ IsFiniteSet(DOMAIN blocks)
  BY DEF Sound, Locals, OnlyTools
<1>2. /\ open \in SUBSET Nat /\ IsFiniteSet(open)
      /\ stops \in Seq(Event) /\ Len(stops) = Cardinality(open)
      /\ \A n \in 1..Cardinality(open) :
            /\ stops[n].type = "content_block_stop"
            /\ stops[n].index = Smallest(open, n)
      /\ t \in Locals /\ t.out = s.out \o stops
      /\ t.startedToolCalls = NoTools /\ t.stopSent = s.stopSent
      /\ t.contentStarted = s.contentStarted
      /\ t.reasoningStarted = s.reasoningStarted
  BY <1>1, ToolStops
<1>3. OpenBlocks(w) = {[index |-> i, kind |-> "tool_use"] : i \in open}
  BY DEF OnlyTools
<1> HIDE DEF open, stops, t
<1>4. /\ \A n \in 1..Len(stops) : Smallest(open, n) \in open
      /\ \A n, m \in 1..Len(stops) : Smallest(open, n) = Smallest(open, m) => n = m
      /\ \A i \in open : \E n \in 1..Len(stops) : Smallest(open, n) = i
  <2>1. open \in SUBSET Nat /\ IsFiniteSet(open) /\ Len(stops) = Cardinality(open)
    BY <1>2
  <2>2. QED
    BY <2>1, SmallestEnumerates
<1>5. Whole(p, t) = w \o stops
  <2>1. (p \o s.out) \o stops = p \o (s.out \o stops)
    <3> DEFINE o == s.out
    <3>1. p \in Seq(Event) /\ o \in Seq(Event) /\ stops \in Seq(Event)
      BY <1>1, <1>2
    <3> HIDE DEF o
    <3>2. (p \o o) \o stops = p \o (o \o stops)
      BY <3>1, ConcatAssociative
    <3>3. QED
      BY <3>2 DEF o
  <2>2. QED
    BY <1>2, <2>1 DEF Whole
<1>6. w \in Seq(Event) /\ w # <<>> /\ WellFormed(w)
  BY SoundFacts DEF Sound
<1> HIDE DEF w
<1>7. \A n \in 1..Len(stops) :
          /\ stops[n].type = "content_block_stop"
          /\ \E b \in OpenBlocks(w) : \A d \in OpenBlocks(w) : d.index = stops[n].index <=> d = b
          /\ \A m \in 1..Len(stops) : stops[m].index = stops[n].index => m = n
  <2>1. ASSUME NEW n \in 1..Len(stops)
        PROVE  \E b \in OpenBlocks(w) :
                  \A d \in OpenBlocks(w) : d.index = stops[n].index <=> d = b
    <3> DEFINE b == [index |-> stops[n].index, kind |-> "tool_use"]
    <3>1. stops[n].index \in open
      BY <1>2, <1>4
    <3>2. b \in OpenBlocks(w) /\ \A d \in OpenBlocks(w) : d.index = stops[n].index <=> d = b
      BY <1>3, <3>1
    <3>3. QED
      BY <3>2
  <2>2. \A n, m \in 1..Len(stops) : stops[m].index = stops[n].index => m = n
    BY <1>2, <1>4
  <2>3. QED
    BY <1>2, <2>1, <2>2
<1>8. WellFormed(w \o stops)
  BY <1>2, <1>6, <1>7, StopsWellFormed
<1>9. /\ Phase(w \o stops) = Phase(w) /\ StopReasons(w \o stops) = StopReasons(w)
       /\ OpenBlocks(w \o stops) =
             {b \in OpenBlocks(w) : \A n \in 1..Len(stops) : stops[n].index # b.index}
  BY <1>2, <1>6, <1>7, StopsAppended
<1>10. OpenBlocks(w \o stops) = {}
  <2>1. \A i \in open : \E n \in 1..Len(stops) : stops[n].index = i
    BY <1>2, <1>4, ZenonT(60)
  <2>2. QED
    BY <1>3, <1>9, <2>1
<1>11. Sound(p, t)
  BY <1>1, <1>2, <1>5, <1>8, <1>9 DEF Sound, w
<1>12. QED
  BY <1>2, <1>5, <1>10, <1>11 DEF OnlyTools, t

-----------------------------------------------------------------------------
(* The end of an answer *)

LEMMA EverythingCloses ==
    ASSUME NEW p, NEW s, Sound(p, s), TextFits(p, s) \/ ToolFits(p, s)
    PROVE  LET t == CloseToolBlocks(CloseContentBlock(s))
           IN  /\ Sound(p, t)
               /\ ~t.contentStarted /\ ~t.reasoningStarted
               /\ t.startedToolCalls = NoTools
               /\ t.stopSent = s.stopSent
               /\ OpenBlocks(Whole(p, t)) = {}
<1> DEFINE c == CloseContentBlock(s)
<1>1. Sound(p, c) /\ OnlyTools(p, c) /\ c.stopSent = s.stopSent
  <2>1. CASE TextFits(p, s)
    <3>1. /\ Sound(p, c) /\ ~c.contentStarted /\ ~c.reasoningStarted
          /\ c.startedToolCalls = NoTools /\ c.stopSent = s.stopSent
          /\ OpenBlocks(Whole(p, c)) = {}
      BY <2>1, ContentBlockCloses
    <3>2. DOMAIN NoTools = {} /\ IsFiniteSet({})
      BY FS_EmptySet DEF NoTools
    <3> HIDE DEF c
    <3>3. QED
      BY <3>1, <3>2 DEF OnlyTools
  <2>2. CASE ToolFits(p, s)
    <3>1. c = s
      BY <2>2 DEF ToolFits, CloseContentBlock
    <3>2. QED
      BY <2>2, <3>1 DEF ToolFits, OnlyTools
  <2>3. QED
    BY <2>1, <2>2
<1> HIDE DEF c
<1>2. QED
  BY <1>1, ToolBlocksClose DEF c

Reasons == {"end_turn", "max_tokens", "tool_use"}

LEMMA Finishes ==
    ASSUME NEW p, NEW s, Sound(p, s), TextFits(p, s) \/ ToolFits(p, s), ~s.stopSent,
           NEW reason \in Reasons
    PROVE  LET t == Finish(s, reason)
           IN  Sound(p, t) /\ TextFits(p, t) /\ ToolFits(p, t) /\ t.stopSent
<1> DEFINE c == CloseToolBlocks(CloseContentBlock(s))
           t == [Emit(c, MessageDeltaEvent(reason)) EXCEPT !.stopSent = TRUE]
<1>1. /\ Sound(p, c) /\ ~c.stopSent /\ ~c.contentStarted /\ ~c.reasoningStarted
      /\ c.startedToolCalls = NoTools /\ OpenBlocks(Whole(p, c)) = {}
  BY EverythingCloses
<1>2. Finish(s, reason) = t
  BY DEF Finish
<1> HIDE DEF c
<1>3. /\ Sound(p, t) /\ t.stopSent /\ OpenBlocks(Whole(p, t)) = {}
      /\ t.contentStarted = c.contentStarted /\ t.reasoningStarted = c.reasoningStarted
      /\ t.startedToolCalls = c.startedToolCalls
  BY <1>1, SoundReason, ZenonT(60) DEF Reasons
<1> HIDE DEF t
<1>4. TextFits(p, t)
  BY <1>1, <1>3 DEF TextFits
<1>5. ToolFits(p, t)
  <2>1. DOMAIN NoTools = {} /\ IsFiniteSet({})
    BY FS_EmptySet DEF NoTools
  <2>2. QED
    BY <1>1, <1>3, <2>1 DEF ToolFits
<1>6. QED
  BY <1>2, <1>3, <1>4, <1>5

\* A stream that is over, as ClosedAtEnd has it.
Ended(events) ==
    /\ OpenBlocks(events) = {}
    /\ Cardinality(StopReasons(events)) = 1
    /\ Places(events, "message_stop") = {Len(events)}

LEMMA Terminates ==
    ASSUME NEW p, NEW s, Sound(p, s), TextFits(p, s) \/ ToolFits(p, s)
    PROVE  LET t == EmitTerminalEvents(s)
           IN  t \in Locals /\ WellFormed(Whole(p, t)) /\ Ended(Whole(p, t))
<1> DEFINE c == CloseToolBlocks(CloseContentBlock(s))
           given == [Emit(c, MessageDeltaEvent("end_turn")) EXCEPT !.stopSent = TRUE]
           ended == IF c.stopSent THEN c ELSE given
           e == [type |-> "message_stop"]
           t == Emit(ended, e)
<1>1. /\ Sound(p, c) /\ OpenBlocks(Whole(p, c)) = {}
  BY EverythingCloses
<1>2. EmitTerminalEvents(s) = t
  BY DEF EmitTerminalEvents
<1> HIDE DEF c
<1>3. Sound(p, ended) /\ ended.stopSent /\ OpenBlocks(Whole(p, ended)) = {}
  <2>1. CASE c.stopSent
    BY <1>1, <2>1
  <2>2. CASE ~c.stopSent
    <3>1. Sound(p, given) /\ given.stopSent /\ OpenBlocks(Whole(p, given)) = {}
      BY <1>1, <2>2, SoundReason
    <3> HIDE DEF given
    <3>2. QED
      BY <2>2, <3>1
  <2>3. QED
    BY <2>1, <2>2
<1> HIDE DEF ended
<1> DEFINE w == Whole(p, ended)
<1>4. /\ e \in Event /\ e.type = "message_stop" /\ w \in Seq(Event) /\ w # <<>>
      /\ Places(w, "message_stop") = {}
  BY <1>3, SoundFacts DEF Event
<1>5. Phase(w) = "ended" /\ WellFormed(w) /\ Cardinality(StopReasons(w)) = 1
  BY <1>3 DEF Sound
<1>6. t \in Locals /\ Whole(p, t) = Append(w, e)
  <2>1. p \in Seq(Event) /\ ended \in Locals
    BY <1>3 DEF Sound
  <2> HIDE DEF e
  <2>2. QED
    BY <1>4, <2>1, Emits DEF w
<1> HIDE DEF w, e, t
<1>7. Allowed(w, e)
  BY <1>4, <1>5 DEF Allowed
<1>8. WellFormed(Append(w, e))
  BY <1>4, <1>5, <1>7, WellFormedAppended
<1>9. /\ OpenBlocks(Append(w, e)) = {}
      /\ StopReasons(Append(w, e)) = StopReasons(w)
      /\ Places(Append(w, e), "message_stop") = {Len(w) + 1}
      /\ Len(Append(w, e)) = Len(w) + 1
  <2>1. OpenBlocks(w) = {}
    BY <1>3 DEF w
  <2>2. OpenBlocks(Append(w, e)) = {} /\ Len(Append(w, e)) = Len(w) + 1
    BY <1>4, <2>1, OpenAppended, Appended
  <2>3. StopReasons(Append(w, e)) = StopReasons(w)
    BY <1>4, ReasonsAppended
  <2>4. Places(Append(w, e), "message_stop") = {Len(w) + 1}
    BY <1>4, PlacesAppended
  <2>5. QED
    BY <2>2, <2>3, <2>4
<1>10. QED
  BY <1>2, <1>5, <1>6, <1>8, <1>9 DEF Ended

-----------------------------------------------------------------------------
(* A line *)

\* The upstream's answer has no tool calls.
WithoutTools(u) == \A c \in u : c.tools = <<>>

Fits(u, p, s) == IF WithoutTools(u) THEN TextFits(p, s) ELSE ToolFits(p, s)

LEMMA UsageIsSent ==
    ASSUME NEW u, NEW p, NEW s, Sound(p, s), Fits(u, p, s), s.stopSent
    PROVE  LET t == Emit(s, MessageDeltaEvent("none"))
           IN  Sound(p, t) /\ Fits(u, p, t) /\ t.stopSent
<1> DEFINE e == MessageDeltaEvent("none")
           w == Whole(p, s)
           t == Emit(s, e)
<1>1. e \in Event /\ e.type = "message_delta" /\ e.reason = "none"
  BY DEF MessageDeltaEvent, Event
<1>2. w \in Seq(Event) /\ w # <<>> /\ p \in Seq(Event) /\ s \in Locals
  BY SoundFacts DEF Sound
<1> HIDE DEF e, w
<1>3. Allowed(w, e)
  BY <1>1, <1>2 DEF Allowed
<1>4. Sound(p, t)
  BY <1>1, <1>3, SoundEmit DEF w
<1>5. /\ Whole(p, t) = Append(w, e) /\ t.contentIndex = s.contentIndex
      /\ t.contentStarted = s.contentStarted /\ t.reasoningStarted = s.reasoningStarted
      /\ t.startedToolCalls = s.startedToolCalls /\ t.stopSent = s.stopSent
  BY <1>1, <1>2, Emits DEF w
<1>6. OpenBlocks(Append(w, e)) = OpenBlocks(w)
  BY <1>1, <1>2, OpenAppended
<1> HIDE DEF t
<1>7. TextFits(p, s) => TextFits(p, t)
  BY <1>5, <1>6 DEF TextFits, w
<1>8. ToolFits(p, s) => ToolFits(p, t)
  BY <1>5, <1>6 DEF ToolFits, w
<1>9. QED
  BY <1>4, <1>5, <1>7, <1>8 DEF Fits, t, e

\* The content of a line, whichever path takes it.
LEMMA ContentIsSent ==
    ASSUME NEW u, NEW p, NEW s, Sound(p, s), Fits(u, p, s), ~s.stopSent,
           Ordinary(u), NEW c \in u
    PROVE  /\ LET t == ContentPath(s, c)
              IN  Sound(p, t) /\ Fits(u, p, t) /\ ~t.stopSent
           /\ LET t == JSONPath(s, c)
              IN  Sound(p, t) /\ Fits(u, p, t) /\ ~t.stopSent
<1>1. CASE WithoutTools(u)
  <2>1. TextFits(p, s)
    BY <1>1 DEF Fits
  <2>2. LET t == ContentPath(s, c)
        IN  Sound(p, t) /\ TextFits(p, t) /\ ~t.stopSent
    <3>1. (c.content = "some") \in BOOLEAN
      OBVIOUS
    <3>2. QED
      BY <2>1, <3>1, TextIsSent DEF ContentPath
  <2>3. LET t == JSONPath(s, c)
        IN  Sound(p, t) /\ TextFits(p, t) /\ ~t.stopSent
    <3> DEFINE thought == IF c.reasoning = "some" THEN SendThinking(s) ELSE s
    <3>1. Sound(p, thought) /\ TextFits(p, thought) /\ ~thought.stopSent
      BY <2>1, ThinkingIsSent
    <3>2. JSONPath(s, c) = IF c.content \in {"some", "escaped"}
                           THEN SendText(thought, TRUE) ELSE thought
      BY DEF JSONPath
    <3>3. TRUE \in BOOLEAN
      OBVIOUS
    <3> HIDE DEF thought
    <3>4. QED
      BY <3>1, <3>2, <3>3, TextIsSent
  <2>4. QED
    BY <1>1, <2>2, <2>3 DEF Fits
<1>2. CASE ~WithoutTools(u)
  <2>1. ~CarriesText(c)
    BY <1>2 DEF Ordinary, Unmixed, WithoutTools
  <2>2. ContentPath(s, c) = s /\ JSONPath(s, c) = s
    BY <2>1 DEF CarriesText, ContentPath, JSONPath
  <2>3. QED
    BY <2>2
<1>3. QED
  BY <1>1, <1>2

\* A line up to its tool calls, from an upstream that has or has not finished.
LEMMA LineIsProcessed ==
    ASSUME NEW u \in Upstreams, Ordinary(u), NEW c \in u,
           NEW p, NEW s, Sound(p, s), Fits(u, p, s), s.stopSent <=> ~c.choices
    PROVE  LET t == ProcessSSELine(s, c)
           IN  /\ Sound(p, t) /\ Fits(u, p, t)
               /\ s.stopSent \/ c.finish # "none" <=> t.stopSent \/ Rest(c).finish # "none"
               /\ Rest(c).finish # "none" \/ Rest(c).tools # <<>> => ~t.stopSent
               /\ Rest(c) \in [tools : Seq(ToolCall), finish : FinishReasons \cup {"none"}]
               /\ WithoutTools(u) => Rest(c).tools = <<>>
<1>1. /\ c \in Chunk /\ c.choices \in BOOLEAN /\ ChoicesOnly(c)
      /\ TakesContentPath(c) => c.finish = "none"
  BY StreamAssumption DEF Ordinary, Chunk
<1>2. /\ Rest(c) \in [tools : Seq(ToolCall), finish : FinishReasons \cup {"none"}]
      /\ WithoutTools(u) => Rest(c).tools = <<>>
      /\ TakesContentPath(c) \/ TakesFinishPath(c) \/ ~c.choices => Rest(c) = NothingLeft
      /\ ~TakesContentPath(c) /\ ~TakesFinishPath(c) /\ c.choices =>
            Rest(c).finish = c.finish
  <2>1. <<>> \in Seq(ToolCall) /\ "none" \in FinishReasons \cup {"none"}
    OBVIOUS
  <2>2. NothingLeft \in [tools : Seq(ToolCall), finish : FinishReasons \cup {"none"}]
        /\ NothingLeft.tools = <<>>
    BY <2>1 DEF NothingLeft
  <2>3. [tools |-> c.tools, finish |-> c.finish]
            \in [tools : Seq(ToolCall), finish : FinishReasons \cup {"none"}]
    BY <1>1 DEF Chunk
  <2>4. QED
    BY <2>2, <2>3 DEF Rest, WithoutTools
<1>3. NothingLeft.finish = "none" /\ NothingLeft.tools = <<>>
  BY DEF NothingLeft
<1>4. CASE TakesContentPath(c)
  <2>1. ProcessSSELine(s, c) = ContentPath(s, c) /\ c.finish = "none" /\ c.choices
    BY <1>1, <1>4 DEF ProcessSSELine, TakesContentPath, TakesFinishPath, ChoicesOnly
  <2>2. QED
    BY <1>2, <1>3, <1>4, <2>1, ContentIsSent
<1>5. CASE TakesFinishPath(c)
  <2>1. ProcessSSELine(s, c) = Finish(s, "end_turn") /\ c.finish # "none" /\ c.choices
    BY <1>1, <1>5 DEF ProcessSSELine, TakesFinishPath, FinishPath, ChoicesOnly
  <2>2. "end_turn" \in Reasons
    BY DEF Reasons
  <2>3. QED
    BY <1>2, <1>3, <1>5, <2>1, <2>2, Finishes DEF Fits
<1>6. CASE ~TakesContentPath(c) /\ ~TakesFinishPath(c) /\ ~c.choices
  <2>1. ProcessSSELine(s, c) = UsageOnly(s, c) /\ c.finish = "none" /\ s.stopSent
    BY <1>1, <1>6 DEF ProcessSSELine, ChoicesOnly
  <2>2. UsageOnly(s, c) = s \/ UsageOnly(s, c) = Emit(s, MessageDeltaEvent("none"))
    BY <2>1 DEF UsageOnly
  <2>3. Sound(p, UsageOnly(s, c)) /\ Fits(u, p, UsageOnly(s, c)) /\ UsageOnly(s, c).stopSent
    BY <2>1, <2>2, UsageIsSent
  <2>4. QED
    BY <1>2, <1>3, <1>6, <2>1, <2>3
<1>7. CASE ~TakesContentPath(c) /\ ~TakesFinishPath(c) /\ c.choices
  <2>1. ProcessSSELine(s, c) = JSONPath(s, c) /\ ~s.stopSent
    BY <1>7 DEF ProcessSSELine
  <2>2. QED
    BY <1>2, <1>7, <2>1, ContentIsSent
<1>8. QED
  BY <1>1, <1>4, <1>5, <1>6, <1>7

-----------------------------------------------------------------------------
(* The types of the local variables, whatever the upstream sends *)

LocalsFit(s) ==
    /\ s \in Locals
    /\ IsFiniteSet(DOMAIN s.startedToolCalls)
    /\ \A i \in DOMAIN s.startedToolCalls : s.startedToolCalls[i] \in 1..s.contentIndex

LEMMA EmitFits ==
    ASSUME NEW s, LocalsFit(s), NEW e \in Event
    PROVE  LocalsFit(Emit(s, e)) /\ Emit(s, e).contentIndex = s.contentIndex
<1>1. <<>> \in Seq(Event) /\ s \in Locals
  BY DEF LocalsFit
<1>2. /\ Emit(s, e) \in Locals /\ Emit(s, e).contentIndex = s.contentIndex
      /\ Emit(s, e).startedToolCalls = s.startedToolCalls
  BY <1>1, Emits
<1>3. QED
  BY <1>2 DEF LocalsFit

LEMMA FlagsFit ==
    ASSUME NEW s, LocalsFit(s), NEW b \in BOOLEAN
    PROVE  /\ LocalsFit([s EXCEPT !.contentStarted = b])
           /\ LocalsFit([s EXCEPT !.reasoningStarted = b])
           /\ LocalsFit([s EXCEPT !.contentStarted = b, !.reasoningStarted = b])
           /\ LocalsFit([s EXCEPT !.stopSent = b])
           /\ [s EXCEPT !.contentStarted = b, !.reasoningStarted = b].contentIndex
                 = s.contentIndex
BY DEF LocalsFit, Locals

LEMMA EventsAre ==
    /\ \A i \in Nat : BlockStopEvent(i) \in Event
    /\ \A i \in Nat, kind \in Kinds : BlockStartEvent(i, kind) \in Event
    /\ \A i \in Nat, kind \in Kinds, intact \in BOOLEAN :
          BlockDeltaEvent(i, kind, intact) \in Event
    /\ \A reason \in Reasons \cup {"none"} : MessageDeltaEvent(reason) \in Event
    /\ [type |-> "message_start"] \in Event /\ [type |-> "message_stop"] \in Event
    /\ {"text", "thinking", "tool_use"} = Kinds
BY DEF Event, Kinds, Reasons, BlockStopEvent, BlockStartEvent, BlockDeltaEvent,
       MessageDeltaEvent

LEMMA CloseContentBlockFits ==
    ASSUME NEW s, LocalsFit(s)
    PROVE  /\ LocalsFit(CloseContentBlock(s))
           /\ CloseContentBlock(s).contentIndex = s.contentIndex
<1> DEFINE d == Emit(s, BlockStopEvent(s.contentIndex))
<1>1. s.contentIndex \in Nat
  BY DEF LocalsFit, Locals
<1>2. LocalsFit(d) /\ d.contentIndex = s.contentIndex
  BY <1>1, EventsAre, EmitFits
<1>3. FALSE \in BOOLEAN
  OBVIOUS
<1>4. \/ CloseContentBlock(s) = s
      \/ CloseContentBlock(s) = [d EXCEPT !.contentStarted = FALSE, !.reasoningStarted = FALSE]
  BY DEF CloseContentBlock
<1> HIDE DEF d
<1>5. QED
  BY <1>2, <1>3, <1>4, FlagsFit

LEMMA CloseToolBlocksFits ==
    ASSUME NEW s, LocalsFit(s)
    PROVE  LocalsFit(CloseToolBlocks(s))
<1>1. /\ CloseToolBlocks(s) \in Locals /\ CloseToolBlocks(s).startedToolCalls = NoTools
  BY ToolStops DEF LocalsFit
<1>2. DOMAIN NoTools = {} /\ IsFiniteSet({})
  BY FS_EmptySet DEF NoTools
<1>3. QED
  BY <1>1, <1>2 DEF LocalsFit

LEMMA LeaveBlockFits ==
    ASSUME NEW s, LocalsFit(s), NEW isOpen
    PROVE  LocalsFit(LeaveBlock(s, isOpen))
<1> DEFINE c == CloseContentBlock(s)
           t == [c EXCEPT !.contentIndex = s.contentIndex + 1]
<1>1. LocalsFit(c) /\ c.contentIndex = s.contentIndex
  BY CloseContentBlockFits
<1>2. s.contentIndex \in Nat
  BY DEF LocalsFit, Locals
<1>3. LeaveBlock(s, isOpen) = s \/ LeaveBlock(s, isOpen) = t
  BY DEF LeaveBlock
<1> HIDE DEF c
<1>4. t \in Locals /\ t.contentIndex = s.contentIndex + 1 /\ t.startedToolCalls = c.startedToolCalls
  <2> DEFINE i == s.contentIndex + 1
  <2>1. c \in Locals /\ i \in Nat
    BY <1>1, <1>2 DEF LocalsFit
  <2> HIDE DEF i
  <2>2. /\ [c EXCEPT !.contentIndex = i] \in Locals
        /\ [c EXCEPT !.contentIndex = i].contentIndex = i
        /\ [c EXCEPT !.contentIndex = i].startedToolCalls = c.startedToolCalls
    BY <2>1 DEF Locals
  <2>3. QED
    BY <2>2 DEF i
<1>5. \A i \in DOMAIN c.startedToolCalls : c.startedToolCalls[i] \in 1..(s.contentIndex + 1)
  BY <1>1, <1>2 DEF LocalsFit
<1>6. LocalsFit(t)
  BY <1>1, <1>4, <1>5 DEF LocalsFit
<1>7. QED
  BY <1>3, <1>6

LEMMA SendTextFits ==
    ASSUME NEW s, LocalsFit(s), NEW intact \in BOOLEAN
    PROVE  LocalsFit(SendText(s, intact))
<1> DEFINE left == LeaveBlock(s, s.reasoningStarted)
           started == [left EXCEPT !.contentStarted = TRUE]
           fresh == Emit(started, BlockStartEvent(started.contentIndex, "text"))
           opened == IF s.contentStarted THEN s ELSE fresh
<1>1. LocalsFit(left) /\ TRUE \in BOOLEAN
  BY LeaveBlockFits
<1> HIDE DEF left
<1>2. LocalsFit(started)
  BY <1>1, FlagsFit
<1> HIDE DEF started
<1>3. LocalsFit(fresh)
  <2>1. started.contentIndex \in Nat
    BY <1>2 DEF LocalsFit, Locals
  <2>2. BlockStartEvent(started.contentIndex, "text") \in Event
    BY <2>1, EventsAre
  <2>3. QED
    BY <1>2, <2>2, EmitFits
<1> HIDE DEF fresh
<1>4. LocalsFit(opened)
  BY <1>3
<1>5. SendText(s, intact) = Emit(opened, BlockDeltaEvent(opened.contentIndex, "text", intact))
  BY DEF SendText, opened, fresh, started, left
<1> HIDE DEF opened
<1>6. opened.contentIndex \in Nat
  BY <1>4 DEF LocalsFit, Locals
<1>7. BlockDeltaEvent(opened.contentIndex, "text", intact) \in Event
  BY <1>6, EventsAre
<1>8. QED
  BY <1>4, <1>5, <1>7, EmitFits

LEMMA SendThinkingFits ==
    ASSUME NEW s, LocalsFit(s)
    PROVE  LocalsFit(SendThinking(s))
<1> DEFINE left == LeaveBlock(s, s.contentStarted)
           started == [left EXCEPT !.reasoningStarted = TRUE]
           fresh == Emit(started, BlockStartEvent(started.contentIndex, "thinking"))
           opened == IF s.reasoningStarted THEN s ELSE fresh
<1>1. LocalsFit(left) /\ TRUE \in BOOLEAN
  BY LeaveBlockFits
<1> HIDE DEF left
<1>2. LocalsFit(started)
  BY <1>1, FlagsFit
<1> HIDE DEF started
<1>3. LocalsFit(fresh)
  <2>1. started.contentIndex \in Nat
    BY <1>2 DEF LocalsFit, Locals
  <2>2. BlockStartEvent(started.contentIndex, "thinking") \in Event
    BY <2>1, EventsAre
  <2>3. QED
    BY <1>2, <2>2, EmitFits
<1> HIDE DEF fresh
<1>4. LocalsFit(opened)
  BY <1>3
<1>5. SendThinking(s) = Emit(opened, BlockDeltaEvent(opened.contentIndex, "thinking", TRUE))
  BY DEF SendThinking, opened, fresh, started, left
<1> HIDE DEF opened
<1>6. opened.contentIndex \in Nat
  BY <1>4 DEF LocalsFit, Locals
<1>7. BlockDeltaEvent(opened.contentIndex, "thinking", TRUE) \in Event
  BY <1>6, EventsAre
<1>8. QED
  BY <1>4, <1>5, <1>7, EmitFits

LEMMA ToolBlockIsAdded ==
    ASSUME NEW s, LocalsFit(s), NEW tc \in ToolCall
    PROVE  LET b == s.contentIndex + 1
               blocks == s.startedToolCalls
               more == [i \in DOMAIN blocks \cup {tc.index} |->
                           IF i = tc.index THEN b ELSE blocks[i]]
               l == [s EXCEPT !.contentIndex = b, !.startedToolCalls = more]
           IN  LocalsFit(l) /\ l.out = s.out /\ l.startedToolCalls = more
<1> DEFINE b == s.contentIndex + 1
           blocks == s.startedToolCalls
           more == [i \in DOMAIN blocks \cup {tc.index} |->
                       IF i = tc.index THEN b ELSE blocks[i]]
           l == [s EXCEPT !.contentIndex = b, !.startedToolCalls = more]
<1>1. /\ s \in Locals /\ s.contentIndex \in Nat /\ b \in Nat /\ blocks \in ToolBlocks
      /\ tc.index \in Nat /\ tc.named \in BOOLEAN /\ IsFiniteSet(DOMAIN blocks)
      /\ \A i \in DOMAIN blocks : blocks[i] \in 1..s.contentIndex
  BY DEF LocalsFit, Locals, ToolCall
<1>2. /\ \A i \in DOMAIN blocks : blocks[i] \in 1..b
      /\ b \in 1..b /\ 1..b \subseteq Nat
  BY <1>1
<1>3. DOMAIN blocks \subseteq Nat
  BY <1>1, ToolBlockFields
<1> HIDE DEF blocks, b
<1>4. more \in [DOMAIN blocks \cup {tc.index} -> 1..b]
  BY <1>2
<1>5. more \in ToolBlocks /\ IsFiniteSet(DOMAIN more)
      /\ \A i \in DOMAIN more : more[i] \in 1..b
  <2>1. DOMAIN more = DOMAIN blocks \cup {tc.index} /\ DOMAIN more \in SUBSET Nat
    BY <1>1, <1>3
  <2>2. more \in [DOMAIN more -> Nat]
    BY <1>2, <1>4
  <2> HIDE DEF more
  <2>3. more \in ToolBlocks
    BY <2>1, <2>2 DEF ToolBlocks
  <2>4. IsFiniteSet(DOMAIN more)
    BY <1>1, <2>1, FS_AddElement
  <2>5. QED
    BY <1>4, <2>1, <2>3, <2>4
<1> HIDE DEF more
<1>6. LocalsFit(l) /\ l.out = s.out /\ l.startedToolCalls = more
  <2>1. l \in Locals /\ l.out = s.out /\ l.startedToolCalls = more /\ l.contentIndex = b
    BY <1>1, <1>5 DEF Locals
  <2> HIDE DEF l
  <2>2. QED
    BY <1>5, <2>1 DEF LocalsFit
<1>7. QED
  BY <1>6 DEF l, more, blocks, b

LEMMA SendToolCallFits ==
    ASSUME NEW s, LocalsFit(s), NEW tc \in ToolCall
    PROVE  LocalsFit(SendToolCall(s, tc))
<1>1. ASSUME NEW t, LocalsFit(t), tc.index \in DOMAIN t.startedToolCalls
      PROVE  LocalsFit(SendArguments(t, tc))
  <2>1. t.startedToolCalls[tc.index] \in Nat
    <3>1. t.startedToolCalls \in ToolBlocks
      BY <1>1 DEF LocalsFit, Locals
    <3>2. QED
      BY <1>1, <3>1, ToolBlockFields
  <2>2. BlockDeltaEvent(t.startedToolCalls[tc.index], "tool_use", TRUE) \in Event
    BY <2>1, EventsAre
  <2>3. QED
    BY <1>1, <2>2, EmitFits DEF SendArguments
<1> DEFINE b == s.contentIndex + 1
           blocks == s.startedToolCalls
           more == [i \in DOMAIN blocks \cup {tc.index} |->
                       IF i = tc.index THEN b ELSE blocks[i]]
           l == [s EXCEPT !.contentIndex = b, !.startedToolCalls = more]
           started == StartToolBlock(s, tc, b)
<1>2. b \in Nat /\ tc.named \in BOOLEAN
  BY DEF LocalsFit, Locals, ToolCall
<1>3. started = Emit(l, BlockStartEvent(b, "tool_use"))
  BY DEF StartToolBlock
<1>4. LocalsFit(l) /\ l.out = s.out /\ l.startedToolCalls = more
  BY ToolBlockIsAdded, ZenonT(60)
<1> HIDE DEF more, l
<1>5. LocalsFit(started) /\ tc.index \in DOMAIN started.startedToolCalls
  <2> DEFINE e == BlockStartEvent(b, "tool_use")
  <2>1. e \in Event /\ <<>> \in Seq(Event) /\ l \in Locals
    BY <1>2, <1>4, EventsAre DEF LocalsFit
  <2> HIDE DEF e
  <2>2. LocalsFit(Emit(l, e)) /\ Emit(l, e).startedToolCalls = more
    BY <1>4, <2>1, Emits, EmitFits
  <2>3. tc.index \in DOMAIN more
    BY DEF more
  <2>4. QED
    BY <1>3, <2>2, <2>3 DEF e
<1>6. \/ tc.index \in DOMAIN s.startedToolCalls /\ SendToolCall(s, tc) = SendArguments(s, tc)
      \/ SendToolCall(s, tc) = SendArguments(started, tc)
      \/ SendToolCall(s, tc) = s
  BY <1>2 DEF SendToolCall, b
<1> HIDE DEF started
<1>7. QED
  BY <1>1, <1>5, <1>6

LEMMA FinishFits ==
    ASSUME NEW s, LocalsFit(s), NEW reason \in Reasons
    PROVE  LocalsFit(Finish(s, reason))
<1> DEFINE c == CloseToolBlocks(CloseContentBlock(s))
           d == Emit(c, MessageDeltaEvent(reason))
<1>1. LocalsFit(c)
  BY CloseContentBlockFits, CloseToolBlocksFits
<1> HIDE DEF c
<1>2. LocalsFit(d) /\ TRUE \in BOOLEAN
  BY <1>1, EventsAre, EmitFits
<1>3. Finish(s, reason) = [d EXCEPT !.stopSent = TRUE]
  BY DEF Finish, c
<1> HIDE DEF d
<1>4. QED
  BY <1>2, <1>3, FlagsFit

LEMMA EmitTerminalEventsFits ==
    ASSUME NEW s, LocalsFit(s)
    PROVE  LocalsFit(EmitTerminalEvents(s))
<1> DEFINE c == CloseToolBlocks(CloseContentBlock(s))
           d == Emit(c, MessageDeltaEvent("end_turn"))
           ended == IF c.stopSent THEN c ELSE [d EXCEPT !.stopSent = TRUE]
<1>1. LocalsFit(c)
  BY CloseContentBlockFits, CloseToolBlocksFits
<1>2. EmitTerminalEvents(s) = Emit(ended, [type |-> "message_stop"])
  BY DEF EmitTerminalEvents
<1> HIDE DEF c
<1>3. LocalsFit(d) /\ TRUE \in BOOLEAN
  BY <1>1, EventsAre, EmitFits DEF Reasons
<1> HIDE DEF d
<1>4. LocalsFit(ended)
  BY <1>1, <1>3, FlagsFit
<1> HIDE DEF ended
<1>5. QED
  BY <1>2, <1>4, EventsAre, EmitFits

LEMMA ProcessSSELineFits ==
    ASSUME NEW s, LocalsFit(s), NEW c \in Chunk
    PROVE  LocalsFit(ProcessSSELine(s, c))
<1>1. LocalsFit(ContentPath(s, c))
  <2>1. (c.content = "some") \in BOOLEAN
    OBVIOUS
  <2>2. QED
    BY <2>1, SendTextFits DEF ContentPath
<1>2. LocalsFit(FinishPath(s))
  BY FinishFits DEF FinishPath, Reasons
<1>3. LocalsFit(UsageOnly(s, c))
  <2> DEFINE d == Emit(s, MessageDeltaEvent("end_turn"))
  <2>1. LocalsFit(d) /\ LocalsFit(Emit(s, MessageDeltaEvent("none"))) /\ TRUE \in BOOLEAN
    BY EventsAre, EmitFits DEF Reasons
  <2>2. \/ UsageOnly(s, c) = s \/ UsageOnly(s, c) = Emit(s, MessageDeltaEvent("none"))
        \/ UsageOnly(s, c) = [d EXCEPT !.stopSent = TRUE]
    BY DEF UsageOnly, Chunk, LocalsFit, Locals
  <2> HIDE DEF d
  <2>3. QED
    BY <2>1, <2>2, FlagsFit
<1>4. LocalsFit(JSONPath(s, c))
  <2> DEFINE thought == IF c.reasoning = "some" THEN SendThinking(s) ELSE s
  <2>1. LocalsFit(thought) /\ TRUE \in BOOLEAN
    BY SendThinkingFits
  <2>2. JSONPath(s, c) = thought \/ JSONPath(s, c) = SendText(thought, TRUE)
    BY DEF JSONPath
  <2> HIDE DEF thought
  <2>3. QED
    BY <2>1, <2>2, SendTextFits
<1>5. \/ ProcessSSELine(s, c) = ContentPath(s, c) \/ ProcessSSELine(s, c) = FinishPath(s)
      \/ ProcessSSELine(s, c) = UsageOnly(s, c) \/ ProcessSSELine(s, c) = JSONPath(s, c)
  BY DEF ProcessSSELine, TakesContentPath, TakesFinishPath, Chunk
<1>6. QED
  BY <1>1, <1>2, <1>3, <1>4, <1>5

-----------------------------------------------------------------------------
(* Types *)

TypesInv ==
    /\ upstream \in Upstreams
    /\ LocalsFit(st)
    /\ sent \in Seq(Event)
    /\ TypeOK

LEMMA FragmentsAreCounted ==
    ASSUME NEW c \in Chunk
    PROVE  Fragments(c) \in [Kinds -> Nat]
<1> DEFINE calls == {i \in 1..Len(c.tools) : c.tools[i].args}
<1>1. Cardinality(calls) \in Nat
  <2>1. Len(c.tools) \in Nat
    BY DEF Chunk
  <2>2. IsFiniteSet(1..Len(c.tools))
    BY <2>1, FS_Interval
  <2>3. IsFiniteSet(calls)
    BY <2>2, FS_Subset
  <2> HIDE DEF calls
  <2>4. QED
    BY <2>3, FS_CardinalityType
<1>2. /\ Fragments(c).text \in {0, 1}
      /\ Fragments(c).thinking \in {0, 1}
      /\ Fragments(c).tool_use = Cardinality(calls)
      /\ DOMAIN Fragments(c) = Kinds
      /\ Fragments(c) = [k \in Kinds |-> Fragments(c)[k]]
  BY DEF Fragments, Kinds
<1> HIDE DEF calls
<1>3. \A k \in Kinds : Fragments(c)[k] \in Nat
  BY <1>1, <1>2 DEF Kinds
<1>4. QED
  BY <1>2, <1>3

LEMMA OverlookedAreCounted ==
    ASSUME NEW c \in Chunk
    PROVE  Overlooked(c) \in [Kinds -> Nat]
<1> DEFINE cut == TakesContentPath(c) \/ TakesFinishPath(c)
           calls == {i \in 1..Len(c.tools) :
                        c.tools[i].args /\ (cut \/ ~Announced(heard, c.tools, i))}
<1>1. Cardinality(calls) \in Nat
  <2>1. Len(c.tools) \in Nat
    BY DEF Chunk
  <2>2. IsFiniteSet(1..Len(c.tools))
    BY <2>1, FS_Interval
  <2>3. IsFiniteSet(calls)
    BY <2>2, FS_Subset
  <2> HIDE DEF calls
  <2>4. QED
    BY <2>3, FS_CardinalityType
<1>2. /\ Overlooked(c).text \in {0, 1}
      /\ Overlooked(c).thinking \in {0, 1}
      /\ Overlooked(c).tool_use = Cardinality(calls)
      /\ DOMAIN Overlooked(c) = Kinds
      /\ Overlooked(c) = [k \in Kinds |-> Overlooked(c)[k]]
  BY DEF Overlooked, Kinds
<1> HIDE DEF calls
<1>3. \A k \in Kinds : Overlooked(c)[k] \in Nat
  BY <1>1, <1>2 DEF Kinds
<1>4. QED
  BY <1>2, <1>3

LEMMA NamedAreIndexes ==
    ASSUME NEW tools \in Seq(ToolCall)
    PROVE  NamedIn(tools) \subseteq Nat
<1>1. \A i \in 1..Len(tools) : tools[i] \in ToolCall
  OBVIOUS
<1>2. QED
  BY <1>1 DEF NamedIn, ToolCall

LEMMA TypesInit == ASSUME Init PROVE TypesInv
<1>1. LocalsFit(Locals0)
  <2>1. DOMAIN NoTools = {} /\ NoTools \in [{} -> Nat] /\ IsFiniteSet({})
    BY FS_EmptySet DEF NoTools
  <2>2. NoTools \in ToolBlocks
    BY <2>1 DEF ToolBlocks
  <2>3. Locals0 \in Locals /\ Locals0.startedToolCalls = NoTools
    BY <2>2 DEF Locals0, Locals
  <2>4. QED
    BY <2>1, <2>3 DEF LocalsFit
<1>2. /\ upstream \in Upstreams /\ st = Locals0 /\ sent = <<>> /\ <<>> \in Seq(Event)
      /\ <<>> \in Seq(ToolCall)
  BY DEF Init
<1>3. TypeOK
  <2>1. rest \in [tools : Seq(ToolCall), finish : FinishReasons \cup {"none"}]
    BY <1>2 DEF Init, NothingLeft
  <2>2. /\ pc = "start" /\ finished \in BOOLEAN
        /\ named \subseteq Nat /\ heard \subseteq Nat
    BY DEF Init
  <2>3. received \in 0..MaxChunks
    <3>1. received = 0 /\ MaxChunks \in Nat
      BY StreamAssumption DEF Init
    <3>2. QED
      BY <3>1
  <2>4. /\ due \in [{"text", "thinking", "tool_use"} -> Nat]
        /\ overlooked \in [{"text", "thinking", "tool_use"} -> Nat]
    BY DEF Init
  <2>5. QED
    BY <1>1, <1>2, <2>1, <2>2, <2>4, <2>3 DEF TypeOK, LocalsFit, Locals
<1>4. QED
  BY <1>1, <1>2, <1>3 DEF TypesInv

LEMMA TypesStep == ASSUME TypesInv, [Next]_vars PROVE TypesInv'
<1> DEFINE Others ==
             /\ upstream \in Upstreams /\ LocalsFit(st) /\ sent \in Seq(Event)
             /\ rest \in [tools : Seq(ToolCall), finish : FinishReasons \cup {"none"}]
             /\ pc \in {"start", "read", "write", "last", "done", "gone"}
             /\ received \in 0..MaxChunks /\ finished \in BOOLEAN
             /\ named \subseteq Nat /\ heard \subseteq Nat
             /\ due \in [{"text", "thinking", "tool_use"} -> Nat]
             /\ overlooked \in [{"text", "thinking", "tool_use"} -> Nat]
<1>1. Others
  BY DEF TypesInv, TypeOK
<1>2. SUFFICES Others'
  BY DEF TypesInv, TypeOK, LocalsFit, Locals
<1>3. upstream' = upstream /\ upstream' \in Upstreams
  BY <1>1 DEF Next, vars, Start, Receive, UpstreamEnds, WriteEvent, HandleToolCall,
              HandleFinish, HandlerReturns, ClientGone
<1>4. CASE Start
  <2>1. LocalsFit(st')
    BY <1>1, <1>4, EventsAre, EmitFits DEF Start
  <2>2. QED
    BY <1>1, <1>3, <1>4, <2>1 DEF Start, historyVars, LocalsFit
<1>5. ASSUME NEW c \in upstream, Receive(c)
      PROVE  Others'
  <2>1. c \in Chunk
    BY <1>1, StreamAssumption
  <2>2. LocalsFit(st')
    BY <1>1, <1>5, <2>1, ProcessSSELineFits DEF Receive
  <2>3. rest' \in [tools : Seq(ToolCall), finish : FinishReasons \cup {"none"}]
    <3>1. c.tools \in Seq(ToolCall) /\ c.finish \in FinishReasons \cup {"none"}
      BY <2>1 DEF Chunk
    <3>2. <<>> \in Seq(ToolCall)
      OBVIOUS
    <3>3. rest' = NothingLeft \/ rest' = [tools |-> c.tools, finish |-> c.finish]
      BY <1>5 DEF Receive, Rest
    <3>4. NothingLeft \in [tools : Seq(ToolCall), finish : FinishReasons \cup {"none"}]
      BY <3>2 DEF NothingLeft
    <3>5. [tools |-> c.tools, finish |-> c.finish]
             \in [tools : Seq(ToolCall), finish : FinishReasons \cup {"none"}]
      BY <3>1
    <3>6. QED
      BY <3>3, <3>4, <3>5
  <2>4. received' \in 0..MaxChunks
    BY <1>1, <1>5, StreamAssumption DEF Receive
  <2>5. finished' \in BOOLEAN /\ pc' = "write" /\ sent' = sent
    BY <1>1, <1>5 DEF Receive
  <2>6. named' \subseteq Nat /\ heard' \subseteq Nat
    <3>1. c.tools \in Seq(ToolCall) /\ rest'.tools \in Seq(ToolCall) /\ rest' = Rest(c)
      BY <1>5, <2>1, <2>3 DEF Chunk, Receive
    <3>2. NamedIn(c.tools) \subseteq Nat /\ NamedIn(Rest(c).tools) \subseteq Nat
      BY <3>1, NamedAreIndexes
    <3>3. QED
      BY <1>1, <1>5, <3>2 DEF Receive
  <2>7. due' \in [{"text", "thinking", "tool_use"} -> Nat]
    <3>1. \A k \in Kinds : Fragments(c)[k] \in Nat /\ due[k] \in Nat
      BY <1>1, <2>1, FragmentsAreCounted DEF Kinds
    <3>2. due' = [k \in Kinds |-> due[k] + Fragments(c)[k]]
      BY <1>1, <1>5 DEF Receive, Kinds
    <3>3. \A k \in Kinds : due[k] + Fragments(c)[k] \in Nat
      BY <3>1
    <3>4. due' \in [Kinds -> Nat]
      BY <3>2, <3>3
    <3>5. QED
      BY <3>4 DEF Kinds
  <2>8. overlooked' \in [{"text", "thinking", "tool_use"} -> Nat]
    <3>1. \A k \in Kinds : Overlooked(c)[k] \in Nat /\ overlooked[k] \in Nat
      BY <1>1, <2>1, OverlookedAreCounted DEF Kinds
    <3>2. overlooked' = [k \in Kinds |-> overlooked[k] + Overlooked(c)[k]]
      BY <1>1, <1>5 DEF Receive, Kinds
    <3>3. \A k \in Kinds : overlooked[k] + Overlooked(c)[k] \in Nat
      BY <3>1
    <3>4. overlooked' \in [Kinds -> Nat]
      BY <3>2, <3>3
    <3>5. QED
      BY <3>4 DEF Kinds
  <2>9. QED
    BY <1>1, <1>3, <2>2, <2>3, <2>4, <2>5, <2>6, <2>7, <2>8 DEF LocalsFit
<1>6. CASE UpstreamEnds
  <2>1. LocalsFit(st')
    BY <1>1, <1>6, EmitTerminalEventsFits DEF UpstreamEnds
  <2>2. QED
    BY <1>1, <1>3, <1>6, <2>1 DEF UpstreamEnds, historyVars, LocalsFit
<1>7. CASE WriteEvent
  <2>1. /\ Head(st.out) \in Event /\ Tail(st.out) \in Seq(Event)
        /\ sent' = Append(sent, Head(st.out))
    BY <1>1, <1>7, WriteMoves DEF WriteEvent, LocalsFit, Locals
  <2>2. LocalsFit(st') /\ sent' \in Seq(Event)
    <3>1. st' = [st EXCEPT !.out = Tail(st.out)] /\ st \in Locals
      BY <1>1, <1>7 DEF WriteEvent, LocalsFit
    <3>2. /\ st' \in Locals /\ st'.startedToolCalls = st.startedToolCalls
          /\ st'.contentIndex = st.contentIndex
      BY <2>1, <3>1 DEF Locals
    <3>3. QED
      BY <1>1, <2>1, <3>2, Appended DEF LocalsFit
  <2>3. QED
    BY <1>1, <1>3, <1>7, <2>2 DEF WriteEvent, historyVars, LocalsFit
<1>8. CASE HandleToolCall
  <2>1. Head(rest.tools) \in ToolCall /\ Tail(rest.tools) \in Seq(ToolCall)
    BY <1>1, <1>8, HeadTailProperties DEF HandleToolCall
  <2>2. LocalsFit(st')
    BY <1>1, <1>8, <2>1, SendToolCallFits DEF HandleToolCall
  <2>3. rest' \in [tools : Seq(ToolCall), finish : FinishReasons \cup {"none"}]
    BY <1>1, <1>8, <2>1 DEF HandleToolCall
  <2>4. QED
    BY <1>1, <1>3, <1>8, <2>2, <2>3 DEF HandleToolCall, historyVars, LocalsFit
<1>9. CASE HandleFinish
  <2>1. MapFinishReason(rest.finish) \in Reasons
    BY DEF MapFinishReason, Reasons
  <2>2. LocalsFit(st')
    BY <1>1, <1>9, <2>1, FinishFits DEF HandleFinish
  <2>3. rest' \in [tools : Seq(ToolCall), finish : FinishReasons \cup {"none"}]
    <3>1. <<>> \in Seq(ToolCall)
      OBVIOUS
    <3>2. QED
      BY <1>9, <3>1 DEF HandleFinish, NothingLeft
  <2>4. QED
    BY <1>1, <1>3, <1>9, <2>2, <2>3 DEF HandleFinish, historyVars, LocalsFit
<1>10. CASE HandlerReturns
  BY <1>1, <1>3, <1>10 DEF HandlerReturns, historyVars, LocalsFit
<1>11. CASE ClientGone
  BY <1>1, <1>3, <1>11 DEF ClientGone, historyVars, LocalsFit
<1>12. CASE UNCHANGED vars
  BY <1>1, <1>3, <1>12 DEF vars, historyVars, LocalsFit
<1>13. QED
  BY <1>4, <1>5, <1>6, <1>7, <1>8, <1>9, <1>10, <1>11, <1>12 DEF Next

(***************************************************************************)
(* Whatever the chunks of an upstream and however many of them: the local  *)
(* variables of ProxyStream keep their types, and no tool call's block has *)
(* an index that contentIndex has not reached.                             *)
(***************************************************************************)
THEOREM StreamTypes == Spec => []TypeOK
<1>1. Init => TypesInv
  BY TypesInit
<1>2. TypesInv /\ [Next]_vars => TypesInv'
  BY TypesStep
<1>3. TypesInv => TypeOK
  BY DEF TypesInv
<1>4. QED
  BY <1>1, <1>2, <1>3, PTL DEF Spec

-----------------------------------------------------------------------------
(* The invariant *)

\* What an upstream has to be for its answer to come out as a message stream.
OrdinaryUpstreams == \A u \in Upstreams : Ordinary(u)

StreamInv ==
    /\ TypesInv
    /\ WellFormed(Whole(sent, st))
    /\ pc = "start" => sent = <<>> /\ st = Locals0 /\ rest = NothingLeft /\ ~finished
    /\ pc \in {"read", "write"} =>
          /\ Sound(sent, st) /\ Fits(upstream, sent, st)
          /\ WithoutTools(upstream) => rest.tools = <<>>
          /\ finished <=> st.stopSent \/ rest.finish # "none"
          /\ rest.finish # "none" \/ rest.tools # <<>> => ~st.stopSent
    /\ pc = "read" => st.out = <<>> /\ rest = NothingLeft
    /\ pc \in {"last", "done"} => Ended(Whole(sent, st)) /\ rest = NothingLeft
    /\ pc = "done" => st.out = <<>>

LEMMA NothingYet ==
    /\ Places(<<>>, "message_stop") = {} /\ StopReasons(<<>>) = {}
    /\ OpenBlocks(<<>>) = {} /\ UsedIndexes(<<>>) = {} /\ Phase(<<>>) = "idle"
BY DEF Places, StopReasons, OpenBlocks, UsedIndexes, Phase

LEMMA StreamInit == ASSUME Init PROVE StreamInv
<1>1. TypesInv
  BY TypesInit
<1>2. sent = <<>> /\ st = Locals0 /\ rest = NothingLeft /\ ~finished /\ pc = "start"
  BY DEF Init
<1>3. Whole(sent, st) = <<>>
  <2>1. st.out = <<>> /\ <<>> \in Seq(Event)
    BY <1>2 DEF Locals0
  <2>2. QED
    BY <1>2, <2>1, ConcatEmptySeq DEF Whole
<1>4. QED
  BY <1>1, <1>2, <1>3, WellFormedEmpty DEF StreamInv

\* Writing moves an event from one side to the other.
LEMMA WriteKeeps ==
    ASSUME NEW p \in Seq(Event), NEW s \in Locals, s.out # <<>>
    PROVE  LET q == Append(p, Head(s.out))
               t == [s EXCEPT !.out = Tail(s.out)]
           IN  /\ Whole(q, t) = Whole(p, s) /\ t.stopSent = s.stopSent
               /\ Sound(p, s) => Sound(q, t)
               /\ \A u : Fits(u, p, s) => Fits(u, q, t)
<1> DEFINE o == s.out
           q == Append(p, Head(o))
           t == [s EXCEPT !.out = Tail(o)]
<1>1. o \in Seq(Event) /\ o # <<>>
  BY DEF Locals
<1> HIDE DEF o
<1>2. Head(o) \in Event /\ Tail(o) \in Seq(Event) /\ q \o Tail(o) = p \o o
  BY <1>1, WriteMoves
<1>3. q \in Seq(Event)
  BY <1>2
<1>4. /\ t \in Locals /\ t.out = Tail(o) /\ t.stopSent = s.stopSent
      /\ t.contentIndex = s.contentIndex /\ t.contentStarted = s.contentStarted
      /\ t.reasoningStarted = s.reasoningStarted
      /\ t.startedToolCalls = s.startedToolCalls
  BY <1>2 DEF Locals
<1> HIDE DEF q, t
<1>5. Whole(q, t) = Whole(p, s)
  BY <1>2, <1>4 DEF Whole, o
<1>6. Sound(p, s) => Sound(q, t)
  BY <1>3, <1>4, <1>5 DEF Sound
<1>7. (TextFits(p, s) => TextFits(q, t)) /\ (ToolFits(p, s) => ToolFits(q, t))
  BY <1>4, <1>5 DEF TextFits, ToolFits
<1>8. QED
  BY <1>4, <1>5, <1>6, <1>7 DEF Fits, q, t, o

\* message_start.
LEMMA Starts ==
    ASSUME NEW u
    PROVE  LET s == Emit(Locals0, [type |-> "message_start"])
           IN  Sound(<<>>, s) /\ Fits(u, <<>>, s) /\ ~s.stopSent
<1> DEFINE e == [type |-> "message_start"]
           s == Emit(Locals0, e)
           w == Append(<<>>, e)
<1>1. /\ e \in Event /\ e.type = "message_start" /\ <<>> \in Seq(Event)
  BY EventsAre
<1>2. /\ NoTools \in ToolBlocks /\ DOMAIN NoTools = {} /\ IsFiniteSet({})
  <2>1. NoTools \in [{} -> Nat] /\ DOMAIN NoTools = {}
    BY DEF NoTools
  <2>2. QED
    BY <2>1, FS_EmptySet DEF ToolBlocks
<1>3. /\ Locals0 \in Locals /\ Locals0.out = <<>> /\ Locals0.contentIndex = 0
      /\ ~Locals0.contentStarted /\ ~Locals0.reasoningStarted /\ ~Locals0.stopSent
      /\ Locals0.startedToolCalls = NoTools
  BY <1>1, <1>2 DEF Locals0, Locals
<1>4. Whole(<<>>, Locals0) = <<>>
  BY <1>1, <1>3, ConcatEmptySeq DEF Whole
<1> HIDE DEF e
<1>5. /\ s \in Locals /\ Whole(<<>>, s) = w /\ s.contentIndex = 0
      /\ ~s.contentStarted /\ ~s.reasoningStarted /\ ~s.stopSent
      /\ s.startedToolCalls = NoTools
  <2> DEFINE none == Locals0
  <2>1. /\ e \in Event /\ <<>> \in Seq(Event) /\ none \in Locals
    BY <1>1, <1>3
  <2>2. /\ Whole(<<>>, none) = <<>> /\ none.contentIndex = 0
        /\ ~none.contentStarted /\ ~none.reasoningStarted /\ ~none.stopSent
        /\ none.startedToolCalls = NoTools
    BY <1>3, <1>4
  <2> HIDE DEF none
  <2>3. /\ Emit(none, e) \in Locals
        /\ Whole(<<>>, Emit(none, e)) = Append(Whole(<<>>, none), e)
        /\ Emit(none, e).contentIndex = none.contentIndex
        /\ Emit(none, e).contentStarted = none.contentStarted
        /\ Emit(none, e).reasoningStarted = none.reasoningStarted
        /\ Emit(none, e).stopSent = none.stopSent
        /\ Emit(none, e).startedToolCalls = none.startedToolCalls
    BY <2>1, Emits
  <2>4. QED
    BY <2>2, <2>3 DEF none
<1> HIDE DEF s
<1>6. Allowed(<<>>, e)
  BY <1>1 DEF Allowed
<1>7. WellFormed(w)
  BY <1>1, <1>6, WellFormedEmpty, WellFormedAppended
<1>8. Phase(w) = "open"
  BY <1>1, <1>6, PhaseAppended
<1>9. OpenBlocks(w) = {} /\ StopReasons(w) = {} /\ UsedIndexes(w) = {}
  BY <1>1, NothingYet, OpenAppended, ReasonsAppended, UsedAppended
<1> HIDE DEF w
<1>10. LastIs(w, -1)
  BY <1>9 DEF LastIs
<1>11. Sound(<<>>, s)
  BY <1>1, <1>5, <1>7, <1>8, <1>9, FS_EmptySet DEF Sound
<1>12. TextFits(<<>>, s)
  <2>1. s.contentIndex - 1 = -1
    BY <1>5
  <2>2. QED
    BY <1>5, <1>9, <1>10, <2>1 DEF TextFits
<1>13. ToolFits(<<>>, s)
  BY <1>2, <1>5, <1>9, <1>10 DEF ToolFits
<1>14. QED
  BY <1>5, <1>11, <1>12, <1>13 DEF Fits, s, e

LEMMA StreamStep ==
    ASSUME OrdinaryUpstreams, StreamInv, [Next]_vars
    PROVE  StreamInv'
<1>1. TypesInv' /\ TypesInv
  BY TypesStep DEF StreamInv
<1>2. /\ upstream \in Upstreams /\ sent \in Seq(Event) /\ st \in Locals
      /\ Ordinary(upstream)
  BY <1>1 DEF TypesInv, LocalsFit, OrdinaryUpstreams
<1>3. NothingLeft.tools = <<>> /\ NothingLeft.finish = "none"
  BY DEF NothingLeft
\* A handler that leaves a state to go on from.
<1>4. ASSUME NEW s, upstream' = upstream, sent' = sent, st' = s, pc' = "write",
             Sound(sent, s), Fits(upstream, sent, s),
             WithoutTools(upstream) => rest'.tools = <<>>,
             finished' <=> s.stopSent \/ rest'.finish # "none",
             rest'.finish # "none" \/ rest'.tools # <<>> => ~s.stopSent
      PROVE  StreamInv'
  <2>1. /\ Whole(sent, st)' = Whole(sent, s) /\ Sound(sent, st)' = Sound(sent, s)
        /\ Fits(upstream, sent, st)' = Fits(upstream, sent, s)
        /\ WithoutTools(upstream)' = WithoutTools(upstream)
    BY <1>4 DEF Whole, Sound, Fits, TextFits, ToolFits, WithoutTools
  <2>2. WellFormed(Whole(sent, st))'
    BY <1>4, <2>1 DEF Sound
  <2>3. QED
    BY <1>1, <1>4, <2>1, <2>2 DEF StreamInv
<1>5. CASE Start
  <2> DEFINE s == Emit(Locals0, [type |-> "message_start"])
  <2>1. /\ sent = <<>> /\ st = Locals0 /\ rest = NothingLeft /\ ~finished
    BY <1>5 DEF StreamInv, Start
  <2>2. Sound(<<>>, s) /\ Fits(upstream, <<>>, s) /\ ~s.stopSent
    BY Starts
  <2>3. /\ upstream' = upstream /\ sent' = <<>> /\ st' = s /\ pc' = "write"
        /\ rest' = NothingLeft /\ ~finished'
    BY <1>5, <2>1 DEF Start
  <2> HIDE DEF s
  <2>4. QED
    BY <1>3, <1>4, <2>1, <2>2, <2>3
<1>6. ASSUME NEW c \in upstream, Receive(c)
      PROVE  StreamInv'
  <2>1. /\ Sound(sent, st) /\ Fits(upstream, sent, st)
        /\ finished <=> st.stopSent
    BY <1>3, <1>6 DEF StreamInv, Receive
  <2>2. finished <=> ~c.choices
    BY <1>6 DEF Receive, MaySend
  <2>3. /\ upstream' = upstream /\ sent' = sent /\ st' = ProcessSSELine(st, c)
        /\ pc' = "write" /\ rest' = Rest(c) /\ finished' = (finished \/ c.finish # "none")
    BY <1>6 DEF Receive
  <2> DEFINE t == ProcessSSELine(st, c)
  <2>4. /\ Sound(sent, t) /\ Fits(upstream, sent, t)
        /\ st.stopSent \/ c.finish # "none" <=> t.stopSent \/ Rest(c).finish # "none"
        /\ Rest(c).finish # "none" \/ Rest(c).tools # <<>> => ~t.stopSent
        /\ WithoutTools(upstream) => Rest(c).tools = <<>>
    BY <1>2, <2>1, <2>2, LineIsProcessed
  <2> HIDE DEF t
  <2>5. st' = t
    BY <2>3 DEF t
  <2>6. QED
    BY <1>4, <2>1, <2>3, <2>4, <2>5
<1>7. CASE UpstreamEnds
  <2> DEFINE t == EmitTerminalEvents(st)
  <2>1. /\ Sound(sent, st) /\ Fits(upstream, sent, st) /\ rest = NothingLeft
    BY <1>7 DEF StreamInv, UpstreamEnds
  <2>2. WellFormed(Whole(sent, t)) /\ Ended(Whole(sent, t))
    BY <2>1, Terminates DEF Fits
  <2>3. st' = t /\ sent' = sent /\ rest' = NothingLeft /\ pc' = "last"
    BY <1>7, <2>1 DEF UpstreamEnds
  <2> HIDE DEF t
  <2>4. Whole(sent, st)' = Whole(sent, t)
    BY <2>3 DEF Whole
  <2>5. QED
    BY <1>1, <2>2, <2>3, <2>4 DEF StreamInv
<1>8. CASE WriteEvent
  <2> DEFINE q == Append(sent, Head(st.out))
             t == [st EXCEPT !.out = Tail(st.out)]
  <2>1. /\ Whole(q, t) = Whole(sent, st) /\ t.stopSent = st.stopSent
        /\ Sound(sent, st) => Sound(q, t)
        /\ Fits(upstream, sent, st) => Fits(upstream, q, t)
    BY <1>2, <1>8, WriteKeeps DEF WriteEvent
  <2>2. /\ sent' = q /\ st' = t /\ upstream' = upstream /\ rest' = rest /\ pc' = pc
        /\ finished' = finished /\ pc \in {"write", "last"}
    BY <1>8 DEF WriteEvent
  <2> HIDE DEF q, t
  <2>3. /\ Whole(sent, st)' = Whole(q, t) /\ Sound(sent, st)' = Sound(q, t)
        /\ Fits(upstream, sent, st)' = Fits(upstream, q, t)
        /\ WithoutTools(upstream)' = WithoutTools(upstream)
    BY <2>2 DEF Whole, Sound, Fits, TextFits, ToolFits, WithoutTools
  <2>4. QED
    BY <1>1, <2>1, <2>2, <2>3 DEF StreamInv
<1>9. CASE HandleToolCall
  <2> DEFINE tc == Head(rest.tools)
             t == SendToolCall(st, tc)
  <2>1. /\ Sound(sent, st) /\ Fits(upstream, sent, st) /\ ~st.stopSent
        /\ ~WithoutTools(upstream)
        /\ finished <=> rest.finish # "none"
    BY <1>9 DEF StreamInv, HandleToolCall
  <2>2. tc \in ToolCall
    BY <1>1, <1>9, HeadTailProperties DEF TypesInv, TypeOK, HandleToolCall
  <2>3. /\ upstream' = upstream /\ sent' = sent /\ st' = t /\ pc' = "write"
        /\ rest'.finish = rest.finish /\ finished' = finished
    BY <1>1, <1>9 DEF HandleToolCall, TypesInv, TypeOK
  <2> HIDE DEF tc
  <2>4. Sound(sent, t) /\ ToolFits(sent, t) /\ ~t.stopSent
    BY <2>1, <2>2, ToolCallIsSent DEF Fits
  <2> HIDE DEF t
  <2>5. Fits(upstream, sent, t)
    BY <2>1, <2>4 DEF Fits
  <2>6. QED
    BY <1>4, <2>1, <2>3, <2>4, <2>5
<1>10. CASE HandleFinish
  <2> DEFINE reason == MapFinishReason(rest.finish)
             t == Finish(st, reason)
  <2>1. /\ Sound(sent, st) /\ Fits(upstream, sent, st) /\ ~st.stopSent /\ finished
    BY <1>10 DEF StreamInv, HandleFinish
  <2>2. /\ upstream' = upstream /\ sent' = sent /\ st' = t /\ pc' = "write"
        /\ rest' = NothingLeft /\ finished' = finished
    BY <1>10 DEF HandleFinish
  <2>3. reason \in Reasons
    BY DEF MapFinishReason, Reasons
  <2> HIDE DEF reason
  <2>4. Sound(sent, t) /\ TextFits(sent, t) /\ ToolFits(sent, t) /\ t.stopSent
    BY <2>1, <2>3, Finishes DEF Fits
  <2> HIDE DEF t
  <2>5. Fits(upstream, sent, t)
    BY <2>4 DEF Fits
  <2>6. QED
    BY <1>3, <1>4, <2>1, <2>2, <2>4, <2>5
\* The steps that only move pc.
<1>11. ASSUME UNCHANGED <<upstream, st, rest, sent, finished>>
       PROVE  /\ Whole(sent, st)' = Whole(sent, st) /\ Sound(sent, st)' = Sound(sent, st)
              /\ Fits(upstream, sent, st)' = Fits(upstream, sent, st)
              /\ WithoutTools(upstream)' = WithoutTools(upstream)
  BY <1>11 DEF Whole, Sound, Fits, TextFits, ToolFits, WithoutTools
<1>12. CASE HandlerReturns
  <2>1. UNCHANGED <<upstream, st, rest, sent, finished>>
    BY <1>12 DEF HandlerReturns
  <2>2. CASE pc = "write"
    BY <1>1, <1>11, <1>12, <2>1, <2>2 DEF StreamInv, HandlerReturns
  <2>3. CASE pc = "last"
    BY <1>1, <1>11, <1>12, <2>1, <2>3 DEF StreamInv, HandlerReturns
  <2>4. QED
    BY <1>12, <2>2, <2>3 DEF HandlerReturns
<1>13. CASE ClientGone
  BY <1>1, <1>11, <1>13 DEF StreamInv, ClientGone
<1>14. CASE UNCHANGED vars
  BY <1>1, <1>11, <1>14 DEF StreamInv, vars
<1>15. QED
  BY <1>5, <1>6, <1>7, <1>8, <1>9, <1>10, <1>12, <1>13, <1>14 DEF Next

(***************************************************************************)
(* A stream that ends without the client leaving is complete: every block  *)
(* stopped, one stop reason, message_stop last and only there.  For any    *)
(* chunks and any number of them, cut off anywhere, provided that each     *)
(* kind of upstream keeps text and tool calls apart, without which the     *)
(* code does not close its streams (the run StreamMixed), and sends no     *)
(* finish reason in a chunk that the content path takes.                   *)
(***************************************************************************)
THEOREM AlwaysClosed == OrdinaryUpstreams => (Spec => []ClosedAtEnd)
<1>1. SUFFICES ASSUME OrdinaryUpstreams PROVE Spec => []ClosedAtEnd
  OBVIOUS
<1>2. Init => StreamInv
  BY StreamInit
<1>3. StreamInv /\ [Next]_vars => StreamInv'
  BY <1>1, StreamStep
<1>4. StreamInv => ClosedAtEnd
  <2>1. SUFFICES ASSUME StreamInv, pc = "done" PROVE Ended(sent)
    BY DEF ClosedAtEnd, Ended
  <2>2. Ended(Whole(sent, st)) /\ st.out = <<>> /\ sent \in Seq(Event)
    BY <2>1 DEF StreamInv, TypesInv
  <2>3. Whole(sent, st) = sent
    BY <2>2, ConcatEmptySeq DEF Whole
  <2>4. QED
    BY <2>2, <2>3
<1>5. QED
  BY <1>2, <1>3, <1>4, PTL DEF Spec

(***************************************************************************)
(* Under the same condition, what the client receives is a MessageStream   *)
(* at every moment: each event it gets is a step of that specification or  *)
(* leaves its state as it is.                                              *)
(***************************************************************************)
THEOREM StreamIsMessageStream == OrdinaryUpstreams => (Spec => ImplementsMessageStream)
<1>1. SUFFICES ASSUME OrdinaryUpstreams PROVE Spec => Client!Spec
  BY DEF ImplementsMessageStream
<1>2. Init => StreamInv
  BY StreamInit
<1>3. StreamInv /\ [Next]_vars => StreamInv'
  BY <1>1, StreamStep
<1>4. Init => Client!Init
  <2>1. LastIndex(<<>>) = -1
    BY NothingYet DEF LastIndex
  <2>2. QED
    BY <2>1, NothingYet DEF Init, Client!Init, Extended, Places
<1>5. StreamInv /\ [Next]_vars => [Client!Next]_(Client!vars)
  <2>1. SUFFICES ASSUME StreamInv, [Next]_vars PROVE [Client!Next]_(Client!vars)
    OBVIOUS
  <2>2. CASE WriteEvent
    <3>1. /\ sent \in Seq(Event) /\ st.out \in Seq(Event) /\ st.out # <<>>
          /\ WellFormed(sent \o st.out)
      BY <2>1, <2>2 DEF StreamInv, TypesInv, LocalsFit, Locals, Whole, WriteEvent
    <3> DEFINE e == Head(st.out)
    <3>2. e \in Event /\ Allowed(sent, e)
      BY <3>1, NextAllowed, WriteMoves
    <3>3. sent' = Append(sent, e)
      BY <2>2 DEF WriteEvent
    <3> HIDE DEF e
    <3>4. QED
      BY <3>1, <3>2, <3>3, WriteRefines
  <2>3. CASE sent' = sent
    BY <2>3 DEF Client!vars, Phase, OpenBlocks, LastIndex, UsedIndexes, Places, StopReasons,
             Extended, DeltasOf
  <2>4. WriteEvent \/ sent' = sent
    BY <2>1 DEF Next, vars, Start, Receive, UpstreamEnds, HandleToolCall, HandleFinish,
                HandlerReturns, ClientGone
  <2>5. QED
    BY <2>2, <2>3, <2>4
<1>6. QED
  BY <1>2, <1>3, <1>4, <1>5, PTL DEF Spec, Client!Spec

-----------------------------------------------------------------------------
(* Nothing else is dropped: the invariant *)

\* The deltas of a kind, sent or to be written.
Count(p, s, kind) == Cardinality(Deltas(Whole(p, s), kind))

\* The tool calls among these whose arguments get a delta.
Delivered(calls, tools) ==
    {i \in 1..Len(tools) : tools[i].args /\ Announced(calls, tools, i)}

\* The fragments that wait in the tool calls still to be handled.
Waiting(calls, tools, kind) ==
    IF kind = "tool_use" THEN Cardinality(Delivered(calls, tools)) ELSE 0

\* The indexes that have a block.
Started == DOMAIN st.startedToolCalls

CountInv ==
    /\ TypesInv
    /\ \A kind \in Kinds :
          Count(sent, st, kind) + Waiting(Started, rest.tools, kind) + overlooked[kind]
              = due[kind]
    /\ finished /\ rest.finish = "none" => rest.tools = <<>>
    /\ rest.finish # "none" => finished
    /\ pc \in {"start", "read", "write"} /\ (~finished \/ rest.finish # "none") =>
          heard = Started \cup NamedIn(rest.tools)
    /\ pc \notin {"write", "gone"} => rest = NothingLeft
    /\ pc \in {"start", "read", "done"} => st.out = <<>>

-----------------------------------------------------------------------------
(* Nothing else is dropped: what each piece of code adds to the deltas *)

\* t has the deltas of s and n more of one kind, and the same tool blocks.
Adds(p, s, t, kind, n) ==
    /\ LocalsFit(t)
    /\ t.startedToolCalls = s.startedToolCalls
    /\ \A k \in Kinds : Count(p, t, k) = Count(p, s, k) + (IF k = kind THEN n ELSE 0)

LEMMA CountIsNat ==
    ASSUME NEW p \in Seq(Event), NEW s, LocalsFit(s), NEW kind
    PROVE  Count(p, s, kind) \in Nat
<1>1. Whole(p, s) \in Seq(Event)
  BY WholeIsSequence DEF LocalsFit
<1>2. IsFiniteSet(Places(Whole(p, s), "content_block_delta"))
  BY <1>1, PlacesFacts
<1>3. IsFiniteSet(Deltas(Whole(p, s), kind))
  BY <1>2, FS_Subset DEF Deltas
<1>4. QED
  BY <1>3, FS_CardinalityType DEF Count

LEMMA EmitAdds ==
    ASSUME NEW p \in Seq(Event), NEW s, LocalsFit(s), NEW e \in Event
    PROVE  /\ e.type # "content_block_delta" => Adds(p, s, Emit(s, e), "none", 0)
           /\ e.type = "content_block_delta" => Adds(p, s, Emit(s, e), e.kind, 1)
<1> DEFINE t == Emit(s, e)
           w == Whole(p, s)
<1>1. s \in Locals
  BY DEF LocalsFit
<1>2. /\ LocalsFit(t) /\ t.startedToolCalls = s.startedToolCalls
      /\ Whole(p, t) = Append(w, e)
  BY <1>1, Emits, EmitFits
<1>3. w \in Seq(Event)
  BY <1>1, WholeIsSequence
<1> HIDE DEF t, w
<1>4. ASSUME NEW k \in Kinds
      PROVE  Cardinality(Deltas(Append(w, e), k)) =
                 Cardinality(Deltas(w, k))
                     + (IF e.type = "content_block_delta" /\ e.kind = k THEN 1 ELSE 0)
  <2>1. Deltas(w, k) \subseteq Places(w, "content_block_delta")
    BY DEF Deltas
  <2>2. Len(w) + 1 \notin Deltas(w, k)
    <3>1. Places(w, "content_block_delta") \subseteq 1..Len(w) /\ Len(w) \in Nat
      BY <1>3, PlacesFacts
    <3>2. QED
      BY <2>1, <3>1
  <2>3. IsFiniteSet(Deltas(w, k))
    <3>1. IsFiniteSet(Places(w, "content_block_delta"))
      BY <1>3, PlacesFacts
    <3>2. QED
      BY <2>1, <3>1, FS_Subset
  <2>4. Cardinality(Deltas(w, k)) \in Nat
    BY <2>3, FS_CardinalityType
  <2>5. CASE e.type = "content_block_delta" /\ e.kind = k
    <3>1. Deltas(Append(w, e), k) = Deltas(w, k) \cup {Len(w) + 1}
      BY <1>3, <2>5, DeltasAppended
    <3>2. Cardinality(Deltas(w, k) \cup {Len(w) + 1}) = Cardinality(Deltas(w, k)) + 1
      BY <2>2, <2>3, FS_AddElement
    <3>3. (IF e.type = "content_block_delta" /\ e.kind = k THEN 1 ELSE 0) = 1
      BY <2>5
    <3>4. QED
      BY <3>1, <3>2, <3>3, Zenon
  <2>6. CASE ~(e.type = "content_block_delta" /\ e.kind = k)
    <3>1. Deltas(Append(w, e), k) = Deltas(w, k)
      <4>1. Deltas(Append(w, e), k) = Deltas(w, k) \cup {}
        BY <1>3, <2>6, DeltasAppended
      <4>2. QED
        BY <4>1
    <3>2. QED
      BY <2>4, <2>6, <3>1
  <2>7. QED
    BY <2>5, <2>6
<1>5. "none" \notin Kinds /\ \A k \in Kinds : Cardinality(Deltas(w, k)) \in Nat
  BY CountIsNat DEF Kinds, Count, w
<1>6. QED
  BY <1>2, <1>4, <1>5 DEF Adds, Count, w, t

LEMMA AddsAgain ==
    ASSUME NEW p \in Seq(Event), NEW s, LocalsFit(s), NEW t, NEW u,
           NEW kind, NEW n \in Nat, Adds(p, s, t, "none", 0), Adds(p, t, u, kind, n)
    PROVE  Adds(p, s, u, kind, n)
<1>1. \A k \in Kinds : Count(p, s, k) \in Nat /\ k # "none"
  BY CountIsNat DEF Kinds
<1>2. \A k \in Kinds : Count(p, t, k) = Count(p, s, k)
  BY <1>1 DEF Adds
<1>3. QED
  BY <1>2 DEF Adds

\* Variables other than the events and the tool blocks do not matter.
LEMMA AddsRelabelled ==
    ASSUME NEW p \in Seq(Event), NEW s, NEW t, LocalsFit(s), LocalsFit(t),
           t.out = s.out, t.startedToolCalls = s.startedToolCalls
    PROVE  Adds(p, s, t, "none", 0)
<1>1. Whole(p, t) = Whole(p, s)
  BY DEF Whole
<1>2. \A k \in Kinds : Count(p, s, k) \in Nat
  BY CountIsNat
<1>3. QED
  BY <1>1, <1>2 DEF Adds, Count

LEMMA CloseContentBlockAdds ==
    ASSUME NEW p \in Seq(Event), NEW s, LocalsFit(s)
    PROVE  Adds(p, s, CloseContentBlock(s), "none", 0)
<1> DEFINE e == BlockStopEvent(s.contentIndex)
           d == Emit(s, e)
           t == CloseContentBlock(s)
<1>1. e \in Event /\ e.type = "content_block_stop"
  BY EventsAre DEF LocalsFit, Locals, BlockStopEvent
<1>2. Adds(p, s, d, "none", 0) /\ LocalsFit(d)
  BY <1>1, EmitAdds DEF Adds
<1>3. LocalsFit(t)
  BY CloseContentBlockFits
<1>4. t = s \/ t = [d EXCEPT !.contentStarted = FALSE, !.reasoningStarted = FALSE]
  BY DEF CloseContentBlock
<1> HIDE DEF d, t
<1>5. CASE t = s
  <2>1. Adds(p, s, s, "none", 0)
    BY AddsRelabelled
  <2>2. QED
    BY <1>5, <2>1 DEF t
<1>6. CASE t = [d EXCEPT !.contentStarted = FALSE, !.reasoningStarted = FALSE]
  <2>1. t.out = d.out /\ t.startedToolCalls = d.startedToolCalls
    BY <1>2, <1>6 DEF LocalsFit, Locals
  <2>2. Adds(p, d, t, "none", 0)
    BY <1>2, <1>3, <2>1, AddsRelabelled
  <2>3. QED
    BY <1>2, <2>2, AddsAgain DEF t
<1>7. QED
  BY <1>4, <1>5, <1>6

\* The tool blocks are forgotten, no delta is added.
LEMMA CloseToolBlocksAdds ==
    ASSUME NEW p \in Seq(Event), NEW s, LocalsFit(s)
    PROVE  \A k \in Kinds : Count(p, CloseToolBlocks(s), k) = Count(p, s, k)
<1> DEFINE t == CloseToolBlocks(s)
           o == s.out
<1>1. s \in Locals /\ o \in Seq(Event) /\ IsFiniteSet(DOMAIN s.startedToolCalls)
  BY DEF LocalsFit, Locals
<1>2. PICK stops \in Seq(Event) :
         /\ \A n \in 1..Len(stops) : stops[n].type = "content_block_stop"
         /\ t.out = o \o stops
  BY <1>1, ToolStops
<1>3. Whole(p, s) \in Seq(Event) /\ Whole(p, s) = p \o o
  BY <1>1, WholeIsSequence DEF Whole
<1> HIDE DEF o, t
<1>4. Whole(p, t) = Whole(p, s) \o stops
  <2>1. (p \o o) \o stops = p \o (o \o stops)
    BY <1>1, ConcatAssociative
  <2>2. Whole(p, t) = p \o t.out
    BY DEF Whole
  <2>3. QED
    BY <1>2, <1>3, <2>1, <2>2
<1>5. \A k : Deltas(Whole(p, t), k) = Deltas(Whole(p, s), k)
  <2> DEFINE w == Whole(p, s)
  <2>1. w \in Seq(Event) /\ Whole(p, t) = w \o stops
    BY <1>3, <1>4
  <2> HIDE DEF w
  <2>2. \A k : Deltas(w \o stops, k) = Deltas(w, k)
    BY <1>2, <2>1, StopsAppended
  <2>3. QED
    BY <2>1, <2>2 DEF w
<1>6. QED
  BY <1>5 DEF Count, t

LEMMA LeaveBlockAdds ==
    ASSUME NEW p \in Seq(Event), NEW s, LocalsFit(s), NEW isOpen
    PROVE  Adds(p, s, LeaveBlock(s, isOpen), "none", 0)
<1> DEFINE c == CloseContentBlock(s)
           t == LeaveBlock(s, isOpen)
<1>1. Adds(p, s, c, "none", 0) /\ LocalsFit(c) /\ LocalsFit(t)
  BY CloseContentBlockAdds, LeaveBlockFits DEF Adds
<1>2. t = s \/ t = [c EXCEPT !.contentIndex = s.contentIndex + 1]
  BY DEF LeaveBlock
<1> HIDE DEF c, t
<1>3. CASE t = s
  <2>1. Adds(p, s, s, "none", 0)
    BY AddsRelabelled
  <2>2. QED
    BY <1>3, <2>1 DEF t
<1>4. CASE t = [c EXCEPT !.contentIndex = s.contentIndex + 1]
  <2>1. t.out = c.out /\ t.startedToolCalls = c.startedToolCalls
    BY <1>1, <1>4 DEF LocalsFit, Locals
  <2>2. Adds(p, c, t, "none", 0)
    BY <1>1, <2>1, AddsRelabelled
  <2>3. QED
    BY <1>1, <2>2, AddsAgain DEF t
<1>5. QED
  BY <1>2, <1>3, <1>4

LEMMA SendTextAdds ==
    ASSUME NEW p \in Seq(Event), NEW s, LocalsFit(s), NEW intact \in BOOLEAN
    PROVE  Adds(p, s, SendText(s, intact), "text", 1)
<1> DEFINE left == LeaveBlock(s, s.reasoningStarted)
           started == [left EXCEPT !.contentStarted = TRUE]
           fresh == Emit(started, BlockStartEvent(started.contentIndex, "text"))
           opened == IF s.contentStarted THEN s ELSE fresh
           delta == BlockDeltaEvent(opened.contentIndex, "text", intact)
<1>1. SendText(s, intact) = Emit(opened, delta)
  BY DEF SendText
<1>2. LocalsFit(left) /\ Adds(p, s, left, "none", 0) /\ TRUE \in BOOLEAN
  BY LeaveBlockFits, LeaveBlockAdds
<1> HIDE DEF left
<1>3. LocalsFit(started) /\ Adds(p, s, started, "none", 0)
  <2>1. LocalsFit(started)
    BY <1>2, FlagsFit
  <2>2. started.out = left.out /\ started.startedToolCalls = left.startedToolCalls
    BY <1>2 DEF LocalsFit, Locals
  <2> HIDE DEF started
  <2>3. Adds(p, left, started, "none", 0)
    BY <1>2, <2>1, <2>2, AddsRelabelled
  <2>4. QED
    BY <1>2, <2>1, <2>3, AddsAgain
<1> HIDE DEF started
<1>4. LocalsFit(fresh) /\ Adds(p, s, fresh, "none", 0)
  <2>1. /\ BlockStartEvent(started.contentIndex, "text") \in Event
        /\ BlockStartEvent(started.contentIndex, "text").type # "content_block_delta"
    BY <1>3, EventsAre DEF LocalsFit, Locals, BlockStartEvent
  <2>2. Adds(p, started, fresh, "none", 0)
    BY <1>3, <2>1, EmitAdds
  <2> HIDE DEF fresh
  <2>3. LocalsFit(fresh)
    BY <2>2 DEF Adds
  <2>4. QED
    BY <1>3, <2>2, <2>3, AddsAgain
<1> HIDE DEF fresh
<1>5. LocalsFit(opened) /\ Adds(p, s, opened, "none", 0)
  <2>1. Adds(p, s, s, "none", 0)
    BY AddsRelabelled
  <2>2. QED
    BY <1>4, <2>1
<1> HIDE DEF opened
<1>6. delta \in Event /\ delta.type = "content_block_delta" /\ delta.kind = "text"
  BY <1>5, EventsAre DEF LocalsFit, Locals, BlockDeltaEvent
<1> HIDE DEF delta
<1>7. Adds(p, opened, Emit(opened, delta), "text", 1)
  BY <1>5, <1>6, EmitAdds
<1>8. QED
  BY <1>1, <1>5, <1>7, AddsAgain

LEMMA SendThinkingAdds ==
    ASSUME NEW p \in Seq(Event), NEW s, LocalsFit(s)
    PROVE  Adds(p, s, SendThinking(s), "thinking", 1)
<1> DEFINE left == LeaveBlock(s, s.contentStarted)
           started == [left EXCEPT !.reasoningStarted = TRUE]
           fresh == Emit(started, BlockStartEvent(started.contentIndex, "thinking"))
           opened == IF s.reasoningStarted THEN s ELSE fresh
           delta == BlockDeltaEvent(opened.contentIndex, "thinking", TRUE)
<1>1. SendThinking(s) = Emit(opened, delta)
  BY DEF SendThinking
<1>2. LocalsFit(left) /\ Adds(p, s, left, "none", 0) /\ TRUE \in BOOLEAN
  BY LeaveBlockFits, LeaveBlockAdds
<1> HIDE DEF left
<1>3. LocalsFit(started) /\ Adds(p, s, started, "none", 0)
  <2>1. LocalsFit(started)
    BY <1>2, FlagsFit
  <2>2. started.out = left.out /\ started.startedToolCalls = left.startedToolCalls
    BY <1>2 DEF LocalsFit, Locals
  <2> HIDE DEF started
  <2>3. Adds(p, left, started, "none", 0)
    BY <1>2, <2>1, <2>2, AddsRelabelled
  <2>4. QED
    BY <1>2, <2>1, <2>3, AddsAgain
<1> HIDE DEF started
<1>4. LocalsFit(fresh) /\ Adds(p, s, fresh, "none", 0)
  <2>1. /\ BlockStartEvent(started.contentIndex, "thinking") \in Event
        /\ BlockStartEvent(started.contentIndex, "thinking").type # "content_block_delta"
    BY <1>3, EventsAre DEF LocalsFit, Locals, BlockStartEvent
  <2>2. Adds(p, started, fresh, "none", 0)
    BY <1>3, <2>1, EmitAdds
  <2> HIDE DEF fresh
  <2>3. LocalsFit(fresh)
    BY <2>2 DEF Adds
  <2>4. QED
    BY <1>3, <2>2, <2>3, AddsAgain
<1> HIDE DEF fresh
<1>5. LocalsFit(opened) /\ Adds(p, s, opened, "none", 0)
  <2>1. Adds(p, s, s, "none", 0)
    BY AddsRelabelled
  <2>2. QED
    BY <1>4, <2>1
<1> HIDE DEF opened
<1>6. delta \in Event /\ delta.type = "content_block_delta" /\ delta.kind = "thinking"
  BY <1>5, EventsAre DEF LocalsFit, Locals, BlockDeltaEvent
<1> HIDE DEF delta
<1>7. Adds(p, opened, Emit(opened, delta), "thinking", 1)
  BY <1>5, <1>6, EmitAdds
<1>8. QED
  BY <1>1, <1>5, <1>7, AddsAgain

\* A tool call that has a block, or is named, adds its arguments; a name that
\* is new adds a block.
LEMMA SendToolCallAdds ==
    ASSUME NEW p \in Seq(Event), NEW s, LocalsFit(s), NEW tc \in ToolCall
    PROVE  LET t == SendToolCall(s, tc)
               known == tc.index \in DOMAIN s.startedToolCalls
           IN  /\ LocalsFit(t)
               /\ DOMAIN t.startedToolCalls =
                     DOMAIN s.startedToolCalls \cup (IF tc.named THEN {tc.index} ELSE {})
               /\ \A k \in Kinds :
                     Count(p, t, k) = Count(p, s, k)
                         + (IF tc.args /\ (known \/ tc.named) /\ k = "tool_use"
                            THEN 1 ELSE 0)
<1>1. LocalsFit(SendToolCall(s, tc)) /\ tc.named \in BOOLEAN /\ tc.args \in BOOLEAN
  BY SendToolCallFits DEF ToolCall
<1>2. \A k \in Kinds : Count(p, s, k) \in Nat
  BY CountIsNat
<1>3. ASSUME NEW t, LocalsFit(t), tc.index \in DOMAIN t.startedToolCalls
      PROVE  Adds(p, t, SendArguments(t, tc), "tool_use", IF tc.args THEN 1 ELSE 0)
  <2> DEFINE delta == BlockDeltaEvent(t.startedToolCalls[tc.index], "tool_use", TRUE)
  <2>1. \A k \in Kinds : Count(p, t, k) \in Nat
    BY <1>3, CountIsNat
  <2>2. CASE tc.args
    <3>1. t.startedToolCalls[tc.index] \in Nat
      <4>1. t.startedToolCalls \in ToolBlocks
        BY <1>3 DEF LocalsFit, Locals
      <4>2. QED
        BY <1>3, <4>1, ToolBlockFields
    <3>2. delta \in Event /\ delta.type = "content_block_delta" /\ delta.kind = "tool_use"
      BY <3>1, EventsAre DEF BlockDeltaEvent
    <3>3. SendArguments(t, tc) = Emit(t, delta)
      BY <2>2 DEF SendArguments
    <3> HIDE DEF delta
    <3>4. Adds(p, t, Emit(t, delta), "tool_use", 1)
      BY <1>3, <3>2, EmitAdds
    <3>5. QED
      BY <2>2, <3>3, <3>4
  <2>3. CASE ~tc.args
    <3>1. SendArguments(t, tc) = t
      BY <2>3 DEF SendArguments
    <3>2. QED
      BY <1>3, <2>1, <2>3, <3>1 DEF Adds
  <2>4. QED
    BY <2>2, <2>3
<1>4. CASE tc.index \in DOMAIN s.startedToolCalls
  <2>1. SendToolCall(s, tc) = SendArguments(s, tc)
    BY <1>4 DEF SendToolCall
  <2>2. Adds(p, s, SendArguments(s, tc), "tool_use", IF tc.args THEN 1 ELSE 0)
    BY <1>3, <1>4
  <2>3. QED
    BY <1>1, <1>2, <1>4, <2>1, <2>2 DEF Adds
<1>5. CASE tc.index \notin DOMAIN s.startedToolCalls /\ tc.named
  <2> DEFINE b == s.contentIndex + 1
             e == BlockStartEvent(b, "tool_use")
             blocks == s.startedToolCalls
             more == [i \in DOMAIN blocks \cup {tc.index} |->
                         IF i = tc.index THEN b ELSE blocks[i]]
             l == [s EXCEPT !.contentIndex = b, !.startedToolCalls = more]
             started == StartToolBlock(s, tc, b)
  <2>1. SendToolCall(s, tc) = SendArguments(started, tc) /\ started = Emit(l, e)
    BY <1>5 DEF SendToolCall, StartToolBlock
  <2>2. LocalsFit([s EXCEPT !.out = s.out]) /\ s \in Locals /\ b \in Nat
    BY DEF LocalsFit, Locals
  <2>3. LocalsFit(l) /\ l.out = s.out /\ l.startedToolCalls = more
    BY <1>5, ToolBlockIsAdded
  <2>4. e \in Event /\ e.type = "content_block_start"
    BY <2>2, EventsAre DEF BlockStartEvent
  <2>5. DOMAIN more = DOMAIN blocks \cup {tc.index}
    OBVIOUS
  <2> HIDE DEF l, e, more
  <2>6. \A k \in Kinds : Count(p, l, k) = Count(p, s, k)
    BY <2>3 DEF Count, Whole
  <2>7. Adds(p, l, started, "none", 0)
    BY <2>1, <2>3, <2>4, EmitAdds
  <2> HIDE DEF started
  <2>8. LocalsFit(started) /\ started.startedToolCalls = more
    BY <2>3, <2>7 DEF Adds
  <2>9. \A k \in Kinds : Count(p, started, k) = Count(p, s, k)
    BY <1>2, <2>6, <2>7 DEF Adds
  <2>10. Adds(p, started, SendArguments(started, tc), "tool_use", IF tc.args THEN 1 ELSE 0)
    BY <1>3, <2>5, <2>8
  <2>11. QED
    BY <1>1, <1>2, <1>5, <2>1, <2>5, <2>8, <2>9, <2>10 DEF Adds
<1>6. CASE tc.index \notin DOMAIN s.startedToolCalls /\ ~tc.named
  <2>1. SendToolCall(s, tc) = s
    BY <1>1, <1>6 DEF SendToolCall
  <2>2. QED
    BY <1>1, <1>2, <1>6, <2>1
<1>7. QED
  BY <1>1, <1>4, <1>5, <1>6

LEMMA FinishAdds ==
    ASSUME NEW p \in Seq(Event), NEW s, LocalsFit(s), NEW reason \in Reasons
    PROVE  \A k \in Kinds : Count(p, Finish(s, reason), k) = Count(p, s, k)
<1> DEFINE c == CloseContentBlock(s)
           t == CloseToolBlocks(c)
           e == MessageDeltaEvent(reason)
           d == Emit(t, e)
<1>1. LocalsFit(c) /\ \A k \in Kinds : Count(p, s, k) \in Nat
  BY CloseContentBlockFits, CountIsNat
<1>2. \A k \in Kinds : Count(p, c, k) = Count(p, s, k)
  BY <1>1, CloseContentBlockAdds DEF Adds
<1>3. LocalsFit(t) /\ \A k \in Kinds : Count(p, t, k) = Count(p, c, k)
  BY <1>1, CloseToolBlocksFits, CloseToolBlocksAdds
<1>4. e \in Event /\ e.type = "message_delta"
  BY EventsAre DEF MessageDeltaEvent
<1>5. Finish(s, reason) = [d EXCEPT !.stopSent = TRUE]
  BY DEF Finish
<1> HIDE DEF c, t, e
<1>6. Adds(p, t, d, "none", 0)
  BY <1>3, <1>4, EmitAdds
<1> HIDE DEF d
<1>7. Finish(s, reason).out = d.out
  BY <1>5, <1>6 DEF Adds, LocalsFit, Locals
<1>8. \A k \in Kinds : Count(p, Finish(s, reason), k) = Count(p, d, k)
  BY <1>7 DEF Count, Whole
<1>9. QED
  BY <1>1, <1>2, <1>3, <1>6, <1>8 DEF Adds

LEMMA EmitTerminalEventsAdds ==
    ASSUME NEW p \in Seq(Event), NEW s, LocalsFit(s)
    PROVE  \A k \in Kinds : Count(p, EmitTerminalEvents(s), k) = Count(p, s, k)
<1> DEFINE c == CloseContentBlock(s)
           t == CloseToolBlocks(c)
           e == MessageDeltaEvent("end_turn")
           d == Emit(t, e)
           ended == IF t.stopSent THEN t ELSE [d EXCEPT !.stopSent = TRUE]
           stop == [type |-> "message_stop"]
<1>1. LocalsFit(c) /\ \A k \in Kinds : Count(p, s, k) \in Nat
  BY CloseContentBlockFits, CountIsNat
<1>2. \A k \in Kinds : Count(p, c, k) = Count(p, s, k)
  BY <1>1, CloseContentBlockAdds DEF Adds
<1>3. LocalsFit(t) /\ \A k \in Kinds : Count(p, t, k) = Count(p, c, k)
  BY <1>1, CloseToolBlocksFits, CloseToolBlocksAdds
<1>4. /\ e \in Event /\ e.type = "message_delta"
      /\ stop \in Event /\ stop.type = "message_stop"
  BY EventsAre DEF MessageDeltaEvent, Reasons
<1>5. EmitTerminalEvents(s) = Emit(ended, stop)
  BY DEF EmitTerminalEvents
<1> HIDE DEF c, t, e, stop
<1>6. Adds(p, t, d, "none", 0) /\ LocalsFit(d) /\ TRUE \in BOOLEAN
  BY <1>3, <1>4, EmitAdds DEF Adds
<1> HIDE DEF d
<1>7. LocalsFit(ended) /\ ended.out \in {t.out, d.out}
  <2>1. LocalsFit([d EXCEPT !.stopSent = TRUE])
    BY <1>6, FlagsFit
  <2>2. [d EXCEPT !.stopSent = TRUE].out = d.out
    BY <1>6 DEF LocalsFit, Locals
  <2>3. QED
    BY <1>3, <2>1, <2>2
<1> HIDE DEF ended
<1>8. \A k \in Kinds : Count(p, ended, k) = Count(p, s, k)
  <2>1. \A k \in Kinds : Count(p, ended, k) \in {Count(p, t, k), Count(p, d, k)}
    BY <1>7 DEF Count, Whole
  <2>2. QED
    BY <1>1, <1>2, <1>3, <1>6, <2>1 DEF Adds
<1>9. Adds(p, ended, Emit(ended, stop), "none", 0)
  BY <1>4, <1>7, EmitAdds
<1>10. QED
  BY <1>1, <1>5, <1>8, <1>9 DEF Adds

-----------------------------------------------------------------------------
(* Nothing else is dropped: a line, and the tool calls left of it *)

LEMMA NothingWaits ==
    /\ \A calls, kind : Waiting(calls, <<>>, kind) = 0
    /\ NamedIn(<<>>) = {}
<1>1. (\A calls : Delivered(calls, <<>>) = {}) /\ Cardinality({}) = 0
  BY FS_EmptySet DEF Delivered
<1>2. QED
  BY <1>1 DEF Waiting, NamedIn

LEMMA WaitingIsNat ==
    ASSUME NEW tools \in Seq(ToolCall), NEW calls, NEW kind
    PROVE  Waiting(calls, tools, kind) \in Nat
<1>1. IsFiniteSet(1..Len(tools))
  BY FS_Interval
<1>2. IsFiniteSet(Delivered(calls, tools))
  BY <1>1, FS_Subset DEF Delivered
<1>3. QED
  BY <1>2, FS_CardinalityType DEF Waiting

\* The fragments of a chunk and those of them that are overlooked, when a fast
\* path takes it and when none does.
LEMMA FragmentsAre ==
    ASSUME NEW c \in Chunk
    PROVE  /\ Fragments(c)["text"] = (IF c.content \in {"some", "escaped"} THEN 1 ELSE 0)
           /\ Fragments(c)["thinking"] = (IF c.reasoning = "some" THEN 1 ELSE 0)
           /\ Overlooked(c)["text"] =
                 (IF TakesFinishPath(c) THEN Fragments(c)["text"] ELSE 0)
           /\ Overlooked(c)["thinking"] =
                 (IF TakesFinishPath(c) THEN Fragments(c)["thinking"] ELSE 0)
           /\ TakesContentPath(c) \/ TakesFinishPath(c) =>
                 Overlooked(c)["tool_use"] = Fragments(c)["tool_use"]
           /\ ~(TakesContentPath(c) \/ TakesFinishPath(c)) =>
                 Waiting(heard, c.tools, "tool_use") + Overlooked(c)["tool_use"]
                     = Fragments(c)["tool_use"]
           /\ \A kind \in {"text", "thinking"} : \A calls, tools :
                 Waiting(calls, tools, kind) = 0
<1> DEFINE cut == TakesContentPath(c) \/ TakesFinishPath(c)
           all == {i \in 1..Len(c.tools) : c.tools[i].args}
           missed == {i \in 1..Len(c.tools) :
                         c.tools[i].args /\ (cut \/ ~Announced(heard, c.tools, i))}
           kept == Delivered(heard, c.tools)
<1>1. /\ Fragments(c)["tool_use"] = Cardinality(all)
      /\ Overlooked(c)["tool_use"] = Cardinality(missed)
      /\ Waiting(heard, c.tools, "tool_use") = Cardinality(kept)
  BY DEF Fragments, Overlooked, Waiting
<1>2. cut => missed = all
  OBVIOUS
<1>3. ASSUME ~cut
      PROVE  Cardinality(kept) + Cardinality(missed) = Cardinality(all)
  <2>1. kept \cup missed = all /\ kept \cap missed = {}
    BY <1>3 DEF Delivered
  <2>2. IsFiniteSet(1..Len(c.tools))
    BY FS_Interval DEF Chunk
  <2>3. IsFiniteSet(kept) /\ IsFiniteSet(missed)
    BY <2>2, FS_Subset DEF Delivered
  <2> HIDE DEF kept, missed, all
  <2>4. Cardinality(kept) \in Nat /\ Cardinality(missed) \in Nat
    BY <2>3, FS_CardinalityType
  <2>5. Cardinality(kept \cup missed) =
            Cardinality(kept) + Cardinality(missed) - Cardinality({})
    BY <2>1, <2>3, FS_Union
  <2>6. Cardinality({}) = 0 /\ Cardinality(kept \cup missed) = Cardinality(all)
    BY <2>1, FS_EmptySet, Zenon
  <2>7. QED
    BY <2>4, <2>5, <2>6
<1> HIDE DEF kept, missed, all
<1>4. /\ cut => Overlooked(c)["tool_use"] = Fragments(c)["tool_use"]
      /\ ~cut => Waiting(heard, c.tools, "tool_use") + Overlooked(c)["tool_use"]
                     = Fragments(c)["tool_use"]
  BY <1>1, <1>2, <1>3
<1>5. QED
  BY <1>4 DEF Fragments, Overlooked, Waiting

LEMMA ProcessSSELineAdds ==
    ASSUME NEW p \in Seq(Event), NEW s, LocalsFit(s), NEW c \in Chunk, ChoicesOnly(c)
    PROVE  LET t == ProcessSSELine(s, c)
           IN  /\ \A k \in Kinds :
                     Count(p, t, k) + Waiting(heard, Rest(c).tools, k) + Overlooked(c)[k]
                         = Count(p, s, k) + Fragments(c)[k]
               /\ ~c.choices \/ c.finish = "none" \/ Rest(c).finish # "none" =>
                     t.startedToolCalls = s.startedToolCalls
               /\ Rest(c).tools \in Seq(ToolCall)
               /\ Rest(c).finish \in {c.finish, "none"}
               /\ c.finish # "none" /\ Rest(c).finish = "none" => Rest(c).tools = <<>>
<1> DEFINE some == c.content \in {"some", "escaped"}
           cut == TakesContentPath(c) \/ TakesFinishPath(c)
<1>1. /\ c.choices \in BOOLEAN /\ c.tools \in Seq(ToolCall)
      /\ \A k \in Kinds : Count(p, s, k) \in Nat
      /\ NothingLeft.tools = <<>> /\ NothingLeft.finish = "none"
      /\ ~c.choices => ~some /\ c.reasoning # "some" /\ c.tools = <<>> /\ c.finish = "none"
  BY CountIsNat DEF Chunk, NothingLeft, ChoicesOnly
<1>2. Rest(c) = IF cut \/ ~c.choices THEN NothingLeft
                ELSE [tools |-> c.tools, finish |-> c.finish]
  BY DEF Rest
<1>3. /\ Rest(c).tools = IF cut THEN <<>> ELSE c.tools
      /\ Rest(c).tools \in Seq(ToolCall)
      /\ Rest(c).finish \in {c.finish, "none"}
      /\ c.finish # "none" /\ Rest(c).finish = "none" => Rest(c).tools = <<>>
  <2>1. <<>> \in Seq(ToolCall)
    OBVIOUS
  <2> HIDE DEF cut, some
  <2>2. CASE cut \/ ~c.choices
    <3>1. Rest(c) = NothingLeft /\ (~cut => c.tools = <<>>)
      BY <1>1, <1>2, <2>2
    <3>2. QED
      BY <1>1, <2>1, <3>1
  <2>3. CASE ~cut /\ c.choices
    <3>1. Rest(c).tools = c.tools /\ Rest(c).finish = c.finish
      BY <1>2, <2>3
    <3>2. QED
      BY <1>1, <2>3, <3>1
  <2>4. QED
    BY <1>1, <2>2, <2>3
\* What waits of the tool calls and what is overlooked.
<1>4. /\ \A k \in Kinds : Waiting(heard, Rest(c).tools, k) \in Nat
      /\ \A k \in Kinds : Overlooked(c)[k] \in Nat /\ Fragments(c)[k] \in Nat
      /\ Waiting(heard, Rest(c).tools, "tool_use") + Overlooked(c)["tool_use"]
             = Fragments(c)["tool_use"]
  <2>1. \A k \in Kinds : Waiting(heard, Rest(c).tools, k) \in Nat
    BY <1>3, WaitingIsNat
  <2>2. \A k \in Kinds : Overlooked(c)[k] \in Nat /\ Fragments(c)[k] \in Nat
    BY OverlookedAreCounted, FragmentsAreCounted
  <2>3. CASE cut
    <3>1. Waiting(heard, Rest(c).tools, "tool_use") = 0
      BY <1>3, <2>3, NothingWaits
    <3>2. QED
      BY <2>1, <2>2, <2>3, <3>1, FragmentsAre DEF Kinds
  <2>4. CASE ~cut
    BY <1>3, <2>1, <2>2, <2>4, FragmentsAre
  <2>5. QED
    BY <2>1, <2>2, <2>3, <2>4
\* What the line adds: text and thinking, unless the finish path takes it.
<1>5. ASSUME NEW t,
             \A k \in Kinds :
                Count(p, t, k) = Count(p, s, k)
                    + (IF k = "text" /\ some /\ ~TakesFinishPath(c) THEN 1 ELSE 0)
                    + (IF k = "thinking" /\ c.reasoning = "some" /\ ~TakesFinishPath(c)
                       THEN 1 ELSE 0)
      PROVE  \A k \in Kinds :
                Count(p, t, k) + Waiting(heard, Rest(c).tools, k) + Overlooked(c)[k]
                    = Count(p, s, k) + Fragments(c)[k]
  <2>1. Count(p, t, "text") + Waiting(heard, Rest(c).tools, "text") + Overlooked(c)["text"]
            = Count(p, s, "text") + Fragments(c)["text"]
    BY <1>1, <1>5, FragmentsAre DEF Kinds
  <2>2. Count(p, t, "thinking") + Waiting(heard, Rest(c).tools, "thinking")
            + Overlooked(c)["thinking"]
            = Count(p, s, "thinking") + Fragments(c)["thinking"]
    BY <1>1, <1>5, FragmentsAre DEF Kinds
  <2>3. Count(p, t, "tool_use") + Waiting(heard, Rest(c).tools, "tool_use")
            + Overlooked(c)["tool_use"]
            = Count(p, s, "tool_use") + Fragments(c)["tool_use"]
    BY <1>1, <1>4, <1>5 DEF Kinds
  <2>4. QED
    BY <2>1, <2>2, <2>3 DEF Kinds
<1>6. CASE TakesContentPath(c)
  <2>1. ProcessSSELine(s, c) = ContentPath(s, c) /\ c.reasoning = "absent"
        /\ ~TakesFinishPath(c) /\ c.choices
    BY <1>1, <1>6 DEF ProcessSSELine, TakesContentPath, TakesFinishPath, ChoicesOnly
  <2> DEFINE t == ContentPath(s, c)
  <2>2. /\ t.startedToolCalls = s.startedToolCalls
        /\ \A k \in Kinds :
              Count(p, t, k) = Count(p, s, k) + (IF k = "text" /\ some THEN 1 ELSE 0)
    <3>1. CASE some
      <4>1. t = SendText(s, c.content = "some") /\ (c.content = "some") \in BOOLEAN
        BY <3>1 DEF ContentPath
      <4>2. Adds(p, s, t, "text", 1)
        BY <4>1, SendTextAdds
      <4> HIDE DEF t
      <4>3. QED
        BY <1>1, <3>1, <4>2 DEF Adds
    <3>2. CASE ~some
      <4>1. t = s
        BY <3>2 DEF ContentPath
      <4>2. QED
        BY <1>1, <3>2, <4>1
    <3>3. QED
      BY <3>1, <3>2
  <2> HIDE DEF t
  <2>3. \A k \in Kinds :
           Count(p, t, k) = Count(p, s, k)
               + (IF k = "text" /\ some /\ ~TakesFinishPath(c) THEN 1 ELSE 0)
               + (IF k = "thinking" /\ c.reasoning = "some" /\ ~TakesFinishPath(c)
                  THEN 1 ELSE 0)
    BY <1>1, <2>1, <2>2
  <2>4. ProcessSSELine(s, c) = t
    BY <2>1 DEF t
  <2>5. QED
    BY <1>3, <1>5, <2>2, <2>3, <2>4
<1>7. CASE TakesFinishPath(c)
  <2>1. /\ ProcessSSELine(s, c) = Finish(s, "end_turn") /\ "end_turn" \in Reasons
        /\ c.choices /\ c.finish # "none" /\ Rest(c).finish = "none"
    BY <1>1, <1>2, <1>7 DEF ProcessSSELine, TakesFinishPath, FinishPath, Reasons
  <2> DEFINE t == Finish(s, "end_turn")
  <2>2. \A k \in Kinds : Count(p, t, k) = Count(p, s, k)
    BY <2>1, FinishAdds
  <2> HIDE DEF t
  <2>3. \A k \in Kinds :
           Count(p, t, k) + Waiting(heard, Rest(c).tools, k) + Overlooked(c)[k]
               = Count(p, s, k) + Fragments(c)[k]
    BY <1>1, <1>5, <1>7, <2>2
  <2>4. QED
    BY <1>3, <2>1, <2>3 DEF t
<1>8. CASE ~TakesContentPath(c) /\ ~TakesFinishPath(c) /\ ~c.choices
  <2> DEFINE u == UsageOnly(s, c)
             d == Emit(s, MessageDeltaEvent("end_turn"))
             e == Emit(s, MessageDeltaEvent("none"))
  <2>1. ProcessSSELine(s, c) = u /\ ~some /\ c.reasoning # "some"
    BY <1>1, <1>8 DEF ProcessSSELine
  <2>2. u = s \/ u = e \/ u = [d EXCEPT !.stopSent = TRUE]
    BY DEF UsageOnly, Chunk, LocalsFit, Locals
  <2>3. Adds(p, s, d, "none", 0) /\ Adds(p, s, e, "none", 0)
    <3>1. \A reason \in {"end_turn", "none"} :
             /\ MessageDeltaEvent(reason) \in Event
             /\ MessageDeltaEvent(reason).type # "content_block_delta"
      BY EventsAre DEF MessageDeltaEvent, Reasons
    <3>2. QED
      BY <3>1, EmitAdds
  <2> HIDE DEF d, e, u
  <2>4. \/ u = s \/ u = e
        \/ u.out = d.out /\ u.startedToolCalls = d.startedToolCalls
    BY <2>2, <2>3 DEF Adds, LocalsFit, Locals
  <2>5. /\ u.startedToolCalls = s.startedToolCalls
        /\ \A k \in Kinds : Count(p, u, k) = Count(p, s, k)
    <3>1. \A k \in Kinds : Count(p, u, k) \in {Count(p, s, k), Count(p, d, k), Count(p, e, k)}
      BY <2>4 DEF Count, Whole
    <3>2. QED
      BY <1>1, <2>3, <2>4, <3>1 DEF Adds
  <2>6. QED
    BY <1>1, <1>3, <1>5, <2>1, <2>5
<1>9. CASE ~TakesContentPath(c) /\ ~TakesFinishPath(c) /\ c.choices
  <2> DEFINE thought == IF c.reasoning = "some" THEN SendThinking(s) ELSE s
             t == IF some THEN SendText(thought, TRUE) ELSE thought
  <2>1. ProcessSSELine(s, c) = t
    BY <1>1, <1>9 DEF ProcessSSELine, JSONPath
  <2>2. /\ LocalsFit(thought) /\ thought.startedToolCalls = s.startedToolCalls
        /\ \A k \in Kinds :
              Count(p, thought, k) = Count(p, s, k)
                  + (IF k = "thinking" /\ c.reasoning = "some" THEN 1 ELSE 0)
    <3>1. CASE c.reasoning = "some"
      <4>1. Adds(p, s, thought, "thinking", 1)
        BY <3>1, SendThinkingAdds
      <4> HIDE DEF thought
      <4>2. QED
        BY <1>1, <3>1, <4>1 DEF Adds
    <3>2. CASE c.reasoning # "some"
      BY <1>1, <3>2
    <3>3. QED
      BY <3>1, <3>2
  <2> HIDE DEF thought
  <2>3. \A k \in Kinds : Count(p, thought, k) \in Nat
    BY <2>2, CountIsNat
  <2>4. /\ t.startedToolCalls = thought.startedToolCalls
        /\ \A k \in Kinds :
              Count(p, t, k) = Count(p, thought, k) + (IF k = "text" /\ some THEN 1 ELSE 0)
    <3>1. CASE some
      <4>1. TRUE \in BOOLEAN
        OBVIOUS
      <4>2. Adds(p, thought, t, "text", 1)
        BY <2>2, <3>1, <4>1, SendTextAdds
      <4> HIDE DEF t
      <4>3. QED
        BY <2>3, <3>1, <4>2 DEF Adds
    <3>2. CASE ~some
      BY <2>3, <3>2
    <3>3. QED
      BY <3>1, <3>2
  <2> HIDE DEF t
  <2>5. \A k \in Kinds :
           Count(p, t, k) = Count(p, s, k)
               + (IF k = "text" /\ some THEN 1 ELSE 0)
               + (IF k = "thinking" /\ c.reasoning = "some" THEN 1 ELSE 0)
    BY <1>1, <2>2, <2>4
  <2>6. \A k \in Kinds :
           Count(p, t, k) = Count(p, s, k)
               + (IF k = "text" /\ some /\ ~TakesFinishPath(c) THEN 1 ELSE 0)
               + (IF k = "thinking" /\ c.reasoning = "some" /\ ~TakesFinishPath(c)
                  THEN 1 ELSE 0)
    BY <1>9, <2>5
  <2>7. QED
    BY <1>3, <1>5, <2>1, <2>2, <2>4, <2>6
<1>10. QED
  BY <1>1, <1>6, <1>7, <1>8, <1>9

\* The first of the tool calls that wait is handled.
LEMMA HeadIsTaken ==
    ASSUME NEW tools \in Seq(ToolCall), tools # <<>>, NEW calls
    PROVE  LET tc == Head(tools)
               more == calls \cup (IF tc.named THEN {tc.index} ELSE {})
           IN  /\ tc \in ToolCall /\ Tail(tools) \in Seq(ToolCall)
               /\ \A kind : Waiting(calls, tools, kind) =
                     Waiting(more, Tail(tools), kind)
                         + (IF tc.args /\ (tc.index \in calls \/ tc.named)
                               /\ kind = "tool_use" THEN 1 ELSE 0)
               /\ NamedIn(tools) =
                     NamedIn(Tail(tools)) \cup (IF tc.named THEN {tc.index} ELSE {})
<1> DEFINE tc == Head(tools)
           t == Tail(tools)
           more == calls \cup (IF tc.named THEN {tc.index} ELSE {})
           S == Delivered(calls, tools)
           T == Delivered(more, t)
           f == [i \in T |-> i + 1]
<1>1. /\ tc \in ToolCall /\ t \in Seq(ToolCall)
      /\ Len(t) \in Nat /\ Len(tools) = Len(t) + 1 /\ tc = tools[1]
      /\ \A i \in 1..Len(t) : t[i] = tools[i + 1]
  <2>1. Len(tools) \in Nat \ {0}
    BY EmptySeq, LenProperties
  <2>2. QED
    BY <2>1, HeadTailProperties
<1> HIDE DEF tc, t
<1>2. \A i \in 1..Len(tools) : i = 1 \/ (i - 1 \in 1..Len(t) /\ (i - 1) + 1 = i)
  BY <1>1
<1>3. \A i \in 1..Len(t) : i + 1 \in 1..Len(tools) /\ i + 1 # 1
  BY <1>1
<1>4. 1 \in 1..Len(tools)
  BY <1>1
<1> HIDE DEF more
<1>5. IsFiniteSet(T)
  <2>1. IsFiniteSet(1..Len(t))
    BY <1>1, FS_Interval
  <2>2. QED
    BY <2>1, FS_Subset DEF Delivered
\* The others are announced as they were.
<1>6. \A i \in 1..Len(t) : Announced(more, t, i) <=> Announced(calls, tools, i + 1)
  <2>1. ASSUME NEW i \in 1..Len(t), Announced(more, t, i)
        PROVE  Announced(calls, tools, i + 1)
    <3>1. i + 1 \in 1..Len(tools) /\ t[i] = tools[i + 1] /\ 1 \in 1..(i + 1)
      BY <1>1, <1>3
    <3>2. CASE t[i].index \in more
      BY <1>1, <3>1, <3>2 DEF Announced, more
    <3>3. CASE \E j \in 1..i : t[j].named /\ t[j].index = t[i].index
      <4>1. PICK j \in 1..i : t[j].named /\ t[j].index = t[i].index
        BY <3>3
      <4>2. j + 1 \in 1..(i + 1) /\ t[j] = tools[j + 1]
        BY <1>1
      <4>3. QED
        BY <3>1, <4>1, <4>2 DEF Announced
    <3>4. QED
      BY <2>1, <3>2, <3>3 DEF Announced
  <2>2. ASSUME NEW i \in 1..Len(t), Announced(calls, tools, i + 1)
        PROVE  Announced(more, t, i)
    <3>1. t[i] = tools[i + 1]
      BY <1>1
    <3>2. CASE tools[i + 1].index \in calls
      BY <3>1, <3>2 DEF Announced, more
    <3>3. CASE \E j \in 1..(i + 1) : tools[j].named /\ tools[j].index = tools[i + 1].index
      <4>1. PICK j \in 1..(i + 1) : tools[j].named /\ tools[j].index = tools[i + 1].index
        BY <3>3
      <4>2. CASE j = 1
        BY <1>1, <3>1, <4>1, <4>2 DEF Announced, more
      <4>3. CASE j # 1
        <5>1. j - 1 \in 1..i /\ j - 1 \in 1..Len(t) /\ (j - 1) + 1 = j
          BY <1>1, <4>3
        <5>2. t[j - 1] = tools[j]
          BY <1>1, <5>1
        <5>3. QED
          BY <3>1, <4>1, <5>1, <5>2 DEF Announced
      <4>4. QED
        BY <4>2, <4>3
    <3>4. QED
      BY <2>2, <3>2, <3>3 DEF Announced
  <2>3. QED
    BY <2>1, <2>2
\* As is the first, by itself.
<1>7. 1 \in S <=> tc.args /\ (tc.index \in calls \/ tc.named)
  <2>1. Announced(calls, tools, 1) <=> tc.index \in calls \/ tc.named
    <3>1. \A j \in 1..1 : j = 1
      OBVIOUS
    <3>2. 1 \in 1..1
      OBVIOUS
    <3>3. QED
      BY <1>1, <3>1, <3>2 DEF Announced
  <2>2. QED
    BY <1>1, <1>4, <2>1 DEF Delivered
<1>8. f \in Bijection(T, S \ {1})
  <2>1. f \in [T -> S \ {1}]
    BY <1>1, <1>3, <1>6 DEF Delivered
  <2>2. \A i, j \in T : f[i] = f[j] => i = j
    BY <1>1 DEF Delivered
  <2>3. \A j \in S \ {1} : \E i \in T : f[i] = j
    <3>1. SUFFICES ASSUME NEW j \in S \ {1} PROVE \E i \in T : f[i] = j
      OBVIOUS
    <3>2. j - 1 \in 1..Len(t) /\ (j - 1) + 1 = j
      BY <1>2 DEF Delivered
    <3>3. j - 1 \in T
      BY <1>1, <1>6, <3>2 DEF Delivered
    <3>4. f[j - 1] = j
      BY <3>2, <3>3
    <3>5. QED
      BY <3>3, <3>4
  <2> HIDE DEF f, T, S
  <2>4. QED
    BY <2>1, <2>2, <2>3, Fun_IsBij
<1>9. IsFiniteSet(S \ {1}) /\ Cardinality(S \ {1}) = Cardinality(T) /\ Cardinality(T) \in Nat
  <2> HIDE DEF f, T, S
  <2>1. QED
    BY <1>5, <1>8, FS_Bijection, FS_CardinalityType DEF ExistsBijection
<1>10. Cardinality(S) =
         Cardinality(T) + (IF tc.args /\ (tc.index \in calls \/ tc.named) THEN 1 ELSE 0)
  <2> HIDE DEF S, T, f
  <2>1. CASE 1 \in S
    <3>1. S = (S \ {1}) \cup {1} /\ 1 \notin S \ {1}
      BY <2>1
    <3>2. Cardinality((S \ {1}) \cup {1}) = Cardinality(S \ {1}) + 1
      BY <1>9, <3>1, FS_AddElement
    <3>3. QED
      BY <1>9, <1>7, <2>1, <3>1, <3>2
  <2>2. CASE 1 \notin S
    <3>1. S = S \ {1}
      BY <2>2
    <3>2. Cardinality(S) = Cardinality(S \ {1})
      BY ONLY <3>1, Zenon
    <3>3. Cardinality(T) + 0 = Cardinality(T)
      BY <1>9
    <3>4. QED
      BY <1>9, <1>7, <2>2, <3>2, <3>3, Zenon
  <2>3. QED
    BY <2>1, <2>2
<1>11. \A kind : Waiting(calls, tools, kind) =
         Waiting(more, t, kind)
             + (IF tc.args /\ (tc.index \in calls \/ tc.named) /\ kind = "tool_use"
                THEN 1 ELSE 0)
  BY <1>9, <1>10 DEF Waiting
<1>12. NamedIn(tools) = NamedIn(t) \cup (IF tc.named THEN {tc.index} ELSE {})
  <2>1. ASSUME NEW x \in NamedIn(tools)
        PROVE  x \in NamedIn(t) \/ (tc.named /\ x = tc.index)
    <3>1. PICK i \in 1..Len(tools) : tools[i].named /\ tools[i].index = x
      BY <2>1 DEF NamedIn
    <3>2. CASE i = 1
      BY <1>1, <3>1, <3>2
    <3>3. CASE i # 1
      <4>1. i - 1 \in 1..Len(t) /\ (i - 1) + 1 = i
        BY <1>2, <3>3
      <4>2. t[i - 1] = tools[i]
        BY <1>1, <4>1
      <4>3. QED
        BY <3>1, <4>1, <4>2 DEF NamedIn
    <3>4. QED
      BY <3>2, <3>3
  <2>2. ASSUME NEW x \in NamedIn(t)
        PROVE  x \in NamedIn(tools)
    <3>1. PICK i \in 1..Len(t) : t[i].named /\ t[i].index = x
      BY <2>2 DEF NamedIn
    <3>2. i + 1 \in 1..Len(tools) /\ tools[i + 1] = t[i]
      BY <1>1, <1>3
    <3>3. QED
      BY <3>1, <3>2 DEF NamedIn
  <2>3. tc.named => tc.index \in NamedIn(tools)
    BY <1>1, <1>4 DEF NamedIn
  <2>4. QED
    BY <2>1, <2>2, <2>3
<1>13. QED
  BY <1>1, <1>11, <1>12 DEF more, tc, t

-----------------------------------------------------------------------------
(* Nothing else is dropped: the steps *)

LEMMA CountInit == ASSUME Init PROVE CountInv
<1>1. TypesInv
  BY TypesInit
<1>2. /\ sent = <<>> /\ st = Locals0 /\ rest = NothingLeft /\ ~finished /\ pc = "start"
      /\ heard = {} /\ due = [text |-> 0, thinking |-> 0, tool_use |-> 0]
      /\ overlooked = [text |-> 0, thinking |-> 0, tool_use |-> 0]
  BY DEF Init
<1>3. /\ st.out = <<>> /\ rest.tools = <<>> /\ rest.finish = "none" /\ Started = {}
  BY <1>2 DEF Locals0, NothingLeft, Started, NoTools
<1>4. Whole(sent, st) = <<>>
  <2>1. <<>> \in Seq(Event)
    OBVIOUS
  <2>2. QED
    BY <1>2, <1>3, <2>1, ConcatEmptySeq DEF Whole
<1>5. \A kind : Deltas(<<>>, kind) = {}
  BY DEF Deltas, Places
<1>6. \A kind : Count(sent, st, kind) = 0
  BY <1>4, <1>5, FS_EmptySet DEF Count
<1>7. \A kind \in Kinds : due[kind] = 0 /\ overlooked[kind] = 0
  BY <1>2 DEF Kinds
<1>8. QED
  BY <1>1, <1>2, <1>3, <1>6, <1>7, NothingWaits DEF CountInv

LEMMA CountStep ==
    ASSUME CountInv, [Next]_vars
    PROVE  CountInv'
<1>1. TypesInv /\ TypesInv'
  BY TypesStep DEF CountInv
<1>2. /\ upstream \in Upstreams /\ sent \in Seq(Event) /\ st \in Locals /\ LocalsFit(st)
      /\ rest.tools \in Seq(ToolCall) /\ DOMAIN due = Kinds
      /\ \A kind \in Kinds : due[kind] \in Nat /\ overlooked[kind] \in Nat
  BY <1>1 DEF TypesInv, LocalsFit, TypeOK, Kinds
<1>3. NothingLeft.tools = <<>> /\ NothingLeft.finish = "none"
  BY DEF NothingLeft
<1>4. /\ \A kind \in Kinds : Count(sent, st, kind) \in Nat
      /\ \A kind : Waiting(Started, rest.tools, kind) \in Nat
      /\ \A calls, kind : Waiting(calls, <<>>, kind) = 0
      /\ NamedIn(<<>>) = {}
  BY <1>2, CountIsNat, WaitingIsNat, NothingWaits
<1>5. CASE Start
  <2> DEFINE e == [type |-> "message_start"]
             t == Emit(st, e)
  <2>1. e \in Event /\ e.type # "content_block_delta"
    BY EventsAre
  <2> HIDE DEF e
  <2>2. Adds(sent, st, t, "none", 0)
    BY <1>2, <2>1, EmitAdds
  <2>3. /\ st' = t /\ pc' = "write" /\ pc = "start"
        /\ UNCHANGED <<rest, sent, finished, heard, due, overlooked>>
    BY <1>5 DEF Start, e, historyVars
  <2> HIDE DEF t
  <2>4. \A kind \in Kinds : Count(sent, st, kind)' = Count(sent, st, kind)
    BY <1>4, <2>2, <2>3 DEF Adds, Count, Whole
  <2>5. Started' = Started
    BY <2>2, <2>3 DEF Adds, Started
  <2>6. /\ \A kind : Waiting(Started, rest.tools, kind)' = Waiting(Started, rest.tools, kind)
        /\ NamedIn(rest.tools)' = NamedIn(rest.tools)
    BY <2>3, <2>5 DEF Waiting, Delivered, Announced, NamedIn
  <2>7. QED
    BY <1>1, <2>3, <2>4, <2>5, <2>6 DEF CountInv
<1>6. ASSUME NEW c \in upstream, Receive(c)
      PROVE  CountInv'
  <2> DEFINE t == ProcessSSELine(st, c)
  <2>1. c \in Chunk /\ ChoicesOnly(c)
    BY <1>2, <1>6, StreamAssumption
  <2>2. /\ pc = "read" /\ rest = NothingLeft
        /\ finished <=> ~c.choices
        /\ ~finished => heard = Started
    BY <1>3, <1>4, <1>6 DEF CountInv, Receive, MaySend
  <2>3. /\ st' = t /\ pc' = "write" /\ rest' = Rest(c) /\ sent' = sent
        /\ finished' = (finished \/ c.finish # "none")
        /\ heard' = heard \cup NamedIn(Rest(c).tools)
        /\ due' = [k \in DOMAIN due |-> due[k] + Fragments(c)[k]]
        /\ overlooked' = [k \in DOMAIN overlooked |-> overlooked[k] + Overlooked(c)[k]]
    BY <1>6 DEF Receive
  <2>4. /\ \A k \in Kinds :
              Count(sent, t, k) + Waiting(heard, Rest(c).tools, k) + Overlooked(c)[k]
                  = Count(sent, st, k) + Fragments(c)[k]
        /\ ~c.choices \/ c.finish = "none" \/ Rest(c).finish # "none" =>
              t.startedToolCalls = st.startedToolCalls
        /\ Rest(c).tools \in Seq(ToolCall)
        /\ Rest(c).finish \in {c.finish, "none"}
        /\ c.finish # "none" /\ Rest(c).finish = "none" => Rest(c).tools = <<>>
    BY <1>2, <2>1, ProcessSSELineAdds
  <2> HIDE DEF t
  <2>5. ~c.choices => Rest(c) = NothingLeft /\ c.finish = "none"
    BY <2>1 DEF Rest, ChoicesOnly
  \* A line with tool calls left leaves their blocks as they are.
  <2>6. \A k : Waiting(Started, rest.tools, k)' = Waiting(heard, Rest(c).tools, k)
    <3>1. \A k : Waiting(Started, rest.tools, k)' = Waiting(Started', Rest(c).tools, k)
      BY <2>3 DEF Waiting, Delivered, Announced
    <3>2. CASE Rest(c).tools = <<>>
      BY <1>4, <3>1, <3>2
    <3>3. CASE Rest(c).tools # <<>>
      <4>1. c.choices /\ (c.finish = "none" \/ Rest(c).finish # "none")
        BY <1>3, <2>4, <2>5, <3>3
      <4>2. Started' = heard
        BY <2>2, <2>3, <2>4, <4>1 DEF Started
      <4>3. QED
        BY <3>1, <4>2
    <3>4. QED
      BY <3>2, <3>3
  <2>7. \A k \in Kinds :
           Count(sent, st, k)' + Waiting(Started, rest.tools, k)' + overlooked'[k] = due'[k]
    <3>1. DOMAIN overlooked = Kinds
      BY <1>1 DEF TypesInv, TypeOK, Kinds
    <3>2. \A k \in Kinds : Count(sent, st, k) + overlooked[k] = due[k]
      <4>1. \A k \in Kinds :
               Count(sent, st, k) + Waiting(Started, rest.tools, k) + overlooked[k] = due[k]
        BY DEF CountInv
      <4>2. \A k : Waiting(Started, rest.tools, k) = 0
        BY <1>3, <1>4, <2>2
      <4>3. QED
        BY <1>2, <1>4, <4>1, <4>2
    <3>3. \A k \in Kinds : /\ due'[k] = due[k] + Fragments(c)[k]
                           /\ overlooked'[k] = overlooked[k] + Overlooked(c)[k]
      BY <1>2, <2>3, <3>1
    <3>4. \A k \in Kinds : Count(sent, st, k)' = Count(sent, t, k)
      BY <2>3 DEF Count, Whole
    <3>5. /\ \A k \in Kinds : Overlooked(c)[k] \in Nat /\ Fragments(c)[k] \in Nat
          /\ \A k \in Kinds : Waiting(heard, Rest(c).tools, k) \in Nat
          /\ \A k \in Kinds : Count(sent, t, k) \in Nat
      <4>1. LocalsFit(t)
        BY <1>1, <2>3 DEF TypesInv
      <4>2. QED
        BY <1>2, <2>1, <2>4, <4>1, OverlookedAreCounted, FragmentsAreCounted, WaitingIsNat,
           CountIsNat
    <3>6. SUFFICES ASSUME NEW k \in Kinds
                   PROVE  Count(sent, t, k) + Waiting(heard, Rest(c).tools, k)
                              + (overlooked[k] + Overlooked(c)[k]) = due[k] + Fragments(c)[k]
      BY <2>6, <3>3, <3>4
    <3>7. /\ Count(sent, t, k) + Waiting(heard, Rest(c).tools, k) + Overlooked(c)[k]
                 = Count(sent, st, k) + Fragments(c)[k]
          /\ Count(sent, st, k) + overlooked[k] = due[k]
      BY <2>4, <3>2
    <3>8. /\ Count(sent, t, k) \in Nat /\ Count(sent, st, k) \in Nat
          /\ Waiting(heard, Rest(c).tools, k) \in Nat
          /\ Overlooked(c)[k] \in Nat /\ overlooked[k] \in Nat
          /\ Fragments(c)[k] \in Nat /\ due[k] \in Nat
      BY <1>2, <1>4, <3>5
    <3>9. QED
      BY ONLY <3>7, <3>8
  <2>8. ~finished' \/ rest'.finish # "none" =>
           heard' = Started' \cup NamedIn(rest.tools)'
    <3>1. NamedIn(rest.tools)' = NamedIn(Rest(c).tools)
      BY <2>3 DEF NamedIn
    <3>2. ASSUME ~finished' \/ rest'.finish # "none"
          PROVE  ~finished /\ Started' = Started
      <4>1. c.choices
        BY <1>3, <2>2, <2>3, <2>5, <3>2
      <4>2. c.finish = "none" \/ Rest(c).finish # "none"
        BY <2>3, <3>2
      <4>3. QED
        BY <2>2, <2>3, <2>4, <4>1, <4>2 DEF Started
    <3>3. QED
      BY <2>2, <2>3, <3>1, <3>2
  <2>9. finished' /\ rest'.finish = "none" => rest'.tools = <<>>
    BY <1>3, <2>2, <2>3, <2>4, <2>5
  <2>10. rest'.finish # "none" => finished'
    BY <2>3, <2>4
  <2>11. QED
    BY <1>1, <2>3, <2>7, <2>8, <2>9, <2>10 DEF CountInv
<1>7. CASE UpstreamEnds
  <2> DEFINE t == EmitTerminalEvents(st)
  <2>1. \A k \in Kinds : Count(sent, t, k) = Count(sent, st, k)
    BY <1>2, EmitTerminalEventsAdds
  <2>2. /\ st' = t /\ pc' = "last" /\ pc = "read" /\ rest = NothingLeft
        /\ UNCHANGED <<rest, sent, finished, due, overlooked>>
    BY <1>7 DEF UpstreamEnds, CountInv, historyVars
  <2> HIDE DEF t
  <2>3. \A kind \in Kinds : Count(sent, st, kind)' = Count(sent, st, kind)
    BY <2>1, <2>2 DEF Count, Whole
  <2>4. \A kind : Waiting(Started, rest.tools, kind)' = Waiting(Started, rest.tools, kind)
    <3>1. \A kind : Waiting(Started, rest.tools, kind)' = Waiting(Started', <<>>, kind)
      BY <1>3, <2>2, ZenonT(60) DEF Waiting, Delivered, Announced
    <3>2. QED
      BY <1>3, <1>4, <2>2, <3>1
  <2>5. QED
    BY <1>1, <1>3, <2>2, <2>3, <2>4 DEF CountInv
<1>8. CASE WriteEvent
  <2> DEFINE q == Append(sent, Head(st.out))
             t == [st EXCEPT !.out = Tail(st.out)]
  <2>1. Whole(q, t) = Whole(sent, st)
    BY <1>2, <1>8, WriteKeeps DEF WriteEvent
  <2>2. t.startedToolCalls = st.startedToolCalls
    BY <1>2 DEF Locals
  <2>3. /\ sent' = q /\ st' = t /\ pc' = pc /\ pc \in {"write", "last"}
        /\ UNCHANGED <<rest, finished, heard, due, overlooked>>
    BY <1>8 DEF WriteEvent, historyVars
  <2> HIDE DEF q, t
  <2>4. \A kind : Count(sent, st, kind)' = Count(sent, st, kind)
    BY <2>1, <2>3 DEF Count, Whole
  <2>5. Started' = Started
    BY <2>2, <2>3 DEF Started
  <2>6. /\ \A kind : Waiting(Started, rest.tools, kind)' = Waiting(Started, rest.tools, kind)
        /\ NamedIn(rest.tools)' = NamedIn(rest.tools)
    BY <2>3, <2>5 DEF Waiting, Delivered, Announced, NamedIn
  <2>7. QED
    BY <1>1, <2>3, <2>4, <2>5, <2>6 DEF CountInv
<1>9. CASE HandleToolCall
  <2> DEFINE tools == rest.tools
             tc == Head(tools)
             t == SendToolCall(st, tc)
             more == Started \cup (IF tc.named THEN {tc.index} ELSE {})
             delivered == tc.args /\ (tc.index \in Started \/ tc.named)
  <2>1. /\ tools \in Seq(ToolCall) /\ tools # <<>> /\ pc = "write"
        /\ ~finished \/ rest.finish # "none"
    BY <1>2, <1>9 DEF CountInv, HandleToolCall
  <2>2. /\ st' = t /\ rest'.tools = Tail(tools) /\ rest'.finish = rest.finish
        /\ UNCHANGED <<sent, pc, finished, heard, due, overlooked>>
    BY <1>1, <1>9 DEF HandleToolCall, TypesInv, TypeOK, historyVars
  <2>3. /\ \A kind \in Kinds :
              Count(sent, st, kind) + Waiting(Started, tools, kind) + overlooked[kind]
                  = due[kind]
        /\ heard = Started \cup NamedIn(tools)
        /\ rest.finish # "none" => finished
    BY <2>1 DEF CountInv
  <2> HIDE DEF tools
  <2>4. /\ tc \in ToolCall /\ Tail(tools) \in Seq(ToolCall)
        /\ \A kind : Waiting(Started, tools, kind) =
              Waiting(more, Tail(tools), kind)
                  + (IF delivered /\ kind = "tool_use" THEN 1 ELSE 0)
        /\ NamedIn(tools) =
              NamedIn(Tail(tools)) \cup (IF tc.named THEN {tc.index} ELSE {})
    BY <2>1, HeadIsTaken
  <2> HIDE DEF tc
  <2>5. /\ DOMAIN t.startedToolCalls = more
        /\ \A k \in Kinds :
              Count(sent, t, k) =
                  Count(sent, st, k) + (IF delivered /\ k = "tool_use" THEN 1 ELSE 0)
    BY <1>2, <2>4, SendToolCallAdds DEF Started
  <2>6. Started' = more
    BY <2>2, <2>5 DEF Started
  <2> HIDE DEF t
  <2>7. \A kind \in Kinds :
           Count(sent, st, kind)' + Waiting(Started, rest.tools, kind)' + overlooked'[kind]
               = due'[kind]
    <3>1. \A kind \in Kinds : Count(sent, st, kind)' = Count(sent, t, kind)
      BY <2>2 DEF Count, Whole
    <3>2. \A kind : Waiting(Started, rest.tools, kind)' = Waiting(Started', Tail(tools), kind)
      BY <2>2 DEF Waiting, Delivered, Announced
    <3> HIDE DEF more, delivered
    <3>3. \A kind \in Kinds : Waiting(more, Tail(tools), kind) \in Nat
      BY <2>4, WaitingIsNat
    <3>4. QED
      BY <1>2, <1>4, <2>2, <2>3, <2>4, <2>5, <2>6, <3>1, <3>2, <3>3
  <2>8. heard' = Started' \cup NamedIn(rest.tools)'
    <3>1. NamedIn(rest.tools)' = NamedIn(Tail(tools))
      BY <2>2 DEF NamedIn
    <3>2. QED
      BY <2>2, <2>3, <2>4, <2>6, <3>1
  <2>9. QED
    BY <1>1, <2>1, <2>2, <2>3, <2>7, <2>8 DEF CountInv
<1>10. CASE HandleFinish
  <2> DEFINE reason == MapFinishReason(rest.finish)
             t == Finish(st, reason)
  <2>1. rest.tools = <<>> /\ finished /\ pc = "write"
    BY <1>10 DEF CountInv, HandleFinish
  <2>2. /\ st' = t /\ rest' = NothingLeft
        /\ UNCHANGED <<sent, pc, finished, due, overlooked>>
    BY <1>10 DEF HandleFinish, historyVars
  <2>3. reason \in Reasons
    BY DEF MapFinishReason, Reasons
  <2> HIDE DEF reason
  <2>4. \A k \in Kinds : Count(sent, t, k) = Count(sent, st, k)
    BY <1>2, <2>3, FinishAdds
  <2> HIDE DEF t
  <2>5. \A kind \in Kinds : Count(sent, st, kind)' = Count(sent, st, kind)
    BY <2>2, <2>4 DEF Count, Whole
  <2>6. \A kind : Waiting(Started, rest.tools, kind)' = Waiting(Started, rest.tools, kind)
    <3>1. \A kind : Waiting(Started, rest.tools, kind)' = Waiting(Started', <<>>, kind)
      BY <1>3, <2>2 DEF Waiting, Delivered, Announced
    <3>2. QED
      BY <1>4, <2>1, <3>1
  <2>7. QED
    BY <1>1, <1>3, <2>1, <2>2, <2>5, <2>6 DEF CountInv
\* The steps that only move pc.
<1>11. ASSUME UNCHANGED <<st, rest, sent, finished, heard, due, overlooked>>
       PROVE  /\ \A kind : Count(sent, st, kind)' = Count(sent, st, kind)
              /\ \A kind : Waiting(Started, rest.tools, kind)'
                               = Waiting(Started, rest.tools, kind)
              /\ NamedIn(rest.tools)' = NamedIn(rest.tools)
              /\ Started' = Started
  BY <1>11 DEF Count, Whole, Waiting, Delivered, Announced, NamedIn, Started
<1>12. CASE HandlerReturns
  <2>1. UNCHANGED <<st, rest, sent, finished, heard, due, overlooked>>
    BY <1>12 DEF HandlerReturns, historyVars
  <2>2. st.out = <<>> /\ rest = NothingLeft /\ pc \in {"write", "last"}
        /\ pc' = IF pc = "write" THEN "read" ELSE "done"
    BY <1>12 DEF HandlerReturns
  <2>3. QED
    BY <1>1, <1>11, <2>1, <2>2 DEF CountInv
<1>13. CASE ClientGone
  <2>1. UNCHANGED <<st, rest, sent, finished, heard, due, overlooked>> /\ pc' = "gone"
    BY <1>13 DEF ClientGone, historyVars
  <2>2. QED
    BY <1>1, <1>11, <2>1 DEF CountInv
<1>14. CASE UNCHANGED vars
  <2>1. UNCHANGED <<st, rest, sent, finished, heard, due, overlooked>> /\ pc' = pc
    BY <1>14 DEF vars, historyVars
  <2>2. QED
    BY <1>1, <1>11, <2>1 DEF CountInv
<1>15. QED
  BY <1>5, <1>6, <1>7, <1>8, <1>9, <1>10, <1>12, <1>13, <1>14 DEF Next

(***************************************************************************)
(* Whenever the client has what was read so far, it has one delta for each *)
(* fragment of text, reasoning and arguments received, of each kind, save  *)
(* those that `overlooked' counts: tool calls in a chunk that a fast path  *)
(* takes, text and reasoning in one that the finish path takes, and        *)
(* arguments whose call's name went with such a chunk.  For any chunks, in *)
(* any number and order, text and tools mixed or not, cut off anywhere.    *)
(***************************************************************************)
THEOREM NothingElseIsDropped == Spec => []NothingElseDropped
<1>1. CountInv => NothingElseDropped
  <2>1. SUFFICES ASSUME CountInv, pc \in {"read", "done"}, NEW kind \in DOMAIN due
                 PROVE  Cardinality(Deltas(sent, kind)) + overlooked[kind] = due[kind]
    BY DEF NothingElseDropped
  <2>2. st.out = <<>> /\ rest.tools = <<>> /\ sent \in Seq(Event) /\ kind \in Kinds
    BY <2>1 DEF CountInv, NothingLeft, TypesInv, TypeOK, Kinds
  <2>3. Whole(sent, st) = sent
    BY <2>2, ConcatEmptySeq DEF Whole
  <2>4. Cardinality(Deltas(sent, kind)) + 0 + overlooked[kind] = due[kind]
    BY <2>1, <2>2, <2>3, NothingWaits DEF CountInv, Count
  <2>5. LocalsFit(st) /\ overlooked[kind] \in Nat
    BY <2>1, <2>2 DEF CountInv, TypesInv, TypeOK, Kinds
  <2>6. Cardinality(Deltas(sent, kind)) \in Nat
    BY <2>2, <2>3, <2>5, CountIsNat DEF Count
  <2>7. QED
    BY <2>4, <2>5, <2>6
<1>2. Init => CountInv
  BY CountInit
<1>3. CountInv /\ [Next]_vars => CountInv'
  BY CountStep
<1>4. QED
  BY <1>1, <1>2, <1>3, PTL DEF Spec
=============================================================================
