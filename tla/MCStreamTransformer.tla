------------------------ MODULE MCStreamTransformer ------------------------
(* Instances of StreamTransformer for TLC: upstreams by what they send. *)
EXTENDS StreamTransformer

Plain ==
    [choices |-> TRUE, reasoning |-> "absent", content |-> "absent",
     contentFirst |-> FALSE, tools |-> <<>>, finish |-> "none", usage |-> FALSE]

\* The opening chunk of most upstreams carries the role and an empty content.
Role == [Plain EXCEPT !.content = "empty"]
Text == [Plain EXCEPT !.content = "some", !.contentFirst = TRUE]
\* Text after the role, or in another field order: the JSON path.
TextJSON == [Plain EXCEPT !.content = "some"]
EscapedJSON == [Plain EXCEPT !.content = "escaped"]
Thinking == [Plain EXCEPT !.reasoning = "some"]
ThinkingText == [Plain EXCEPT !.reasoning = "some", !.content = "some"]
TextThinking == [ThinkingText EXCEPT !.contentFirst = TRUE]
Stop == [Plain EXCEPT !.finish = "stop"]
StopUsage == [Stop EXCEPT !.usage = TRUE]
ToolStop == [Plain EXCEPT !.finish = "tool_calls"]
UsageAlone == [Plain EXCEPT !.choices = FALSE, !.usage = TRUE]

Tool(i) == [index |-> i, named |-> TRUE, args |-> FALSE]
Args(i) == [index |-> i, named |-> FALSE, args |-> TRUE]
ToolFirst(i) == [Plain EXCEPT !.tools = <<Tool(i)>>]
ToolArgs(i) == [Plain EXCEPT !.tools = <<Args(i)>>]
Ghost == [Plain EXCEPT !.tools = <<[index |-> 1, named |-> FALSE, args |-> FALSE]>>]
TwoTools == [Plain EXCEPT !.tools = <<[Tool(0) EXCEPT !.args = TRUE], Tool(1)>>]

\* What comes with the finish reason is overlooked; so are tool calls after an
\* empty content.
LastText == [ThinkingText EXCEPT !.finish = "stop"]
LastArgs == [ToolArgs(0) EXCEPT !.finish = "tool_calls"]
ToolAfterContent == [ToolFirst(0) EXCEPT !.content = "empty", !.contentFirst = TRUE]

\* No tool calls: text and reasoning in any order, with and without usage.
TextChunks ==
    {Role, Text, TextJSON, EscapedJSON, Thinking, ThinkingText, TextThinking,
     Stop, StopUsage, LastText, UsageAlone}

\* Parallel tool calls and nothing else.
ToolChunks == {ToolFirst(0), ToolFirst(1), TwoTools, Ghost, ToolArgs(0), ToolArgs(1),
               ToolAfterContent, ToolStop, [ToolStop EXCEPT !.usage = TRUE], LastArgs,
               UsageAlone}

\* Text, then the tool call it announces.
MixedChunks == {Text, ToolFirst(0), ToolArgs(0), ToolStop}

\* Text with escapes, as every answer of more than one line has.
EscapedChunks == {Text, [Text EXCEPT !.content = "escaped"], Stop}

TextAndTools == {TextChunks, ToolChunks}

\* What the theorems of StreamTransformerProofs ask of the upstreams holds of these.
ASSUME OrdinaryInstance == \A u \in TextAndTools : Ordinary(u)

Mixed == {MixedChunks}
Escaped == {EscapedChunks}
=============================================================================
