------------------------ MODULE ResponseTransformer ------------------------
(***************************************************************************)
(* TransformResponse: a complete answer in OpenAI's format as the blocks   *)
(* of one in Anthropic's (response.go).  The answer is a ChatMessage; its  *)
(* reasoning is "real" or "none".  Without a choice it is an error, which  *)
(* is one of the failures of a model (see Conversation).                   *)
(***************************************************************************)
EXTENDS RequestTransformer

ThinkingBlocks(msg) ==
  IF msg.reasoning = "real" THEN <<Block("thinking", NoText, {"said"})>> ELSE <<>>

ToolUseBlocks(msg) == [i \in DOMAIN msg.calls |-> Block("tool_use", msg.calls[i], {})]

TextBlocks(msg) == [i \in DOMAIN msg.content |-> Block("text", msg.content[i], {})]

\* Mutant of TransformContent: an answer with tool calls has no other text.
TransformContentOneKind(msg) ==
  IF msg.calls # <<>> THEN ThinkingBlocks(msg) \o ToolUseBlocks(msg)
  ELSE ThinkingBlocks(msg) \o TextBlocks(msg)

\* There is always a block, if only of an empty text.
TransformContent(msg) ==
  LET blocks == ThinkingBlocks(msg) \o ToolUseBlocks(msg) \o TextBlocks(msg)
  IN  IF blocks = <<>> THEN <<Block("text", NoText, {})>> ELSE blocks
=============================================================================
