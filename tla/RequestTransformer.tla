------------------------- MODULE RequestTransformer -------------------------
(***************************************************************************)
(* TransformRequest: a conversation in Anthropic's format as a request in  *)
(* OpenAI's (request.go).                                                  *)
(*                                                                         *)
(* A block of a message is its type, an identity and the kinds of words in *)
(* its text (see ModelRouter).  The identity of a tool_result is that of   *)
(* the tool_use it answers.  A thinking block may have no text, as one     *)
(* whose text the client has dropped; its words are then empty.  A text    *)
(* sent on is the sequence of the identities it was put together from.     *)
(***************************************************************************)
EXTENDS Sequences, SequencesExt

CONSTANTS
  DeepSeekModels,  \* models whose name begins with "deepseek-"
  KimiModels       \* models whose name begins with "kimi-"

Block(type, id, words) == [type |-> type, id |-> id, words |-> words]

\* The identity of a text that is empty: it adds nothing to what it is part of.
NoText == <<0, "empty">>

\* The blocks of some types, in their order.
OfTypes(blocks, types) ==
  FlattenSeq([i \in DOMAIN blocks |->
                IF blocks[i].type \in types THEN <<blocks[i]>> ELSE <<>>])

Ids(blocks) == [i \in DOMAIN blocks |-> blocks[i].id]

Texts(blocks, types) ==
  LET texts == OfTypes(blocks, types)
  IN  FlattenSeq([i \in DOMAIN texts |->
                    IF texts[i].id # NoText THEN <<texts[i].id>> ELSE <<>>])

NoAnswer == "none"

ChatMessage(role, content, calls, answers, reasoning) ==
  [role |-> role, content |-> content, calls |-> calls, answers |-> answers,
   reasoning |-> reasoning]

\* Some assistant message has a thinking block, with or without text.
HasThinkingBlocks(history) ==
  \E i \in DOMAIN history :
    /\ history[i].role = "assistant"
    /\ OfTypes(history[i].blocks, {"thinking"}) # <<>>

ToolMessages(blocks) ==
  LET results == OfTypes(blocks, {"tool_result"})
  IN  [i \in DOMAIN results |->
         ChatMessage("tool", <<>>, <<>>, results[i].id, "none")]

\* The text of a user message; an image leaves a mark in it.
UserText(blocks) ==
  LET texts == OfTypes(blocks, {"text", "image"})
  IN  IF texts = <<>> THEN <<>>
      ELSE <<ChatMessage("user", Texts(blocks, {"text", "image"}), <<>>, NoAnswer, "none")>>

\* Mutant of TransformUserMessage: what the user says comes before the results.
TransformUserTextFirst(blocks) == UserText(blocks) \o ToolMessages(blocks)

TransformUserMessage(blocks) == ToolMessages(blocks) \o UserText(blocks)

\* Mutant of Reasoning: DeepSeek is given a placeholder only with tool calls.
ReasoningForCalls(blocks, model, thinks) ==
  LET thoughts == OfTypes(blocks, {"thinking"})
  IN  IF \E i \in DOMAIN thoughts : thoughts[i].words # {} THEN "real"
      ELSE IF /\ OfTypes(blocks, {"tool_use"}) # <<>>
              /\ model \in KimiModels \/ (thinks /\ model \in DeepSeekModels)
        THEN "placeholder"
      ELSE "none"

\* reasoning_content: the thoughts, or a placeholder where DeepSeek thinks and
\* where Kimi has called a tool.
Reasoning(blocks, model, thinks) ==
  LET thoughts == OfTypes(blocks, {"thinking"})
  IN  IF \E i \in DOMAIN thoughts : thoughts[i].words # {} THEN "real"
      ELSE IF \/ (thinks /\ model \in DeepSeekModels)
              \/ (OfTypes(blocks, {"tool_use"}) # <<>> /\ model \in KimiModels)
        THEN "placeholder"
      ELSE "none"

TransformAssistantMessage(blocks, model, thinks) ==
  <<ChatMessage("assistant", Texts(blocks, {"text"}),
                Ids(OfTypes(blocks, {"tool_use"})), NoAnswer,
                Reasoning(blocks, model, thinks))>>

\* A role other than the two keeps its text.
TransformMessage(msg, model, thinks) ==
  CASE msg.role = "user" -> TransformUserMessage(msg.blocks)
    [] msg.role = "assistant" ->
         TransformAssistantMessage(msg.blocks, model, thinks)
    [] OTHER -> <<ChatMessage(msg.role, Texts(msg.blocks, {"text"}),
                              <<>>, NoAnswer, "none")>>

\* The system prompt comes first, if there is one.
TransformMessages(history, system, model) ==
  (IF system # <<>>
     THEN <<ChatMessage("system", system, <<>>, NoAnswer, "none")>>
     ELSE <<>>)
  \o FlattenSeq([i \in DOMAIN history |->
       TransformMessage(history[i], model, HasThinkingBlocks(history))])

\* The field "thinking" of the request, for a model as configured.
Thinking(history, model) ==
  IF HasThinkingBlocks(history)
    THEN IF model.thinking # "unset" THEN model.thinking ELSE "enabled"
    ELSE IF model.thinking # "unset" \/ model.effort THEN "disabled"
    ELSE "unset"

\* Whether reasoning_effort is set.
SetsEffort(history, model) ==
  /\ HasThinkingBlocks(history)
  /\ Thinking(history, model) # "disabled" \/ model.id \notin DeepSeekModels

TransformRequest(history, system, model) ==
  [format   |-> "openai",
   model    |-> model.id,
   messages |-> TransformMessages(history, system, model.id),
   thinking |-> Thinking(history, model),
   effort   |-> SetsEffort(history, model)]
=============================================================================
