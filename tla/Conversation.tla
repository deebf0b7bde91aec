---------------------------- MODULE Conversation ----------------------------
(***************************************************************************)
(* A conversation through the proxy: what the client asks, where           *)
(* HandleMessages routes it, what each model of the chain is sent, and     *)
(* what comes back into the next request.                                  *)
(*                                                                         *)
(* The proxy keeps nothing of a conversation.  Each request brings all of  *)
(* it, answers of other models included, less whatever the client has      *)
(* dropped, and is translated anew for each model that is tried.           *)
(***************************************************************************)
EXTENDS ModelRouter, ResponseTransformer

CONSTANTS
  MaxTurns,         \* bound: messages of a conversation
  AnthropicModels,  \* models with an endpoint in Anthropic's format
  Configs,          \* the configurations to run with
  ClientModels,     \* the models a client asks for
  UserWords,        \* the sets of words a user's text may have
  AnswerKinds,      \* the texts and the tool calls an answer may consist of
  Nothing           \* no request has been sent

ASSUME ConversationAssumption ==
  /\ AnthropicModels \cap (DeepSeekModels \cup KimiModels) = {}
  /\ MaxTurns \in Nat
  /\ UserWords \subseteq SUBSET Words
  /\ AnswerKinds \subseteq [texts : Seq(STRING), calls : Seq(STRING)]

ASSUME ConfigsAssumption ==
  \A c \in Configs :
    /\ \A s \in DOMAIN c.models : c.models[s] \in ModelConfig
    /\ \A s \in DOMAIN c.fallbacks : c.fallbacks[s] \in Seq(ModelConfig)

VARIABLES
  cfg,       \* the configuration, which stays
  client,    \* whether the client streams, and the model it asks for
  history,   \* the client's conversation
  stage,     \* "client" or "trying"
  scenario,  \* the last scenario detected since the client began anew
  chain,     \* the models still to be tried
  sent,      \* the request the current model has been sent
  replies    \* history: what the models answered, in OpenAI's format; of an
             \* answer that was translated as a stream, what the stream
             \* brought; less the reasoning the client has dropped

vars == <<cfg, client, history, stage, scenario, chain, sent, replies>>

\* The blocks that leave a text for the router: all but thinking.
RouterTypes == {"text", "tool_use", "tool_result", "image"}

\* A tool is named in the text the router sees, and "tool" is a blocker.
RouterWords(b) ==
  CASE b.type = "tool_use" -> b.words \cup {"blocker"}
    [] b.type \in RouterTypes \ {"tool_use"} -> b.words
    [] OTHER -> {}

RouterMessages(h) ==
  [i \in DOMAIN h |->
     [role |-> h[i].role,
      words |-> UNION {RouterWords(h[i].blocks[j]) : j \in DOMAIN h[i].blocks}]]

\* Each block the router sees counts for one token.
TokenCount(h) ==
  Len(FlattenSeq([i \in DOMAIN h |-> OfTypes(h[i].blocks, RouterTypes)]))

System == <<"system">>

TypeOK ==
  /\ cfg \in Configs
  /\ client \in [streaming : BOOLEAN, model : ClientModels]
  /\ \A i \in DOMAIN history : history[i].role \in {"user", "assistant"}
  /\ Len(history) \in 0..MaxTurns
  /\ stage \in {"client", "trying"}
  /\ scenario \in Scenarios \cup {"passthrough", "none"}
  /\ \A i \in DOMAIN chain : chain[i] \in ModelConfig
  /\ stage = "trying" <=> chain # <<>>
  /\ sent # Nothing => stage = "trying"
  /\ Len(replies) = Len(history) \div 2

Init ==
  /\ cfg \in Configs
  /\ client \in [streaming : BOOLEAN, model : ClientModels]
  /\ history = <<>>
  /\ stage = "client"
  /\ scenario = "none"
  /\ chain = <<>>
  /\ sent = Nothing
  /\ replies = <<>>

-----------------------------------------------------------------------------
(* The client. *)

\* The tool calls of the last message.
OpenCalls ==
  IF history = <<>> THEN <<>>
  ELSE Ids(OfTypes(history[Len(history)].blocks, {"tool_use"}))

\* The results of the calls with the identities ids.
ResultBlocks(ids, words) == [i \in DOMAIN ids |-> Block("tool_result", ids[i], words)]

\* The same identities in any order.
Orders(ids) == {o \in [DOMAIN ids -> ToSet(ids)] : ToSet(o) = ToSet(ids)}

\* What a client may say next: a text; or results for every open call, in any
\* order, with a text after them, before them, or none.
UserTurns ==
  LET text(w) == <<Block("text", <<Len(history) + 1, "text">>, w)>>
  IN  IF OpenCalls = <<>> THEN {text(w) : w \in UserWords}
      ELSE {ResultBlocks(o, w) : o \in Orders(OpenCalls), w \in {{}, {"complex"}}}
             \cup {ResultBlocks(o, {}) \o text({}) : o \in Orders(OpenCalls)}
             \cup {text({}) \o ResultBlocks(o, {}) : o \in Orders(OpenCalls)}

\* HandleMessages up to the chain: a streamed request goes to the fast model
\* unless the configuration says otherwise.
Routed(h) ==
  IF client.streaming /\ ~cfg.streamingScenarios
    THEN RouteWithModelForStreaming(client.model, TokenCount(h), cfg)
    ELSE RouteWithModel(client.model, RouterMessages(h), TokenCount(h), cfg)

\* The client sends its conversation, with a new turn at its end.  Without a
\* route the answer is an error.
Request(h) ==
  /\ stage = "client"
  /\ history' = h
  /\ scenario' = Routed(h).scenario
  /\ chain' = Routed(h).chain
  /\ stage' = IF Routed(h).chain = <<>> THEN "client" ELSE "trying"
  /\ UNCHANGED <<cfg, client, sent, replies>>

Waiting == history # <<>> /\ history[Len(history)].role = "user"

ClientAsks ==
  /\ ~Waiting
  /\ Len(history) < MaxTurns
  /\ \E blocks \in UserTurns :
       Request(Append(history, [role |-> "user", blocks |-> blocks]))

\* After an error the client sends the same again.
ClientRetries == Waiting /\ Request(history)

\* The client drops the thinking of an earlier answer, or only its text.
ClientForgets(i) ==
  /\ stage = "client"
  /\ OfTypes(history[i].blocks, {"thinking"}) # <<>>
  /\ \/ history' = [history EXCEPT ![i].blocks = OfTypes(@, RouterTypes)]
     \/ history' = [history EXCEPT ![i].blocks =
                      [j \in DOMAIN @ |->
                         IF @[j].type = "thinking"
                           THEN [@[j] EXCEPT !.words = {}] ELSE @[j]]]
  /\ replies' = [replies EXCEPT ![i \div 2].reasoning = "none"]
  /\ UNCHANGED <<cfg, client, stage, scenario, chain, sent>>

\* The client puts a summary in the place of the conversation.
ClientCompacts ==
  /\ stage = "client"
  /\ ~Waiting
  /\ Len(history) > 1
  /\ history' = <<>>
  /\ scenario' = "none"
  /\ replies' = <<>>
  /\ UNCHANGED <<cfg, client, stage, chain, sent>>

-----------------------------------------------------------------------------
(* The proxy and the models. *)

\* A model with an endpoint in Anthropic's format gets the client's own body.
\* When it streams, the model's name is put into it (messages.go:347).
RawBody(model) ==
  [format   |-> "anthropic",
   model    |-> IF client.streaming THEN model.id ELSE client.model,
   messages |-> <<>>,
   thinking |-> "unset",
   effort   |-> FALSE]

Sends ==
  /\ stage = "trying"
  /\ sent = Nothing
  /\ sent' = IF chain[1].id \in AnthropicModels
               THEN RawBody(chain[1])
               ELSE TransformRequest(history, System, chain[1])
  /\ UNCHANGED <<cfg, client, history, stage, scenario, chain, replies>>

\* Mutant of ModelFails: the loop does not see that it was the last.
ModelFailsOn ==
  /\ stage = "trying"
  /\ chain' = Tail(chain)
  /\ sent' = Nothing
  /\ UNCHANGED <<cfg, client, history, stage, scenario, replies>>

\* The model fails, or its circuit was open: the next one is tried.  After the
\* last the client gets an error.
ModelFails ==
  /\ stage = "trying"
  /\ chain' = Tail(chain)
  /\ sent' = Nothing
  /\ stage' = IF Len(chain) = 1 THEN "client" ELSE "trying"
  /\ UNCHANGED <<cfg, client, history, scenario, replies>>

\* The identities of what is said in the next message, by their names in it.
Identities(names) == [i \in DOMAIN names |-> <<Len(history) + 1, names[i]>>]

\* What a model may answer, after thinking or not.
Answers ==
  {ChatMessage("assistant", Identities(kind.texts), Identities(kind.calls),
               NoAnswer, reasoning) :
     kind \in AnswerKinds, reasoning \in {"real", "none"}}

Translated == sent # Nothing /\ sent.format = "openai"

\* Some of a sequence's elements, in their order.
Part(s, kept) ==
  FlattenSeq([i \in DOMAIN s |-> IF i \in kept THEN <<s[i]>> ELSE <<>>])

\* What a translated stream may bring of an answer: not all of its texts, calls
\* and thoughts (StreamTransformer says when).  The identity of a text stands
\* for what the stream made of it, however damaged.
Streamed(reply) ==
  {ChatMessage("assistant", Part(reply.content, texts), Part(reply.calls, calls),
               NoAnswer, reasoning) :
     texts \in SUBSET DOMAIN reply.content,
     calls \in SUBSET DOMAIN reply.calls,
     reasoning \in {reply.reasoning, "none"}}

\* What is there of an answer for the client.
Delivered(reply) ==
  IF Translated /\ client.streaming THEN Streamed(reply) ELSE {reply}

\* The blocks the client gets: of a complete answer, as TransformResponse makes
\* them; of a stream, or in Anthropic's format, as they come.
Received(reply) ==
  IF Translated /\ ~client.streaming
    THEN TransformContent(reply)
    ELSE ThinkingBlocks(reply) \o TextBlocks(reply) \o ToolUseBlocks(reply)

ModelAnswers ==
  /\ stage = "trying"
  /\ sent # Nothing
  /\ Len(history) < MaxTurns
  /\ \E answer \in Answers : \E reply \in Delivered(answer) :
       /\ history' = Append(history,
                            [role |-> "assistant", blocks |-> Received(reply)])
       /\ replies' = Append(replies, reply)
  /\ stage' = "client"
  /\ chain' = <<>>
  /\ sent' = Nothing
  /\ UNCHANGED <<cfg, client, scenario>>

-----------------------------------------------------------------------------
Next ==
  \/ ClientAsks
  \/ ClientRetries
  \/ \E i \in DOMAIN history : ClientForgets(i)
  \/ ClientCompacts
  \/ Sends
  \/ ModelFails
  \/ ModelAnswers

Spec == Init /\ [][Next]_vars

-----------------------------------------------------------------------------
(* What the models are sent. *)

HasCalls(m) == m.role = "assistant" /\ m.calls # <<>>

\* Right after a message with tool calls come their answers, all of them and
\* nothing else, and no answer comes anywhere else, as OpenAI's format asks
\* (request.go:233-235), however the client mixed results and text.
ToolCallsAnswered ==
  Translated =>
    LET ms == sent.messages
    IN  /\ \A i \in DOMAIN ms : HasCalls(ms[i]) =>
             /\ i + Len(ms[i].calls) <= Len(ms)
             /\ ToSet(ms[i].calls)
                  = {ms[i + k].answers : k \in 1..Len(ms[i].calls)}
        /\ \A i \in DOMAIN ms : ms[i].role = "tool" =>
             \E j \in 1..(i - 1) :
               HasCalls(ms[j]) /\ i <= j + Len(ms[j].calls)

\* The model's configuration has neither field and no answer has thoughts: the
\* request does not say whether to think (request.go:111).
LeftToDecide ==
  /\ sent.thinking = "unset" /\ ~sent.effort
  /\ chain[1].thinking = "unset" /\ ~chain[1].effort
  /\ ~HasThinkingBlocks(history)

\* A model that validates reasoning_content is sent what it asks for, whichever
\* models the conversation went through and whatever of their thinking the
\* client has kept.  DeepSeek is told to think and finds reasoning_content in
\* every answer, or is told not to and given no effort; Kimi finds it, not
\* empty, in every answer with tool calls (request.go:88-112, 286-312).  One
\* case is left out: a DeepSeek model LeftToDecide.  There the code does not do
\* what its comment says it must, "explicitly disable thinking mode" for a
\* history without thinking (request.go:88-93).
ReasoningAsRequired ==
  Translated =>
    LET ms == sent.messages
        answers == {i \in DOMAIN ms : ms[i].role = "assistant"}
    IN  /\ sent.model \in DeepSeekModels =>
             \/ /\ sent.thinking = "enabled"
                /\ \A i \in answers : ms[i].reasoning # "none"
             \/ sent.thinking = "disabled" /\ ~sent.effort
             \/ LeftToDecide
        /\ sent.model \in KimiModels =>
             \A i \in answers :
               ms[i].calls # <<>> => ms[i].reasoning # "none"

\* What was said, called and thought in the i-th message: by a model, as far as
\* it was delivered; by the user, as the client has it.
Answered(i) == history[i].role = "assistant"
Said(i) == IF Answered(i) THEN replies[i \div 2].content
                          ELSE Texts(history[i].blocks, {"text", "image"})
Called(i) == IF Answered(i) THEN replies[i \div 2].calls ELSE <<>>
Results(i) == Ids(OfTypes(history[i].blocks, {"tool_result"}))

\* What a request says, calls, answers and, for each answer, whether it was
\* thought about.
Contents(ms) == FlattenSeq([i \in DOMAIN ms |-> ms[i].content])
Calls(ms) == FlattenSeq([i \in DOMAIN ms |-> ms[i].calls])
AnswersTo(ms) ==
  FlattenSeq([i \in DOMAIN ms |->
                IF ms[i].role = "tool" THEN <<ms[i].answers>> ELSE <<>>])
Thoughts(ms) ==
  FlattenSeq([i \in DOMAIN ms |->
                IF ms[i].role = "assistant" THEN <<ms[i].reasoning = "real">> ELSE <<>>])

\* Every text, call and result of the conversation is sent on, once and in its
\* order.  Of a complete answer that is all the model gave: both translations,
\* of the answer and of the next request, lose nothing between them.  So is
\* reasoning, which "round-trips" (response.go:82), as long as the client
\* keeps it (request.go:142-322, response.go:79-124).  Of an answer translated
\* as a stream it is what the stream brought, which may be less: that loss is
\* not ruled out here (see Streamed, and StreamTransformer).
EveryTurnArrives ==
  Translated =>
    /\ Contents(sent.messages)
         = System \o FlattenSeq([i \in DOMAIN history |-> Said(i)])
    /\ Calls(sent.messages) = FlattenSeq([i \in DOMAIN history |-> Called(i)])
    /\ AnswersTo(sent.messages) = FlattenSeq([i \in DOMAIN history |-> Results(i)])
    /\ Thoughts(sent.messages)
         = [n \in DOMAIN replies |-> replies[n].reasoning = "real"]

\* The request names the model that is tried: the endpoint in Anthropic's
\* format "validates the model name" (messages.go:433).
NamesModelTried == sent # Nothing => sent.model = chain[1].id

-----------------------------------------------------------------------------
(* Where requests go. *)

Rank(s) ==
  CASE s = "long_context" -> 3
    [] s = "complex" -> 2
    [] s = "think" -> 1
    [] OTHER -> 0

\* While a conversation goes on it is never routed to a scenario of a lower
\* priority: what made it long, complex or thoughtful is still in it
\* (scenarios.go:44-88), whatever thinking the client has dropped.
ScenarioNeverDrops ==
  [][scenario' # "none" => Rank(scenario') >= Rank(scenario)]_vars
=============================================================================
