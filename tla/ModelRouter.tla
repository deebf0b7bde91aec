----------------------------- MODULE ModelRouter -----------------------------
(***************************************************************************)
(* The choice of the models for a request: scenarios.go and                *)
(* model_router.go.                                                        *)
(*                                                                         *)
(* A message is its role and the kinds of words its text has; see Words.   *)
(* Tokens are a number.  A configuration holds, for some scenarios, a      *)
(* model, and for some, a list of fallbacks.                               *)
(***************************************************************************)
EXTENDS Integers, Sequences

CONSTANTS
  ModelIds,               \* the names of models
  NoModelId,              \* the empty name
  KnownOpenCodeGoModels,  \* those a client may name itself
  DefaultThreshold        \* 100000 tokens in the code

ASSUME RouterAssumption ==
  /\ KnownOpenCodeGoModels \subseteq ModelIds
  /\ NoModelId \notin ModelIds
  /\ DefaultThreshold \in Nat

\* Scenarios with an entry of their own in the configuration.
Scenarios == {"default", "background", "think", "complex", "long_context",
              "fast"}

\* Which of the lists of words a text matches: complexKeywords,
\* thinkingKeywords, toolBlockers, backgroundKeywords; "marker" is antThinking.
Words == {"complex", "think", "blocker", "simple", "marker"}

Modes == {"unset", "enabled", "disabled"}

\* A model as configured.  Threshold 0 is an absent one.
ModelConfig == [id : ModelIds \cup {NoModelId}, threshold : Nat,
                thinking : Modes, effort : BOOLEAN]

\* The zero value of Go's ModelConfig, and the one made for a known model.
NoModel == [id |-> NoModelId, threshold |-> 0, thinking |-> "unset",
            effort |-> FALSE]

Named(id) == [NoModel EXCEPT !.id = id]

-----------------------------------------------------------------------------
(* Scenarios. *)

Mentions(msgs, word) == \E i \in DOMAIN msgs : word \in msgs[i].words

\* Only the user and the system are listened to.
Asks(msgs, word) ==
  \E i \in DOMAIN msgs :
    /\ msgs[i].role \in {"user", "system"}
    /\ word \in msgs[i].words

HasComplexPattern(msgs) == Asks(msgs, "complex")

HasThinkingPattern(msgs) == Asks(msgs, "think") \/ Mentions(msgs, "marker")

HasBackgroundPattern(msgs) ==
  ~Mentions(msgs, "blocker") /\ Mentions(msgs, "simple")

LongContextThreshold(cfg) ==
  IF "long_context" \in DOMAIN cfg.models
       /\ cfg.models["long_context"].threshold > 0
    THEN cfg.models["long_context"].threshold
    ELSE DefaultThreshold

\* Mutant of DetectScenario: keywords are looked at before the length.
DetectKeywordsFirst(msgs, tokens, cfg) ==
  IF HasComplexPattern(msgs) THEN "complex"
  ELSE IF HasThinkingPattern(msgs) THEN "think"
  ELSE IF tokens > LongContextThreshold(cfg) THEN "long_context"
  ELSE IF HasBackgroundPattern(msgs) THEN "background"
  ELSE "default"

DetectScenario(msgs, tokens, cfg) ==
  IF tokens > LongContextThreshold(cfg) THEN "long_context"
  ELSE IF HasComplexPattern(msgs) THEN "complex"
  ELSE IF HasThinkingPattern(msgs) THEN "think"
  ELSE IF HasBackgroundPattern(msgs) THEN "background"
  ELSE "default"

\* The scenario of a streamed request, whatever its words.
StreamingScenario(tokens, cfg) ==
  IF tokens > LongContextThreshold(cfg) THEN "long_context" ELSE "fast"

-----------------------------------------------------------------------------
(* Routes. *)

\* The fallbacks of the first of two scenarios that has any.
FallbacksOf(cfg, scenario, other) ==
  LET list(s) == IF s \in DOMAIN cfg.fallbacks THEN cfg.fallbacks[s] ELSE <<>>
  IN  IF list(scenario) # <<>> THEN list(scenario) ELSE list(other)

\* GetModelChain of a route.
Chain(primary, fallbacks) == <<primary>> \o fallbacks

\* A route: its scenario and the chain, which is empty where Route returns an
\* error because no default model is configured.
Route(msgs, tokens, cfg) ==
  LET s == DetectScenario(msgs, tokens, cfg)
      falls == FallbacksOf(cfg, s, "default")
  IN  [scenario |-> s,
       chain |->
         CASE s \in DOMAIN cfg.models -> Chain(cfg.models[s], falls)
           [] s \notin DOMAIN cfg.models /\ "default" \in DOMAIN cfg.models ->
                Chain(cfg.models["default"], falls)
           [] OTHER -> <<>>]

\* For a streamed request there is no error: without any model the primary is
\* Go's zero value.  Its fallbacks are never the default ones.
RouteForStreaming(tokens, cfg) ==
  LET s == StreamingScenario(tokens, cfg)
      primary == CASE s \in DOMAIN cfg.models -> cfg.models[s]
                   [] s \notin DOMAIN cfg.models /\ "fast" \in DOMAIN cfg.models ->
                        cfg.models["fast"]
                   [] OTHER -> IF "default" \in DOMAIN cfg.models
                                 THEN cfg.models["default"] ELSE NoModel
  IN  [scenario |-> s, chain |-> Chain(primary, FallbacksOf(cfg, s, "fast"))]

\* A known model named by the client is used as it is.
Passthrough(model, cfg) ==
  [scenario |-> "passthrough",
   chain |-> Chain(Named(model), FallbacksOf(cfg, "default", "default"))]

RouteWithModel(model, msgs, tokens, cfg) ==
  IF model \in KnownOpenCodeGoModels
    THEN Passthrough(model, cfg)
    ELSE Route(msgs, tokens, cfg)

RouteWithModelForStreaming(model, tokens, cfg) ==
  IF model \in KnownOpenCodeGoModels
    THEN Passthrough(model, cfg)
    ELSE RouteForStreaming(tokens, cfg)
=============================================================================
