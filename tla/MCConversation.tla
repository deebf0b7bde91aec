--------------------------- MODULE MCConversation ---------------------------
(***************************************************************************)
(* An instance of Conversation for TLC: one model of each family, DeepSeek *)
(* with its thinking configured in different ways, and conversations of    *)
(* three turns of the user.                                                *)
(***************************************************************************)
EXTENDS Conversation

CONSTANTS deepseek, kimi, minimax, claude

M(id, threshold, thinking, effort) ==
  [id |-> id, threshold |-> threshold, thinking |-> thinking,
   effort |-> effort]

\* Every scenario has its model; a long conversation has five blocks.
FullConfig ==
  [models |-> [default |-> Named(kimi),
               background |-> Named(deepseek),
               think |-> M(deepseek, 0, "enabled", TRUE),
               complex |-> M(deepseek, 0, "disabled", FALSE),
               long_context |-> M(minimax, 4, "unset", FALSE),
               fast |-> M(deepseek, 0, "unset", TRUE)],
   fallbacks |-> [default |-> <<Named(deepseek)>>,
                  fast |-> <<Named(kimi)>>],
   streamingScenarios |-> TRUE]

\* Streams go to the fast model, which is not configured.
DefaultOnly ==
  [models |-> [default |-> M(deepseek, 0, "unset", FALSE)],
   fallbacks |-> [default |-> <<Named(minimax)>>],
   streamingScenarios |-> FALSE]

\* There is no default: a plain request that needs it has no route.
NoDefault ==
  [models |-> [think |-> M(kimi, 0, "enabled", FALSE)],
   fallbacks |-> [default |-> <<>>],
   streamingScenarios |-> FALSE]

AllConfigs == {FullConfig, DefaultOnly, NoDefault}

Models == {deepseek, kimi, minimax, claude}
KnownModels == {kimi, minimax}
DeepSeeks == {deepseek}
Kimis == {kimi}
Anthropics == {minimax}
AskedModels == {claude, kimi}

\* A text, a tool call, a text and two calls, or nothing.
SomeAnswers ==
  {[texts |-> <<"text">>, calls |-> <<>>],
   [texts |-> <<>>, calls |-> <<"call1">>],
   [texts |-> <<"text">>, calls |-> <<"call1", "call2">>],
   [texts |-> <<>>, calls |-> <<>>]}

SomeWords == {{}, {"think"}, {"complex", "blocker"}, {"simple"}}
=============================================================================
