------------------------ MODULE MCStreamingFallback ------------------------
(* Instances of StreamingFallback for TLC. *)
EXTENDS StreamingFallback

\* Every chain of up to three models, a primary and two fallbacks.
UpToThree == UNION {[1..n -> Formats] : n \in 1..3}

\* A primary that is copied and a fallback that is transformed, or the same.
Copied == {<<"anthropic", "openai">>, <<"anthropic", "anthropic">>}
=============================================================================
