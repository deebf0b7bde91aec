-------------------------- MODULE MCModelFallback --------------------------
(* An instance of ModelFallback for TLC. *)
EXTENDS ModelFallback

CONSTANT m1

\* A model that is its own fallback, as when the client asks for one of the
\* default fallbacks by name: it may be refused, or fail, twice in one chain.
TwiceChain == {<<m1, m1>>}
=============================================================================
