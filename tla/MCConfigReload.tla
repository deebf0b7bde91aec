--------------------------- MODULE MCConfigReload ---------------------------
(***************************************************************************)
(* An instance of ConfigReload for TLC: two new contents, two goroutines   *)
(* for the debounce timer, so that they can overlap each other and the     *)
(* loop.  The first new content has no key and is refused, unless the      *)
(* environment has one.                                                    *)
(***************************************************************************)
EXTENDS ConfigReload

CONSTANTS t1, t2, k1, k2, k3

Timers == {t1, t2}

ThreeKeys == {k1, k2, k3}

ThreeFiles ==
  [c \in 0..2 |->
     CASE c = 0 -> [apiKey |-> k1, apiKeys |-> <<>>, port |-> 0]
       [] c = 1 -> [apiKey |-> NoKey, apiKeys |-> <<>>, port |-> 9000]
       [] c = 2 -> [apiKey |-> NoKey, apiKeys |-> <<k1, k2>>, port |-> 9000]]

TwoEnvs ==
  {[apiKey |-> NoKey, keysGiven |-> FALSE, apiKeys |-> <<>>, port |-> 0],
   [apiKey |-> k3, keysGiven |-> FALSE, apiKeys |-> <<>>, port |-> 7000]}
=============================================================================
