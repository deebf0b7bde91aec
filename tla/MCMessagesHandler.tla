------------------------- MODULE MCMessagesHandler -------------------------
(* Instances of MessagesHandler for TLC. *)
EXTENDS MessagesHandler
=============================================================================
