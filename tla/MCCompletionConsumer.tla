------------------------- MODULE MCCompletionConsumer -------------------------
(* The instance of CompletionConsumer that TLC checks.                     *)
EXTENDS CompletionConsumer

CONSTANTS w1, w2, e1

(* Two messages of one event, which disagree about its increment.          *)
OneEvent == [m \in Message |-> e1]
Disagree == [m \in Message |-> m]
=============================================================================
