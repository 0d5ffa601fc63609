--------------------------- MODULE MCEventSystem ---------------------------
(* Two subscriptions, to the same topic or to two.                         *)
EXTENDS EventSystem
=============================================================================
