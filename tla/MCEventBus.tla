----------------------------- MODULE MCEventBus -----------------------------
(* EventBus with three messages and room for two at a time, so that the third *)
(* has to wait.                                                               *)
EXTENDS EventBus
=============================================================================
