----------------------------- MODULE MCBridge -----------------------------
(* Bridge, checked: each kind, two messages each way. *)
EXTENDS Bridge

MCKinds == {"edge", "web", "relay"}
=============================================================================
