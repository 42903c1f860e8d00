------------------------------- MODULE MCSession -------------------------------
(* Small instances of SessionLifecycle. *)
EXTENDS SessionLifecycle

MCLoops == {"login"}
=============================================================================
