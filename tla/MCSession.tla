----------------------------- MODULE MCSession -----------------------------
(* Small instances of Session: the bounds are in the configurations.       *)
EXTENDS Session
============================================================================
