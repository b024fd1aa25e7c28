-------------------------- MODULE MCDirectMessages --------------------------
(* Small instances of DirectMessages. *)
EXTENDS DirectMessages

CONSTANTS m1, m2
============================================================================
