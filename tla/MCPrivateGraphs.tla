-------------------------- MODULE MCPrivateGraphs --------------------------
(* A small instance of PrivateGraphs: the bounds are in the configuration. *)
EXTENDS PrivateGraphs
============================================================================
