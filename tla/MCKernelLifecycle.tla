------------------------- MODULE MCKernelLifecycle -------------------------
(* Small instances of KernelLifecycle. *)
EXTENDS KernelLifecycle

CONSTANTS d1, d2, d3, d4, s1, s2
============================================================================
