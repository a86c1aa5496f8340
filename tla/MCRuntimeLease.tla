--------------------------- MODULE MCRuntimeLease ---------------------------
(* TLC instances of RuntimeLease.                                          *)
EXTENDS RuntimeLease, TLC
=============================================================================
