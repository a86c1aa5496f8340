---------------------------- MODULE MCAuditTrail ----------------------------
(***************************************************************************)
(* Two sessions, which are alike.                                          *)
(***************************************************************************)
EXTENDS AuditTrail, TLC

SessionSymmetry == Permutations(Sessions)
=============================================================================
