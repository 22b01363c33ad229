----------------------------- MODULE MCStorage -----------------------------
(* LockedStorage for TLC. *)
EXTENDS LockedStorage

CONSTANTS p1, p2, p3
=============================================================================
