------------------------------ MODULE MCRunner ------------------------------
(* Runner for TLC: every invocation there is, of two runners. *)
EXTENDS Runner
=============================================================================
