---------------------------- MODULE MCInstaller ----------------------------
(* Installer for TLC: the second release changes one target, keeps one,      *)
(* retires one and adds one.                                                 *)
EXTENDS Installer

CONSTANTS f1, f2, f3, f4

MCPaths == <<f1, f2, f3, f4>>
MCShips == <<[f \in {f1, f2, f3} |-> "one"],
             [f \in {f1, f2, f4} |-> IF f = f2 THEN "one" ELSE "two"]>>
MCRetires == <<{}, {f3}>>
=============================================================================
