----------------------------- MODULE MCRegistry -----------------------------
(* A small registry for TLC: what a session and a chain carry beyond the     *)
(* fields the rules read is one or two opaque values.                        *)
EXTENDS Registry, TLC

CONSTANTS s1, s2, a1, a2, r1, r2, d1, d2, x1

MCReentries == Rest \X Rest
\* A write compares a session's revision only with the one before it, so two
\* states that differ in session revisions alone have the same futures.
WithoutSessionRevisions == <<chains, [k \in Sessions |-> [sessions[k] EXCEPT !.rev = 0]]>>

Symmetric == Permutations({s1, s2}) \cup Permutations({a1, a2})
             \cup Permutations({r1, r2}) \cup Permutations({d1, d2})
=============================================================================
