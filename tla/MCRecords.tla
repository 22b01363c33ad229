----------------------------- MODULE MCRecords -----------------------------
(* Records for TLC: two works with one root identifier, and a deeper one that   *)
(* replaces either.                                                            *)
EXTENDS Records, TLC

CONSTANTS a1, a2, a3

Symmetric == Permutations(Sessions) \cup Permutations(Paths) \cup Permutations(Ids)

Def(id, parent, def) == [id |-> id, parent |-> parent, def |-> def]

R1 == Def("root", NoParent, 1)
R2 == Def("other", NoParent, 1)
C2 == Def("piece", "other", 1)
D2 == Def("detail", "piece", 1)

Authorized == a1 :> <<R1>> @@ a2 :> <<R2, C2, D2>> @@ a3 :> <<[R1 EXCEPT !.def = 2]>>

\* What the user authorized, and a scope added, dropped, swapped, moved or rewritten.
Written ==
    {<<R1>>, <<[R1 EXCEPT !.def = 2]>>, <<R1, Def("part", "root", 1)>>,
     <<R2, C2, D2>>, <<R2, C2>>, <<C2, R2, D2>>, <<R2, C2, [D2 EXCEPT !.parent = "other"]>>}

Left == {[work |-> TRUE, code |-> FALSE, status |-> "pending"],
         [work |-> FALSE, code |-> TRUE, status |-> "complete"],
         [work |-> FALSE, code |-> FALSE, status |-> "complete"]}
=============================================================================
