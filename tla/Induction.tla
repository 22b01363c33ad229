----------------------------- MODULE Induction -----------------------------
(***************************************************************************)
(* Induction over the natural numbers for a set in place of a predicate: a *)
(* form that first-order provers can use.                                  *)
(***************************************************************************)
EXTENDS Naturals, WellFoundedInduction, TLAPS

Less == {pair \in Nat \X Nat : pair[1] < pair[2]}

\* There is no infinite descent in the natural numbers.
LEMMA LessIsWellFounded == IsWellFoundedOn(Less, Nat)
BY NatLessThanWellFounded DEF OpToRel, Less

\* A set that holds 0, and with each number the next, holds them all: what is
\* built entry by entry (the files of a plan, the lines of a registry) has a
\* property when each entry adds to it.
THEOREM SetInduction ==
    ASSUME NEW S, 0 \in S, \A n \in Nat : n \in S => n + 1 \in S
    PROVE  \A n \in Nat : n \in S
<1> SUFFICES ASSUME ~ \A n \in Nat : n \in S PROVE FALSE OBVIOUS
<1> DEFINE Missing == {n \in Nat : n \notin S}
<1>1. Missing \subseteq Nat /\ Missing # {} OBVIOUS
<1>2. \E m \in Missing : \A n \in Missing : <<n, m>> \notin Less
  <2> HIDE DEF Missing
  <2> QED BY <1>1, LessIsWellFounded, WFMin
<1>3. PICK m \in Missing : \A n \in Missing : ~(n < m) BY <1>2 DEF Less
<1>4. m \in Nat /\ m \notin S /\ m # 0 OBVIOUS
<1>5. m - 1 \in Nat /\ m - 1 < m /\ (m - 1) + 1 = m BY <1>4
<1>6. m - 1 \in S BY <1>3, <1>5
<1> QED BY <1>4, <1>5, <1>6
=============================================================================
