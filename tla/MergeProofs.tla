---------------------------- MODULE MergeProofs ----------------------------
(***************************************************************************)
(* Proofs about Merge.                                                     *)
(***************************************************************************)
EXTENDS Merge, SequenceTheorems, Induction

-----------------------------------------------------------------------------
(* Sequences *)

\* A part of a sequence.
LEMMA PartIs ==
    ASSUME NEW S, NEW s \in Seq(S), NEW m \in Nat, NEW n \in Nat, 1 <= m, n <= Len(s)
    PROVE  /\ SubSeq(s, m, n) \in Seq(S)
           /\ Len(SubSeq(s, m, n)) = IF m <= n THEN n - m + 1 ELSE 0
           /\ \A i \in 1..n - m + 1 : SubSeq(s, m, n)[i] = s[m + i - 1]
<1>1. \A i \in m..n : s[i] \in S
  <2> SUFFICES ASSUME NEW i \in m..n PROVE s[i] \in S OBVIOUS
  <2>1. i \in 1..Len(s) BY LenProperties
  <2> QED BY <2>1, ElementOfSeq
<1>2. m \in Int /\ n \in Int OBVIOUS
<1> QED BY ONLY <1>1, <1>2, SubSeqProperties

\* Two sequences with the same entries.
LEMMA SameEntries ==
    ASSUME NEW S, NEW T, NEW s \in Seq(S), NEW t \in Seq(T), Len(s) = Len(t),
           \A i \in 1..Len(s) : s[i] = t[i]
    PROVE  s = t
<1>1. s = [i \in 1..Len(s) |-> s[i]] BY LenProperties
<1>2. t = [i \in 1..Len(t) |-> t[i]] BY LenProperties
<1> QED BY <1>1, <1>2

-----------------------------------------------------------------------------
(* Pointers *)

LEMMA PointerFacts ==
    /\ <<>> \in Pointers
    /\ \A k \in Keys : <<k>> \in Pointers
    /\ \A j, k \in Keys : <<j, k>> \in Pointers
    /\ \A p \in Pointers : p \in Seq(Keys) /\ Len(p) <= Depth
    /\ \A p \in Seq(Keys) : Len(p) <= Depth => p \in Pointers
<1>1. \A p \in Pointers : p \in Seq(Keys) /\ Len(p) <= Depth
  <2> SUFFICES ASSUME NEW p \in Pointers PROVE p \in Seq(Keys) /\ Len(p) <= Depth OBVIOUS
  <2>1. PICK m \in 0..Depth : p \in [1..m -> Keys] BY DEF Pointers, SeqOf
  <2>2. m \in Nat /\ m <= Depth BY <2>1, BoundsAssumption
  <2>3. p \in Seq(Keys) /\ Len(p) = m BY <2>1, <2>2, IsASeq
  <2> QED BY <2>2, <2>3
<1>2. \A p \in Seq(Keys) : Len(p) <= Depth => p \in Pointers
  <2> SUFFICES ASSUME NEW p \in Seq(Keys), Len(p) <= Depth PROVE p \in Pointers OBVIOUS
  <2>1. p \in [1..Len(p) -> Keys] /\ Len(p) \in Nat BY LenProperties
  <2>2. Len(p) \in 0..Depth BY <2>1, BoundsAssumption
  <2> QED BY <2>1, <2>2 DEF Pointers, SeqOf
<1>3. 0 <= Depth /\ 1 <= Depth /\ 2 <= Depth BY BoundsAssumption
<1>4. <<>> \in Pointers
  <2>1. <<>> \in Seq(Keys) /\ Len(<<>>) = 0 OBVIOUS
  <2> QED BY <1>2, <1>3, <2>1
<1>5. ASSUME NEW k \in Keys PROVE <<k>> \in Pointers
  <2>1. <<k>> \in Seq(Keys) /\ Len(<<k>>) = 1 OBVIOUS
  <2> QED BY <1>2, <1>3, <2>1
<1>6. ASSUME NEW j \in Keys, NEW k \in Keys PROVE <<j, k>> \in Pointers
  <2>1. <<j, k>> \in Seq(Keys) /\ Len(<<j, k>>) = 2 OBVIOUS
  <2> QED BY <1>2, <1>3, <2>1
<1> QED BY <1>1, <1>2, <1>4, <1>5, <1>6

\* A pointer that is not the root's, and the one it extends.
LEMMA FrontFacts ==
    ASSUME NEW p \in Pointers, p # <<>>
    PROVE  /\ Len(p) \in Nat /\ Len(p) > 0
           /\ Front(p) \in Pointers /\ Len(Front(p)) = Len(p) - 1
           /\ Last(p) \in Keys
<1>1. p \in Seq(Keys) /\ Len(p) <= Depth BY PointerFacts
<1>2. Len(p) \in Nat /\ Len(p) > 0 BY <1>1, EmptySeq, LenProperties
<1>3. Front(p) \in Seq(Keys) /\ Len(Front(p)) = Len(p) - 1
  <2>1. PICK n \in Nat : n = Len(p) - 1 BY <1>2
  <2>2. n <= Len(p) /\ Front(p) = SubSeq(p, 1, n) BY <1>2, <2>1 DEF Front
  <2>3. /\ SubSeq(p, 1, n) \in Seq(Keys)
        /\ Len(SubSeq(p, 1, n)) = IF 1 <= n THEN n - 1 + 1 ELSE 0
    BY ONLY <1>1, <2>2, n \in Nat, PartIs
  <2>4. Len(SubSeq(p, 1, n)) = n BY ONLY <2>3, n \in Nat
  <2> QED BY ONLY <2>1, <2>2, <2>3, <2>4
<1>4. Last(p) \in Keys BY <1>1, <1>2, ElementOfSeq DEF Last
<1> QED BY <1>1, <1>2, <1>3, <1>4, PointerFacts, BoundsAssumption

\* What At(document) is looked up by: the recursion ends at the root.
LEMMA AtExists ==
    ASSUME NEW document
    PROVE  \A n \in Nat : \E g :
             /\ DOMAIN g = {p \in Pointers : Len(p) <= n}
             /\ \A p \in DOMAIN g :
                  g[p] = IF p = <<>> THEN document ELSE Child(g[Front(p)], Last(p))
<1> DEFINE Upto(n) == {p \in Pointers : Len(p) <= n}
           Good(n, g) == /\ DOMAIN g = Upto(n)
                         /\ \A p \in Upto(n) :
                              g[p] = IF p = <<>> THEN document ELSE Child(g[Front(p)], Last(p))
           S == {n \in Nat : \E g : Good(n, g)}
<1>0. \A p \in Pointers : Len(p) \in Nat /\ (Len(p) = 0 => p = <<>>)
  BY PointerFacts, LenProperties, EmptySeq
<1>1. 0 \in S
  <2> DEFINE g == [p \in Upto(0) |-> document]
  <2>1. \A p \in Upto(0) : p = <<>> BY <1>0
  <2>2. Good(0, g) BY <2>1
  <2> HIDE DEF g, Good
  <2> QED BY <2>2
<1>2. \A n \in Nat : n \in S => n + 1 \in S
  <2> SUFFICES ASSUME NEW n \in Nat, n \in S PROVE n + 1 \in S OBVIOUS
  <2>1. PICK g : Good(n, g) OBVIOUS
  <2> DEFINE h == [p \in Upto(n + 1) |->
                     IF p = <<>> THEN document ELSE Child(g[Front(p)], Last(p))]
  <2>2. \A p \in Upto(n) : p \in Upto(n + 1) /\ h[p] = g[p] BY <1>0, <2>1
  <2>3. \A p \in Upto(n + 1) : p # <<>> => Front(p) \in Upto(n) BY FrontFacts
  <2>4. Good(n + 1, h) BY <2>2, <2>3
  <2> HIDE DEF h, Good
  <2> QED BY <2>4
<1>3. \A n \in Nat : n \in S
  <2> HIDE DEF S
  <2> QED BY <1>1, <1>2, SetInduction
<1> QED BY <1>3

LEMMA AtIs ==
    ASSUME NEW document
    PROVE  \A p \in Pointers :
             At(document)[p] = IF p = <<>> THEN document ELSE Child(At(document)[Front(p)], Last(p))
<1> DEFINE Good(g) == g = [p \in Pointers |->
                             IF p = <<>> THEN document ELSE Child(g[Front(p)], Last(p))]
<1>1. \E g : Good(g)
  <2>1. PICK g : /\ DOMAIN g = {p \in Pointers : Len(p) <= Depth}
                 /\ \A p \in DOMAIN g :
                      g[p] = IF p = <<>> THEN document ELSE Child(g[Front(p)], Last(p))
    BY AtExists, BoundsAssumption
  <2>2. {p \in Pointers : Len(p) <= Depth} = Pointers BY PointerFacts
  <2> DEFINE h == [p \in Pointers |-> g[p]]
  <2>3. \A p \in Pointers : p # <<>> => Front(p) \in Pointers BY FrontFacts
  <2>4. Good(h) BY <2>1, <2>2, <2>3
  <2> HIDE DEF h, Good
  <2> QED BY <2>4
<1>2. At(document) = CHOOSE g : Good(g) BY DEF At
<1>3. Good(At(document))
  <2> HIDE DEF Good
  <2> QED BY <1>1, <1>2
<1> QED BY ONLY <1>3

\* The first two levels.
LEMMA AtTop ==
    ASSUME NEW document
    PROVE  /\ At(document)[<<>>] = document
           /\ \A k \in Keys : At(document)[<<k>>] = Child(document, k)
           /\ \A j, k \in Keys : At(document)[<<j, k>>] = Child(Child(document, j), k)
<1>1. At(document)[<<>>] = document BY AtIs, PointerFacts
<1>2. ASSUME NEW k \in Keys PROVE At(document)[<<k>>] = Child(document, k)
  <2>1. <<k>> # <<>> /\ Front(<<k>>) = <<>> /\ Last(<<k>>) = k BY DEF Front, Last
  <2> QED BY ONLY <1>1, <2>1, AtIs, PointerFacts
<1>3. ASSUME NEW j \in Keys, NEW k \in Keys
      PROVE  At(document)[<<j, k>>] = Child(Child(document, j), k)
  <2>1. <<j, k>> # <<>> /\ Last(<<j, k>>) = k BY DEF Last
  <2>2. Front(<<j, k>>) = <<j>>
    <3>1. Front(<<j, k>>) = SubSeq(<<j, k>>, 1, 1) BY DEF Front
    <3>2. <<j, k>> \in Seq(Keys) /\ Len(<<j, k>>) = 2 /\ <<j, k>>[1] = j OBVIOUS
    <3>3. <<j>> \in Seq(Keys) /\ Len(<<j>>) = 1 /\ <<j>>[1] = j OBVIOUS
    <3>4. /\ SubSeq(<<j, k>>, 1, 1) \in Seq(Keys) /\ Len(SubSeq(<<j, k>>, 1, 1)) = 1
          /\ SubSeq(<<j, k>>, 1, 1)[1] = <<j, k>>[1]
      BY <3>2, PartIs
    <3> QED BY <3>1, <3>2, <3>3, <3>4, SameEntries
  <2> QED BY ONLY <2>2, <1>2, <2>1, AtIs, PointerFacts
<1> QED BY ONLY <1>1, <1>2, <1>3

-----------------------------------------------------------------------------
(* The merge of a document, level by level: the settings, the events and the *)
(* members of the status line.                                               *)

\* What a merge is given of the releases: a fragment, or none.
Shaped(f) == f = None \/ \E r \in Releases : f = Fragment[r]

\* The status line has no members, or scalars.
LEMMA ShapeIs ==
    ASSUME NEW f, Shaped(f)
    PROVE  /\ Members(f) \subseteq Keys
           /\ \A k \in Keys : Members(Child(f, k)) \subseteq Keys
           /\ \A j, k \in Keys : Members(Child(Child(f, j), k)) = {}
<1>1. Members(None) = {} /\ \A k : Child(None, k) = None BY DEF Members, Child, None
<1>2. CASE f = None BY <1>1, <1>2
<1>3. CASE f # None
  <2>1. PICK r \in Releases : f = Fragment[r] BY <1>3 DEF Shaped
  <2>2. Members(f) \subseteq Keys \cap {"hooks", "statusLine"} BY <2>1, FragmentAssumption
  <2>3. ASSUME NEW k \in Keys PROVE Members(Child(f, k)) \subseteq Keys
    <3>1. CASE k \in Members(f)
      <4>1. Child(f, k) = Fragment[r].at[k] BY <2>1, <3>1 DEF Child
      <4> QED BY <2>1, <3>1, <4>1, FragmentAssumption
    <3>2. CASE k \notin Members(f) BY <1>1, <3>2 DEF Child
    <3> QED BY <3>1, <3>2
  <2>4. ASSUME NEW j \in Keys, NEW k \in Keys PROVE Members(Child(Child(f, j), k)) = {}
    <3>1. CASE k \notin Members(Child(f, j))
      <4>1. Child(Child(f, j), k) = None BY <3>1 DEF Child
      <4> QED BY <1>1, <4>1
    <3>2. CASE k \in Members(Child(f, j))
      <4>1. j \in Members(f)
        <5>1. j \notin Members(f) => Child(f, j) = None BY DEF Child
        <5> QED BY <1>1, <3>2, <5>1
      <4>2. CASE j = "hooks"
        <5>1. Child(Child(f, j), k) = Arr(ArrayAt(f, k)) BY <2>1, <3>2, <4>2, FragmentAssumption
        <5> QED BY <5>1 DEF Members, Arr
      <4>3. CASE j = "statusLine"
        <5>1. Child(f, j).at[k].kind = "scalar" BY <2>1, <3>2, <4>3, FragmentAssumption
        <5> QED BY <3>2, <5>1 DEF Child, Members
      <4> QED BY <2>2, <4>1, <4>2, <4>3
    <3> QED BY <3>1, <3>2
  <2> QED BY <2>2, <2>3, <2>4
<1> QED BY <1>2, <1>3

\* Nothing nests below the second level.
LEMMA ShapeBelow ==
    ASSUME NEW f, Shaped(f)
    PROVE  \A p \in Pointers : Len(p) >= 2 => Members(At(f)[p]) = {}
<1> DEFINE S == {n \in Nat : \A p \in Pointers : Len(p) = n + 2 => Members(At(f)[p]) = {}}
<1>1. 0 \in S
  <2> SUFFICES ASSUME NEW p \in Pointers, Len(p) = 2 PROVE Members(At(f)[p]) = {} OBVIOUS
  <2>1. p \in Seq(Keys) BY PointerFacts
  <2>2. p[1] \in Keys /\ p[2] \in Keys BY <2>1, ElementOfSeq
  <2>3. p = <<p[1], p[2]>>
    <3>1. <<p[1], p[2]>> \in Seq(Keys) /\ Len(<<p[1], p[2]>>) = 2 BY <2>2
    <3>2. \A i \in 1..2 : p[i] = <<p[1], p[2]>>[i] OBVIOUS
    <3> QED BY ONLY <2>1, <3>1, <3>2, Len(p) = 2, SameEntries
  <2>4. At(f)[<<p[1], p[2]>>] = Child(Child(f, p[1]), p[2]) BY <2>2, AtTop
  <2> QED BY <2>2, <2>3, <2>4, ShapeIs
<1>2. \A n \in Nat : n \in S => n + 1 \in S
  <2> SUFFICES ASSUME NEW n \in Nat, n \in S PROVE n + 1 \in S OBVIOUS
  <2> SUFFICES ASSUME NEW p \in Pointers, Len(p) = n + 1 + 2 PROVE Members(At(f)[p]) = {}
    OBVIOUS
  <2>1. p # <<>> BY PointerFacts, EmptySeq
  <2>2. Front(p) \in Pointers /\ Len(Front(p)) = n + 2 BY <2>1, FrontFacts
  <2>3. Members(At(f)[Front(p)]) = {} BY <2>2
  <2>4. At(f)[p] = None BY <2>1, <2>3, AtIs DEF Child
  <2> QED BY <2>4 DEF Members, None
<1>3. \A n \in Nat : n \in S
  <2> HIDE DEF S
  <2> QED BY <1>1, <1>2, SetInduction
<1> SUFFICES ASSUME NEW p \in Pointers, Len(p) >= 2 PROVE Members(At(f)[p]) = {} OBVIOUS
<1>4. Len(p) \in Nat BY PointerFacts, LenProperties
<1>5. Len(p) - 2 \in Nat /\ Len(p) = (Len(p) - 2) + 2 BY <1>4
<1> QED BY <1>3, <1>5

Empty == [k \in {} |-> None]

Leaf(c, d, o, j, k) ==
    MergedValue(Child(Child(c, j), k), Child(Child(d, j), k), Child(Child(o, j), k),
                Empty, <<j, k>>)

Middle(c, d, o, j) ==
    MergedValue(Child(c, j), Child(d, j), Child(o, j),
                [k \in Members(Child(d, j)) \cup Members(Child(o, j)) |-> Leaf(c, d, o, j, k)],
                <<j>>)

Top(c, d, o) ==
    MergedValue(c, d, o, [j \in Members(d) \cup Members(o) |-> Middle(c, d, o, j)], <<>>)

\* The recursion over the pointers has a solution, and what any solution has at the
\* root is this.
LEMMA MergedIs ==
    ASSUME NEW c, NEW d, NEW o, Shaped(d), Shaped(o)
    PROVE  Merged(c, d, o) = Top(c, d, o)
<1> DEFINE V(p, m) == MergedValue(At(c)[p], At(d)[p], At(o)[p], m, p)
           M(p) == Members(At(d)[p]) \cup Members(At(o)[p])
           Good(f) == f = [p \in Pointers |-> V(p, [k \in M(p) |-> f[Append(p, k)]])]
<1>1. \A p \in Pointers : Len(p) >= 2 => M(p) = {} BY ShapeBelow
<1>2. \A p \in Pointers : Len(p) < 2 => p = <<>> \/ \E k \in Keys : p = <<k>>
  <2> SUFFICES ASSUME NEW p \in Pointers, Len(p) < 2, p # <<>> PROVE \E k \in Keys : p = <<k>>
    OBVIOUS
  <2>1. Len(p) \in Nat /\ Len(p) > 0 BY FrontFacts
  <2>2. p \in Seq(Keys) BY PointerFacts
  <2>3. Len(p) = 1
    <3>1. \A n \in Nat : n > 0 /\ n < 2 => n = 1 OBVIOUS
    <3> QED BY <2>1, <3>1
  <2>4. p[1] \in Keys BY <2>2, <2>3, ElementOfSeq
  <2>5. <<p[1]>> \in Seq(Keys) /\ Len(<<p[1]>>) = 1 /\ <<p[1]>>[1] = p[1] BY <2>4
  <2>6. p = <<p[1]>> BY ONLY <2>2, <2>3, <2>5, SameEntries
  <2> QED BY <2>4, <2>6
<1>3. M(<<>>) = Members(d) \cup Members(o) /\ M(<<>>) \subseteq Keys BY AtTop, ShapeIs
<1>4. \A j \in Keys : /\ M(<<j>>) = Members(Child(d, j)) \cup Members(Child(o, j))
                      /\ M(<<j>>) \subseteq Keys
  <2> SUFFICES ASSUME NEW j \in Keys
               PROVE  /\ M(<<j>>) = Members(Child(d, j)) \cup Members(Child(o, j))
                      /\ M(<<j>>) \subseteq Keys
    OBVIOUS
  <2>1. At(d)[<<j>>] = Child(d, j) /\ At(o)[<<j>>] = Child(o, j) BY AtTop
  <2>2. Members(Child(d, j)) \subseteq Keys /\ Members(Child(o, j)) \subseteq Keys BY ShapeIs
  <2> QED BY ONLY <2>1, <2>2
<1>5. \A k \in Keys : Append(<<>>, k) = <<k>> OBVIOUS
<1>6. \A j, k \in Keys : Append(<<j>>, k) = <<j, k>>
  <2> SUFFICES ASSUME NEW j \in Keys, NEW k \in Keys PROVE Append(<<j>>, k) = <<j, k>> OBVIOUS
  <2>1. <<j>> \in Seq(Keys) /\ Len(<<j>>) = 1 /\ <<j>>[1] = j OBVIOUS
  <2>2. /\ <<j, k>> \in Seq(Keys) /\ Len(<<j, k>>) = 2
        /\ <<j, k>>[1] = j /\ <<j, k>>[2] = k
    OBVIOUS
  <2>3. /\ Append(<<j>>, k) \in Seq(Keys) /\ Len(Append(<<j>>, k)) = 2
        /\ Append(<<j>>, k)[1] = j /\ Append(<<j>>, k)[2] = k
    BY ONLY <2>1, k \in Keys, AppendProperties
  <2>4. \A i \in 1..2 : i = 1 \/ i = 2 OBVIOUS
  <2> QED BY ONLY <2>2, <2>3, <2>4, SameEntries
<1>7. \E f : Good(f)
  <2> DEFINE f2 == [p \in Pointers |-> V(p, Empty)]
             f1 == [p \in Pointers |->
                      IF Len(p) >= 2 THEN f2[p] ELSE V(p, [k \in M(p) |-> f2[Append(p, k)]])]
             f0 == [p \in Pointers |->
                      IF Len(p) >= 1 THEN f1[p] ELSE V(p, [k \in M(p) |-> f1[Append(p, k)]])]
  <2>1. ASSUME NEW p \in Pointers PROVE f0[p] = V(p, [k \in M(p) |-> f0[Append(p, k)]])
    <3>1. CASE Len(p) >= 2
      <4>1. f0[p] = V(p, Empty)
        <5>1. Len(p) >= 1 BY <3>1, PointerFacts, LenProperties
        <5> QED BY <3>1, <5>1
      <4>2. [k \in M(p) |-> f0[Append(p, k)]] = Empty
        <5> HIDE DEF f0, M
        <5>1. M(p) = {} BY ONLY <1>1, <3>1, p \in Pointers
        <5> QED BY ONLY <5>1 DEF Empty
      <4> QED BY ONLY <4>1, <4>2
    <3>2. CASE p = <<>>
      <4>1. \A k \in M(p) : f0[Append(p, k)] = f1[Append(p, k)]
        <5> SUFFICES ASSUME NEW k \in M(p) PROVE f0[Append(p, k)] = f1[Append(p, k)] OBVIOUS
        <5>1. k \in Keys BY <1>3, <3>2
        <5>2. Append(p, k) = <<k>> /\ <<k>> \in Pointers /\ Len(<<k>>) = 1
          BY <1>5, <3>2, <5>1, PointerFacts
        <5> HIDE DEF f1
        <5> QED BY <5>2
      <4>2. f0[p] = V(p, [k \in M(p) |-> f1[Append(p, k)]])
        <5>1. ~(Len(p) >= 1) BY <3>2
        <5> HIDE DEF f1, V, M
        <5> QED BY <5>1
      <4>3. [k \in M(p) |-> f0[Append(p, k)]] = [k \in M(p) |-> f1[Append(p, k)]]
        <5> HIDE DEF f0, f1, M
        <5> QED BY <4>1
      <4> QED BY ONLY <4>2, <4>3
    <3>3. CASE \E j \in Keys : p = <<j>>
      <4>1. PICK j \in Keys : p = <<j>> BY <3>3
      <4>2. Len(p) = 1 BY <4>1
      <4>3. \A k \in M(p) : f0[Append(p, k)] = f2[Append(p, k)]
        <5> SUFFICES ASSUME NEW k \in M(p) PROVE f0[Append(p, k)] = f2[Append(p, k)] OBVIOUS
        <5>1. k \in Keys BY <1>4, <4>1
        <5>2. Append(p, k) = <<j, k>> /\ <<j, k>> \in Pointers /\ Len(<<j, k>>) = 2
          BY <1>6, <4>1, <5>1, PointerFacts
        <5>3. f0[<<j, k>>] = f1[<<j, k>>]
          <6> HIDE DEF f1
          <6> QED BY <5>2
        <5>4. f1[<<j, k>>] = f2[<<j, k>>]
          <6> HIDE DEF f2
          <6> QED BY <5>2
        <5> QED BY ONLY <5>2, <5>3, <5>4
      <4>4. f0[p] = f1[p]
        <5> HIDE DEF f1
        <5> QED BY <4>2
      <4>5. f1[p] = V(p, [k \in M(p) |-> f2[Append(p, k)]])
        <5>1. ~(Len(p) >= 2) BY <4>2
        <5> HIDE DEF f2, V, M
        <5> QED BY <5>1
      <4>6. [k \in M(p) |-> f0[Append(p, k)]] = [k \in M(p) |-> f2[Append(p, k)]]
        <5> HIDE DEF f0, f2, M
        <5> QED BY <4>3
      <4> QED BY ONLY <4>4, <4>5, <4>6
    <3>4. Len(p) \in Nat BY PointerFacts, LenProperties
    <3> QED BY <1>2, <3>1, <3>2, <3>3, <3>4
  <2>2. DOMAIN f0 = Pointers /\ f0 = [p \in Pointers |-> f0[p]] OBVIOUS
  <2>3. Good(f0)
    <3> HIDE DEF f0, V, M
    <3> QED BY <2>1, <2>2
  <2> HIDE DEF f0, Good
  <2> QED BY <2>3
<1> DEFINE f == CHOOSE f : Good(f)
<1>8. \A p \in Pointers : f[p] = V(p, [k \in M(p) |-> f[Append(p, k)]])
  <2>1. Good(f)
    <3> HIDE DEF Good
    <3> QED BY <1>7
  <2> HIDE DEF f, V, M
  <2> QED BY <2>1
<1>9. Merged(c, d, o) = f[<<>>] BY DEF Merged
<1> HIDE DEF f
<1>10. ASSUME NEW j \in Keys, NEW k \in Keys PROVE f[<<j, k>>] = Leaf(c, d, o, j, k)
  <2>1. <<j, k>> \in Pointers /\ Len(<<j, k>>) = 2 BY PointerFacts
  <2>2. f[<<j, k>>] = V(<<j, k>>, [x \in M(<<j, k>>) |-> f[Append(<<j, k>>, x)]])
    <3> HIDE DEF V, M
    <3> QED BY <1>8, <2>1
  <2>3. [x \in M(<<j, k>>) |-> f[Append(<<j, k>>, x)]] = Empty
    <3> HIDE DEF M
    <3>1. M(<<j, k>>) = {}
      <4>1. Len(<<j, k>>) >= 2 BY <2>1
      <4> QED BY ONLY <1>1, <2>1, <4>1
    <3> QED BY ONLY <3>1 DEF Empty
  <2>4. V(<<j, k>>, Empty) = Leaf(c, d, o, j, k) BY AtTop DEF Leaf
  <2> QED BY ONLY <2>2, <2>3, <2>4
<1>11. ASSUME NEW j \in Keys PROVE f[<<j>>] = Middle(c, d, o, j)
  <2>1. f[<<j>>] = V(<<j>>, [k \in M(<<j>>) |-> f[Append(<<j>>, k)]])
    <3> HIDE DEF V, M
    <3> QED BY <1>8, PointerFacts
  <2>2. [k \in M(<<j>>) |-> f[Append(<<j>>, k)]] = [k \in M(<<j>>) |-> Leaf(c, d, o, j, k)]
    <3>1. \A k \in M(<<j>>) : k \in Keys BY <1>4
    <3> HIDE DEF M
    <3> QED BY <1>6, <1>10, <3>1
  <2>3. V(<<j>>, [k \in M(<<j>>) |-> Leaf(c, d, o, j, k)]) = Middle(c, d, o, j)
    <3>1. /\ At(c)[<<j>>] = Child(c, j) /\ At(d)[<<j>>] = Child(d, j)
          /\ At(o)[<<j>>] = Child(o, j)
      BY AtTop
    <3> QED BY ONLY <1>4, <3>1, j \in Keys DEF Middle
  <2> QED BY ONLY <2>1, <2>2, <2>3
<1>12. f[<<>>] = V(<<>>, [j \in M(<<>>) |-> f[Append(<<>>, j)]])
  <2> HIDE DEF V, M
  <2> QED BY <1>8, PointerFacts
<1>13. [j \in M(<<>>) |-> f[Append(<<>>, j)]] = [j \in M(<<>>) |-> Middle(c, d, o, j)]
  <2> HIDE DEF M
  <2> QED BY <1>3, <1>5, <1>11
<1>14. V(<<>>, [j \in M(<<>>) |-> Middle(c, d, o, j)]) = Top(c, d, o)
  <2>1. At(c)[<<>>] = c /\ At(d)[<<>>] = d /\ At(o)[<<>>] = o BY AtTop
  <2> QED BY ONLY <2>1 DEF Top
<1> QED BY ONLY <1>9, <1>12, <1>13, <1>14

-----------------------------------------------------------------------------
(* Loops *)

\* Induction up to the end of a loop.
LEMMA LoopInduction ==
    ASSUME NEW S, NEW top \in Nat, 0 \in S,
           \A n \in 0..top : n + 1 \in 0..top /\ n \in S => n + 1 \in S
    PROVE  \A n \in 0..top : n \in S
<1> DEFINE T == {n \in Nat : n <= top => n \in S}
<1>1. 0 \in T OBVIOUS
<1>2. \A n \in Nat : n \in T => n + 1 \in T OBVIOUS
<1>3. \A n \in Nat : n \in T
  <2> HIDE DEF T
  <2> QED BY ONLY <1>1, <1>2, SetInduction
<1> QED BY <1>3

\* A loop over some entries has a solution.
LEMMA UpdatedIs ==
    ASSUME NEW current, NEW pairs, NEW path, Len(pairs) \in Nat
    PROVE  \E u : /\ u[0] = Arr(current)
                  /\ \A n \in 1..Len(pairs) :
                       u[n] = Step(u[n - 1], pairs[n][1], pairs[n][2], path)
                  /\ Updated(current, pairs, path) = u[Len(pairs)]
<1> DEFINE W(n, before) ==
             IF n = 0 THEN Arr(current) ELSE Step(before, pairs[n][1], pairs[n][2], path)
           Good(m, g) == g = [n \in 0..m |-> W(n, g[n - 1])]
           S == {m \in Nat : \E g : Good(m, g)}
<1>1. 0 \in S
  <2> DEFINE g == [n \in 0..0 |-> Arr(current)]
  <2>1. Good(0, g) OBVIOUS
  <2> HIDE DEF g, Good
  <2> QED BY <2>1
<1>2. \A m \in Nat : m \in S => m + 1 \in S
  <2> SUFFICES ASSUME NEW m \in Nat, m \in S PROVE m + 1 \in S OBVIOUS
  <2>1. PICK g : Good(m, g) OBVIOUS
  <2> DEFINE h == [n \in 0..m + 1 |-> IF n <= m THEN g[n] ELSE W(m + 1, g[m])]
  <2>2. \A n \in 0..m : g[n] = W(n, g[n - 1])
    <3> HIDE DEF W
    <3> QED BY <2>1
  <2>3. \A n \in 0..m + 1 : h[n] = W(n, h[n - 1])
    <3> SUFFICES ASSUME NEW n \in 0..m + 1 PROVE h[n] = W(n, h[n - 1]) OBVIOUS
    <3>1. CASE n = 0 BY <2>2, <3>1
    <3>2. CASE n # 0 /\ n <= m
      <4>1. n - 1 \in 0..m + 1 /\ n - 1 <= m /\ n \in 0..m BY <3>2
      <4>2. h[n - 1] = g[n - 1] /\ h[n] = g[n]
        <5> HIDE DEF W
        <5> QED BY <3>2, <4>1
      <4> QED BY ONLY <2>2, <4>1, <4>2
    <3>3. CASE n = m + 1
      <4>1. n - 1 = m /\ m \in 0..m + 1 /\ ~(n <= m) BY <3>3
      <4>2. h[n - 1] = g[m] /\ h[n] = W(m + 1, g[m])
        <5> HIDE DEF W
        <5> QED BY <4>1
      <4> QED BY ONLY <3>3, <4>2
    <3> QED BY <3>1, <3>2, <3>3
  <2>4. Good(m + 1, h)
    <3>1. h = [n \in 0..m + 1 |-> h[n]] OBVIOUS
    <3> HIDE DEF h, W
    <3> QED BY <2>3, <3>1
  <2> HIDE DEF h, Good
  <2> QED BY <2>4
<1>3. \A m \in Nat : m \in S
  <2> HIDE DEF S
  <2> QED BY ONLY <1>1, <1>2, SetInduction
<1>4. \E g : Good(Len(pairs), g) BY <1>3
<1> DEFINE u == CHOOSE g : Good(Len(pairs), g)
<1>5. Good(Len(pairs), u)
  <2> HIDE DEF Good
  <2> QED BY <1>4
<1>6. Updated(current, pairs, path) = u[Len(pairs)] BY DEF Updated
<1> HIDE DEF u
<1>7. u[0] = Arr(current) BY <1>5
<1>8. \A n \in 1..Len(pairs) : u[n] = Step(u[n - 1], pairs[n][1], pairs[n][2], path) BY <1>5
<1> QED BY <1>6, <1>7, <1>8

LEMMA OthersIs ==
    ASSUME NEW list, NEW entries, Len(list) \in Nat
    PROVE  \E u : /\ u[0] = <<>>
                  /\ \A n \in 1..Len(list) :
                       u[n] = IF list[n] \in entries THEN u[n - 1] ELSE Append(u[n - 1], list[n])
                  /\ Others(list, entries) = u[Len(list)]
<1> DEFINE W(n, before) ==
             IF n = 0 THEN <<>>
             ELSE IF list[n] \in entries THEN before ELSE Append(before, list[n])
           Good(m, g) == g = [n \in 0..m |-> W(n, g[n - 1])]
           S == {m \in Nat : \E g : Good(m, g)}
<1>1. 0 \in S
  <2> DEFINE g == [n \in 0..0 |-> <<>>]
  <2>1. Good(0, g) OBVIOUS
  <2> HIDE DEF g, Good
  <2> QED BY <2>1
<1>2. \A m \in Nat : m \in S => m + 1 \in S
  <2> SUFFICES ASSUME NEW m \in Nat, m \in S PROVE m + 1 \in S OBVIOUS
  <2>1. PICK g : Good(m, g) OBVIOUS
  <2> DEFINE h == [n \in 0..m + 1 |-> IF n <= m THEN g[n] ELSE W(m + 1, g[m])]
  <2>2. \A n \in 0..m : g[n] = W(n, g[n - 1])
    <3> HIDE DEF W
    <3> QED BY <2>1
  <2>3. \A n \in 0..m + 1 : h[n] = W(n, h[n - 1])
    <3> SUFFICES ASSUME NEW n \in 0..m + 1 PROVE h[n] = W(n, h[n - 1]) OBVIOUS
    <3>1. CASE n = 0 BY <2>2, <3>1
    <3>2. CASE n # 0 /\ n <= m
      <4>1. n - 1 \in 0..m + 1 /\ n - 1 <= m /\ n \in 0..m BY <3>2
      <4>2. h[n - 1] = g[n - 1] /\ h[n] = g[n]
        <5> HIDE DEF W
        <5> QED BY <3>2, <4>1
      <4> QED BY ONLY <2>2, <4>1, <4>2
    <3>3. CASE n = m + 1
      <4>1. n - 1 = m /\ m \in 0..m + 1 /\ ~(n <= m) BY <3>3
      <4>2. h[n - 1] = g[m] /\ h[n] = W(m + 1, g[m])
        <5> HIDE DEF W
        <5> QED BY <4>1
      <4> QED BY ONLY <3>3, <4>2
    <3> QED BY <3>1, <3>2, <3>3
  <2>4. Good(m + 1, h)
    <3>1. h = [n \in 0..m + 1 |-> h[n]] OBVIOUS
    <3> HIDE DEF h, W
    <3> QED BY <2>3, <3>1
  <2> HIDE DEF h, Good
  <2> QED BY <2>4
<1>3. \A m \in Nat : m \in S
  <2> HIDE DEF S
  <2> QED BY ONLY <1>1, <1>2, SetInduction
<1>4. \E g : Good(Len(list), g) BY <1>3
<1> DEFINE u == CHOOSE g : Good(Len(list), g)
<1>5. Good(Len(list), u)
  <2> HIDE DEF Good
  <2> QED BY <1>4
<1>6. Others(list, entries) = u[Len(list)] BY DEF Others
<1> HIDE DEF u
<1>7. u[0] = <<>> BY <1>5
<1>8. \A n \in 1..Len(list) :
        u[n] = IF list[n] \in entries THEN u[n - 1] ELSE Append(u[n - 1], list[n])
  <2>1. \A n \in 0..Len(list) : u[n] = W(n, u[n - 1])
    <3> HIDE DEF W
    <3> QED BY <1>5
  <2>2. \A n \in 1..Len(list) : n \in 0..Len(list) /\ n # 0 OBVIOUS
  <2> QED BY ONLY <2>1, <2>2
<1> QED BY <1>6, <1>7, <1>8

-----------------------------------------------------------------------------
(* What is not the toolkit's, in its order. *)

\* Of two lists that differ in the toolkit's entries only, the others are the same.
LEMMA OthersSame ==
    ASSUME NEW E, NEW S, NEW T, NEW s \in Seq(S), NEW t \in Seq(T), Len(s) = Len(t),
           \A i \in 1..Len(s) : s[i] = t[i] \/ (s[i] \in E /\ t[i] \in E)
    PROVE  Others(s, E) = Others(t, E)
<1>1. Len(s) \in Nat BY LenProperties
<1>2. PICK u : /\ u[0] = <<>>
               /\ \A n \in 1..Len(s) :
                    u[n] = IF s[n] \in E THEN u[n - 1] ELSE Append(u[n - 1], s[n])
               /\ Others(s, E) = u[Len(s)]
  BY ONLY <1>1, OthersIs
<1>3. PICK v : /\ v[0] = <<>>
               /\ \A n \in 1..Len(s) :
                    v[n] = IF t[n] \in E THEN v[n - 1] ELSE Append(v[n - 1], t[n])
               /\ Others(t, E) = v[Len(s)]
  <2>1. Len(t) \in Nat BY <1>1
  <2>2. PICK v : /\ v[0] = <<>>
                 /\ \A n \in 1..Len(t) :
                      v[n] = IF t[n] \in E THEN v[n - 1] ELSE Append(v[n - 1], t[n])
                 /\ Others(t, E) = v[Len(t)]
    BY ONLY <2>1, OthersIs
  <2> QED BY ONLY <2>2, Len(s) = Len(t)
<1> DEFINE Q == {n \in 0..Len(s) : u[n] = v[n]}
<1>4. 0 \in Q BY <1>1, <1>2, <1>3
<1>5. \A n \in 0..Len(s) : n + 1 \in 0..Len(s) /\ n \in Q => n + 1 \in Q
  <2> SUFFICES ASSUME NEW n \in 0..Len(s), n + 1 \in 0..Len(s), u[n] = v[n]
               PROVE  u[n + 1] = v[n + 1]
    OBVIOUS
  <2>1. n + 1 \in 1..Len(s) /\ (n + 1) - 1 = n BY <1>1
  <2>2. u[n + 1] = IF s[n + 1] \in E THEN u[n] ELSE Append(u[n], s[n + 1]) BY ONLY <1>2, <2>1
  <2>3. v[n + 1] = IF t[n + 1] \in E THEN v[n] ELSE Append(v[n], t[n + 1]) BY ONLY <1>3, <2>1
  <2>4. s[n + 1] = t[n + 1] \/ (s[n + 1] \in E /\ t[n + 1] \in E) BY ONLY <2>1,
        \A i \in 1..Len(s) : s[i] = t[i] \/ (s[i] \in E /\ t[i] \in E)
  <2> QED BY ONLY <2>2, <2>3, <2>4, u[n] = v[n]
<1>6. Len(s) \in Q
  <2>1. \A n \in 0..Len(s) : n \in Q
    <3> HIDE DEF Q
    <3> QED BY ONLY <1>1, <1>4, <1>5, LoopInduction
  <2>2. Len(s) \in 0..Len(s) BY <1>1
  <2> HIDE DEF Q
  <2> QED BY ONLY <2>1, <2>2
<1> QED BY <1>2, <1>3, <1>6

\* An entry of the toolkit's at the end is none of the others.
LEMMA OthersAppend ==
    ASSUME NEW E, NEW S, NEW s \in Seq(S), NEW e \in E
    PROVE  Others(Append(s, e), E) = Others(s, E)
<1> DEFINE t == Append(s, e)
<1>1. Len(s) \in Nat BY LenProperties
<1>2. /\ Len(t) = Len(s) + 1 /\ t[Len(s) + 1] = e
      /\ \A i \in 1..Len(s) : t[i] = s[i]
  BY AppendProperties
<1> HIDE DEF t
<1>3. PICK u : /\ u[0] = <<>>
               /\ \A n \in 1..Len(s) :
                    u[n] = IF s[n] \in E THEN u[n - 1] ELSE Append(u[n - 1], s[n])
               /\ Others(s, E) = u[Len(s)]
  BY ONLY <1>1, OthersIs
<1>4. PICK v : /\ v[0] = <<>>
               /\ \A n \in 1..Len(s) + 1 :
                    v[n] = IF t[n] \in E THEN v[n - 1] ELSE Append(v[n - 1], t[n])
               /\ Others(t, E) = v[Len(s) + 1]
  <2>1. Len(t) \in Nat BY <1>1, <1>2
  <2>2. PICK v : /\ v[0] = <<>>
                 /\ \A n \in 1..Len(t) :
                      v[n] = IF t[n] \in E THEN v[n - 1] ELSE Append(v[n - 1], t[n])
                 /\ Others(t, E) = v[Len(t)]
    BY ONLY <2>1, OthersIs
  <2> QED BY ONLY <1>2, <2>2
<1> DEFINE Q == {n \in 0..Len(s) : u[n] = v[n]}
<1>5. 0 \in Q BY <1>1, <1>3, <1>4
<1>6. \A n \in 0..Len(s) : n + 1 \in 0..Len(s) /\ n \in Q => n + 1 \in Q
  <2> SUFFICES ASSUME NEW n \in 0..Len(s), n + 1 \in 0..Len(s), u[n] = v[n]
               PROVE  u[n + 1] = v[n + 1]
    OBVIOUS
  <2>1. n + 1 \in 1..Len(s) /\ n + 1 \in 1..Len(s) + 1 /\ (n + 1) - 1 = n BY <1>1
  <2>2. u[n + 1] = IF s[n + 1] \in E THEN u[n] ELSE Append(u[n], s[n + 1]) BY ONLY <1>3, <2>1
  <2>3. v[n + 1] = IF t[n + 1] \in E THEN v[n] ELSE Append(v[n], t[n + 1]) BY ONLY <1>4, <2>1
  <2>4. s[n + 1] = t[n + 1] BY ONLY <1>2, <2>1
  <2> QED BY ONLY <2>2, <2>3, <2>4, u[n] = v[n]
<1>7. Len(s) \in Q
  <2>1. \A n \in 0..Len(s) : n \in Q
    <3> HIDE DEF Q
    <3> QED BY ONLY <1>1, <1>5, <1>6, LoopInduction
  <2>2. Len(s) \in 0..Len(s) BY <1>1
  <2> HIDE DEF Q
  <2> QED BY ONLY <2>1, <2>2
<1>8. v[Len(s) + 1] = v[Len(s)]
  <2>1. Len(s) + 1 \in 1..Len(s) + 1 /\ (Len(s) + 1) - 1 = Len(s) BY <1>1
  <2> QED BY ONLY <1>2, <1>4, <2>1, e \in E
<1> QED BY <1>3, <1>4, <1>7, <1>8 DEF t

\* What is left of a list without one entry.
LEMMA RemoveAtIs ==
    ASSUME NEW S, NEW s \in Seq(S), NEW i \in 1..Len(s)
    PROVE  /\ RemoveAt(s, i) \in Seq(S)
           /\ Len(RemoveAt(s, i)) = Len(s) - 1
           /\ \A j \in 1..Len(s) - 1 : RemoveAt(s, i)[j] = IF j < i THEN s[j] ELSE s[j + 1]
<1>1. PICK n \in Nat : n = Len(s) BY LenProperties
<1>2. i \in Nat /\ 1 <= i /\ i <= n BY <1>1
<1>3. PICK a \in Nat : a = i - 1 BY <1>2
<1>4. PICK b \in Nat : b = i + 1 BY <1>2
<1> DEFINE p == SubSeq(s, 1, a)
           q == SubSeq(s, b, n)
<1>5. a <= n /\ 1 <= b BY <1>2, <1>3, <1>4
<1>6. /\ p \in Seq(S) /\ Len(p) = a
      /\ \A j \in 1..a : p[j] = s[j]
  <2>1. /\ p \in Seq(S) /\ Len(p) = IF 1 <= a THEN a - 1 + 1 ELSE 0
        /\ \A j \in 1..a - 1 + 1 : p[j] = s[1 + j - 1]
    BY ONLY <1>1, <1>3, <1>5, PartIs, s \in Seq(S)
  <2>2. a - 1 + 1 = a /\ (~(1 <= a) => a = 0) /\ \A j \in 1..a : 1 + j - 1 = j BY ONLY a \in Nat
  <2> QED BY ONLY <2>1, <2>2
<1>7. /\ q \in Seq(S) /\ Len(q) = n - i
      /\ \A j \in 1..n - i : q[j] = s[i + j]
  <2>1. /\ q \in Seq(S) /\ Len(q) = IF b <= n THEN n - b + 1 ELSE 0
        /\ \A j \in 1..n - b + 1 : q[j] = s[b + j - 1]
    BY ONLY <1>1, <1>4, <1>5, PartIs, s \in Seq(S)
  <2>2. n - b + 1 = n - i /\ (~(b <= n) => n - i = 0) /\ \A j \in 1..n - i : b + j - 1 = i + j
    BY ONLY <1>2, <1>4, n \in Nat
  <2> QED BY ONLY <2>1, <2>2
<1>8. RemoveAt(s, i) = p \o q BY <1>1, <1>3, <1>4 DEF RemoveAt
<1> HIDE DEF p, q
<1>9. /\ p \o q \in Seq(S) /\ Len(p \o q) = Len(p) + Len(q)
      /\ \A j \in 1..Len(p) + Len(q) : (p \o q)[j] = IF j <= Len(p) THEN p[j] ELSE q[j - Len(p)]
  BY ONLY <1>6, <1>7, ConcatProperties
<1>10. Len(p) + Len(q) = n - 1 BY <1>2, <1>3, <1>6, <1>7
<1>11. ASSUME NEW j \in 1..n - 1 PROVE (p \o q)[j] = IF j < i THEN s[j] ELSE s[j + 1]
  <2>1. (p \o q)[j] = IF j <= a THEN p[j] ELSE q[j - a] BY ONLY <1>6, <1>9, <1>10, j \in 1..n - 1
  <2>2. CASE j < i
    <3>1. j \in 1..a /\ j <= a BY <1>2, <1>3, <2>2
    <3> QED BY ONLY <1>6, <2>1, <2>2, <3>1
  <2>3. CASE ~(j < i)
    <3>1. j - a \in 1..n - i /\ ~(j <= a) /\ i + (j - a) = j + 1 BY <1>2, <1>3, <2>3
    <3> QED BY ONLY <1>7, <2>1, <2>3, <3>1
  <2> QED BY <2>2, <2>3
<1> QED BY ONLY <1>1, <1>8, <1>9, <1>10, <1>11

\* An entry of the toolkit's that goes is none of the others.
LEMMA OthersRemoveAt ==
    ASSUME NEW E, NEW S, NEW s \in Seq(S), NEW i \in 1..Len(s), s[i] \in E
    PROVE  Others(RemoveAt(s, i), E) = Others(s, E)
<1> DEFINE t == RemoveAt(s, i)
<1>1. PICK top \in Nat : top = Len(s) BY LenProperties
<1>2. i \in Nat /\ 1 <= i /\ i <= top BY <1>1
<1>3. PICK m \in Nat : m = top - 1 BY <1>1, <1>2
<1>4. Len(t) = m /\ \A j \in 1..m : t[j] = IF j < i THEN s[j] ELSE s[j + 1]
  BY <1>1, <1>3, RemoveAtIs
<1> HIDE DEF t
<1>5. PICK u : /\ u[0] = <<>>
               /\ \A n \in 1..top :
                    u[n] = IF s[n] \in E THEN u[n - 1] ELSE Append(u[n - 1], s[n])
               /\ Others(s, E) = u[top]
  BY ONLY <1>1, OthersIs
<1>6. PICK v : /\ v[0] = <<>>
               /\ \A n \in 1..m :
                    v[n] = IF t[n] \in E THEN v[n - 1] ELSE Append(v[n - 1], t[n])
               /\ Others(t, E) = v[m]
  <2>1. Len(t) \in Nat BY <1>4
  <2>2. PICK v : /\ v[0] = <<>>
                 /\ \A n \in 1..Len(t) :
                      v[n] = IF t[n] \in E THEN v[n - 1] ELSE Append(v[n - 1], t[n])
                 /\ Others(t, E) = v[Len(t)]
    BY ONLY <2>1, OthersIs
  <2> QED BY ONLY <1>4, <2>2
<1>7. u[i] = u[i - 1] BY ONLY <1>2, <1>5, s[i] \in E
<1> DEFINE Q == {n \in 0..m : v[n] = IF n < i THEN u[n] ELSE u[n + 1]}
<1>8. 0 \in Q BY <1>2, <1>5, <1>6
<1>9. \A n \in 0..m : n + 1 \in 0..m /\ n \in Q => n + 1 \in Q
  <2> SUFFICES ASSUME NEW n \in 0..m, n + 1 \in 0..m, n \in Q PROVE n + 1 \in Q OBVIOUS
  <2>1. n + 1 \in 1..m /\ (n + 1) - 1 = n /\ n \in Nat BY <1>3
  <2>2. v[n + 1] = IF t[n + 1] \in E THEN v[n] ELSE Append(v[n], t[n + 1]) BY ONLY <1>6, <2>1
  <2>3. t[n + 1] = IF n + 1 < i THEN s[n + 1] ELSE s[n + 2]
    <3>1. (n + 1) + 1 = n + 2 BY <2>1
    <3> QED BY ONLY <1>4, <2>1, <3>1
  <2>4. CASE n + 1 < i
    <3>1. n < i /\ n + 1 \in 1..top BY <1>2, <1>3, <2>1, <2>4
    <3>2. u[n + 1] = IF s[n + 1] \in E THEN u[n] ELSE Append(u[n], s[n + 1]) BY ONLY <1>5, <2>1, <3>1
    <3>3. v[n] = u[n] BY <3>1
    <3>4. v[n + 1] = u[n + 1] BY ONLY <2>2, <2>3, <2>4, <3>2, <3>3
    <3> QED BY <2>4, <3>4
  <2>5. CASE ~(n + 1 < i)
    <3>1. n + 2 \in 1..top /\ (n + 2) - 1 = n + 1 /\ (n + 1) + 1 = n + 2 BY <1>2, <1>3, <2>1, <2>5
    <3>2. u[n + 2] = IF s[n + 2] \in E THEN u[n + 1] ELSE Append(u[n + 1], s[n + 2])
      BY ONLY <1>5, <3>1
    <3>3. v[n] = u[n + 1]
      <4>1. CASE n < i
        <5>1. i = n + 1 /\ i - 1 = n BY <1>2, <2>1, <2>5, <4>1
        <5>2. v[n] = u[n] BY <4>1
        <5> QED BY ONLY <1>7, <5>1, <5>2
      <4>2. CASE ~(n < i) BY <4>2
      <4> QED BY <4>1, <4>2
    <3>4. v[n + 1] = u[n + 2] BY ONLY <2>2, <2>3, <2>5, <3>2, <3>3
    <3> QED BY <2>5, <3>1, <3>4
  <2> QED BY <2>4, <2>5
<1>10. m \in Q
  <2>1. \A n \in 0..m : n \in Q
    <3> HIDE DEF Q
    <3> QED BY ONLY m \in Nat, <1>8, <1>9, LoopInduction
  <2>2. m \in 0..m OBVIOUS
  <2> HIDE DEF Q
  <2> QED BY ONLY <2>1, <2>2
<1>11. v[m] = u[top]
  <2>1. CASE m < i
    <3>1. i = top /\ i - 1 = m BY <1>2, <1>3, <2>1
    <3> QED BY <1>7, <1>10, <2>1, <3>1
  <2>2. CASE ~(m < i)
    <3>1. m + 1 = top BY <1>3
    <3> QED BY <1>10, <2>2, <3>1
  <2> QED BY <2>1, <2>2
<1> QED BY <1>5, <1>6, <1>11 DEF t

-----------------------------------------------------------------------------
(* One entry of an array *)

LEMMA LeastIs ==
    ASSUME NEW I \in SUBSET Nat, I # {}
    PROVE  Min(I) \in I /\ \A y \in I : Min(I) <= y
<1>1. \E m \in I : \A n \in I : <<n, m>> \notin Less BY LessIsWellFounded, WFMin
<1>2. PICK m \in I : \A n \in I : ~(n < m) BY <1>1 DEF Less
<1>3. \E x \in I : \A y \in I : x <= y BY <1>2
<1> QED BY <1>3 DEF Min

LEMMA FirstIs ==
    ASSUME NEW list, Len(list) \in Nat, NEW e, Contains(list, e)
    PROVE  First(list, e) \in 1..Len(list) /\ list[First(list, e)] = e
<1> DEFINE I == {i \in 1..Len(list) : list[i] = e}
<1>1. I \in SUBSET Nat OBVIOUS
<1>2. I # {} BY DEF Contains
<1>3. First(list, e) = Min(I) BY <1>2 DEF First, SelectInSeq
<1>4. Min(I) \in I
  <2> HIDE DEF I
  <2> QED BY <1>1, <1>2, LeastIs
<1> QED BY <1>3, <1>4

\* A sequence is one of its own entries.
LEMMA SequenceOf ==
    ASSUME NEW T, NEW list \in Seq(T)
    PROVE  list \in Seq(Range(list)) /\ Range(list) \subseteq T
<1>1. list \in Seq(Range(list))
  <2>1. DOMAIN list = 1..Len(list) BY LenProperties
  <2>2. \A i \in 1..Len(list) : list[i] \in Range(list) BY <2>1 DEF Range
  <2>3. list = [i \in 1..Len(list) |-> list[i]] BY LenProperties
  <2>4. Len(list) \in Nat BY LenProperties
  <2> QED BY ONLY <2>2, <2>3, <2>4, IsASeq
<1>2. Range(list) \subseteq T BY ElementOfSeq, LenProperties DEF Range
<1> QED BY <1>1, <1>2

LEMMA MakeList ==
    ASSUME NEW T, NEW list \in Seq(T), None \notin T
    PROVE  IsList(list)
BY SequenceOf DEF IsList

LEMMA ListIs ==
    ASSUME NEW list, IsList(list)
    PROVE  /\ list \in Seq(Range(list)) /\ Len(list) \in Nat /\ DOMAIN list = 1..Len(list)
           /\ \A i \in 1..Len(list) : list[i] \in Range(list) /\ list[i] # None
<1>1. list \in Seq(Range(list)) /\ None \notin Range(list) BY DEF IsList
<1> QED BY <1>1, LenProperties, ElementOfSeq

LEMMA AppendedList ==
    ASSUME NEW list, IsList(list), NEW e, e # None
    PROVE  /\ IsList(Append(list, e))
           /\ Len(Append(list, e)) = Len(list) + 1
           /\ Append(list, e)[Len(list) + 1] = e
           /\ \A i \in 1..Len(list) : Append(list, e)[i] = list[i]
<1> DEFINE T == Range(list) \cup {e}
<1>1. list \in Seq(T) /\ e \in T /\ None \notin T
  <2>1. list \in Seq(Range(list)) /\ Range(list) \subseteq T /\ None \notin Range(list)
    BY DEF IsList
  <2> HIDE DEF T
  <2>2. list \in Seq(T) BY <2>1, SeqMonotonic
  <2> QED BY <2>1, <2>2 DEF T
<1> HIDE DEF T
<1>2. /\ Append(list, e) \in Seq(T)
      /\ Len(Append(list, e)) = Len(list) + 1
      /\ Append(list, e)[Len(list) + 1] = e
      /\ \A i \in 1..Len(list) : Append(list, e)[i] = list[i]
  BY <1>1, AppendProperties
<1> QED BY <1>1, <1>2, MakeList

LEMMA ReplacedList ==
    ASSUME NEW list, IsList(list), NEW i \in 1..Len(list), NEW e, e # None
    PROVE  /\ IsList(ReplaceAt(list, i, e))
           /\ Len(ReplaceAt(list, i, e)) = Len(list)
           /\ \A j \in 1..Len(list) : ReplaceAt(list, i, e)[j] = IF j = i THEN e ELSE list[j]
<1> DEFINE T == Range(list) \cup {e}
           t == ReplaceAt(list, i, e)
<1>1. list \in Seq(T) /\ e \in T /\ None \notin T
  <2>1. list \in Seq(Range(list)) /\ Range(list) \subseteq T /\ None \notin Range(list)
    BY DEF IsList
  <2> HIDE DEF T
  <2>2. list \in Seq(T) BY <2>1, SeqMonotonic
  <2> QED BY <2>1, <2>2 DEF T
<1> HIDE DEF T
<1>2. t \in Seq(T) /\ Len(t) = Len(list) /\ \A j \in 1..Len(list) : t[j] = IF j = i THEN e ELSE list[j]
  BY <1>1, ExceptSeq DEF ReplaceAt
<1> QED BY <1>1, <1>2, MakeList

LEMMA RemovedList ==
    ASSUME NEW list, IsList(list), NEW i \in 1..Len(list)
    PROVE  /\ IsList(RemoveAt(list, i))
           /\ Len(RemoveAt(list, i)) = Len(list) - 1
           /\ \A j \in 1..Len(list) - 1 :
                RemoveAt(list, i)[j] = IF j < i THEN list[j] ELSE list[j + 1]
<1>1. list \in Seq(Range(list)) /\ None \notin Range(list) BY DEF IsList
<1>2. /\ RemoveAt(list, i) \in Seq(Range(list))
      /\ Len(RemoveAt(list, i)) = Len(list) - 1
      /\ \A j \in 1..Len(list) - 1 :
           RemoveAt(list, i)[j] = IF j < i THEN list[j] ELSE list[j + 1]
  BY <1>1, RemoveAtIs
<1> QED BY <1>1, <1>2, MakeList

\* The outcome is a conflict, or a list that has the same others as before.
Kept(arr, before, E) ==
    \/ arr = Conflict
    \/ \E list : arr = Arr(list) /\ IsList(list) /\ Others(list, E) = Others(before, E)

LEMMA AppendKeeps ==
    ASSUME NEW E, NEW list, IsList(list), NEW e \in E, e # None
    PROVE  Kept(Arr(Append(list, e)), list, E)
<1>1. list \in Seq(Range(list)) BY DEF IsList
<1>2. Others(Append(list, e), E) = Others(list, E) BY <1>1, OthersAppend
<1> QED BY <1>2, AppendedList DEF Kept

LEMMA PutKeeps ==
    ASSUME NEW E, NEW list, IsList(list), NEW i \in 1..Len(list), list[i] \in E,
           NEW e \in E \cup {None}
    PROVE  Kept(Put(list, i, e), list, E)
<1>1. list \in Seq(Range(list)) /\ Len(list) \in Nat BY ListIs
<1>2. CASE e = None
  <2>1. Others(RemoveAt(list, i), E) = Others(list, E) BY <1>1, OthersRemoveAt
  <2>2. Put(list, i, e) = Arr(RemoveAt(list, i)) BY <1>2 DEF Put
  <2> QED BY ONLY <2>1, <2>2, RemovedList, IsList(list), i \in 1..Len(list) DEF Kept
<1>3. CASE e # None
  <2> DEFINE t == ReplaceAt(list, i, e)
  <2>1. /\ IsList(t) /\ Len(t) = Len(list)
        /\ \A j \in 1..Len(list) : t[j] = IF j = i THEN e ELSE list[j]
    BY <1>3, ReplacedList
  <2>2. Put(list, i, e) = Arr(t) BY <1>3 DEF Put
  <2> HIDE DEF t
  <2>3. t \in Seq(Range(t)) BY <2>1 DEF IsList
  <2>4. \A j \in 1..Len(list) : list[j] = t[j] \/ (list[j] \in E /\ t[j] \in E) BY <1>3, <2>1
  <2>5. Others(t, E) = Others(list, E) BY ONLY <1>1, <2>1, <2>3, <2>4, OthersSame
  <2> QED BY ONLY <2>1, <2>2, <2>5 DEF Kept
<1> QED BY <1>2, <1>3

LEMMA SameKeeps ==
    ASSUME NEW E, NEW list, IsList(list)
    PROVE  Kept(Arr(list), list, E)
BY DEF Kept

\* A pair of entries of the toolkit's touches no other.
LEMMA StepKeeps ==
    ASSUME NEW E, NEW list, IsList(list), NEW path,
           NEW old \in E \cup {None}, NEW new \in E \cup {None}
    PROVE  Kept(Step(Arr(list), old, new, path), list, E)
<1> DEFINE next == Step(Arr(list), old, new, path)
<1>1. Arr(list) # Conflict /\ Arr(list).of = list BY DEF Arr, Conflict
<1>2. Len(list) \in Nat /\ DOMAIN list = 1..Len(list) BY ListIs
<1>3. CASE old = None /\ new = None
  <2>1. next = Arr(list) BY <1>3 DEF Step
  <2> QED BY <2>1, SameKeeps
<1>4. CASE old = None /\ new # None
  <2>1. next \in {Arr(list), Arr(Append(list, new)), Conflict}
    BY <1>1, <1>4 DEF Step, AddIdentified, AddPositional
  <2>2. Kept(Arr(list), list, E) /\ Kept(Arr(Append(list, new)), list, E)
    BY <1>4, SameKeeps, AppendKeeps
  <2> QED BY ONLY <2>1, <2>2 DEF Kept
<1>5. CASE old # None /\ path \in Identity
  <2>1. next = AdvanceIdentified(list, old, new) BY <1>1, <1>5 DEF Step
  <2> DEFINE i == CHOOSE i \in Matches(list, old.id) : TRUE
  <2>2. CASE next = Conflict BY <2>2 DEF Kept
  <2>3. CASE next # Conflict
    <3>1. PICK k \in Matches(list, old.id) :
            Matches(list, old.id) = {k} /\ list[k] \in {old, new}
      BY <2>1, <2>3 DEF AdvanceIdentified
    <3>2. next = Put(list, i, new) BY <2>1, <3>1 DEF AdvanceIdentified
    <3>3. i = k /\ i \in 1..Len(list) BY <1>2, <3>1 DEF Matches
    <3>4. list[i] \in E BY <1>5, <3>1, <3>3, ListIs
    <3> HIDE DEF i
    <3> QED BY <3>2, <3>3, <3>4, PutKeeps
  <2> QED BY <2>2, <2>3
<1>6. CASE old # None /\ path \notin Identity
  <2>1. next = AdvancePositional(list, old, new) BY <1>1, <1>6 DEF Step
  <2>2. CASE old # new /\ Contains(list, old)
    <3>1. next = Put(list, First(list, old), new) BY <2>1, <2>2 DEF AdvancePositional
    <3>2. First(list, old) \in 1..Len(list) /\ list[First(list, old)] \in E
      BY <1>2, <1>6, <2>2, FirstIs
    <3> QED BY <3>1, <3>2, PutKeeps
  <2>3. CASE ~(old # new /\ Contains(list, old))
    <3>1. next \in {Arr(list), Conflict} BY <2>1, <2>3 DEF AdvancePositional
    <3> QED BY <3>1, SameKeeps DEF Kept
  <2> QED BY <2>2, <2>3
<1> QED BY <1>3, <1>4, <1>5, <1>6

LEMMA UpdatedKeeps ==
    ASSUME NEW E, NEW current, IsList(current), NEW path, NEW pairs, Len(pairs) \in Nat,
           \A n \in 1..Len(pairs) : pairs[n][1] \in E \cup {None} /\ pairs[n][2] \in E \cup {None}
    PROVE  Kept(Updated(current, pairs, path), current, E)
<1>1. PICK u : /\ u[0] = Arr(current)
               /\ \A n \in 1..Len(pairs) :
                    u[n] = Step(u[n - 1], pairs[n][1], pairs[n][2], path)
               /\ Updated(current, pairs, path) = u[Len(pairs)]
  BY UpdatedIs
<1> DEFINE Q == {n \in 0..Len(pairs) : Kept(u[n], current, E)}
<1>2. 0 \in Q BY <1>1, SameKeeps
<1>3. \A n \in 0..Len(pairs) : n + 1 \in 0..Len(pairs) /\ n \in Q => n + 1 \in Q
  <2> SUFFICES ASSUME NEW n \in 0..Len(pairs), n + 1 \in 0..Len(pairs), Kept(u[n], current, E)
               PROVE  Kept(u[n + 1], current, E)
    OBVIOUS
  <2>1. n + 1 \in 1..Len(pairs) /\ (n + 1) - 1 = n OBVIOUS
  <2>2. u[n + 1] = Step(u[n], pairs[n + 1][1], pairs[n + 1][2], path) BY <1>1, <2>1
  <2>3. CASE u[n] = Conflict
    <3>1. u[n + 1] = Conflict BY <2>2, <2>3 DEF Step
    <3> QED BY <3>1 DEF Kept
  <2>4. CASE u[n] # Conflict
    <3>1. PICK list : /\ u[n] = Arr(list) /\ IsList(list)
                      /\ Others(list, E) = Others(current, E)
      BY <2>4 DEF Kept
    <3>2. Kept(Step(Arr(list), pairs[n + 1][1], pairs[n + 1][2], path), list, E)
      BY <2>1, <3>1, StepKeeps
    <3> QED BY <2>2, <3>1, <3>2 DEF Kept
  <2> QED BY <2>3, <2>4
<1>4. \A n \in 0..Len(pairs) : n \in Q
  <2> HIDE DEF Q
  <2> QED BY ONLY <1>2, <1>3, Len(pairs) \in Nat, LoopInduction
<1> QED BY <1>1, <1>4

-----------------------------------------------------------------------------
(* The pairs of an array *)

LEMMA PositionalPairsAre ==
    ASSUME NEW owned, IsList(owned), NEW desired, IsList(desired)
    PROVE  LET pairs == PositionalPairs(owned, desired) IN
           /\ Len(pairs) \in Nat
           /\ 1..Len(pairs) = DOMAIN owned \cup DOMAIN desired
           /\ \A n \in 1..Len(pairs) : /\ pairs[n][1] = EntryAt(owned, n)
                                       /\ pairs[n][2] = EntryAt(desired, n)
<1> DEFINE pairs == PositionalPairs(owned, desired)
<1>1. PICK m \in Nat : m = Len(owned) /\ DOMAIN owned = 1..m BY ListIs
<1>2. PICK n \in Nat : n = Len(desired) /\ DOMAIN desired = 1..n BY ListIs
<1>3. PICK k \in Nat : 1..k = 1..m \cup 1..n
  <2>1. CASE m <= n BY <2>1
  <2>2. CASE n < m BY <2>2
  <2> QED BY <2>1, <2>2
<1>4. pairs = [i \in 1..k |-> <<EntryAt(owned, i), EntryAt(desired, i)>>]
  BY ONLY <1>1, <1>2, <1>3 DEF PositionalPairs
<1> HIDE DEF pairs
<1>5. Len(pairs) = k
  <2>1. \A i \in 1..k : pairs[i] \in Range(pairs) BY <1>4 DEF Range
  <2>2. pairs = [i \in 1..k |-> pairs[i]] BY <1>4
  <2>3. pairs \in Seq(Range(pairs)) BY <2>1, <2>2, IsASeq
  <2>4. DOMAIN pairs = 1..k BY <1>4
  <2> QED BY <2>3, <2>4, LenProperties
<1> QED BY <1>1, <1>2, <1>3, <1>4, <1>5 DEF pairs

LEMMA EntryIs ==
    ASSUME NEW list, IsList(list), NEW i
    PROVE  /\ i \in DOMAIN list => EntryAt(list, i) = list[i] /\ EntryAt(list, i) # None
           /\ i \notin DOMAIN list => EntryAt(list, i) = None
           /\ EntryAt(list, i) \in Range(list) \cup {None}
BY ListIs DEF EntryAt

\* A sequence by its entries.
LEMMA SequenceIs ==
    ASSUME NEW s, NEW m \in Nat, DOMAIN s = 1..m, s = [i \in 1..m |-> s[i]]
    PROVE  s \in Seq(Range(s)) /\ Len(s) = m
<1>1. \A i \in 1..m : s[i] \in Range(s) BY DEF Range
<1>2. s \in Seq(Range(s)) BY <1>1, IsASeq
<1> QED BY <1>2, LenProperties

\* What the release has in the place of an owned entry.
LEMMA RenewedIs ==
    ASSUME NEW desired, IsList(desired), NEW old
    PROVE  /\ Renewed(old, desired) \in Range(desired) \cup {None}
           /\ Renewed(old, desired) # None => Renewed(old, desired).id = old.id
           /\ Renewed(old, desired) = None => \A i \in DOMAIN desired : desired[i].id # old.id
<1>1. CASE Identified(desired, old.id)
  <2>1. \E e \in Range(desired) : e.id = old.id BY <1>1 DEF Identified
  <2>2. Renewed(old, desired) \in Range(desired) /\ Renewed(old, desired).id = old.id
    BY <1>1, <2>1 DEF Renewed
  <2>3. None \notin Range(desired) BY DEF IsList
  <2> QED BY <2>2, <2>3
<1>2. CASE ~Identified(desired, old.id)
  <2>1. Renewed(old, desired) = None BY <1>2 DEF Renewed
  <2>2. \A i \in DOMAIN desired : desired[i].id # old.id BY <1>2 DEF Identified, Range
  <2> QED BY <2>1, <2>2 DEF None
<1> QED BY <1>1, <1>2

LEMMA IdentityPairsAre ==
    ASSUME NEW owned, IsList(owned), NEW desired, IsList(desired)
    PROVE  LET pairs == IdentityPairs(owned, desired) IN
           /\ Len(pairs) = Len(owned) + Len(desired)
           /\ \A n \in 1..Len(owned) :
                pairs[n][1] = owned[n] /\ pairs[n][2] = Renewed(owned[n], desired)
           /\ \A n \in 1..Len(desired) :
                /\ pairs[Len(owned) + n][1] = None
                /\ pairs[Len(owned) + n][2] =
                     IF Identified(owned, desired[n].id) THEN None ELSE desired[n]
<1> DEFINE a == [i \in DOMAIN owned |-> <<owned[i], Renewed(owned[i], desired)>>]
           b == [i \in DOMAIN desired |->
                   <<None, IF Identified(owned, desired[i].id) THEN None ELSE desired[i]>>]
<1>1. PICK m \in Nat : m = Len(owned) /\ DOMAIN owned = 1..m BY ListIs
<1>2. PICK n \in Nat : n = Len(desired) /\ DOMAIN desired = 1..n BY ListIs
<1>3. a \in Seq(Range(a)) /\ Len(a) = m
  <2>1. DOMAIN a = 1..m /\ a = [i \in 1..m |-> a[i]] BY <1>1
  <2> HIDE DEF a
  <2> QED BY ONLY <2>1, m \in Nat, SequenceIs
<1>4. b \in Seq(Range(b)) /\ Len(b) = n
  <2>1. DOMAIN b = 1..n /\ b = [i \in 1..n |-> b[i]] BY <1>2
  <2> HIDE DEF b
  <2> QED BY ONLY <2>1, n \in Nat, SequenceIs
<1>5. \A i \in 1..m : a[i] = <<owned[i], Renewed(owned[i], desired)>> BY <1>1
<1>6. \A i \in 1..n :
        b[i] = <<None, IF Identified(owned, desired[i].id) THEN None ELSE desired[i]>>
  BY <1>2
<1>7. IdentityPairs(owned, desired) = a \o b BY DEF IdentityPairs
<1> HIDE DEF a, b
<1>8. /\ Len(a \o b) = m + n
      /\ \A i \in 1..m + n : (a \o b)[i] = IF i <= m THEN a[i] ELSE b[i - m]
  <2> DEFINE T == Range(a) \cup Range(b)
  <2>1. a \in Seq(T) /\ b \in Seq(T)
    <3>1. Range(a) \subseteq T /\ Range(b) \subseteq T OBVIOUS
    <3> HIDE DEF T
    <3> QED BY <1>3, <1>4, <3>1, SeqMonotonic
  <2> HIDE DEF T
  <2> QED BY ONLY <1>3, <1>4, <2>1, ConcatProperties
<1>9. \A i \in 1..m : (a \o b)[i] = a[i]
  <2>1. \A i \in 1..m : i \in 1..m + n /\ i <= m BY ONLY m \in Nat, n \in Nat
  <2> QED BY ONLY <1>8, <2>1
<1>10. \A i \in 1..n : (a \o b)[m + i] = b[i]
  <2>1. \A i \in 1..n : m + i \in 1..m + n /\ ~(m + i <= m) /\ (m + i) - m = i
    BY ONLY m \in Nat, n \in Nat
  <2> QED BY ONLY <1>8, <2>1
<1>11. ASSUME NEW i \in 1..m
       PROVE  (a \o b)[i][1] = owned[i] /\ (a \o b)[i][2] = Renewed(owned[i], desired)
  <2>1. (a \o b)[i] = <<owned[i], Renewed(owned[i], desired)>> BY ONLY <1>5, <1>9, i \in 1..m
  <2> QED BY ONLY <2>1
<1>12. ASSUME NEW i \in 1..n
       PROVE  /\ (a \o b)[m + i][1] = None
              /\ (a \o b)[m + i][2] =
                   IF Identified(owned, desired[i].id) THEN None ELSE desired[i]
  <2>1. (a \o b)[m + i] = <<None, IF Identified(owned, desired[i].id) THEN None ELSE desired[i]>>
    BY ONLY <1>6, <1>10, i \in 1..n
  <2> QED BY ONLY <2>1
<1> QED BY ONLY <1>1, <1>2, <1>7, <1>8, <1>11, <1>12

\* An array that is merged keeps what is neither release's.
LEMMA OwnedArrayKeeps ==
    ASSUME NEW E, NEW current, IsList(current), NEW path,
           NEW owned, IsList(owned), Range(owned) \subseteq E,
           NEW desired, IsList(desired), Range(desired) \subseteq E
    PROVE  Kept(OwnedArray(current, desired, owned, path), current, E)
<1>1. CASE path \notin Identity
  <2> DEFINE pairs == PositionalPairs(owned, desired)
  <2>1. Len(pairs) \in Nat BY PositionalPairsAre
  <2>2. \A n \in 1..Len(pairs) : /\ pairs[n][1] = EntryAt(owned, n)
                                 /\ pairs[n][2] = EntryAt(desired, n)
    BY PositionalPairsAre
  <2>3. OwnedArray(current, desired, owned, path) = Updated(current, pairs, path)
    BY <1>1 DEF OwnedArray
  <2> HIDE DEF pairs
  <2>4. \A n \in 1..Len(pairs) : pairs[n][1] \in E \cup {None} /\ pairs[n][2] \in E \cup {None}
    BY <2>2, EntryIs
  <2> QED BY <2>1, <2>3, <2>4, UpdatedKeeps
<1>2. CASE path \in Identity
  <2> DEFINE pairs == IdentityPairs(owned, desired)
  <2>1. PICK m \in Nat : m = Len(owned) BY ListIs
  <2>2. PICK k \in Nat : k = Len(desired) BY ListIs
  <2>3. Len(pairs) = m + k BY <2>1, <2>2, IdentityPairsAre
  <2>4. OwnedArray(current, desired, owned, path) \in {Updated(current, pairs, path), Conflict}
    BY <1>2 DEF OwnedArray
  <2>5. ASSUME NEW n \in 1..m + k
        PROVE  pairs[n][1] \in E \cup {None} /\ pairs[n][2] \in E \cup {None}
    <3>1. CASE n <= m
      <4>1. n \in 1..Len(owned) BY <2>1, <3>1
      <4>2. pairs[n][1] = owned[n] /\ pairs[n][2] = Renewed(owned[n], desired)
        BY <4>1, IdentityPairsAre
      <4>3. owned[n] \in E BY <4>1, ListIs
      <4> HIDE DEF pairs
      <4> QED BY <4>2, <4>3, RenewedIs
    <3>2. CASE ~(n <= m)
      <4>1. PICK i \in 1..Len(desired) : Len(owned) + i = n
        <5>1. n - m \in 1..k /\ m + (n - m) = n BY <3>2
        <5> QED BY <2>1, <2>2, <5>1
      <4>2. /\ pairs[Len(owned) + i][1] = None
            /\ pairs[Len(owned) + i][2] =
                 IF Identified(owned, desired[i].id) THEN None ELSE desired[i]
        BY IdentityPairsAre
      <4>3. desired[i] \in E BY ListIs
      <4> HIDE DEF pairs
      <4> QED BY <4>1, <4>2, <4>3
    <3> QED BY <3>1, <3>2
  <2> HIDE DEF pairs
  <2>6. Kept(Updated(current, pairs, path), current, E) BY <2>3, <2>5, UpdatedKeeps
  <2> QED BY <2>4, <2>6 DEF Kept
<1> QED BY <1>1, <1>2

LEMMA AddedPairsAre ==
    ASSUME NEW desired, IsList(desired)
    PROVE  LET pairs == [i \in DOMAIN desired |-> <<None, desired[i]>>] IN
           /\ Len(pairs) = Len(desired)
           /\ \A n \in 1..Len(desired) : pairs[n][1] = None /\ pairs[n][2] = desired[n]
<1> DEFINE pairs == [i \in DOMAIN desired |-> <<None, desired[i]>>]
<1>1. PICK n \in Nat : n = Len(desired) /\ DOMAIN desired = 1..n BY ListIs
<1>2. DOMAIN pairs = 1..n /\ pairs = [i \in 1..n |-> pairs[i]] BY <1>1
<1>3. \A i \in 1..n : pairs[i] = <<None, desired[i]>> BY <1>1
<1> HIDE DEF pairs
<1>4. Len(pairs) = n BY ONLY <1>2, n \in Nat, SequenceIs
<1> QED BY <1>1, <1>3, <1>4 DEF pairs

LEMMA InstallArrayKeeps ==
    ASSUME NEW E, NEW current, IsList(current), NEW path,
           NEW desired, IsList(desired), Range(desired) \subseteq E
    PROVE  Kept(InstallArray(current, desired, path), current, E)
<1> DEFINE pairs == [i \in DOMAIN desired |-> <<None, desired[i]>>]
<1>1. InstallArray(current, desired, path) \in {Updated(current, pairs, path), Conflict}
  BY DEF InstallArray
<1>2. Len(pairs) = Len(desired) /\ Len(desired) \in Nat BY AddedPairsAre, ListIs
<1>3. \A n \in 1..Len(desired) : pairs[n][1] = None /\ pairs[n][2] = desired[n] BY AddedPairsAre
<1> HIDE DEF pairs
<1>4. \A n \in 1..Len(pairs) : pairs[n][1] \in E \cup {None} /\ pairs[n][2] \in E \cup {None}
  BY <1>2, <1>3, ListIs
<1>5. Kept(Updated(current, pairs, path), current, E) BY <1>2, <1>4, UpdatedKeeps
<1> QED BY <1>1, <1>5 DEF Kept

-----------------------------------------------------------------------------
(* Arrays whose entries have an identity *)

\* The entry is there, and no other has its identity.
Sole(list, e) ==
    /\ \E i \in 1..Len(list) : list[i] = e
    /\ \A i, j \in 1..Len(list) : list[i].id = e.id /\ list[j].id = e.id => i = j

Absent(list, id) == \A i \in 1..Len(list) : list[i].id # id

\* What a pair has made of a list.
Done(list, old, new) ==
    /\ new # None => Sole(list, new)
    /\ old # None /\ new = None => Absent(list, old.id)

LEMMA SoleMatch ==
    ASSUME NEW list, IsList(list), NEW e, Sole(list, e)
    PROVE  \E i \in 1..Len(list) : list[i] = e /\ Matches(list, e.id) = {i}
<1>1. DOMAIN list = 1..Len(list) BY ListIs
<1>2. PICK i \in 1..Len(list) : list[i] = e BY DEF Sole
<1>3. Matches(list, e.id) = {i} BY <1>1, <1>2 DEF Matches, Sole
<1> QED BY <1>2, <1>3

LEMMA MatchSole ==
    ASSUME NEW list, IsList(list), NEW e, NEW i \in 1..Len(list), list[i] = e,
           Matches(list, e.id) = {i}
    PROVE  Sole(list, e)
<1>1. DOMAIN list = 1..Len(list) BY ListIs
<1> QED BY <1>1 DEF Matches, Sole

\* The entry of a pair is there once after its step, or is gone.
LEMMA StepDone ==
    ASSUME NEW list, IsList(list), NEW path \in Identity, NEW old, NEW new,
           old # None /\ new # None => new.id = old.id,
           Step(Arr(list), old, new, path) # Conflict
    PROVE  \E next : Step(Arr(list), old, new, path) = Arr(next) /\ IsList(next)
                     /\ Done(next, old, new)
<1> DEFINE arr == Step(Arr(list), old, new, path)
<1>1. Arr(list) # Conflict /\ Arr(list).of = list BY DEF Arr, Conflict
<1>2. Len(list) \in Nat /\ DOMAIN list = 1..Len(list) BY ListIs
<1>3. CASE old = None /\ new = None
  <2>1. arr = Arr(list) BY <1>3 DEF Step
  <2> QED BY <1>3, <2>1 DEF Done
<1>4. CASE old = None /\ new # None
  <2>1. arr = AddIdentified(list, new) BY <1>1, <1>4 DEF Step
  <2>2. CASE Matches(list, new.id) = {}
    <3> DEFINE t == Append(list, new)
    <3>1. arr = Arr(t) BY <2>1, <2>2 DEF AddIdentified
    <3>2. /\ IsList(t) /\ Len(t) = Len(list) + 1 /\ t[Len(list) + 1] = new
          /\ \A i \in 1..Len(list) : t[i] = list[i]
      BY <1>4, AppendedList
    <3> HIDE DEF t
    <3>3. \A i \in 1..Len(list) : t[i].id # new.id BY <1>2, <2>2, <3>2 DEF Matches
    <3>4. Sole(t, new)
      <4>1. Len(list) + 1 \in 1..Len(t) BY <1>2, <3>2
      <4>2. \A i \in 1..Len(t) : t[i].id = new.id => i = Len(list) + 1 BY <1>2, <3>2, <3>3
      <4> QED BY <3>2, <4>1, <4>2 DEF Sole
    <3> QED BY <1>4, <3>1, <3>2, <3>4 DEF Done
  <2>3. CASE Matches(list, new.id) # {}
    <3>1. PICK i \in Matches(list, new.id) : Matches(list, new.id) = {i} /\ list[i] = new
      BY <2>1, <2>3 DEF AddIdentified
    <3>2. arr = Arr(list) BY <2>1, <2>3, <3>1 DEF AddIdentified
    <3>3. i \in 1..Len(list) BY <1>2, <3>1 DEF Matches
    <3>4. Sole(list, new) BY <3>1, <3>3, MatchSole
    <3> QED BY <1>4, <3>2, <3>4 DEF Done
  <2> QED BY <2>2, <2>3
<1>5. CASE old # None
  <2>1. arr = AdvanceIdentified(list, old, new) BY <1>1, <1>5 DEF Step
  <2>2. PICK i \in Matches(list, old.id) :
          Matches(list, old.id) = {i} /\ list[i] \in {old, new}
    BY <2>1 DEF AdvanceIdentified
  <2>3. i = CHOOSE k \in Matches(list, old.id) : TRUE BY <2>2
  <2>4. arr = Put(list, i, new) BY <2>1, <2>2, <2>3 DEF AdvanceIdentified
  <2>5. i \in 1..Len(list) BY <1>2, <2>2 DEF Matches
  <2>6. \A j \in 1..Len(list) : list[j].id = old.id => j = i BY <1>2, <2>2 DEF Matches
  <2>7. CASE new = None
    <3> DEFINE t == RemoveAt(list, i)
    <3>1. arr = Arr(t) BY <2>4, <2>7 DEF Put
    <3>2. /\ IsList(t) /\ Len(t) = Len(list) - 1
          /\ \A j \in 1..Len(list) - 1 : t[j] = IF j < i THEN list[j] ELSE list[j + 1]
      BY <2>5, RemovedList
    <3> HIDE DEF t
    <3>3. ASSUME NEW j \in 1..Len(t) PROVE t[j].id # old.id
      <4>1. j \in 1..Len(list) - 1 BY <3>2
      <4>2. CASE j < i
        <5>1. j \in 1..Len(list) /\ j # i BY <1>2, <2>5, <4>1, <4>2
        <5> QED BY <2>6, <3>2, <4>1, <4>2, <5>1
      <4>3. CASE ~(j < i)
        <5>1. j + 1 \in 1..Len(list) /\ j + 1 # i BY <1>2, <2>5, <4>1, <4>3
        <5> QED BY <2>6, <3>2, <4>1, <4>3, <5>1
      <4> QED BY <4>2, <4>3
    <3> QED BY <2>7, <3>1, <3>2, <3>3 DEF Done, Absent
  <2>8. CASE new # None
    <3> DEFINE t == ReplaceAt(list, i, new)
    <3>1. arr = Arr(t) BY <2>4, <2>8 DEF Put
    <3>2. /\ IsList(t) /\ Len(t) = Len(list)
          /\ \A j \in 1..Len(list) : t[j] = IF j = i THEN new ELSE list[j]
      BY <2>5, <2>8, ReplacedList
    <3> HIDE DEF t
    <3>3. new.id = old.id BY <1>5, <2>8
    <3>4. \A j \in 1..Len(t) : t[j].id = new.id => j = i BY <2>6, <3>2, <3>3
    <3>5. Sole(t, new) BY <2>5, <3>2, <3>4 DEF Sole
    <3> QED BY <2>8, <3>1, <3>2, <3>5 DEF Done
  <2> QED BY <2>7, <2>8
<1> QED BY <1>3, <1>4, <1>5

\* A pair's step leaves the other identities alone.
LEMMA StepElsewhere ==
    ASSUME NEW list, IsList(list), NEW path \in Identity, NEW old, NEW new,
           old # None /\ new # None => new.id = old.id,
           NEW next, IsList(next), Step(Arr(list), old, new, path) = Arr(next),
           NEW id, old # None => old.id # id, new # None => new.id # id
    PROVE  /\ Absent(list, id) => Absent(next, id)
           /\ \A e : e.id = id /\ Sole(list, e) => Sole(next, e)
<1> DEFINE arr == Step(Arr(list), old, new, path)
<1>1. /\ Arr(list) # Conflict /\ Arr(list).of = list
      /\ \A s, t : Arr(s) = Arr(t) => s = t
      /\ Arr(next) # Conflict
  BY DEF Arr, Conflict
<1>2. Len(list) \in Nat /\ DOMAIN list = 1..Len(list) BY ListIs
<1>3. CASE next = list BY <1>3
<1>4. CASE old = None /\ new = None
  <2>1. arr = Arr(list) BY <1>4 DEF Step
  <2> QED BY <1>1, <1>3, <2>1
<1>5. CASE old = None /\ new # None
  <2>1. arr = AddIdentified(list, new) BY <1>1, <1>5 DEF Step
  <2>2. arr = Arr(list) \/ arr = Arr(Append(list, new)) BY <1>1, <2>1 DEF AddIdentified
  <2>3. CASE next = Append(list, new)
    <3>1. /\ Len(next) = Len(list) + 1 /\ next[Len(list) + 1].id # id
          /\ \A i \in 1..Len(list) : next[i] = list[i]
      BY <1>5, <2>3, AppendedList
    <3>2. \A i \in 1..Len(next) : next[i].id = id => i \in 1..Len(list) BY <1>2, <3>1
    <3>3. \A i \in 1..Len(list) : i \in 1..Len(next) BY <1>2, <3>1
    <3>4. Absent(list, id) => Absent(next, id) BY <3>1, <3>2 DEF Absent
    <3>5. ASSUME NEW e, e.id = id, Sole(list, e) PROVE Sole(next, e)
      BY <3>1, <3>2, <3>3, <3>5 DEF Sole
    <3> QED BY <3>4, <3>5
  <2> QED BY <1>1, <1>3, <2>2, <2>3
<1>6. CASE old # None
  <2>1. arr = AdvanceIdentified(list, old, new) BY <1>1, <1>6 DEF Step
  <2>2. PICK i \in Matches(list, old.id) :
          Matches(list, old.id) = {i} /\ list[i] \in {old, new}
    BY <1>1, <2>1 DEF AdvanceIdentified
  <2>3. i = CHOOSE k \in Matches(list, old.id) : TRUE BY <2>2
  <2>4. arr = Put(list, i, new) BY <2>1, <2>2, <2>3 DEF AdvanceIdentified
  <2>5. i \in 1..Len(list) /\ list[i].id # id BY <1>2, <1>6, <2>2 DEF Matches
  <2>6. CASE new = None
    <3>1. next = RemoveAt(list, i) BY <1>1, <2>4, <2>6 DEF Put
    <3>2. /\ Len(next) = Len(list) - 1
          /\ \A j \in 1..Len(list) - 1 : next[j] = IF j < i THEN list[j] ELSE list[j + 1]
      BY <2>5, <3>1, RemovedList
    <3>3. ASSUME NEW j \in 1..Len(next)
          PROVE  IF j < i THEN j \in 1..Len(list) /\ next[j] = list[j]
                 ELSE j + 1 \in 1..Len(list) /\ next[j] = list[j + 1]
      BY <1>2, <2>5, <3>2
    <3>4. Absent(list, id) => Absent(next, id) BY <3>3 DEF Absent
    <3>5. ASSUME NEW e, e.id = id, Sole(list, e) PROVE Sole(next, e)
      <4>1. PICK k \in 1..Len(list) : list[k] = e BY <3>5 DEF Sole
      <4>2. k # i BY <2>5, <3>5, <4>1
      <4>3. \E j \in 1..Len(next) : next[j] = e
        <5>1. CASE k < i
          <6>1. k \in 1..Len(list) - 1 BY <1>2, <2>5, <5>1
          <6> QED BY <3>2, <4>1, <5>1, <6>1
        <5>2. CASE ~(k < i)
          <6>1. k - 1 \in 1..Len(list) - 1 /\ ~(k - 1 < i) /\ (k - 1) + 1 = k
            BY <1>2, <2>5, <4>2, <5>2
          <6> QED BY <3>2, <4>1, <6>1
        <5> QED BY <5>1, <5>2
      <4>4. ASSUME NEW j \in 1..Len(next), NEW m \in 1..Len(next),
                   next[j].id = e.id, next[m].id = e.id
            PROVE  j = m
        <5> DEFINE from(x) == IF x < i THEN x ELSE x + 1
        <5>1. \A x \in 1..Len(next) : from(x) \in 1..Len(list) /\ next[x] = list[from(x)]
          BY <3>3
        <5>2. from(j) \in 1..Len(list) /\ list[from(j)].id = e.id BY <4>4, <5>1
        <5>3. from(m) \in 1..Len(list) /\ list[from(m)].id = e.id BY <4>4, <5>1
        <5>4. from(j) = from(m)
          <6> HIDE DEF from
          <6> QED BY <3>5, <5>2, <5>3 DEF Sole
        <5>5. j \in Nat /\ m \in Nat OBVIOUS
        <5> QED BY ONLY <2>5, <5>4, <5>5
      <4> QED BY <4>3, <4>4 DEF Sole
    <3> QED BY <3>4, <3>5
  <2>7. CASE new # None
    <3>1. next = ReplaceAt(list, i, new) BY <1>1, <2>4, <2>7 DEF Put
    <3>2. /\ Len(next) = Len(list)
          /\ \A j \in 1..Len(list) : next[j] = IF j = i THEN new ELSE list[j]
      BY <2>5, <2>7, <3>1, ReplacedList
    <3>3. \A j \in 1..Len(list) : next[j].id = id => j # i /\ next[j] = list[j] BY <2>7, <3>2
    <3>4. Absent(list, id) => Absent(next, id) BY <3>2, <3>3 DEF Absent
    <3>5. ASSUME NEW e, e.id = id, Sole(list, e) PROVE Sole(next, e)
      <4>1. PICK k \in 1..Len(list) : list[k] = e BY <3>5 DEF Sole
      <4>2. k # i BY <2>5, <3>5, <4>1
      <4>3. next[k] = e BY <3>2, <4>1, <4>2
      <4> QED BY <3>2, <3>3, <3>5, <4>3 DEF Sole
    <3> QED BY <3>4, <3>5
  <2> QED BY <2>6, <2>7
<1> QED BY <1>4, <1>5, <1>6

\* The identity a pair is about.
IdOf(old, new) == IF old # None THEN old.id ELSE new.id

\* After a loop over pairs of different identities each is as its pair has it.
LEMMA UpdatedDone ==
    ASSUME NEW current, IsList(current), NEW path \in Identity, NEW pairs, Len(pairs) \in Nat,
           \A n \in 1..Len(pairs) :
             pairs[n][1] # None /\ pairs[n][2] # None => pairs[n][2].id = pairs[n][1].id,
           \A m, n \in 1..Len(pairs) :
             /\ ~(pairs[m][1] = None /\ pairs[m][2] = None)
             /\ ~(pairs[n][1] = None /\ pairs[n][2] = None)
             /\ IdOf(pairs[m][1], pairs[m][2]) = IdOf(pairs[n][1], pairs[n][2])
             => m = n,
           Updated(current, pairs, path) # Conflict
    PROVE  \E list : /\ Updated(current, pairs, path) = Arr(list) /\ IsList(list)
                     /\ \A n \in 1..Len(pairs) : Done(list, pairs[n][1], pairs[n][2])
<1>1. PICK u : /\ u[0] = Arr(current)
               /\ \A n \in 1..Len(pairs) :
                    u[n] = Step(u[n - 1], pairs[n][1], pairs[n][2], path)
               /\ Updated(current, pairs, path) = u[Len(pairs)]
  BY UpdatedIs
<1> DEFINE Holds(n) == \E list : /\ u[n] = Arr(list) /\ IsList(list)
                                 /\ \A m \in 1..n : Done(list, pairs[m][1], pairs[m][2])
           Q == {n \in 0..Len(pairs) : u[n] = Conflict \/ Holds(n)}
<1>2. 0 \in Q
  <2>1. Holds(0)
    <3>1. \A m \in 1..0 : FALSE OBVIOUS
    <3> QED BY <1>1, <3>1
  <2> QED BY <2>1
<1>3. \A n \in 0..Len(pairs) : n + 1 \in 0..Len(pairs) /\ n \in Q => n + 1 \in Q
  <2> SUFFICES ASSUME NEW n \in 0..Len(pairs), n + 1 \in 0..Len(pairs), n \in Q,
                      u[n + 1] # Conflict
               PROVE  Holds(n + 1)
    OBVIOUS
  <2>1. n + 1 \in 1..Len(pairs) /\ (n + 1) - 1 = n OBVIOUS
  <2> DEFINE old == pairs[n + 1][1]
             new == pairs[n + 1][2]
  <2>2. u[n + 1] = Step(u[n], old, new, path) BY <1>1, <2>1
  <2>3. u[n] # Conflict BY <2>2 DEF Step
  <2>4. PICK list : /\ u[n] = Arr(list) /\ IsList(list)
                    /\ \A m \in 1..n : Done(list, pairs[m][1], pairs[m][2])
    BY <2>3
  <2>5. old # None /\ new # None => new.id = old.id BY <2>1
  <2> HIDE DEF old, new
  <2>6. PICK next : u[n + 1] = Arr(next) /\ IsList(next) /\ Done(next, old, new)
    BY <2>2, <2>4, <2>5, StepDone
  <2>7. ASSUME NEW m \in 1..n PROVE Done(next, pairs[m][1], pairs[m][2])
    <3>1. Done(list, pairs[m][1], pairs[m][2]) BY <2>4
    <3>2. m \in 1..Len(pairs) /\ m # n + 1 BY <2>1
    <3>3. CASE old = None /\ new = None
      <4>1. Arr(list) = Arr(next) BY <2>2, <2>4, <2>6, <3>3 DEF Step
      <4> QED BY <3>1, <4>1 DEF Arr
    <3>4. CASE ~(old = None /\ new = None)
      <4>1. CASE pairs[m][1] = None /\ pairs[m][2] = None BY <4>1 DEF Done
      <4>2. CASE ~(pairs[m][1] = None /\ pairs[m][2] = None)
        <5> DEFINE id == IdOf(pairs[m][1], pairs[m][2])
        <5>1. id # IdOf(old, new) BY <2>1, <3>2, <3>4, <4>2 DEF old, new
        <5>2. (old # None => old.id # id) /\ (new # None => new.id # id)
          BY <2>5, <5>1 DEF IdOf
        <5>3. pairs[m][1] # None /\ pairs[m][2] # None => pairs[m][2].id = pairs[m][1].id
          BY <3>2
        <5>4. /\ pairs[m][2] # None => pairs[m][2].id = id
              /\ pairs[m][1] # None => pairs[m][1].id = id
          BY <5>3 DEF IdOf
        <5> HIDE DEF id
        <5>5. /\ Absent(list, id) => Absent(next, id)
              /\ \A e : e.id = id /\ Sole(list, e) => Sole(next, e)
          BY <2>2, <2>4, <2>5, <2>6, <5>2, StepElsewhere
        <5> QED BY <3>1, <5>4, <5>5 DEF Done
      <4> QED BY <4>1, <4>2
    <3> QED BY <3>3, <3>4
  <2>8. \A m \in 1..n + 1 : Done(next, pairs[m][1], pairs[m][2])
    <3>1. \A m \in 1..n + 1 : m \in 1..n \/ m = n + 1 OBVIOUS
    <3> QED BY <2>6, <2>7, <3>1 DEF old, new
  <2> QED BY <2>6, <2>8
<1>4. \A n \in 0..Len(pairs) : n \in Q
  <2> HIDE DEF Q
  <2> QED BY ONLY <1>2, <1>3, Len(pairs) \in Nat, LoopInduction
<1>5. Holds(Len(pairs)) BY <1>1, <1>4
<1> QED BY <1>1, <1>5

\* An array that is merged by identities has the release's entries once each, and
\* none that only the release before shipped.
LEMMA OwnedIdentityIs ==
    ASSUME NEW current, IsList(current), NEW path \in Identity,
           NEW owned, IsList(owned), NEW desired, IsList(desired),
           OwnedArray(current, desired, owned, path) # Conflict
    PROVE  \E list : /\ OwnedArray(current, desired, owned, path) = Arr(list) /\ IsList(list)
                     /\ \A n \in 1..Len(desired) : Sole(list, desired[n])
                     /\ \A n \in 1..Len(owned) :
                          ~Identified(desired, owned[n].id) => Absent(list, owned[n].id)
<1> DEFINE pairs == IdentityPairs(owned, desired)
<1>1. Wellformed(owned) /\ Wellformed(desired) BY DEF OwnedArray
<1>2. OwnedArray(current, desired, owned, path) = Updated(current, pairs, path)
  BY <1>1 DEF OwnedArray
<1>3. PICK a \in Nat : a = Len(owned) /\ DOMAIN owned = 1..a BY ListIs
<1>4. PICK b \in Nat : b = Len(desired) /\ DOMAIN desired = 1..b BY ListIs
<1>5. Len(pairs) = a + b
  <2>1. Len(pairs) = Len(owned) + Len(desired) BY IdentityPairsAre
  <2> HIDE DEF pairs
  <2> QED BY <1>3, <1>4, <2>1
<1>6. \A n \in 1..a : pairs[n][1] = owned[n] /\ pairs[n][2] = Renewed(owned[n], desired)
  BY <1>3, IdentityPairsAre
<1>7. \A n \in 1..b : /\ pairs[a + n][1] = None
                      /\ pairs[a + n][2] =
                           IF Identified(owned, desired[n].id) THEN None ELSE desired[n]
  <2>1. \A n \in 1..Len(desired) :
          /\ pairs[Len(owned) + n][1] = None
          /\ pairs[Len(owned) + n][2] =
               IF Identified(owned, desired[n].id) THEN None ELSE desired[n]
    BY IdentityPairsAre
  <2> HIDE DEF pairs
  <2> QED BY <1>3, <1>4, <2>1
<1> HIDE DEF pairs
<1>8. \A n \in 1..a : owned[n] # None BY <1>3, ListIs
<1>9. \A n \in 1..b : desired[n] # None BY <1>4, ListIs
<1>10. \A n \in 1..a + b : n \in 1..a \/ (n - a \in 1..b /\ n = a + (n - a)) OBVIOUS
<1>11. \A n \in 1..a + b :
         pairs[n][1] # None /\ pairs[n][2] # None => pairs[n][2].id = pairs[n][1].id
  <2>1. \A n \in 1..a : pairs[n][2] # None => pairs[n][2].id = pairs[n][1].id
    BY ONLY <1>6, RenewedIs, IsList(desired)
  <2>2. \A n \in 1..b : pairs[a + n][1] = None BY <1>7
  <2> QED BY ONLY <1>10, <2>1, <2>2
<1>12. ASSUME NEW n \in 1..a + b, ~(pairs[n][1] = None /\ pairs[n][2] = None)
       PROVE  \/ n \in 1..a /\ IdOf(pairs[n][1], pairs[n][2]) = owned[n].id
              \/ \E k \in 1..b : /\ n = a + k /\ IdOf(pairs[n][1], pairs[n][2]) = desired[k].id
                                 /\ ~Identified(owned, desired[k].id)
  <2>1. CASE n \in 1..a BY <1>6, <1>8, <2>1 DEF IdOf
  <2>2. CASE n \notin 1..a
    <3>1. PICK k \in 1..b : n = a + k BY <1>10, <2>2
    <3>2. pairs[n][1] = None BY <1>7, <3>1
    <3>3. ~Identified(owned, desired[k].id) /\ pairs[n][2] = desired[k] BY <1>7, <1>12, <3>1, <3>2
    <3> QED BY <3>1, <3>2, <3>3 DEF IdOf
  <2> QED BY <2>1, <2>2
<1>13. \A n \in 1..a, k \in 1..b : ~Identified(owned, desired[k].id) => owned[n].id # desired[k].id
  BY <1>3 DEF Identified, Range
<1>14. \A m, n \in 1..a : owned[m].id = owned[n].id => m = n BY <1>1, <1>3 DEF Wellformed
<1>15. \A m, n \in 1..b : desired[m].id = desired[n].id => m = n BY <1>1, <1>4 DEF Wellformed
<1>16. ASSUME NEW m \in 1..a + b, NEW n \in 1..a + b,
              ~(pairs[m][1] = None /\ pairs[m][2] = None),
              ~(pairs[n][1] = None /\ pairs[n][2] = None),
              IdOf(pairs[m][1], pairs[m][2]) = IdOf(pairs[n][1], pairs[n][2])
       PROVE  m = n
  <2>1. \/ m \in 1..a /\ IdOf(pairs[m][1], pairs[m][2]) = owned[m].id
        \/ \E k \in 1..b : /\ m = a + k /\ IdOf(pairs[m][1], pairs[m][2]) = desired[k].id
                           /\ ~Identified(owned, desired[k].id)
    BY <1>12, <1>16
  <2>2. \/ n \in 1..a /\ IdOf(pairs[n][1], pairs[n][2]) = owned[n].id
        \/ \E k \in 1..b : /\ n = a + k /\ IdOf(pairs[n][1], pairs[n][2]) = desired[k].id
                           /\ ~Identified(owned, desired[k].id)
    BY <1>12, <1>16
  <2> QED BY ONLY <1>13, <1>14, <1>15, <1>16, <2>1, <2>2
<1>17. PICK list : /\ Updated(current, pairs, path) = Arr(list) /\ IsList(list)
                   /\ \A n \in 1..a + b : Done(list, pairs[n][1], pairs[n][2])
  <2>1. Len(pairs) \in Nat BY <1>5
  <2>2. Updated(current, pairs, path) # Conflict BY <1>2
  <2> QED BY ONLY <1>5, <1>11, <1>16, <2>1, <2>2, UpdatedDone, IsList(current), path \in Identity
<1>18. ASSUME NEW n \in 1..a, ~Identified(desired, owned[n].id) PROVE Absent(list, owned[n].id)
  <2>1. n \in 1..a + b OBVIOUS
  <2>2. Renewed(owned[n], desired) = None BY <1>18 DEF Renewed
  <2> QED BY <1>6, <1>8, <1>17, <2>1, <2>2 DEF Done
<1>19. ASSUME NEW n \in 1..b PROVE Sole(list, desired[n])
  <2>1. CASE Identified(owned, desired[n].id)
    <3>1. PICK k \in 1..a : owned[k].id = desired[n].id BY <1>3, <2>1 DEF Identified, Range
    <3>2. Renewed(owned[k], desired) # None BY <1>4, <3>1, RenewedIs
    <3>3. PICK j \in 1..b : Renewed(owned[k], desired) = desired[j]
      BY <1>4, <3>2, RenewedIs DEF Range
    <3>4. desired[j].id = owned[k].id BY <3>2, <3>3, RenewedIs
    <3>5. j = n BY <1>15, <3>1, <3>4
    <3>6. k \in 1..a + b /\ pairs[k][2] = desired[n] BY <1>6, <3>3, <3>5
    <3> QED BY <1>9, <1>17, <3>6 DEF Done
  <2>2. CASE ~Identified(owned, desired[n].id)
    <3>1. a + n \in 1..a + b /\ pairs[a + n][2] = desired[n] BY <1>7, <2>2
    <3> QED BY <1>9, <1>17, <3>1 DEF Done
  <2> QED BY <2>1, <2>2
<1> QED BY <1>2, <1>3, <1>4, <1>17, <1>18, <1>19

LEMMA InstallIdentityIs ==
    ASSUME NEW current, IsList(current), NEW path \in Identity,
           NEW desired, IsList(desired), Wellformed(desired),
           InstallArray(current, desired, path) # Conflict
    PROVE  \E list : /\ InstallArray(current, desired, path) = Arr(list) /\ IsList(list)
                     /\ \A n \in 1..Len(desired) : Sole(list, desired[n])
<1> DEFINE pairs == [i \in DOMAIN desired |-> <<None, desired[i]>>]
<1>1. InstallArray(current, desired, path) = Updated(current, pairs, path) BY DEF InstallArray
<1>2. Len(pairs) = Len(desired) /\ Len(desired) \in Nat /\ DOMAIN desired = 1..Len(desired)
  BY AddedPairsAre, ListIs
<1>3. \A n \in 1..Len(desired) : pairs[n][1] = None /\ pairs[n][2] = desired[n] BY AddedPairsAre
<1> HIDE DEF pairs
<1>4. \A n \in 1..Len(desired) : desired[n] # None BY ListIs
<1>5. \A m, n \in 1..Len(desired) : desired[m].id = desired[n].id => m = n
  BY <1>2 DEF Wellformed
<1>6. \A n \in 1..Len(pairs) :
        pairs[n][1] # None /\ pairs[n][2] # None => pairs[n][2].id = pairs[n][1].id
  BY <1>2, <1>3
<1>7. \A m, n \in 1..Len(pairs) :
        /\ ~(pairs[m][1] = None /\ pairs[m][2] = None)
        /\ ~(pairs[n][1] = None /\ pairs[n][2] = None)
        /\ IdOf(pairs[m][1], pairs[m][2]) = IdOf(pairs[n][1], pairs[n][2])
        => m = n
  BY <1>2, <1>3, <1>5 DEF IdOf
<1>8. PICK list : /\ Updated(current, pairs, path) = Arr(list) /\ IsList(list)
                  /\ \A n \in 1..Len(pairs) : Done(list, pairs[n][1], pairs[n][2])
  BY <1>1, <1>2, <1>6, <1>7, UpdatedDone
<1> QED BY <1>1, <1>2, <1>3, <1>4, <1>8 DEF Done

\* An array that has the release's entries once each is what merging the release
\* into it once more makes of it.
LEMMA IdentityStable ==
    ASSUME NEW list, IsList(list), NEW path \in Identity,
           NEW desired, IsList(desired), Wellformed(desired),
           \A n \in 1..Len(desired) : Sole(list, desired[n])
    PROVE  OwnedArray(list, desired, desired, path) = Arr(list)
<1> DEFINE pairs == IdentityPairs(desired, desired)
<1>1. OwnedArray(list, desired, desired, path) = Updated(list, pairs, path) BY DEF OwnedArray
<1>2. PICK b \in Nat : b = Len(desired) /\ DOMAIN desired = 1..b BY ListIs
<1>3. Len(pairs) = b + b BY <1>2, IdentityPairsAre
<1>4. \A n \in 1..b : pairs[n][1] = desired[n] /\ pairs[n][2] = Renewed(desired[n], desired)
  BY <1>2, IdentityPairsAre
<1>5. \A n \in 1..b : pairs[b + n][1] = None /\ pairs[b + n][2] = None
  <2>1. \A n \in 1..b : /\ pairs[b + n][1] = None
                        /\ pairs[b + n][2] =
                             IF Identified(desired, desired[n].id) THEN None ELSE desired[n]
    BY <1>2, IdentityPairsAre
  <2>2. \A n \in 1..b : Identified(desired, desired[n].id) BY <1>2 DEF Identified, Range
  <2> QED BY <2>1, <2>2
<1> HIDE DEF pairs
<1>6. PICK u : /\ u[0] = Arr(list)
               /\ \A n \in 1..Len(pairs) :
                    u[n] = Step(u[n - 1], pairs[n][1], pairs[n][2], path)
               /\ Updated(list, pairs, path) = u[Len(pairs)]
  <2>1. Len(pairs) \in Nat BY <1>3
  <2> QED BY <2>1, UpdatedIs
<1>7. ASSUME NEW n \in 1..b PROVE Step(Arr(list), desired[n], desired[n], path) = Arr(list)
  <2>1. desired[n] # None BY <1>2, ListIs
  <2>2. PICK i \in 1..Len(list) : list[i] = desired[n] /\ Matches(list, desired[n].id) = {i}
    BY <1>2, SoleMatch
  <2>3. Step(Arr(list), desired[n], desired[n], path) =
          AdvanceIdentified(list, desired[n], desired[n])
    BY <2>1 DEF Step, Arr, Conflict
  <2>4. AdvanceIdentified(list, desired[n], desired[n]) = Put(list, i, desired[n])
    <3>1. i = CHOOSE k \in Matches(list, desired[n].id) : TRUE BY <2>2
    <3> QED BY <2>2, <3>1 DEF AdvanceIdentified
  <2>5. ReplaceAt(list, i, desired[n]) = list
    <3>1. /\ IsList(ReplaceAt(list, i, desired[n]))
          /\ Len(ReplaceAt(list, i, desired[n])) = Len(list)
          /\ \A j \in 1..Len(list) :
               ReplaceAt(list, i, desired[n])[j] = IF j = i THEN desired[n] ELSE list[j]
      BY <2>1, ReplacedList
    <3>2. \A j \in 1..Len(list) : ReplaceAt(list, i, desired[n])[j] = list[j] BY <2>2, <3>1
    <3> QED BY ONLY <3>1, <3>2, IsList(list), SameEntries DEF IsList
  <2> QED BY <2>1, <2>3, <2>4, <2>5 DEF Put
<1>8. ASSUME NEW n \in 1..b PROVE Renewed(desired[n], desired) = desired[n]
  <2>1. Renewed(desired[n], desired) # None BY <1>2, RenewedIs
  <2>2. PICK j \in 1..b : Renewed(desired[n], desired) = desired[j]
    BY <1>2, <2>1, RenewedIs DEF Range
  <2>3. desired[j].id = desired[n].id BY <2>1, <2>2, RenewedIs
  <2> QED BY <1>2, <2>2, <2>3 DEF Wellformed
<1> DEFINE Q == {n \in 0..Len(pairs) : u[n] = Arr(list)}
<1>9. 0 \in Q BY <1>3, <1>6
<1>10. \A n \in 0..Len(pairs) : n + 1 \in 0..Len(pairs) /\ n \in Q => n + 1 \in Q
  <2> SUFFICES ASSUME NEW n \in 0..Len(pairs), n + 1 \in 0..Len(pairs), u[n] = Arr(list)
               PROVE  u[n + 1] = Arr(list)
    OBVIOUS
  <2>1. n + 1 \in 1..Len(pairs) /\ (n + 1) - 1 = n BY <1>3
  <2>2. u[n + 1] = Step(Arr(list), pairs[n + 1][1], pairs[n + 1][2], path) BY <1>6, <2>1
  <2>3. CASE n + 1 \in 1..b BY <1>4, <1>7, <1>8, <2>2, <2>3
  <2>4. CASE n + 1 \notin 1..b
    <3>1. PICK k \in 1..b : n + 1 = b + k
      <4>1. (n + 1) - b \in 1..b /\ n + 1 = b + ((n + 1) - b) BY <1>3, <2>1, <2>4
      <4> QED BY <4>1
    <3>2. pairs[n + 1][1] = None /\ pairs[n + 1][2] = None BY <1>5, <3>1
    <3> QED BY <2>2, <3>2 DEF Step
  <2> QED BY <2>3, <2>4
<1>11. \A n \in 0..Len(pairs) : n \in Q
  <2>1. Len(pairs) \in Nat BY <1>3
  <2> HIDE DEF Q
  <2> QED BY ONLY <1>9, <1>10, <2>1, LoopInduction
<1>12. Len(pairs) \in 0..Len(pairs) BY <1>3
<1> QED BY <1>1, <1>6, <1>11, <1>12

-----------------------------------------------------------------------------
(* Arrays whose entries have a place *)

LEMMA StepPlaces ==
    ASSUME NEW list, IsList(list), NEW path, path \notin Identity, NEW old, NEW new,
           Step(Arr(list), old, new, path) # Conflict
    PROVE  \E next : /\ Step(Arr(list), old, new, path) = Arr(next) /\ IsList(next)
                     /\ new # None => Contains(next, new)
                     /\ \A e : e # old /\ Contains(list, e) => Contains(next, e)
<1> DEFINE arr == Step(Arr(list), old, new, path)
<1>1. Arr(list) # Conflict /\ Arr(list).of = list BY DEF Arr, Conflict
<1>2. Len(list) \in Nat /\ DOMAIN list = 1..Len(list) BY ListIs
<1>3. CASE old = None /\ new = None
  <2>1. arr = Arr(list) BY <1>3 DEF Step
  <2> QED BY <1>3, <2>1
<1>4. CASE old = None /\ new # None
  <2>1. arr = AddPositional(list, new) BY <1>1, <1>4 DEF Step
  <2>2. CASE Contains(list, new)
    <3>1. arr = Arr(list) BY <2>1, <2>2 DEF AddPositional
    <3> QED BY <2>2, <3>1
  <2>3. CASE ~Contains(list, new)
    <3> DEFINE t == Append(list, new)
    <3>1. arr = Arr(t) BY <2>1, <2>3 DEF AddPositional
    <3>2. /\ IsList(t) /\ Len(t) = Len(list) + 1 /\ t[Len(list) + 1] = new
          /\ \A i \in 1..Len(list) : t[i] = list[i]
      BY <1>4, AppendedList
    <3> HIDE DEF t
    <3>3. Len(list) + 1 \in 1..Len(t) /\ \A i \in 1..Len(list) : i \in 1..Len(t) BY <1>2, <3>2
    <3>4. Contains(t, new) BY <3>2, <3>3 DEF Contains
    <3>5. \A e : Contains(list, e) => Contains(t, e) BY <3>2, <3>3 DEF Contains
    <3> QED BY <3>1, <3>2, <3>4, <3>5
  <2> QED BY <2>2, <2>3
<1>5. CASE old # None
  <2>1. arr = AdvancePositional(list, old, new) BY <1>1, <1>5 DEF Step
  <2>2. CASE ~(old # new /\ Contains(list, old))
    <3>1. arr = Arr(list) /\ new # None /\ Contains(list, new)
      BY <2>1, <2>2 DEF AdvancePositional
    <3> QED BY <3>1
  <2>3. CASE old # new /\ Contains(list, old)
    <3>1. PICK i \in 1..Len(list) : i = First(list, old) /\ list[i] = old BY <1>2, <2>3, FirstIs
    <3>2. arr = Put(list, i, new) BY <2>1, <2>3, <3>1 DEF AdvancePositional
    <3>3. CASE new = None
      <4> DEFINE t == RemoveAt(list, i)
      <4>1. arr = Arr(t) BY <3>2, <3>3 DEF Put
      <4>2. /\ IsList(t) /\ Len(t) = Len(list) - 1
            /\ \A j \in 1..Len(list) - 1 : t[j] = IF j < i THEN list[j] ELSE list[j + 1]
        BY RemovedList
      <4> HIDE DEF t
      <4>3. ASSUME NEW e, e # old, Contains(list, e) PROVE Contains(t, e)
        <5>1. PICK k \in 1..Len(list) : list[k] = e BY <4>3 DEF Contains
        <5>2. k # i BY <3>1, <4>3, <5>1
        <5>3. CASE k < i
          <6>1. k \in 1..Len(list) - 1 BY <1>2, <5>3
          <6> QED BY <4>2, <5>1, <5>3, <6>1 DEF Contains
        <5>4. CASE ~(k < i)
          <6>1. k - 1 \in 1..Len(list) - 1 /\ ~(k - 1 < i) /\ (k - 1) + 1 = k
            BY <1>2, <5>2, <5>4
          <6> QED BY <4>2, <5>1, <6>1 DEF Contains
        <5> QED BY <5>3, <5>4
      <4> QED BY <3>3, <4>1, <4>2, <4>3
    <3>4. CASE new # None
      <4> DEFINE t == ReplaceAt(list, i, new)
      <4>1. arr = Arr(t) BY <3>2, <3>4 DEF Put
      <4>2. /\ IsList(t) /\ Len(t) = Len(list)
            /\ \A j \in 1..Len(list) : t[j] = IF j = i THEN new ELSE list[j]
        BY <3>4, ReplacedList
      <4> HIDE DEF t
      <4>3. Contains(t, new) BY <4>2 DEF Contains
      <4>4. ASSUME NEW e, e # old, Contains(list, e) PROVE Contains(t, e)
        <5>1. PICK k \in 1..Len(list) : list[k] = e BY <4>4 DEF Contains
        <5>2. k # i BY <3>1, <4>4, <5>1
        <5> QED BY <4>2, <5>1, <5>2 DEF Contains
      <4> QED BY <4>1, <4>2, <4>3, <4>4
    <3> QED BY <3>3, <3>4
  <2> QED BY <2>2, <2>3
<1> QED BY <1>3, <1>4, <1>5

\* After a loop over pairs none of which takes away what an earlier one has put
\* there, the list has all that is new.
LEMMA UpdatedPlaces ==
    ASSUME NEW current, IsList(current), NEW path, path \notin Identity,
           NEW pairs, Len(pairs) \in Nat,
           \A m, n \in 1..Len(pairs) :
             pairs[m][2] # None /\ pairs[m][2] = pairs[n][1] => m = n,
           Updated(current, pairs, path) # Conflict
    PROVE  \E list : /\ Updated(current, pairs, path) = Arr(list) /\ IsList(list)
                     /\ \A n \in 1..Len(pairs) : pairs[n][2] # None => Contains(list, pairs[n][2])
<1>1. PICK u : /\ u[0] = Arr(current)
               /\ \A n \in 1..Len(pairs) :
                    u[n] = Step(u[n - 1], pairs[n][1], pairs[n][2], path)
               /\ Updated(current, pairs, path) = u[Len(pairs)]
  BY UpdatedIs
<1> DEFINE Holds(n) == \E list :
             /\ u[n] = Arr(list) /\ IsList(list)
             /\ \A m \in 1..n : pairs[m][2] # None => Contains(list, pairs[m][2])
           Q == {n \in 0..Len(pairs) : u[n] = Conflict \/ Holds(n)}
<1>2. 0 \in Q
  <2>1. Holds(0)
    <3>1. \A m \in 1..0 : FALSE OBVIOUS
    <3> QED BY <1>1, <3>1
  <2> QED BY <2>1
<1>3. \A n \in 0..Len(pairs) : n + 1 \in 0..Len(pairs) /\ n \in Q => n + 1 \in Q
  <2> SUFFICES ASSUME NEW n \in 0..Len(pairs), n + 1 \in 0..Len(pairs), n \in Q,
                      u[n + 1] # Conflict
               PROVE  Holds(n + 1)
    OBVIOUS
  <2>1. n + 1 \in 1..Len(pairs) /\ (n + 1) - 1 = n OBVIOUS
  <2> DEFINE old == pairs[n + 1][1]
             new == pairs[n + 1][2]
  <2>2. u[n + 1] = Step(u[n], old, new, path) BY <1>1, <2>1
  <2>3. u[n] # Conflict BY <2>2 DEF Step
  <2>4. PICK list : /\ u[n] = Arr(list) /\ IsList(list)
                    /\ \A m \in 1..n : pairs[m][2] # None => Contains(list, pairs[m][2])
    BY <2>3
  <2> HIDE DEF old, new
  <2>5. PICK next : /\ u[n + 1] = Arr(next) /\ IsList(next)
                    /\ new # None => Contains(next, new)
                    /\ \A e : e # old /\ Contains(list, e) => Contains(next, e)
    BY <2>2, <2>4, StepPlaces
  <2>6. ASSUME NEW m \in 1..n + 1, pairs[m][2] # None PROVE Contains(next, pairs[m][2])
    <3>1. CASE m = n + 1 BY <2>5, <2>6, <3>1 DEF new
    <3>2. CASE m # n + 1
      <4>1. m \in 1..n /\ m \in 1..Len(pairs) BY <2>1, <3>2
      <4>2. pairs[m][2] # old BY <2>1, <2>6, <3>2, <4>1 DEF old
      <4> QED BY <2>4, <2>5, <2>6, <4>1, <4>2
    <3> QED BY <3>1, <3>2
  <2> QED BY <2>5, <2>6
<1>4. \A n \in 0..Len(pairs) : n \in Q
  <2> HIDE DEF Q
  <2> QED BY ONLY <1>2, <1>3, Len(pairs) \in Nat, LoopInduction
<1>5. Holds(Len(pairs)) BY <1>1, <1>4
<1> QED BY <1>1, <1>5

LEMMA OwnedPositionalIs ==
    ASSUME NEW current, IsList(current), NEW path, path \notin Identity,
           NEW owned, IsList(owned), NEW desired, IsList(desired),
           \A i \in DOMAIN owned, j \in DOMAIN desired : owned[i] = desired[j] => i = j,
           OwnedArray(current, desired, owned, path) # Conflict
    PROVE  \E list : /\ OwnedArray(current, desired, owned, path) = Arr(list) /\ IsList(list)
                     /\ \A n \in 1..Len(desired) : Contains(list, desired[n])
<1> DEFINE pairs == PositionalPairs(owned, desired)
<1>1. OwnedArray(current, desired, owned, path) = Updated(current, pairs, path)
  BY DEF OwnedArray
<1>2. Len(pairs) \in Nat /\ 1..Len(pairs) = DOMAIN owned \cup DOMAIN desired
  BY PositionalPairsAre
<1>3. \A n \in 1..Len(pairs) : /\ pairs[n][1] = EntryAt(owned, n)
                               /\ pairs[n][2] = EntryAt(desired, n)
  BY PositionalPairsAre
<1> HIDE DEF pairs
<1>4. ASSUME NEW m \in 1..Len(pairs), NEW n \in 1..Len(pairs),
             pairs[m][2] # None, pairs[m][2] = pairs[n][1]
      PROVE  m = n
  <2>1. m \in DOMAIN desired /\ EntryAt(desired, m) = desired[m] BY <1>3, <1>4, EntryIs
  <2>2. n \in DOMAIN owned /\ EntryAt(owned, n) = owned[n] BY <1>3, <1>4, EntryIs
  <2> QED BY <1>3, <1>4, <2>1, <2>2
<1>5. PICK list : /\ Updated(current, pairs, path) = Arr(list) /\ IsList(list)
                  /\ \A n \in 1..Len(pairs) : pairs[n][2] # None => Contains(list, pairs[n][2])
  BY <1>1, <1>2, <1>4, UpdatedPlaces
<1>6. ASSUME NEW n \in 1..Len(desired) PROVE Contains(list, desired[n])
  <2>1. n \in DOMAIN desired BY ListIs
  <2>2. n \in 1..Len(pairs) BY <1>2, <2>1
  <2>3. pairs[n][2] = desired[n] /\ desired[n] # None BY <1>3, <2>1, <2>2, EntryIs
  <2> QED BY <1>5, <2>2, <2>3
<1> QED BY <1>1, <1>5, <1>6

LEMMA InstallPositionalIs ==
    ASSUME NEW current, IsList(current), NEW path, path \notin Identity,
           NEW desired, IsList(desired), InstallArray(current, desired, path) # Conflict
    PROVE  \E list : /\ InstallArray(current, desired, path) = Arr(list) /\ IsList(list)
                     /\ \A n \in 1..Len(desired) : Contains(list, desired[n])
<1> DEFINE pairs == [i \in DOMAIN desired |-> <<None, desired[i]>>]
<1>1. InstallArray(current, desired, path) = Updated(current, pairs, path) BY DEF InstallArray
<1>2. Len(pairs) = Len(desired) /\ Len(desired) \in Nat BY AddedPairsAre, ListIs
<1>3. \A n \in 1..Len(desired) : pairs[n][1] = None /\ pairs[n][2] = desired[n] BY AddedPairsAre
<1> HIDE DEF pairs
<1>4. \A n \in 1..Len(desired) : desired[n] # None BY ListIs
<1>5. \A m, n \in 1..Len(pairs) : pairs[m][2] # None /\ pairs[m][2] = pairs[n][1] => m = n
  BY <1>2, <1>3
<1>6. PICK list : /\ Updated(current, pairs, path) = Arr(list) /\ IsList(list)
                  /\ \A n \in 1..Len(pairs) : pairs[n][2] # None => Contains(list, pairs[n][2])
  BY <1>1, <1>2, <1>5, UpdatedPlaces
<1> QED BY <1>1, <1>2, <1>3, <1>4, <1>6

LEMMA PositionalStable ==
    ASSUME NEW list, IsList(list), NEW path, path \notin Identity, NEW desired, IsList(desired),
           \A n \in 1..Len(desired) : Contains(list, desired[n])
    PROVE  OwnedArray(list, desired, desired, path) = Arr(list)
<1> DEFINE pairs == PositionalPairs(desired, desired)
<1>1. OwnedArray(list, desired, desired, path) = Updated(list, pairs, path) BY DEF OwnedArray
<1>2. Len(pairs) \in Nat /\ 1..Len(pairs) = DOMAIN desired BY PositionalPairsAre
<1>3. \A n \in 1..Len(pairs) : /\ pairs[n][1] = EntryAt(desired, n)
                               /\ pairs[n][2] = EntryAt(desired, n)
  BY PositionalPairsAre
<1> HIDE DEF pairs
<1>4. PICK u : /\ u[0] = Arr(list)
               /\ \A n \in 1..Len(pairs) :
                    u[n] = Step(u[n - 1], pairs[n][1], pairs[n][2], path)
               /\ Updated(list, pairs, path) = u[Len(pairs)]
  BY <1>2, UpdatedIs
<1>5. ASSUME NEW n \in 1..Len(pairs)
      PROVE  Step(Arr(list), pairs[n][1], pairs[n][2], path) = Arr(list)
  <2>1. n \in 1..Len(desired) BY <1>2, ListIs
  <2>2. /\ pairs[n][1] = desired[n] /\ pairs[n][2] = desired[n]
        /\ desired[n] # None /\ Contains(list, desired[n])
    BY <1>2, <1>3, <2>1, EntryIs
  <2>3. Step(Arr(list), desired[n], desired[n], path) =
          AdvancePositional(list, desired[n], desired[n])
    BY <2>2 DEF Step, Arr, Conflict
  <2>4. AdvancePositional(list, desired[n], desired[n]) = Arr(list)
    BY <2>2 DEF AdvancePositional
  <2> QED BY <2>2, <2>3, <2>4
<1> DEFINE Q == {n \in 0..Len(pairs) : u[n] = Arr(list)}
<1>6. 0 \in Q BY <1>2, <1>4
<1>7. \A n \in 0..Len(pairs) : n + 1 \in 0..Len(pairs) /\ n \in Q => n + 1 \in Q
  <2> SUFFICES ASSUME NEW n \in 0..Len(pairs), n + 1 \in 0..Len(pairs), u[n] = Arr(list)
               PROVE  u[n + 1] = Arr(list)
    OBVIOUS
  <2>1. n + 1 \in 1..Len(pairs) /\ (n + 1) - 1 = n BY <1>2
  <2> QED BY <1>4, <1>5, <2>1
<1>8. \A n \in 0..Len(pairs) : n \in Q
  <2>1. Len(pairs) \in Nat BY <1>2
  <2> HIDE DEF Q
  <2> QED BY ONLY <1>6, <1>7, <2>1, LoopInduction
<1>9. Len(pairs) \in 0..Len(pairs) BY <1>2
<1> QED BY <1>1, <1>4, <1>8, <1>9


-----------------------------------------------------------------------------
(* The array of an event *)

LEMMA EmptyList == IsList(<<>>) /\ Wellformed(<<>>) /\ Len(<<>>) = 0 /\ Range(<<>>) = {}
<1>1. <<>> \in Seq({}) /\ DOMAIN <<>> = {} /\ Len(<<>>) = 0 BY EmptySeq
<1>2. Range(<<>>) = {} BY <1>1 DEF Range
<1> QED BY <1>1, <1>2, MakeList DEF Wellformed

LEMMA OthersNone ==
    ASSUME NEW E, NEW list, IsList(list), Range(list) \subseteq E
    PROVE  Others(list, E) = <<>>
<1>1. Len(list) \in Nat /\ \A i \in 1..Len(list) : list[i] \in E BY ListIs
<1>2. PICK u : /\ u[0] = <<>>
               /\ \A n \in 1..Len(list) :
                    u[n] = IF list[n] \in E THEN u[n - 1] ELSE Append(u[n - 1], list[n])
               /\ Others(list, E) = u[Len(list)]
  BY <1>1, OthersIs
<1> DEFINE Q == {n \in 0..Len(list) : u[n] = <<>>}
<1>3. 0 \in Q BY <1>1, <1>2
<1>4. \A n \in 0..Len(list) : n + 1 \in 0..Len(list) /\ n \in Q => n + 1 \in Q
  <2> SUFFICES ASSUME NEW n \in 0..Len(list), n + 1 \in 0..Len(list), u[n] = <<>>
               PROVE  u[n + 1] = <<>>
    OBVIOUS
  <2>1. n + 1 \in 1..Len(list) /\ (n + 1) - 1 = n BY <1>1
  <2> QED BY <1>1, <1>2, <2>1
<1>5. \A n \in 0..Len(list) : n \in Q
  <2> HIDE DEF Q
  <2> QED BY ONLY <1>1, <1>3, <1>4, LoopInduction
<1>6. Len(list) \in 0..Len(list) BY <1>1
<1> QED BY <1>2, <1>5, <1>6

\* What the fragments have of an event.
LEMMA ShippedIs ==
    ASSUME NEW f, Shaped(f), NEW event
    PROVE  LET list == ArrayAt(f, event) IN
           /\ IsList(list)
           /\ <<"hooks", event>> \in Identity => Wellformed(list)
           /\ event \in Members(Child(f, "hooks")) =>
                event \in Keys /\ "hooks" \in Keys /\ Child(Child(f, "hooks"), event) = Arr(list)
           /\ event \notin Members(Child(f, "hooks")) =>
                Child(Child(f, "hooks"), event) = None /\ list = <<>>
<1>1. Members(None) = {} /\ \A k : Child(None, k) = None BY DEF Members, Child, None
<1>2. CASE event \notin Members(Child(f, "hooks"))
  <2>1. Child(Child(f, "hooks"), event) = None BY <1>2 DEF Child
  <2>2. ArrayAt(f, event) = <<>> BY <2>1 DEF ArrayAt, None
  <2> QED BY <1>2, <2>1, <2>2, EmptyList
<1>3. CASE event \in Members(Child(f, "hooks"))
  <2>1. "hooks" \in Members(f)
    <3>1. "hooks" \notin Members(f) => Child(f, "hooks") = None BY DEF Child
    <3> QED BY <1>1, <1>3, <3>1
  <2>2. f # None BY <1>1, <2>1
  <2>3. PICK r \in Releases : f = Fragment[r] BY <2>2 DEF Shaped
  <2>4. "hooks" \in Keys /\ event \in Keys BY <1>3, <2>1, ShapeIs
  <2> QED BY <1>3, <2>3, <2>4, FragmentAssumption
<1> QED BY <1>2, <1>3

\* The array of an event has all that a release ships.
Placed(list, shipped, path) ==
    \A n \in 1..Len(shipped) :
        IF path \in Identity THEN Sole(list, shipped[n]) ELSE Contains(list, shipped[n])

\* What a merge makes of the array of an event.
MergedArray(list, before, desired, owned, path) ==
    /\ IsList(list)
    /\ Others(list, Range(owned) \cup Range(desired)) =
         Others(before, Range(owned) \cup Range(desired))
    /\ Placed(list, desired, path)
    /\ path \in Identity =>
         \A n \in 1..Len(owned) : ~Identified(desired, owned[n].id) => Absent(list, owned[n].id)

LEMMA KeptIs ==
    ASSUME NEW E, NEW before, NEW list, Kept(Arr(list), before, E)
    PROVE  Others(list, E) = Others(before, E)
<1>1. Arr(list) # Conflict BY DEF Arr, Conflict
<1>2. PICK l : Arr(list) = Arr(l) /\ Others(l, E) = Others(before, E) BY <1>1 DEF Kept
<1>3. list = l BY <1>2 DEF Arr
<1> QED BY <1>2, <1>3

LEMMA OwnedArrayIs ==
    ASSUME NEW before, IsList(before), NEW path,
           NEW desired, IsList(desired), NEW owned, IsList(owned),
           path \notin Identity =>
             \A i \in DOMAIN owned, j \in DOMAIN desired : owned[i] = desired[j] => i = j,
           OwnedArray(before, desired, owned, path) # Conflict
    PROVE  \E list : /\ OwnedArray(before, desired, owned, path) = Arr(list)
                     /\ MergedArray(list, before, desired, owned, path)
<1> DEFINE E == Range(owned) \cup Range(desired)
<1>1. Kept(OwnedArray(before, desired, owned, path), before, E)
  <2>1. Range(owned) \subseteq E /\ Range(desired) \subseteq E OBVIOUS
  <2> HIDE DEF E
  <2> QED BY <2>1, OwnedArrayKeeps
<1> HIDE DEF E
<1>2. CASE path \in Identity
  <2>1. PICK list :
          /\ OwnedArray(before, desired, owned, path) = Arr(list) /\ IsList(list)
          /\ \A n \in 1..Len(desired) : Sole(list, desired[n])
          /\ \A n \in 1..Len(owned) :
               ~Identified(desired, owned[n].id) => Absent(list, owned[n].id)
    BY <1>2, OwnedIdentityIs
  <2>2. Others(list, E) = Others(before, E) BY <1>1, <2>1, KeptIs
  <2> QED BY <1>2, <2>1, <2>2 DEF MergedArray, Placed, E
<1>3. CASE path \notin Identity
  <2>1. PICK list : /\ OwnedArray(before, desired, owned, path) = Arr(list) /\ IsList(list)
                    /\ \A n \in 1..Len(desired) : Contains(list, desired[n])
    BY <1>3, OwnedPositionalIs
  <2>2. Others(list, E) = Others(before, E) BY <1>1, <2>1, KeptIs
  <2> QED BY <1>3, <2>1, <2>2 DEF MergedArray, Placed, E
<1> QED BY <1>2, <1>3

LEMMA InstallArrayIs ==
    ASSUME NEW before, IsList(before), NEW path,
           NEW desired, IsList(desired), path \in Identity => Wellformed(desired),
           InstallArray(before, desired, path) # Conflict
    PROVE  \E list : /\ InstallArray(before, desired, path) = Arr(list)
                     /\ MergedArray(list, before, desired, <<>>, path)
<1> DEFINE E == Range(<<>>) \cup Range(desired)
<1>1. Kept(InstallArray(before, desired, path), before, E)
  <2>1. Range(desired) \subseteq E OBVIOUS
  <2> HIDE DEF E
  <2> QED BY <2>1, InstallArrayKeeps
<1> HIDE DEF E
<1>2. \A n \in 1..Len(<<>>) : FALSE BY EmptyList
<1>3. CASE path \in Identity
  <2>1. PICK list : /\ InstallArray(before, desired, path) = Arr(list) /\ IsList(list)
                    /\ \A n \in 1..Len(desired) : Sole(list, desired[n])
    BY <1>3, InstallIdentityIs
  <2>2. Others(list, E) = Others(before, E) BY <1>1, <2>1, KeptIs
  <2> QED BY <1>2, <1>3, <2>1, <2>2 DEF MergedArray, Placed, E
<1>4. CASE path \notin Identity
  <2>1. PICK list : /\ InstallArray(before, desired, path) = Arr(list) /\ IsList(list)
                    /\ \A n \in 1..Len(desired) : Contains(list, desired[n])
    BY <1>4, InstallPositionalIs
  <2>2. Others(list, E) = Others(before, E) BY <1>1, <2>1, KeptIs
  <2> QED BY <1>4, <2>1, <2>2 DEF MergedArray, Placed, E
<1> QED BY <1>3, <1>4

\* Where there was no array the release's is copied.
LEMMA CopiedArrayIs ==
    ASSUME NEW path, NEW desired, IsList(desired), path \in Identity => Wellformed(desired)
    PROVE  MergedArray(desired, <<>>, desired, <<>>, path)
<1> DEFINE E == Range(<<>>) \cup Range(desired)
<1>1. Others(desired, E) = <<>> /\ Others(<<>>, E) = <<>>
  <2>1. Range(desired) \subseteq E /\ Range(<<>>) \subseteq E OBVIOUS
  <2> HIDE DEF E
  <2> QED BY <2>1, EmptyList, OthersNone
<1>2. \A n \in 1..Len(<<>>) : FALSE BY EmptyList
<1>3. DOMAIN desired = 1..Len(desired) BY ListIs
<1>4. Placed(desired, desired, path)
  <2>1. ASSUME NEW n \in 1..Len(desired), path \in Identity PROVE Sole(desired, desired[n])
    BY <1>3, <2>1 DEF Sole, Wellformed
  <2>2. ASSUME NEW n \in 1..Len(desired) PROVE Contains(desired, desired[n]) BY DEF Contains
  <2> QED BY <2>1, <2>2 DEF Placed
<1> QED BY <1>1, <1>2, <1>4 DEF MergedArray

LEMMA PlacedStable ==
    ASSUME NEW list, IsList(list), NEW path,
           NEW desired, IsList(desired), path \in Identity => Wellformed(desired),
           Placed(list, desired, path)
    PROVE  OwnedArray(list, desired, desired, path) = Arr(list)
<1>1. CASE path \in Identity
  <2>1. \A n \in 1..Len(desired) : Sole(list, desired[n]) BY <1>1 DEF Placed
  <2> QED BY <1>1, <2>1, IdentityStable
<1>2. CASE path \notin Identity
  <2>1. \A n \in 1..Len(desired) : Contains(list, desired[n]) BY <1>2 DEF Placed
  <2> QED BY <1>2, <2>1, PositionalStable
<1> QED BY <1>1, <1>2

-----------------------------------------------------------------------------
(* A value of the settings that a fragment has too *)

Present(v) == IF v = Gone THEN None ELSE v

LEMMA Kinds ==
    /\ \A list : Arr(list).kind = "array" /\ Arr(list).of = list
    /\ \A at : Obj(at).kind = "object" /\ Obj(at).at = at
    /\ None.kind = "none" /\ Conflict.kind = "conflict" /\ Gone.kind = "gone"
    /\ \A list : Arr(list) \notin {None, Conflict, Gone}
    /\ \A at : Obj(at) \notin {None, Conflict, Gone}
    /\ None # Gone /\ None # Conflict /\ Gone # Conflict
BY DEF Arr, Obj, None, Conflict, Gone

LEMMA PlacesHold ==
    ASSUME NEW d, Shaped(d), NEW o, Shaped(o), NEW event, event \in Keys,
           <<"hooks", event>> \notin Identity
    PROVE  \A i \in DOMAIN ArrayAt(o, event), j \in DOMAIN ArrayAt(d, event) :
             ArrayAt(o, event)[i] = ArrayAt(d, event)[j] => i = j
<1>1. ArrayAt(None, event) = <<>> BY DEF ArrayAt, Child, Members, None
<1>2. DOMAIN <<>> = {} OBVIOUS
<1>3. CASE d = None \/ o = None BY <1>1, <1>2, <1>3
<1>4. CASE d # None /\ o # None
  <2>1. PICK r \in Releases : d = Fragment[r] BY <1>4 DEF Shaped
  <2>2. PICK q \in Releases : o = Fragment[q] BY <1>4 DEF Shaped
  <2> QED BY <2>1, <2>2, PlacesAssumption
<1> QED BY <1>3, <1>4

\* An array that either release ships keeps the user's entries and has those of the
\* release; it goes if nothing is left of it.
LEMMA EventLeaf ==
    ASSUME NEW c, NEW d, Shaped(d), NEW o, Shaped(o), NEW event,
           event \in Members(Child(d, "hooks")) \cup Members(Child(o, "hooks")),
           IsList(ArrayAt(c, event)),
           Leaf(c, d, o, "hooks", event) # Conflict
    PROVE  \E list :
             /\ MergedArray(list, ArrayAt(c, event), ArrayAt(d, event), ArrayAt(o, event),
                            <<"hooks", event>>)
             /\ \/ Leaf(c, d, o, "hooks", event) = Arr(list)
                \/ /\ Leaf(c, d, o, "hooks", event) = Gone
                   /\ list = <<>>
                   /\ event \notin Members(Child(d, "hooks"))
<1> DEFINE path == <<"hooks", event>>
           v == Child(Child(c, "hooks"), event)
           dv == Child(Child(d, "hooks"), event)
           ov == Child(Child(o, "hooks"), event)
           before == ArrayAt(c, event)
           dl == ArrayAt(d, event)
           ol == ArrayAt(o, event)
           leaf == Leaf(c, d, o, "hooks", event)
           Outcome(list) == /\ MergedArray(list, before, dl, ol, path)
                            /\ \/ leaf = Arr(list)
                               \/ leaf = Gone /\ list = <<>> /\ dv = None
<1>1. event \in Keys BY ShippedIs
<1>2. IsList(dl) /\ (path \in Identity => Wellformed(dl)) BY ShippedIs
<1>3. IsList(ol) /\ (path \in Identity => Wellformed(ol)) BY ShippedIs
<1>4. /\ event \in Members(Child(d, "hooks")) => dv = Arr(dl)
      /\ event \notin Members(Child(d, "hooks")) => dv = None /\ dl = <<>>
  BY ShippedIs
<1>5. /\ event \in Members(Child(o, "hooks")) => ov = Arr(ol)
      /\ event \notin Members(Child(o, "hooks")) => ov = None /\ ol = <<>>
  BY ShippedIs
<1>6. path \notin Identity => \A i \in DOMAIN ol, j \in DOMAIN dl : ol[i] = dl[j] => i = j
  BY <1>1, PlacesHold
<1>7. before = IF v.kind = "array" THEN v.of ELSE <<>> BY DEF ArrayAt
<1>8. leaf = MergedValue(v, dv, ov, Empty, path) BY DEF Leaf
<1>9. dv = Arr(dl) \/ ov = Arr(ol) BY <1>4, <1>5
<1>10. (dv = None \/ dv = Arr(dl)) /\ (dv = None => dl = <<>>) BY <1>4, Kinds
<1>11. (ov = None \/ ov = Arr(ol)) /\ (ov = None => ol = <<>>) BY <1>5, Kinds
<1>12. dv = None => event \notin Members(Child(d, "hooks")) BY <1>4, Kinds
<1>13. IsList(before) /\ leaf # Conflict OBVIOUS
<1> HIDE DEF path, v, dv, ov, before, dl, ol, leaf
<1>14. \E list : Outcome(list)
  <2>1. CASE v = None
    <3>1. ov = None /\ leaf = dv BY <1>8, <1>13, <2>1 DEF MergedValue
    <3>2. leaf = Arr(dl) /\ ol = <<>> /\ before = <<>> BY <1>7, <1>9, <1>11, <2>1, <3>1, Kinds
    <3>3. MergedArray(dl, <<>>, dl, <<>>, path) BY <1>2, CopiedArrayIs
    <3> QED BY <3>2, <3>3
  <2>2. CASE v # None /\ ov = None
    <3>1. dv = Arr(dl) /\ dv.kind = "array" /\ dv.of = dl /\ ol = <<>>
      BY <1>9, <1>11, <2>2, Kinds
    <3>2. leaf = MergeInstall(v, dv, Empty, path) BY <1>8, <2>2 DEF MergedValue
    <3>3. v.kind = "array" BY <1>13, <3>1, <3>2 DEF MergeInstall, Both
    <3>4. leaf = InstallArray(before, dl, path) BY <1>7, <3>1, <3>2, <3>3 DEF MergeInstall, Both
    <3>5. PICK list : leaf = Arr(list) /\ MergedArray(list, before, dl, <<>>, path)
      BY <1>2, <1>13, <3>4, InstallArrayIs
    <3> QED BY <3>1, <3>5
  <2>3. CASE v # None /\ ov # None /\ dv = None
    <3>1. ov = Arr(ol) /\ ov.kind = "array" /\ ov.of = ol /\ dl = <<>>
      BY <1>10, <1>11, <2>3, Kinds
    <3>2. leaf = Removed(v, ov, Empty, path) BY <1>8, <2>3 DEF MergedValue
    <3>3. v.kind = "array" BY <1>13, <3>1, <3>2 DEF Removed, Both
    <3>4. leaf = Nonempty(OwnedArray(before, <<>>, ol, path))
      BY <1>7, <3>1, <3>2, <3>3 DEF Removed, Both
    <3>5. OwnedArray(before, dl, ol, path) # Conflict
      <4>1. Nonempty(Conflict) = Conflict BY Kinds DEF Nonempty
      <4> QED BY <1>13, <3>1, <3>4, <4>1
    <3>6. PICK list : /\ OwnedArray(before, dl, ol, path) = Arr(list)
                      /\ MergedArray(list, before, dl, ol, path)
      BY <1>2, <1>3, <1>6, <1>13, <3>5, OwnedArrayIs
    <3>7. leaf = IF list = <<>> THEN Gone ELSE Arr(list) BY <3>1, <3>4, <3>6, Kinds DEF Nonempty
    <3> QED BY <2>3, <3>6, <3>7
  <2>4. CASE v # None /\ ov # None /\ dv # None
    <3>1. /\ ov = Arr(ol) /\ ov.kind = "array" /\ ov.of = ol
          /\ dv = Arr(dl) /\ dv.kind = "array" /\ dv.of = dl
      BY <1>10, <1>11, <2>4, Kinds
    <3>2. leaf = MergeOwned(v, dv, ov, Empty, path) BY <1>8, <2>4 DEF MergedValue
    <3>3. v.kind = "array"
      <4>1. v.kind = "array" \/ v \in {dv, ov} BY <1>13, <3>1, <3>2 DEF MergeOwned, Both
      <4> QED BY <3>1, <4>1
    <3>4. leaf = OwnedArray(before, dl, ol, path)
      BY <1>7, <3>1, <3>2, <3>3 DEF MergeOwned, Both
    <3>5. PICK list : leaf = Arr(list) /\ MergedArray(list, before, dl, ol, path)
      BY <1>2, <1>3, <1>6, <1>13, <3>4, OwnedArrayIs
    <3> QED BY <3>5
  <2> QED BY <2>1, <2>2, <2>3, <2>4
<1>15. PICK list : Outcome(list) BY <1>14
<1> QED BY <1>12, <1>15 DEF leaf, before, dl, ol, path

\* What is shipped of a status line: scalars.
LEMMA ScalarIs ==
    ASSUME NEW f, Shaped(f), NEW k
    PROVE  LET value == Child(Child(f, "statusLine"), k) IN
           value = None \/ value.kind = "scalar"
<1>1. Members(None) = {} /\ \A j : Child(None, j) = None BY DEF Members, Child, None
<1>2. CASE k \notin Members(Child(f, "statusLine")) BY <1>2 DEF Child
<1>3. CASE k \in Members(Child(f, "statusLine"))
  <2>1. "statusLine" \in Members(f)
    <3>1. "statusLine" \notin Members(f) => Child(f, "statusLine") = None BY DEF Child
    <3> QED BY <1>1, <1>3, <3>1
  <2>2. f # None BY <1>1, <2>1
  <2>3. PICK r \in Releases : f = Fragment[r] BY <2>2 DEF Shaped
  <2>4. Child(f, "statusLine").at[k].kind = "scalar" BY <1>3, <2>3, FragmentAssumption
  <2>5. Child(Child(f, "statusLine"), k) = Child(f, "statusLine").at[k] BY <1>3 DEF Child
  <2> QED BY <2>4, <2>5
<1> QED BY <1>2, <1>3

\* A member of the status line is the release's afterwards, or gone; it was the same
\* before or is the one that the release before shipped.
LEMMA LineLeaf ==
    ASSUME NEW c, NEW d, Shaped(d), NEW o, Shaped(o), NEW k,
           Leaf(c, d, o, "statusLine", k) # Conflict
    PROVE  LET v == Child(Child(c, "statusLine"), k)
               dv == Child(Child(d, "statusLine"), k)
               ov == Child(Child(o, "statusLine"), k)
               leaf == Leaf(c, d, o, "statusLine", k)
           IN /\ dv # None => leaf = dv
              /\ dv # None \/ ov # None => v \in {ov, Present(leaf)}
<1> DEFINE v == Child(Child(c, "statusLine"), k)
           dv == Child(Child(d, "statusLine"), k)
           ov == Child(Child(o, "statusLine"), k)
           leaf == Leaf(c, d, o, "statusLine", k)
<1>1. leaf = MergedValue(v, dv, ov, Empty, <<"statusLine", k>>) BY DEF Leaf
<1>2. dv = None \/ dv.kind = "scalar" BY ScalarIs
<1>3. ov = None \/ ov.kind = "scalar" BY ScalarIs
<1>4. leaf # Conflict OBVIOUS
<1> HIDE DEF v, dv, ov, leaf
<1>5. dv # None => Present(dv) = dv BY <1>2, Kinds DEF Present
<1>6. (dv # None => leaf = dv) /\ (dv # None \/ ov # None => v \in {ov, Present(leaf)})
  <2>1. CASE v = None
    <3>1. ov = None BY <1>1, <1>4, <2>1 DEF MergedValue
    <3>2. leaf = dv BY <1>1, <2>1, <3>1 DEF MergedValue
    <3> QED BY <2>1, <3>1, <3>2
  <2>2. CASE v # None /\ ov = None
    <3>1. leaf = MergeInstall(v, dv, Empty, <<"statusLine", k>>) BY <1>1, <2>2 DEF MergedValue
    <3>2. dv # None => leaf = v /\ v = dv BY <1>2, <1>4, <3>1 DEF MergeInstall, Both
    <3> QED BY <1>5, <2>2, <3>2
  <2>3. CASE v # None /\ ov # None /\ dv = None
    <3>1. leaf = Removed(v, ov, Empty, <<"statusLine", k>>) BY <1>1, <2>3 DEF MergedValue
    <3>2. v = ov BY <1>3, <1>4, <2>3, <3>1 DEF Removed, Both
    <3> QED BY <2>3, <3>2
  <2>4. CASE v # None /\ ov # None /\ dv # None
    <3>1. leaf = MergeOwned(v, dv, ov, Empty, <<"statusLine", k>>)
      BY <1>1, <2>4 DEF MergedValue
    <3>2. leaf = dv /\ v \in {dv, ov} BY <1>2, <1>4, <2>4, <3>1 DEF MergeOwned, Both
    <3> QED BY <1>5, <2>4, <3>2
  <2> QED BY <2>1, <2>2, <2>3, <2>4
<1> QED BY <1>6 DEF v, dv, ov, leaf

-----------------------------------------------------------------------------
(* An object, from what becomes of its members *)

LEMMA ObjectIs ==
    ASSUME NEW c, c.kind = "object", NEW m, Object(c, m) # Conflict
    PROVE  /\ IsObject(Object(c, m))
           /\ \A k \in DOMAIN m : m[k] # Conflict /\ Child(Object(c, m), k) = Present(m[k])
           /\ \A k : k \notin DOMAIN m => Child(Object(c, m), k) = Child(c, k)
<1> DEFINE S == {j \in DOMAIN c.at \cup DOMAIN m : j \in DOMAIN m => m[j] # Gone}
           at == [k \in S |-> IF k \in DOMAIN m THEN m[k] ELSE c.at[k]]
<1>1. \A k \in DOMAIN m : m[k] # Conflict BY DEF Object
<1>2. Object(c, m) = Obj(at) BY <1>1 DEF Object
<1>3. Obj(at).kind = "object" /\ Obj(at).at = at /\ DOMAIN at = S BY DEF Obj
<1>4. Members(Obj(at)) = S BY <1>3 DEF Members
<1>5. IsObject(Obj(at))
  <2>1. [k \in S |-> Obj(at).at[k]] = at BY <1>3
  <2> HIDE DEF at, S
  <2> QED BY <1>4, <2>1 DEF IsObject
<1>6. \A k \in DOMAIN m : Child(Obj(at), k) = Present(m[k])
  <2> SUFFICES ASSUME NEW k \in DOMAIN m PROVE Child(Obj(at), k) = Present(m[k]) OBVIOUS
  <2>1. CASE m[k] = Gone BY <1>4, <2>1 DEF Child, Present
  <2>2. CASE m[k] # Gone
    <3>1. k \in S /\ at[k] = m[k] BY <2>2
    <3> HIDE DEF at, S
    <3> QED BY <1>3, <1>4, <2>2, <3>1 DEF Child, Present
  <2> QED BY <2>1, <2>2
<1>7. \A k : k \notin DOMAIN m => Child(Obj(at), k) = Child(c, k)
  <2> SUFFICES ASSUME NEW k, k \notin DOMAIN m PROVE Child(Obj(at), k) = Child(c, k) OBVIOUS
  <2>1. k \in S <=> k \in Members(c) BY DEF Members
  <2>2. k \in S => at[k] = c.at[k] OBVIOUS
  <2> HIDE DEF at, S
  <2> QED BY <1>3, <1>4, <2>1, <2>2 DEF Child
<1> HIDE DEF at
<1> QED BY <1>1, <1>2, <1>5, <1>6, <1>7

\* An object whose merged members are what they were is what it was.
LEMMA ObjectSame ==
    ASSUME NEW c, IsObject(c), NEW m,
           \A k \in DOMAIN m : m[k] = Child(c, k) /\ m[k] \notin {None, Conflict, Gone}
    PROVE  Object(c, m) = c
<1> DEFINE S == {j \in DOMAIN c.at \cup DOMAIN m : j \in DOMAIN m => m[j] # Gone}
<1>1. c.kind = "object" /\ DOMAIN c.at = Members(c) BY Kinds DEF IsObject
<1>2. \A k \in DOMAIN m : k \in Members(c) /\ m[k] = c.at[k] /\ m[k] # Gone BY DEF Child
<1>3. S = Members(c) BY <1>1, <1>2
<1>4. [k \in S |-> IF k \in DOMAIN m THEN m[k] ELSE c.at[k]] = [k \in Members(c) |-> c.at[k]]
  <2> HIDE DEF S
  <2> QED BY <1>2, <1>3
<1>5. Object(c, m) = Obj([k \in S |-> IF k \in DOMAIN m THEN m[k] ELSE c.at[k]])
  BY DEF Object
<1> QED BY <1>4, <1>5 DEF IsObject

LEMMA PartIsObject ==
    ASSUME NEW f, Shaped(f), NEW j
    PROVE  /\ j \in Members(f) => IsObject(Child(f, j)) /\ Child(f, j).kind = "object"
           /\ j \notin Members(f) => Child(f, j) = None
<1>1. Members(None) = {} BY DEF Members, None
<1>2. j \notin Members(f) => Child(f, j) = None BY DEF Child
<1>3. ASSUME j \in Members(f) PROVE IsObject(Child(f, j)) /\ Child(f, j).kind = "object"
  <2>1. f # None BY <1>1, <1>3
  <2>2. PICK r \in Releases : f = Fragment[r] BY <2>1 DEF Shaped
  <2>3. IsObject(f.at[j]) BY <1>3, <2>2, FragmentAssumption
  <2>4. IsObject(Child(f, j)) BY <1>3, <2>3 DEF Child
  <2> QED BY <2>4, Kinds DEF IsObject
<1> QED BY <1>2, <1>3

\* The hooks, and the status line: what becomes of each member.
LEMMA MiddleIs ==
    ASSUME NEW c, NEW d, Shaped(d), NEW o, Shaped(o),
           NEW j, j \in Members(d) \cup Members(o), Middle(c, d, o, j) # Conflict
    PROVE  LET owned == Members(Child(d, j)) \cup Members(Child(o, j))
               next == Present(Middle(c, d, o, j))
           IN /\ \A k \in owned : /\ Leaf(c, d, o, j, k) # Conflict
                                  /\ Child(next, k) = Present(Leaf(c, d, o, j, k))
              /\ \A k : k \notin owned => Child(next, k) = Child(Child(c, j), k)
              /\ j \in Members(d) => IsObject(next)
              /\ Child(c, j) # None => Child(c, j).kind = "object"
<1> DEFINE cj == Child(c, j)
           dj == Child(d, j)
           oj == Child(o, j)
           M == Members(dj) \cup Members(oj)
           m == [k \in M |-> Leaf(c, d, o, j, k)]
           x == Middle(c, d, o, j)
           Result == /\ \A k \in M : /\ Leaf(c, d, o, j, k) # Conflict
                                     /\ Child(Present(x), k) = Present(Leaf(c, d, o, j, k))
                     /\ \A k : k \notin M => Child(Present(x), k) = Child(cj, k)
                     /\ j \in Members(d) => IsObject(Present(x))
                     /\ cj # None => cj.kind = "object"
<1>1. /\ j \in Members(d) => IsObject(dj) /\ dj.kind = "object"
      /\ j \notin Members(d) => dj = None
  BY PartIsObject
<1>2. /\ j \in Members(o) => oj.kind = "object"
      /\ j \notin Members(o) => oj = None
  BY PartIsObject
<1>3. x = MergedValue(cj, dj, oj, m, <<j>>) BY DEF Middle
<1>4. DOMAIN m = M /\ \A k \in M : m[k] = Leaf(c, d, o, j, k) OBVIOUS
<1>5. \A k : Leaf(c, d, o, j, k) =
               MergedValue(Child(cj, k), Child(dj, k), Child(oj, k), Empty, <<j, k>>)
  BY DEF Leaf
<1>6. M = Members(dj) \cup Members(oj) /\ x # Conflict OBVIOUS
<1>7. \A k : Child(None, k) = None BY DEF Child, Members, None
<1> SUFFICES Result OBVIOUS
<1> HIDE DEF cj, dj, oj, M, m, x
<1>8. ASSUME cj.kind = "object", x = Object(cj, m) PROVE Result
  <2>1. /\ IsObject(x)
        /\ \A k \in M : m[k] # Conflict /\ Child(x, k) = Present(m[k])
        /\ \A k : k \notin M => Child(x, k) = Child(cj, k)
    BY <1>4, <1>6, <1>8, ObjectIs
  <2>2. Present(x) = x BY <2>1, Kinds DEF Present, IsObject
  <2> QED BY <1>4, <1>8, <2>1, <2>2
<1>9. CASE cj = None
  <2>1. oj = None /\ x = dj BY <1>3, <1>6, <1>9 DEF MergedValue
  <2>2. j \in Members(d) BY <1>2, <2>1, Kinds
  <2>3. IsObject(dj) /\ dj.kind = "object" BY <1>1, <2>2
  <2>4. Present(x) = dj BY <2>1, <2>3, Kinds DEF Present
  <2>5. M = Members(dj) BY <1>6, <2>1 DEF Members, None
  <2>6. ASSUME NEW k PROVE /\ Leaf(c, d, o, j, k) = Child(dj, k)
                           /\ k \notin M => Child(dj, k) = None
    BY <1>5, <1>7, <1>9, <2>1, <2>5 DEF MergedValue, Child
  <2>7. ASSUME NEW k \in M PROVE Child(dj, k) \notin {Conflict, Gone}
    <3>1. k \in Members(Child(d, j)) BY <2>5 DEF dj
    <3>2. CASE j = "hooks"
      <4>1. Child(Child(d, "hooks"), k) = Arr(ArrayAt(d, k)) BY <3>1, <3>2, ShippedIs
      <4> QED BY <3>2, <4>1, Kinds DEF dj
    <3>3. CASE j = "statusLine"
      <4>1. \/ Child(Child(d, "statusLine"), k) = None
            \/ Child(Child(d, "statusLine"), k).kind = "scalar"
        BY ScalarIs
      <4> QED BY <3>3, <4>1, Kinds DEF dj
    <3>4. j = "hooks" \/ j = "statusLine"
      <4>1. d # None BY <2>2, Kinds DEF Members
      <4>2. PICK r \in Releases : d = Fragment[r] BY <4>1 DEF Shaped
      <4> QED BY <2>2, <4>2, FragmentAssumption
    <3> QED BY <3>2, <3>3, <3>4
  <2> QED BY <1>7, <1>9, <2>3, <2>4, <2>6, <2>7 DEF Present
<1>10. CASE cj # None /\ oj = None
  <2>1. j \in Members(d) BY <1>2, <1>10, Kinds
  <2>2. x = MergeInstall(cj, dj, m, <<j>>) BY <1>3, <1>10 DEF MergedValue
  <2>3. dj.kind = "object" BY <1>1, <2>1
  <2>4. cj.kind = "object" /\ x = Object(cj, m) BY <1>6, <2>2, <2>3 DEF MergeInstall, Both
  <2> QED BY <1>8, <2>4
<1>11. CASE cj # None /\ oj # None /\ dj # None
  <2>1. dj.kind = "object" /\ oj.kind = "object" BY <1>1, <1>2, <1>11
  <2>2. x = MergeOwned(cj, dj, oj, m, <<j>>) BY <1>3, <1>11 DEF MergedValue
  <2>3. cj.kind = "object" BY <1>6, <2>1, <2>2 DEF MergeOwned, Both
  <2>4. x = Object(cj, m) BY <2>1, <2>2, <2>3 DEF MergeOwned, Both
  <2> QED BY <1>8, <2>3, <2>4
<1>12. CASE cj # None /\ oj # None /\ dj = None
  <2>1. oj.kind = "object" /\ j \notin Members(d) BY <1>1, <1>2, <1>12, Kinds
  <2>2. x = Removed(cj, oj, m, <<j>>) BY <1>3, <1>12 DEF MergedValue
  <2>3. cj.kind = "object" BY <1>6, <2>1, <2>2 DEF Removed, Both
  <2>4. x = Nonempty(Object(cj, m)) BY <2>1, <2>2, <2>3 DEF Removed, Both
  <2>5. Object(cj, m) # Conflict
    <3>1. Nonempty(Conflict) = Conflict BY Kinds DEF Nonempty
    <3> QED BY <1>6, <2>4, <3>1
  <2>6. /\ IsObject(Object(cj, m))
        /\ \A k \in M : m[k] # Conflict /\ Child(Object(cj, m), k) = Present(m[k])
        /\ \A k : k \notin M => Child(Object(cj, m), k) = Child(cj, k)
    BY <1>4, <2>3, <2>5, ObjectIs
  <2>7. CASE x = Object(cj, m) BY <1>8, <2>3, <2>7
  <2>8. CASE x # Object(cj, m)
    <3>1. x = Gone /\ DOMAIN Object(cj, m).at = {}
      BY <2>4, <2>6, <2>8, Kinds DEF Nonempty, IsObject
    <3>2. \A k : Child(Object(cj, m), k) = None BY <3>1 DEF Child, Members
    <3>3. Present(x) = None BY <3>1 DEF Present
    <3> QED BY <1>4, <1>7, <2>1, <2>3, <2>6, <3>2, <3>3
  <2> QED BY <2>7, <2>8
<1> QED BY <1>9, <1>10, <1>11, <1>12

-----------------------------------------------------------------------------
(* The document *)

LEMMA WholeIsObject ==
    ASSUME NEW f, Shaped(f)
    PROVE  f = None \/ (f.kind = "object" /\ f # None)
<1> SUFFICES ASSUME f # None PROVE f.kind = "object" OBVIOUS
<1>1. PICK r \in Releases : f = Fragment[r] BY DEF Shaped
<1>2. IsObject(f) BY <1>1, FragmentAssumption
<1> QED BY <1>2, Kinds DEF IsObject

LEMMA MergedMembers ==
    ASSUME NEW c, IsObject(c), NEW r \in Releases, NEW o, Shaped(o),
           Merged(c, Fragment[r], o) # Conflict
    PROVE  LET d == Fragment[r]
               next == Merged(c, d, o)
           IN /\ IsObject(next)
              /\ \A j \in Members(d) \cup Members(o) :
                   /\ Middle(c, d, o, j) # Conflict
                   /\ Child(next, j) = Present(Middle(c, d, o, j))
              /\ \A j : j \notin Members(d) \cup Members(o) => Child(next, j) = Child(c, j)
<1> DEFINE d == Fragment[r]
           M == Members(d) \cup Members(o)
           m == [j \in M |-> Middle(c, d, o, j)]
<1>1. Shaped(d) BY DEF Shaped
<1>2. Merged(c, d, o) = MergedValue(c, d, o, m, <<>>) BY <1>1, MergedIs DEF Top
<1>3. c.kind = "object" /\ c # None BY Kinds DEF IsObject
<1>4. d.kind = "object" /\ d # None
  <2>1. IsObject(d) BY FragmentAssumption
  <2> QED BY <2>1, Kinds DEF IsObject
<1>5. o = None \/ o.kind = "object" BY WholeIsObject
<1>6. DOMAIN m = M /\ \A j \in M : m[j] = Middle(c, d, o, j) OBVIOUS
<1>7. Merged(c, d, o) # Conflict OBVIOUS
<1> HIDE DEF m, d
<1>8. Merged(c, d, o) = Object(c, m)
  <2>1. CASE o = None
    <3>1. Merged(c, d, o) = MergeInstall(c, d, m, <<>>) BY <1>2, <1>3, <2>1 DEF MergedValue
    <3> QED BY <1>3, <1>4, <3>1 DEF MergeInstall, Both
  <2>2. CASE o # None
    <3>1. Merged(c, d, o) = MergeOwned(c, d, o, m, <<>>)
      BY <1>2, <1>3, <1>4, <2>2 DEF MergedValue
    <3> QED BY <1>3, <1>4, <1>5, <2>2, <3>1 DEF MergeOwned, Both
  <2> QED BY <2>1, <2>2
<1>9. /\ IsObject(Object(c, m))
      /\ \A k \in DOMAIN m : m[k] # Conflict /\ Child(Object(c, m), k) = Present(m[k])
      /\ \A k : k \notin DOMAIN m => Child(Object(c, m), k) = Child(c, k)
  BY <1>3, <1>7, <1>8, ObjectIs
<1>10. /\ IsObject(Merged(c, d, o))
       /\ \A j \in M : /\ Middle(c, d, o, j) # Conflict
                       /\ Child(Merged(c, d, o), j) = Present(Middle(c, d, o, j))
       /\ \A j : j \notin M => Child(Merged(c, d, o), j) = Child(c, j)
  BY <1>6, <1>8, <1>9
<1> QED BY <1>10 DEF d

LEMMA MergedParts ==
    ASSUME NEW c, IsObject(c), NEW r \in Releases, NEW o, Shaped(o),
           Merged(c, Fragment[r], o) # Conflict, NEW j, NEW k
    PROVE  LET d == Fragment[r]
               owned == Members(Child(d, j)) \cup Members(Child(o, j))
               next == Child(Child(Merged(c, d, o), j), k)
           IN /\ k \in owned => /\ Leaf(c, d, o, j, k) # Conflict
                                /\ next = Present(Leaf(c, d, o, j, k))
              /\ k \notin owned => next = Child(Child(c, j), k)
<1> DEFINE d == Fragment[r]
           next == Merged(c, d, o)
           owned == Members(Child(d, j)) \cup Members(Child(o, j))
<1>1. Shaped(d) BY DEF Shaped
<1>2. /\ \A i \in Members(d) \cup Members(o) :
           /\ Middle(c, d, o, i) # Conflict
           /\ Child(next, i) = Present(Middle(c, d, o, i))
      /\ \A i : i \notin Members(d) \cup Members(o) => Child(next, i) = Child(c, i)
  BY MergedMembers
<1> HIDE DEF d, next
<1> SUFFICES /\ k \in owned => /\ Leaf(c, d, o, j, k) # Conflict
                               /\ Child(Child(next, j), k) = Present(Leaf(c, d, o, j, k))
             /\ k \notin owned => Child(Child(next, j), k) = Child(Child(c, j), k)
  BY DEF d, next
<1>3. CASE j \in Members(d) \cup Members(o)
  <2>1. Middle(c, d, o, j) # Conflict /\ Child(next, j) = Present(Middle(c, d, o, j))
    BY <1>2, <1>3
  <2>2. /\ \A i \in owned : /\ Leaf(c, d, o, j, i) # Conflict
                            /\ Child(Present(Middle(c, d, o, j)), i) = Present(Leaf(c, d, o, j, i))
        /\ \A i : i \notin owned =>
             Child(Present(Middle(c, d, o, j)), i) = Child(Child(c, j), i)
    BY <1>1, <1>3, <2>1, MiddleIs
  <2> HIDE DEF owned
  <2> QED BY <2>1, <2>2
<1>4. CASE j \notin Members(d) \cup Members(o)
  <2>1. Child(d, j) = None /\ Child(o, j) = None BY <1>4 DEF Child
  <2>2. owned = {} BY <2>1, Kinds DEF Members
  <2>3. Child(next, j) = Child(c, j) BY <1>2, <1>4
  <2> QED BY <2>2, <2>3
<1> QED BY <1>3, <1>4

\* The array of each event.
LEMMA MergedArrays ==
    ASSUME NEW c, IsObject(c), NEW r \in Releases, NEW o, Shaped(o),
           Merged(c, Fragment[r], o) # Conflict, NEW event,
           event \in Keys => IsList(ArrayAt(c, event))
    PROVE  LET d == Fragment[r]
               next == Merged(c, d, o)
           IN IF event \in Members(Child(d, "hooks")) \cup Members(Child(o, "hooks"))
              THEN MergedArray(ArrayAt(next, event), ArrayAt(c, event), ArrayAt(d, event),
                               ArrayAt(o, event), <<"hooks", event>>)
              ELSE ArrayAt(next, event) = ArrayAt(c, event)
<1> DEFINE d == Fragment[r]
           next == Merged(c, d, o)
           owned == Members(Child(d, "hooks")) \cup Members(Child(o, "hooks"))
           value == Child(Child(next, "hooks"), event)
<1>1. Shaped(d) BY DEF Shaped
<1>2. /\ event \in owned => /\ Leaf(c, d, o, "hooks", event) # Conflict
                            /\ value = Present(Leaf(c, d, o, "hooks", event))
      /\ event \notin owned => value = Child(Child(c, "hooks"), event)
  BY MergedParts
<1>3. ArrayAt(next, event) = IF value.kind = "array" THEN value.of ELSE <<>> BY DEF ArrayAt
<1>4. ArrayAt(c, event) = IF Child(Child(c, "hooks"), event).kind = "array"
                          THEN Child(Child(c, "hooks"), event).of ELSE <<>>
  BY DEF ArrayAt
<1> HIDE DEF d, next, value
<1>5. ASSUME event \in owned
      PROVE  MergedArray(ArrayAt(next, event), ArrayAt(c, event), ArrayAt(d, event),
                         ArrayAt(o, event), <<"hooks", event>>)
  <2>1. event \in Keys BY <1>1, <1>5, ShippedIs
  <2>2. PICK list :
          /\ MergedArray(list, ArrayAt(c, event), ArrayAt(d, event), ArrayAt(o, event),
                         <<"hooks", event>>)
          /\ \/ Leaf(c, d, o, "hooks", event) = Arr(list)
             \/ /\ Leaf(c, d, o, "hooks", event) = Gone
                /\ list = <<>>
    BY <1>1, <1>2, <1>5, <2>1, EventLeaf
  <2>3. ArrayAt(next, event) = list
    <3>1. CASE Leaf(c, d, o, "hooks", event) = Arr(list)
      <4>1. value = Arr(list) BY <1>2, <1>5, <3>1, Kinds DEF Present
      <4> QED BY <1>3, <4>1, Kinds
    <3>2. CASE Leaf(c, d, o, "hooks", event) # Arr(list)
      <4>1. value = None /\ list = <<>> BY <1>2, <1>5, <2>2, <3>2 DEF Present
      <4> QED BY <1>3, <4>1, Kinds
    <3> QED BY <3>1, <3>2
  <2> QED BY <2>2, <2>3
<1>6. ASSUME event \notin owned PROVE ArrayAt(next, event) = ArrayAt(c, event)
  BY <1>2, <1>3, <1>4, <1>6
<1> QED BY <1>5, <1>6 DEF d, next

\* What is there after a merge is as the release has it.
LEMMA LeafStable ==
    ASSUME NEW c, NEW d, Shaped(d), NEW o, Shaped(o), NEW j \in {"hooks", "statusLine"},
           NEW k, k \in Members(Child(d, j)), j = "hooks" => IsList(ArrayAt(c, k)),
           Leaf(c, d, o, j, k) # Conflict
    PROVE  LET leaf == Leaf(c, d, o, j, k)
               shipped == Child(Child(d, j), k)
           IN /\ leaf \notin {None, Conflict, Gone}
              /\ MergedValue(leaf, shipped, shipped, Empty, <<j, k>>) = leaf
<1> DEFINE leaf == Leaf(c, d, o, j, k)
           shipped == Child(Child(d, j), k)
<1>1. CASE j = "hooks"
  <2> DEFINE dl == ArrayAt(d, k)
             path == <<"hooks", k>>
  <2>1. PICK list : /\ MergedArray(list, ArrayAt(c, k), dl, ArrayAt(o, k), path)
                    /\ leaf = Arr(list)
    BY <1>1, EventLeaf
  <2>2. IsList(dl) /\ (path \in Identity => Wellformed(dl)) /\ shipped = Arr(dl)
    BY <1>1, ShippedIs
  <2>3. IsList(list) /\ Placed(list, dl, path) BY <2>1 DEF MergedArray
  <2> HIDE DEF leaf, shipped, dl
  <2>4. OwnedArray(list, dl, dl, path) = Arr(list) BY <2>2, <2>3, PlacedStable
  <2>5. MergedValue(leaf, shipped, shipped, Empty, path) =
          MergeOwned(Arr(list), Arr(dl), Arr(dl), Empty, path)
    BY <2>1, <2>2, Kinds DEF MergedValue
  <2>6. MergeOwned(Arr(list), Arr(dl), Arr(dl), Empty, path) = OwnedArray(list, dl, dl, path)
    BY Kinds DEF MergeOwned, Both
  <2>7. MergedValue(leaf, shipped, shipped, Empty, path) = leaf BY <2>1, <2>4, <2>5, <2>6
  <2>8. leaf \notin {None, Conflict, Gone} BY <2>1, Kinds
  <2> QED BY <1>1, <2>7, <2>8 DEF leaf, shipped
<1>2. CASE j = "statusLine"
  <2>1. shipped.kind = "scalar"
    <3>1. j \in Members(d)
      <4>1. j \notin Members(d) => Child(d, j) = None BY DEF Child
      <4> QED BY <4>1, Kinds DEF Members
    <3>2. d # None BY <3>1, Kinds DEF Members
    <3>3. PICK r \in Releases : d = Fragment[r] BY <3>2 DEF Shaped
    <3>4. Child(d, "statusLine").at[k].kind = "scalar" BY <1>2, <3>3, FragmentAssumption
    <3> QED BY <1>2, <3>4 DEF Child
  <2>2. shipped \notin {None, Conflict, Gone} BY <2>1, Kinds
  <2>3. leaf = shipped BY <1>2, <2>2, LineLeaf
  <2> HIDE DEF leaf, shipped
  <2>4. MergedValue(shipped, shipped, shipped, Empty, <<j, k>>) = shipped
    BY <2>1, <2>2 DEF MergedValue, MergeOwned, Both
  <2> QED BY <2>2, <2>3, <2>4 DEF leaf, shipped
<1> QED BY <1>1, <1>2

\* The document that a merge makes is what the same merge makes of it.
LEMMA MergedStable ==
    ASSUME NEW c, IsObject(c), NEW r \in Releases, NEW o, Shaped(o),
           Merged(c, Fragment[r], o) # Conflict,
           \A event \in Keys : IsList(ArrayAt(c, event))
    PROVE  Merged(Merged(c, Fragment[r], o), Fragment[r], Fragment[r]) = Merged(c, Fragment[r], o)
<1> DEFINE d == Fragment[r]
           next == Merged(c, d, o)
           m == [j \in Members(d) \cup Members(d) |-> Middle(next, d, d, j)]
<1>1. Shaped(d) BY DEF Shaped
<1>2. /\ IsObject(next)
      /\ \A j \in Members(d) \cup Members(o) :
           /\ Middle(c, d, o, j) # Conflict
           /\ Child(next, j) = Present(Middle(c, d, o, j))
  BY MergedMembers
<1>3. \A j, k : k \in Members(Child(d, j)) \cup Members(Child(o, j)) =>
                  /\ Leaf(c, d, o, j, k) # Conflict
                  /\ Child(Child(next, j), k) = Present(Leaf(c, d, o, j, k))
  <2> SUFFICES ASSUME NEW j, NEW k, k \in Members(Child(d, j)) \cup Members(Child(o, j))
               PROVE  /\ Leaf(c, d, o, j, k) # Conflict
                      /\ Child(Child(next, j), k) = Present(Leaf(c, d, o, j, k))
    OBVIOUS
  <2> QED BY MergedParts
<1>4. d.kind = "object" /\ d # None
  <2>1. IsObject(d) BY FragmentAssumption
  <2> HIDE DEF d
  <2> QED BY <2>1, Kinds DEF IsObject
<1>5. Members(d) \subseteq {"hooks", "statusLine"} BY FragmentAssumption
<1> HIDE DEF d, next
<1>6. next.kind = "object" /\ next # None BY <1>2, Kinds DEF IsObject
<1>7. ASSUME NEW j \in Members(d)
      PROVE  Middle(next, d, d, j) = Child(next, j) /\ Child(next, j).kind = "object"
  <2> DEFINE v == Child(next, j)
             dj == Child(d, j)
             mm == [k \in Members(dj) \cup Members(dj) |-> Leaf(next, d, d, j, k)]
  <2>1. IsObject(v) BY <1>1, <1>2, <1>7, MiddleIs
  <2>2. dj.kind = "object" /\ dj # None BY <1>1, <1>7, PartIsObject, Kinds
  <2>3. ASSUME NEW k \in Members(dj)
        PROVE  mm[k] = Child(v, k) /\ mm[k] \notin {None, Conflict, Gone}
    <3> DEFINE leaf == Leaf(c, d, o, j, k)
               shipped == Child(dj, k)
    <3>1. leaf # Conflict /\ Child(v, k) = Present(leaf) BY <1>3, <2>3
    <3>2. j = "hooks" => IsList(ArrayAt(c, k)) BY <1>1, <2>3, ShippedIs
    <3>3. /\ leaf \notin {None, Conflict, Gone}
          /\ MergedValue(leaf, shipped, shipped, Empty, <<j, k>>) = leaf
      BY <1>1, <1>5, <1>7, <2>3, <3>1, <3>2, LeafStable
    <3>4. Child(v, k) = leaf BY <3>1, <3>3 DEF Present
    <3>5. mm[k] = MergedValue(Child(v, k), shipped, shipped, Empty, <<j, k>>) BY <2>3 DEF Leaf
    <3> HIDE DEF leaf, shipped, v, mm
    <3> QED BY <3>3, <3>4, <3>5
  <2>4. DOMAIN mm = Members(dj) OBVIOUS
  <2>5. Middle(next, d, d, j) = MergedValue(v, dj, dj, mm, <<j>>) BY DEF Middle
  <2> HIDE DEF v, dj, mm
  <2>6. v.kind = "object" /\ v # None BY <2>1, Kinds DEF IsObject
  <2>7. Middle(next, d, d, j) = Object(v, mm)
    BY <2>2, <2>5, <2>6 DEF MergedValue, MergeOwned, Both
  <2>8. Object(v, mm) = v BY <2>1, <2>3, <2>4, ObjectSame
  <2> QED BY <2>6, <2>7, <2>8 DEF v
<1>8. DOMAIN m = Members(d) /\ \A j \in Members(d) : m[j] = Middle(next, d, d, j) OBVIOUS
<1>9. Merged(next, d, d) = MergedValue(next, d, d, m, <<>>) BY <1>1, MergedIs DEF Top
<1> HIDE DEF m
<1>10. Merged(next, d, d) = Object(next, m)
  BY <1>4, <1>6, <1>9 DEF MergedValue, MergeOwned, Both
<1>11. \A j \in DOMAIN m : m[j] = Child(next, j) /\ m[j] \notin {None, Conflict, Gone}
  BY <1>7, <1>8, Kinds
<1>12. Object(next, m) = next BY <1>2, <1>11, ObjectSame
<1> QED BY <1>10, <1>12 DEF next, d

-----------------------------------------------------------------------------
(* The marked block *)

\* The block of a release is the only one.
HasBlock(lines, r, i) ==
    /\ i \in 1..Len(lines) /\ i + 2 \in 1..Len(lines)
    /\ lines[i] = Start /\ lines[i + 1] = Body[r] /\ lines[i + 2] = End
    /\ \A j \in 1..Len(lines) : /\ lines[j] \in {Start, Inline} => j = i
                                /\ lines[j] = End => j = i + 2

LEMMA MarksDiffer ==
    /\ Start # End /\ Start # Inline /\ End # Inline
    /\ \A r \in Releases : Body[r] # Start /\ Body[r] # End /\ Body[r] # Inline
BY BodyAssumption DEF Start, End, Inline

LEMMA BlockIs ==
    ASSUME NEW r \in Releases
    PROVE  /\ Len(Block(r)) = 3 /\ DOMAIN Block(r) = 1..3
           /\ Block(r)[1] = Start /\ Block(r)[2] = Body[r] /\ Block(r)[3] = End
           /\ Range(Block(r)) = {Start, Body[r], End}
           /\ Block(r) \in Seq({Start, Body[r], End})
<1>1. /\ Len(Block(r)) = 3 /\ DOMAIN Block(r) = 1..3
      /\ Block(r)[1] = Start /\ Block(r)[2] = Body[r] /\ Block(r)[3] = End
      /\ Block(r) \in Seq({Start, Body[r], End})
  BY DEF Block
<1>2. \A i \in 1..3 : i = 1 \/ i = 2 \/ i = 3 OBVIOUS
<1>3. 1 \in 1..3 /\ 2 \in 1..3 /\ 3 \in 1..3 OBVIOUS
<1>4. Range(Block(r)) = {Start, Body[r], End} BY ONLY <1>1, <1>2, <1>3 DEF Range
<1> QED BY <1>1, <1>4

LEMMA SpansAre ==
    ASSUME NEW lines, NEW i \in Places(lines, {Start}), NEW k \in Places(lines, {End}), i < k,
           \A j \in Places(lines, {Start}) : j = i, \A j \in Places(lines, {End}) : j = k
    PROVE  Blocks(lines) = {<<i, k>>}
<1>1. Places(lines, {Start}) = {i} /\ Places(lines, {End}) = {k} OBVIOUS
<1>2. {i} \X {k} = {<<i, k>>} OBVIOUS
<1>3. <<i, k>>[1] = i /\ <<i, k>>[2] = k OBVIOUS
<1>4. Blocks(lines) = {span \in {<<i, k>>} : span[1] < span[2]} BY <1>1, <1>2 DEF Blocks
<1> QED BY ONLY <1>3, <1>4, i < k

LEMMA HasBlockIs ==
    ASSUME NEW S, NEW lines \in Seq(S), NEW r \in Releases, NEW i, HasBlock(lines, r, i)
    PROVE  /\ ~NoBlock(lines) /\ ~Malformed(lines)
           /\ Blocks(lines) = {<<i, i + 2>>}
           /\ SubSeq(lines, i, i + 2) = Block(r)
<1>1. PICK n \in Nat : n = Len(lines) /\ DOMAIN lines = 1..n BY LenProperties
<1>2. /\ i \in 1..n /\ i + 2 \in 1..n
      /\ lines[i] = Start /\ lines[i + 1] = Body[r] /\ lines[i + 2] = End
      /\ \A j \in 1..n : /\ lines[j] \in {Start, Inline} => j = i
                         /\ lines[j] = End => j = i + 2
  BY <1>1 DEF HasBlock
<1>3. Places(lines, {Start, Inline}) = {i} /\ Places(lines, {End}) = {i + 2}
      /\ Places(lines, {Start}) = {i} /\ i \in Places(lines, {Start, End, Inline})
  BY <1>1, <1>2, MarksDiffer DEF Places
<1>4. i \in Nat /\ i < i + 2 BY <1>2
<1>5. Blocks(lines) = {<<i, i + 2>>}
  <2>1. i \in Places(lines, {Start}) /\ i + 2 \in Places(lines, {End}) BY <1>3
  <2>2. /\ \A j \in Places(lines, {Start}) : j = i
        /\ \A j \in Places(lines, {End}) : j = i + 2
    BY <1>3
  <2> QED BY ONLY <1>4, <2>1, <2>2, SpansAre
<1>6. ~NoBlock(lines) /\ ~Malformed(lines) BY <1>3, <1>5 DEF NoBlock, Malformed
<1>7. SubSeq(lines, i, i + 2) = Block(r)
  <2>1. 1 <= i /\ i + 2 \in Nat /\ i + 2 <= Len(lines) BY <1>1, <1>2
  <2>2. /\ SubSeq(lines, i, i + 2) \in Seq(S)
        /\ Len(SubSeq(lines, i, i + 2)) = IF i <= i + 2 THEN (i + 2) - i + 1 ELSE 0
        /\ \A k \in 1..(i + 2) - i + 1 : SubSeq(lines, i, i + 2)[k] = lines[i + k - 1]
    BY <1>4, <2>1, PartIs
  <2> DEFINE part == SubSeq(lines, i, i + 2)
  <2> HIDE DEF part
  <2>3. Len(part) = 3 /\ \A k \in 1..3 : part[k] = lines[i + k - 1] BY <1>4, <2>2 DEF part
  <2>4. part[1] = lines[i] /\ part[2] = lines[i + 1] /\ part[3] = lines[i + 2] BY <1>4, <2>3
  <2>5. \A k \in 1..3 : k = 1 \/ k = 2 \/ k = 3 OBVIOUS
  <2>6. \A k \in 1..Len(part) : part[k] = Block(r)[k] BY <1>2, <2>3, <2>4, <2>5, BlockIs
  <2>7. part \in Seq(S) BY <2>2 DEF part
  <2>8. Block(r) \in Seq({Start, Body[r], End}) /\ Len(Block(r)) = Len(part) BY <2>3, BlockIs
  <2>9. part = Block(r) BY ONLY <2>6, <2>7, <2>8, SameEntries
  <2> QED BY <2>9 DEF part
<1> QED BY <1>5, <1>6, <1>7

\* Lines that are not malformed have one block.
LEMMA OneBlock ==
    ASSUME NEW S, NEW lines \in Seq(S), ~Malformed(lines)
    PROVE  \E i, k \in 1..Len(lines) :
             /\ i < k /\ lines[i] = Start /\ lines[k] = End
             /\ \A j \in 1..Len(lines) : /\ lines[j] \in {Start, Inline} => j = i
                                         /\ lines[j] = End => j = k
             /\ Blocks(lines) = {<<i, k>>}
<1>1. PICK n \in Nat : n = Len(lines) /\ DOMAIN lines = 1..n BY LenProperties
<1>2. PICK span \in Blocks(lines) : TRUE BY DEF Malformed
<1>3. PICK i, k : /\ i \in Places(lines, {Start}) /\ k \in Places(lines, {End}) /\ i < k
                  /\ span = <<i, k>>
  BY <1>2 DEF Blocks
<1>4. i \in 1..n /\ k \in 1..n /\ lines[i] = Start /\ lines[k] = End BY <1>1, <1>3 DEF Places
<1>5. \A j \in 1..n : /\ lines[j] \in {Start, Inline} => j = i
                      /\ lines[j] = End => j = k
  BY <1>1, <1>4 DEF Malformed, Places
<1>6. Blocks(lines) = {<<i, k>>}
  <2>1. /\ \A j \in Places(lines, {Start}) : j = i
        /\ \A j \in Places(lines, {End}) : j = k
    BY <1>1, <1>4, <1>5 DEF Places
  <2> QED BY ONLY <1>3, <2>1, SpansAre
<1> QED BY <1>1, <1>3, <1>4, <1>5, <1>6

\* A block of a release that lies between the two markers has three lines.
LEMMA SpanIs ==
    ASSUME NEW S, NEW lines \in Seq(S), NEW r \in Releases,
           NEW i \in 1..Len(lines), NEW k \in 1..Len(lines), i < k,
           lines[i] = Start, lines[k] = End,
           \A j \in 1..Len(lines) : /\ lines[j] \in {Start, Inline} => j = i
                                    /\ lines[j] = End => j = k,
           SubSeq(lines, i, k) = Block(r)
    PROVE  HasBlock(lines, r, i) /\ k = i + 2
<1>1. PICK n \in Nat : n = Len(lines) /\ DOMAIN lines = 1..n BY LenProperties
<1>2. i \in Nat /\ k \in Nat /\ 1 <= i /\ k <= Len(lines) /\ i <= k BY <1>1
<1>3. /\ Len(SubSeq(lines, i, k)) = k - i + 1
      /\ \A j \in 1..k - i + 1 : SubSeq(lines, i, k)[j] = lines[i + j - 1]
  BY <1>2, PartIs
<1>4. k - i + 1 = 3 BY <1>3, BlockIs
<1>5. k = i + 2 BY <1>2, <1>4
<1>6. lines[i + 1] = Body[r]
  <2>1. 2 \in 1..k - i + 1 /\ i + 2 - 1 = i + 1 BY <1>2, <1>4
  <2>2. SubSeq(lines, i, k)[2] = lines[i + 1] BY <1>3, <2>1
  <2> QED BY <2>2, BlockIs
<1> QED BY <1>5, <1>6 DEF HasBlock

\* A block at the end of lines that have none.
LEMMA AppendedBlock ==
    ASSUME NEW S, NEW lines \in Seq(S), NoBlock(lines), NEW r \in Releases,
           NEW E, Range(Block(r)) \subseteq E
    PROVE  LET next == lines \o Block(r) IN
           /\ next \in Seq(S \cup E)
           /\ HasBlock(next, r, Len(lines) + 1)
           /\ Others(next, E) = Others(lines, E)
<1> DEFINE T == S \cup E
           next == lines \o Block(r)
<1>1. PICK n \in Nat : n = Len(lines) /\ DOMAIN lines = 1..n BY LenProperties
<1>2. Start \in E /\ Body[r] \in E /\ End \in E BY BlockIs
<1>3. lines \in Seq(T) /\ Block(r) \in Seq(T)
  <2>1. S \subseteq T /\ {Start, Body[r], End} \subseteq T BY <1>2
  <2> HIDE DEF T
  <2> QED BY <2>1, BlockIs, SeqMonotonic
<1>4. Start \in T /\ Body[r] \in T /\ End \in T BY <1>2
<1> HIDE DEF T
<1>5. /\ next \in Seq(T)
      /\ Len(next) = Len(lines) + Len(Block(r))
      /\ \A i \in 1..Len(lines) + Len(Block(r)) :
           next[i] = IF i <= Len(lines) THEN lines[i] ELSE Block(r)[i - Len(lines)]
  BY <1>3, ConcatProperties
<1> HIDE DEF next
<1>6. Len(next) = n + 3 BY <1>1, <1>5, BlockIs
<1>7. /\ \A i \in 1..n : next[i] = lines[i]
      /\ next[n + 1] = Start /\ next[n + 2] = Body[r] /\ next[n + 3] = End
  <2>1. \A i \in 1..n + 3 : next[i] = IF i <= n THEN lines[i] ELSE Block(r)[i - n]
    BY <1>1, <1>5, BlockIs
  <2>2. /\ n + 1 \in 1..n + 3 /\ ~(n + 1 <= n) /\ (n + 1) - n = 1
        /\ n + 2 \in 1..n + 3 /\ ~(n + 2 <= n) /\ (n + 2) - n = 2
        /\ n + 3 \in 1..n + 3 /\ ~(n + 3 <= n) /\ (n + 3) - n = 3
    OBVIOUS
  <2>3. next[n + 1] = Block(r)[1] /\ next[n + 2] = Block(r)[2] /\ next[n + 3] = Block(r)[3]
    BY ONLY <2>1, <2>2
  <2>4. \A i \in 1..n : i \in 1..n + 3 /\ i <= n OBVIOUS
  <2> QED BY <2>1, <2>3, <2>4, BlockIs
<1>8. HasBlock(next, r, Len(lines) + 1)
  <2>1. \A i \in 1..n : lines[i] # Start /\ lines[i] # End /\ lines[i] # Inline
    BY <1>1 DEF NoBlock, Places
  <2>2. \A j \in 1..n + 3 : j \in 1..n \/ j = n + 1 \/ j = n + 2 \/ j = n + 3 OBVIOUS
  <2>3. \A j \in 1..n + 3 : /\ next[j] \in {Start, Inline} => j = n + 1
                            /\ next[j] = End => j = n + 3
    BY <1>7, <2>1, <2>2, MarksDiffer
  <2>4. n + 1 \in 1..n + 3 /\ n + 3 \in 1..n + 3 /\ (n + 1) + 1 = n + 2 /\ (n + 1) + 2 = n + 3
    OBVIOUS
  <2>5. HasBlock(next, r, n + 1) BY <1>6, <1>7, <2>3, <2>4 DEF HasBlock
  <2> QED BY <1>1, <2>5
<1>9. Others(next, E) = Others(lines, E)
  <2> DEFINE a == Append(lines, Start)
             b == Append(a, Body[r])
             c == Append(b, End)
  <2>1. /\ a \in Seq(T) /\ Len(a) = n + 1 /\ a[n + 1] = Start
        /\ \A i \in 1..n : a[i] = lines[i]
    BY <1>1, <1>3, <1>4, AppendProperties
  <2>2. Others(a, E) = Others(lines, E) BY <1>2, <1>3, OthersAppend
  <2> HIDE DEF a
  <2>3. /\ b \in Seq(T) /\ Len(b) = n + 2 /\ b[n + 2] = Body[r]
        /\ \A i \in 1..n + 1 : b[i] = a[i]
    BY <1>4, <2>1, AppendProperties
  <2>4. Others(b, E) = Others(a, E) BY <1>2, <2>1, OthersAppend
  <2> HIDE DEF b
  <2>5. /\ c \in Seq(T) /\ Len(c) = n + 3 /\ c[n + 3] = End
        /\ \A i \in 1..n + 2 : c[i] = b[i]
    BY <1>4, <2>3, AppendProperties
  <2>6. Others(c, E) = Others(b, E) BY <1>2, <2>3, OthersAppend
  <2> HIDE DEF c
  <2>7. \A i \in 1..n + 3 : \/ i \in 1..n /\ i \in 1..n + 1 /\ i \in 1..n + 2
                            \/ i = n + 1 /\ i \in 1..n + 1 /\ i \in 1..n + 2
                            \/ i = n + 2 /\ i \in 1..n + 2
                            \/ i = n + 3
    OBVIOUS
  <2>8. \A i \in 1..n + 3 : c[i] = next[i] BY <1>7, <2>1, <2>3, <2>5, <2>7
  <2>9. Len(c) = Len(next) /\ \A i \in 1..Len(c) : c[i] = next[i] BY <1>6, <2>5, <2>8
  <2>10. c = next BY ONLY <1>5, <2>5, <2>9, SameEntries
  <2> QED BY <2>2, <2>4, <2>6, <2>10
<1> QED BY <1>5, <1>8, <1>9 DEF next, T

\* The block of a release in the place of another's.
LEMMA ReplacedBlock ==
    ASSUME NEW S, NEW lines \in Seq(S), NEW q \in Releases, NEW r \in Releases, NEW i,
           HasBlock(lines, q, i),
           NEW E, {Start, End, Body[q], Body[r]} \subseteq E
    PROVE  LET next == SubSeq(lines, 1, i - 1) \o Block(r) \o SubSeq(lines, i + 3, Len(lines)) IN
           /\ next \in Seq(S \cup E)
           /\ HasBlock(next, r, i)
           /\ Others(next, E) = Others(lines, E)
<1> DEFINE T == S \cup E
           a == SubSeq(lines, 1, i - 1)
           ab == a \o Block(r)
           c == SubSeq(lines, i + 3, Len(lines))
           next == ab \o c
<1>1. PICK n \in Nat : n = Len(lines) /\ DOMAIN lines = 1..n BY LenProperties
<1>2. Start \in E /\ Body[r] \in E /\ End \in E /\ Body[q] \in E OBVIOUS
<1>3. lines \in Seq(T) /\ Block(r) \in Seq(T)
  <2>1. S \subseteq T /\ {Start, Body[r], End} \subseteq T BY <1>2
  <2>2. Block(r) \in Seq({Start, Body[r], End}) BY BlockIs
  <2> HIDE DEF T
  <2> QED BY ONLY <2>1, <2>2, lines \in Seq(S), SeqMonotonic
<1> HIDE DEF T
<1>4. /\ i \in 1..n /\ i + 2 \in 1..n
      /\ lines[i] = Start /\ lines[i + 1] = Body[q] /\ lines[i + 2] = End
      /\ \A j \in 1..n : /\ lines[j] \in {Start, Inline} => j = i
                         /\ lines[j] = End => j = i + 2
  BY <1>1 DEF HasBlock
<1>5. /\ a \in Seq(T) /\ Len(a) = i - 1
      /\ \A j \in 1..i - 1 : a[j] = lines[j]
  <2>1. 1 \in Nat /\ i - 1 \in Nat /\ 1 <= 1 /\ i - 1 <= Len(lines) BY <1>1, <1>4
  <2>2. /\ SubSeq(lines, 1, i - 1) \in Seq(T)
        /\ Len(SubSeq(lines, 1, i - 1)) = IF 1 <= i - 1 THEN (i - 1) - 1 + 1 ELSE 0
        /\ \A j \in 1..(i - 1) - 1 + 1 : SubSeq(lines, 1, i - 1)[j] = lines[1 + j - 1]
    BY ONLY <1>3, <2>1, PartIs
  <2> HIDE DEF a
  <2>3. /\ a \in Seq(T)
        /\ Len(a) = IF 1 <= i - 1 THEN (i - 1) - 1 + 1 ELSE 0
        /\ \A j \in 1..(i - 1) - 1 + 1 : a[j] = lines[1 + j - 1]
    BY <2>2 DEF a
  <2>4. Len(a) = i - 1 BY <1>4, <2>3
  <2>5. \A j \in 1..i - 1 : j \in 1..(i - 1) - 1 + 1 /\ 1 + j - 1 = j BY <1>4
  <2> QED BY <2>3, <2>4, <2>5
<1>6. /\ c \in Seq(T) /\ Len(c) = n - i - 2
      /\ \A j \in 1..n - i - 2 : c[j] = lines[i + 2 + j]
  <2>1. i + 3 \in Nat /\ Len(lines) \in Nat /\ 1 <= i + 3 /\ Len(lines) <= Len(lines)
    BY <1>1, <1>4
  <2>2. /\ SubSeq(lines, i + 3, Len(lines)) \in Seq(T)
        /\ Len(SubSeq(lines, i + 3, Len(lines))) =
             IF i + 3 <= Len(lines) THEN Len(lines) - (i + 3) + 1 ELSE 0
        /\ \A j \in 1..Len(lines) - (i + 3) + 1 :
             SubSeq(lines, i + 3, Len(lines))[j] = lines[(i + 3) + j - 1]
    BY ONLY <1>3, <2>1, PartIs
  <2> HIDE DEF c
  <2>3. /\ c \in Seq(T)
        /\ Len(c) = IF i + 3 <= n THEN n - (i + 3) + 1 ELSE 0
        /\ \A j \in 1..n - (i + 3) + 1 : c[j] = lines[(i + 3) + j - 1]
    BY <1>1, <2>2 DEF c
  <2>4. Len(c) = n - i - 2 BY <1>4, <2>3
  <2>5. ASSUME NEW j \in 1..n - i - 2 PROVE j \in 1..n - (i + 3) + 1 /\ (i + 3) + j - 1 = i + 2 + j
    <3>1. i \in Nat BY <1>4
    <3> QED BY ONLY <3>1, n \in Nat
  <2> QED BY <2>3, <2>4, <2>5
<1> HIDE DEF a, c
<1>7. /\ ab \in Seq(T) /\ Len(ab) = i + 2
      /\ \A j \in 1..i + 2 : ab[j] = IF j <= i - 1 THEN lines[j] ELSE Block(r)[j - (i - 1)]
  <2>1. /\ ab \in Seq(T) /\ Len(ab) = Len(a) + Len(Block(r))
        /\ \A j \in 1..Len(a) + Len(Block(r)) :
             ab[j] = IF j <= Len(a) THEN a[j] ELSE Block(r)[j - Len(a)]
    BY <1>3, <1>5, ConcatProperties
  <2> HIDE DEF ab
  <2>2. Len(a) + Len(Block(r)) = i + 2
    <3>1. i \in Nat BY <1>4
    <3>2. Len(Block(r)) = 3 BY ONLY r \in Releases, BlockIs
    <3> QED BY ONLY <1>5, <3>1, <3>2
  <2>3. \A j \in 1..i + 2 : j <= i - 1 => j \in 1..i - 1 BY <1>4
  <2> QED BY <1>5, <2>1, <2>2, <2>3
<1> HIDE DEF ab
<1>8. /\ next \in Seq(T) /\ Len(next) = n
      /\ \A j \in 1..n : next[j] = IF j <= i + 2 THEN ab[j] ELSE c[j - (i + 2)]
  <2>1. /\ next \in Seq(T) /\ Len(next) = Len(ab) + Len(c)
        /\ \A j \in 1..Len(ab) + Len(c) :
             next[j] = IF j <= Len(ab) THEN ab[j] ELSE c[j - Len(ab)]
    BY <1>6, <1>7, ConcatProperties
  <2> HIDE DEF next
  <2>2. Len(ab) + Len(c) = n BY <1>4, <1>6, <1>7
  <2> QED BY <1>7, <2>1, <2>2
<1> HIDE DEF next
<1>9. /\ next[i] = Start /\ next[i + 1] = Body[r] /\ next[i + 2] = End
      /\ \A j \in 1..n : j # i /\ j # i + 1 /\ j # i + 2 => next[j] = lines[j]
  <2>1. /\ i \in 1..n /\ i <= i + 2 /\ i \in 1..i + 2 /\ ~(i <= i - 1) /\ i - (i - 1) = 1
        /\ i + 1 \in 1..n /\ i + 1 <= i + 2 /\ i + 1 \in 1..i + 2 /\ ~(i + 1 <= i - 1)
        /\ (i + 1) - (i - 1) = 2
        /\ i + 2 \in 1..n /\ i + 2 <= i + 2 /\ i + 2 \in 1..i + 2 /\ ~(i + 2 <= i - 1)
        /\ (i + 2) - (i - 1) = 3
    BY <1>4
  <2>2. next[i] = ab[i] /\ next[i + 1] = ab[i + 1] /\ next[i + 2] = ab[i + 2]
    BY ONLY <1>8, <2>1
  <2>3. /\ ab[i] = Block(r)[1] /\ ab[i + 1] = Block(r)[2] /\ ab[i + 2] = Block(r)[3]
    BY ONLY <1>7, <2>1
  <2>4. ASSUME NEW j \in 1..n, j # i, j # i + 1, j # i + 2 PROVE next[j] = lines[j]
    <3>1. CASE j <= i - 1
      <4>1. j <= i + 2 /\ j \in 1..i + 2 BY <1>4, <3>1
      <4> QED BY <1>7, <1>8, <3>1, <4>1
    <3>2. CASE ~(j <= i - 1)
      <4>1. ~(j <= i + 2) /\ j - (i + 2) \in 1..n - i - 2 /\ i + 2 + (j - (i + 2)) = j
        BY <1>4, <2>4, <3>2
      <4> QED BY <1>6, <1>8, <4>1
    <3> QED BY <3>1, <3>2
  <2> QED BY <2>2, <2>3, <2>4, BlockIs
<1>10. HasBlock(next, r, i)
  <2>1. \A j \in 1..n : /\ next[j] \in {Start, Inline} => j = i
                        /\ next[j] = End => j = i + 2
    BY <1>4, <1>9, MarksDiffer
  <2> QED BY <1>4, <1>8, <1>9, <2>1 DEF HasBlock
<1>11. Others(next, E) = Others(lines, E)
  <2>1. \A j \in 1..n : next[j] = lines[j] \/ (next[j] \in E /\ lines[j] \in E)
    BY <1>2, <1>4, <1>9
  <2>2. Len(next) = Len(lines) /\ \A j \in 1..Len(next) :
          next[j] = lines[j] \/ (next[j] \in E /\ lines[j] \in E)
    BY <1>1, <1>8, <2>1
  <2> QED BY ONLY <1>3, <1>8, <2>2, OthersSame
<1> QED BY <1>8, <1>10, <1>11 DEF next, ab, a, c, T

\* The instruction file after a merge: the release's block, and the user's lines.
LEMMA NotesMerged ==
    ASSUME notes \in Seq(Range(notes)), installed \in Releases \cup {None},
           NEW r \in Releases, NEW next \in MergedNotes(r)
    PROVE  /\ next \in Seq(Range(next))
           /\ \E i : HasBlock(next, r, i)
           /\ UsersLines(next, r) = UsersLines(notes, r)
<1> DEFINE before == IF installed = None THEN {} ELSE Range(Block(installed))
           E == Range(Block(r)) \cup before
           S == Range(notes)
<1>1. Range(Block(r)) \subseteq E OBVIOUS
<1>2. installed # None => installed \in Releases /\ Range(Block(installed)) \subseteq E OBVIOUS
<1>3. UsersLines(next, r) = Others(next, E) /\ UsersLines(notes, r) = Others(notes, E)
  BY DEF UsersLines
<1> HIDE DEF E
<1> SUFFICES /\ \E T : next \in Seq(T)
             /\ \E i : HasBlock(next, r, i)
             /\ Others(next, E) = Others(notes, E)
  BY <1>3, SequenceOf
<1> HIDE DEF S
<1>4. notes \in Seq(S) BY DEF S
<1>5. CASE NoBlock(notes)
  <2>1. next = notes \o Block(r) BY <1>5 DEF MergedNotes
  <2> QED BY ONLY <1>1, <1>4, <1>5, <2>1, r \in Releases, AppendedBlock
<1>6. CASE ~NoBlock(notes)
  <2>1. ~Malformed(notes) BY <1>6 DEF MergedNotes
  <2>2. PICK i, k \in 1..Len(notes) :
          /\ i < k /\ notes[i] = Start /\ notes[k] = End
          /\ \A j \in 1..Len(notes) : /\ notes[j] \in {Start, Inline} => j = i
                                      /\ notes[j] = End => j = k
          /\ Blocks(notes) = {<<i, k>>}
    BY <1>4, <2>1, OneBlock
  <2>3. (CHOOSE s \in Blocks(notes) : TRUE) = <<i, k>> BY <2>2
  <2> DEFINE block == SubSeq(notes, i, k)
             changed == SubSeq(notes, 1, i - 1) \o Block(r) \o SubSeq(notes, k + 1, Len(notes))
  <2>4. next \in IF block = Block(r) THEN {notes}
                 ELSE IF installed = None \/ block # Block(installed) THEN {}
                 ELSE {changed}
    <3> DEFINE span == CHOOSE s \in Blocks(notes) : TRUE
    <3>1. MergedNotes(r) =
            LET b == SubSeq(notes, span[1], span[2])
            IN IF b = Block(r) THEN {notes}
               ELSE IF installed = None \/ b # Block(installed) THEN {}
               ELSE {SubSeq(notes, 1, span[1] - 1) \o Block(r)
                     \o SubSeq(notes, span[2] + 1, Len(notes))}
      BY <1>6, <2>1 DEF MergedNotes
    <3>2. span = <<i, k>> BY <2>3
    <3> HIDE DEF span
    <3>3. span[1] = i /\ span[2] = k BY ONLY <3>2
    <3> QED BY ONLY <3>1, <3>3, next \in MergedNotes(r)
  <2>5. CASE block = Block(r)
    <3>1. next = notes BY <2>4, <2>5
    <3>2. HasBlock(notes, r, i) BY <1>4, <2>2, <2>5, SpanIs
    <3> QED BY <1>4, <3>1, <3>2
  <2>6. CASE block # Block(r)
    <3>1. installed # None /\ installed \in Releases /\ block = Block(installed) /\ next = changed
      BY <1>2, <2>4, <2>6
    <3>2. HasBlock(notes, installed, i) /\ k = i + 2 BY <1>4, <2>2, <3>1, SpanIs
    <3>3. k + 1 = i + 3
      <4>1. i \in Nat BY <2>2
      <4> QED BY <3>2, <4>1
    <3>4. {Start, End, Body[installed], Body[r]} \subseteq E
      <4>1. Range(Block(installed)) \subseteq E BY <1>2, <3>1
      <4> QED BY <1>1, <3>1, <4>1, BlockIs
    <3> DEFINE other == SubSeq(notes, 1, i - 1) \o Block(r) \o SubSeq(notes, i + 3, Len(notes))
    <3>5. next = other BY <3>1, <3>3
    <3>6. other \in Seq(S \cup E) /\ HasBlock(other, r, i) /\ Others(other, E) = Others(notes, E)
      <4>1. installed \in Releases BY <3>1
      <4>2. HasBlock(notes, installed, i) BY <3>2
      <4> QED BY ONLY <1>1, <1>4, <3>4, <4>1, <4>2, r \in Releases, ReplacedBlock
    <3> HIDE DEF other
    <3> QED BY <3>5, <3>6
  <2> QED BY <2>5, <2>6
<1> QED BY <1>5, <1>6

LEMMA NotesStable ==
    ASSUME notes \in Seq(Range(notes)), NEW r \in Releases, NEW i, HasBlock(notes, r, i)
    PROVE  MergedNotes(r) = {notes}
<1>1. /\ ~NoBlock(notes) /\ ~Malformed(notes)
      /\ Blocks(notes) = {<<i, i + 2>>}
      /\ SubSeq(notes, i, i + 2) = Block(r)
  BY HasBlockIs
<1>2. (CHOOSE s \in Blocks(notes) : TRUE) = <<i, i + 2>> BY <1>1
<1> QED BY <1>1, <1>2 DEF MergedNotes

-----------------------------------------------------------------------------
(* The edits and the runs *)

LEMMA EditedIs ==
    ASSUME NEW S, NEW X, NEW s \in Seq(S), NEW t \in Edited(s, X)
    PROVE  t \in Seq(S \cup X)
<1> DEFINE T == S \cup X
<1>1. s \in Seq(T)
  <2>1. S \subseteq T OBVIOUS
  <2> HIDE DEF T
  <2> QED BY <2>1, SeqMonotonic
<1>2. \A e \in X : e \in T OBVIOUS
<1> HIDE DEF T
<1>3. Len(s) \in Nat /\ DOMAIN s = 1..Len(s) BY LenProperties
<1>4. ASSUME NEW i \in 1..Len(s) + 1, NEW e \in X PROVE InsertAt(s, i, e) \in Seq(T)
  <2>1. SubSeq(s, 1, i - 1) \in Seq(T)
    <3>1. 1 \in Nat /\ i - 1 \in Nat /\ 1 <= 1 /\ i - 1 <= Len(s) BY <1>3
    <3> QED BY ONLY <1>1, <3>1, PartIs
  <2>2. SubSeq(s, i, Len(s)) \in Seq(T)
    <3>1. i \in Nat /\ 1 <= i /\ Len(s) <= Len(s) BY <1>3
    <3> QED BY ONLY <1>1, <1>3, <3>1, PartIs
  <2>3. <<e>> \in Seq(T) BY <1>2
  <2>4. SubSeq(s, 1, i - 1) \o <<e>> \in Seq(T) BY ONLY <2>1, <2>3, ConcatProperties
  <2>5. (SubSeq(s, 1, i - 1) \o <<e>>) \o SubSeq(s, i, Len(s)) \in Seq(T)
    BY ONLY <2>2, <2>4, ConcatProperties
  <2> QED BY <2>5 DEF InsertAt
<1>5. ASSUME NEW i \in DOMAIN s PROVE RemoveAt(s, i) \in Seq(T)
  BY <1>1, <1>3, RemoveAtIs
<1> QED BY <1>4, <1>5 DEF Edited, T

LEMMA EditedList ==
    ASSUME NEW X, None \notin X, NEW s, IsList(s), NEW t \in Edited(s, X)
    PROVE  IsList(t)
<1>1. s \in Seq(Range(s)) /\ None \notin Range(s) BY DEF IsList
<1>2. t \in Seq(Range(s) \cup X) BY <1>1, EditedIs
<1>3. None \notin Range(s) \cup X BY <1>1
<1> QED BY <1>2, <1>3, MakeList

LEMMA WithoutIs ==
    ASSUME NEW object, object.kind = "object", NEW k
    PROVE  /\ IsObject(Without(object, k))
           /\ \A j : Child(Without(object, k), j) = IF j = k THEN None ELSE Child(object, j)
<1> DEFINE at == [j \in DOMAIN object.at \ {k} |-> object.at[j]]
<1>1. Without(object, k) = Obj(at) BY DEF Without
<1>2. DOMAIN at = DOMAIN object.at \ {k} /\ \A j \in DOMAIN at : at[j] = object.at[j] OBVIOUS
<1>3. at = [j \in DOMAIN at |-> at[j]] OBVIOUS
<1> HIDE DEF at
<1>4. Members(Obj(at)) = DOMAIN at /\ Obj(at).at = at BY Kinds DEF Members
<1>5. IsObject(Obj(at)) BY <1>3, <1>4 DEF IsObject
<1>6. \A j : Child(Obj(at), j) = IF j = k THEN None ELSE Child(object, j)
  BY <1>2, <1>4 DEF Child, Members
<1> QED BY <1>1, <1>5, <1>6

LEMMA WithMemberIs ==
    ASSUME NEW object, object.kind = "object", NEW k, NEW v
    PROVE  /\ IsObject(WithMember(object, k, v)) /\ WithMember(object, k, v).kind = "object"
           /\ \A j : Child(WithMember(object, k, v), j) = IF j = k THEN v ELSE Child(object, j)
<1> DEFINE at == [j \in DOMAIN object.at \cup {k} |-> IF j = k THEN v ELSE object.at[j]]
<1>1. WithMember(object, k, v) = Obj(at) BY DEF WithMember
<1>2. /\ DOMAIN at = DOMAIN object.at \cup {k}
      /\ \A j \in DOMAIN at : at[j] = IF j = k THEN v ELSE object.at[j]
  OBVIOUS
<1>3. at = [j \in DOMAIN at |-> at[j]] OBVIOUS
<1> HIDE DEF at
<1>4. Members(Obj(at)) = DOMAIN at /\ Obj(at).at = at BY Kinds DEF Members
<1>5. IsObject(Obj(at)) BY <1>3, <1>4 DEF IsObject
<1>6. \A j : Child(Obj(at), j) = IF j = k THEN v ELSE Child(object, j)
  BY <1>2, <1>4 DEF Child, Members
<1> QED BY <1>1, <1>5, <1>6, Kinds

\* The arrays of a document depend on its hooks only.
LEMMA SameHooks ==
    ASSUME NEW c, NEW d, Child(c, "hooks") = Child(d, "hooks")
    PROVE  \A event : ArrayAt(c, event) = ArrayAt(d, event)
BY DEF ArrayAt

\* A settings document whose hooks are lists of entries.
Sound(document) ==
    IsObject(document) /\ \A event \in Keys : IsList(ArrayAt(document, event))

LEMMA SetArraySound ==
    ASSUME Sound(settings), NEW event, NEW X, None \notin X,
           NEW entries \in Edited(Array(event), X), SetArray(event, entries)
    PROVE  Sound(settings')
<1> DEFINE hooks == IF Child(settings, "hooks").kind = "object" THEN settings.at.hooks
                    ELSE Obj(<<>>)
           changed == WithMember(hooks, event, Arr(entries))
<1>1. settings.kind = "object" BY Kinds DEF Sound, IsObject
<1>2. settings' = WithMember(settings, "hooks", changed) BY DEF SetArray
<1>3. /\ hooks.kind = "object"
      /\ \A e : Child(hooks, e) = Child(Child(settings, "hooks"), e)
                \/ (Child(hooks, e) = None /\ ArrayAt(settings, e) = <<>>)
  <2>1. CASE Child(settings, "hooks").kind = "object"
    <3>1. "hooks" \in Members(settings) BY <2>1, Kinds DEF Child
    <3>2. hooks = Child(settings, "hooks") BY <2>1, <3>1 DEF Child
    <3> QED BY <2>1, <3>2
  <2>2. CASE Child(settings, "hooks").kind # "object"
    <3>1. hooks = Obj(<<>>) BY <2>2
    <3>2. Members(Obj(<<>>)) = {} BY Kinds DEF Members
    <3>3. \A e : Child(Obj(<<>>), e) = None BY <3>2 DEF Child
    <3>4. \A e : Child(Child(settings, "hooks"), e) = None BY <2>2 DEF Child, Members
    <3>5. \A e : ArrayAt(settings, e) = <<>> BY <3>4, Kinds DEF ArrayAt
    <3> HIDE DEF hooks
    <3> QED BY <3>1, <3>3, <3>5, Kinds
  <2> QED BY <2>1, <2>2
<1> HIDE DEF hooks
<1>4. \A e : Child(changed, e) = IF e = event THEN Arr(entries) ELSE Child(hooks, e)
  BY <1>3, WithMemberIs
<1> HIDE DEF changed
<1>5. /\ IsObject(settings')
      /\ Child(settings', "hooks") = changed
  BY <1>1, <1>2, WithMemberIs
<1>6. ASSUME NEW e \in Keys PROVE IsList(ArrayAt(settings', e))
  <2>1. CASE e = event
    <3>1. ArrayAt(settings', e) = entries BY <1>4, <1>5, <2>1, Kinds DEF ArrayAt
    <3>2. IsList(Array(event)) BY <1>6, <2>1 DEF Sound, Array
    <3> QED BY <3>1, <3>2, EditedList
  <2>2. CASE e # event
    <3>1. Child(Child(settings', "hooks"), e) = Child(hooks, e) BY <1>4, <1>5, <2>2
    <3>2. ArrayAt(settings', e) = ArrayAt(settings, e) BY <1>3, <3>1, Kinds DEF ArrayAt
    <3> QED BY <3>2 DEF Sound
  <2> QED BY <2>1, <2>2
<1> QED BY <1>5, <1>6 DEF Sound

LEMMA EditSettingsSound ==
    ASSUME Sound(settings), EditSettings
    PROVE  Sound(settings') /\ notes' = notes
<1>1. settings.kind = "object" BY Kinds DEF Sound, IsObject
<1>2. None \notin StartEdits /\ None \notin StopEdits BY UserAssumption
<1>3. ASSUME NEW entries \in Edited(Array("Start"), StartEdits), SetArray("Start", entries)
      PROVE  Sound(settings')
  BY <1>2, <1>3, SetArraySound
<1>4. ASSUME NEW entries \in Edited(Array("Stop"), StopEdits), SetArray("Stop", entries)
      PROVE  Sound(settings')
  BY <1>2, <1>4, SetArraySound
<1>5. ASSUME NEW line \in StatusEdits, settings' = WithMember(settings, "statusLine", line)
      PROVE  Sound(settings')
  <2>1. /\ IsObject(settings')
        /\ \A j : Child(settings', j) = IF j = "statusLine" THEN line ELSE Child(settings, j)
    BY <1>1, <1>5, WithMemberIs
  <2>2. \A event : ArrayAt(settings', event) = ArrayAt(settings, event) BY <2>1, SameHooks
  <2> QED BY <2>1, <2>2 DEF Sound
<1>6. ASSUME NEW k \in DOMAIN settings.at, settings' = Without(settings, k)
      PROVE  Sound(settings')
  <2>1. /\ IsObject(settings')
        /\ \A j : Child(settings', j) = IF j = k THEN None ELSE Child(settings, j)
    BY <1>1, <1>6, WithoutIs
  <2>2. CASE k = "hooks"
    <3>1. \A event : ArrayAt(settings', event) = <<>>
      BY <2>1, <2>2, Kinds DEF ArrayAt, Child, Members
    <3> QED BY <2>1, <3>1, EmptyList DEF Sound
  <2>3. CASE k # "hooks"
    <3>1. \A event : ArrayAt(settings', event) = ArrayAt(settings, event)
      BY <2>1, <2>3, SameHooks
    <3> QED BY <2>1, <3>1 DEF Sound
  <2> QED BY <2>2, <2>3
<1> QED BY <1>3, <1>4, <1>5, <1>6 DEF EditSettings

-----------------------------------------------------------------------------
(* The invariant: the files can be merged into, and after a run the files are *)
(* what the release makes of them.                                           *)

Inv ==
    /\ Sound(settings)
    /\ notes \in Seq(Range(notes))
    /\ installed \in Releases \cup {None}
    /\ did[1] = "merged" =>
         /\ did[2] \in Releases /\ installed = did[2]
         /\ Merged(settings, Fragment[did[2]], Fragment[did[2]]) = settings
         /\ \E i : HasBlock(notes, did[2], i)

LEMMA OwnedIs ==
    ASSUME installed \in Releases \cup {None}
    PROVE  Shaped(Owned) /\ (installed # None => Owned = Fragment[installed])
BY DEF Owned, Shaped

\* The document that a run merges into: the settings, but for a status line that has
\* been moved.
Base(r) == IF ToChain(r) THEN Without(settings, "statusLine") ELSE settings

LEMMA BaseIs ==
    ASSUME Sound(settings), NEW r \in Releases
    PROVE  /\ Sound(Base(r))
           /\ \A event : ArrayAt(Base(r), event) = Array(event)
           /\ \A k : k # "statusLine" => Child(Base(r), k) = Child(settings, k)
<1>1. settings.kind = "object" BY Kinds DEF Sound, IsObject
<1>2. /\ IsObject(Without(settings, "statusLine"))
      /\ \A k : Child(Without(settings, "statusLine"), k) =
                  IF k = "statusLine" THEN None ELSE Child(settings, k)
  BY <1>1, WithoutIs
<1>3. IsObject(Base(r)) BY <1>2 DEF Base, Sound
<1>4. \A k : k # "statusLine" => Child(Base(r), k) = Child(settings, k) BY <1>2 DEF Base
<1>5. \A event : ArrayAt(Base(r), event) = ArrayAt(settings, event) BY <1>4, SameHooks
<1> QED BY <1>3, <1>4, <1>5 DEF Sound, Array

\* A step that merges is a run whose files all merge.
LEMMA MergeStep ==
    ASSUME [Next]_vars, vars' # vars, NEW r \in Releases, did' = <<"merged", r>>
    PROVE  /\ ~ChainConflict(r)
           /\ Merged(Base(r), Fragment[r], Owned) # Conflict
           /\ settings' = Merged(Base(r), Fragment[r], Owned)
           /\ chained' = IF ToChain(r) THEN Child(settings, "statusLine") ELSE chained
           /\ notes' \in MergedNotes(r)
           /\ installed' = r
<1>1. ~Edit BY DEF Edit
<1>2. PICK q \in Releases : Run(q) BY <1>1 DEF Next
<1>3. did' = <<IF Refused(q) THEN "refused" ELSE "merged", q>> BY <1>2 DEF Run
<1>4. q = r /\ ~Refused(r) BY <1>3
<1>5. /\ settings' = MergedSettings(r)
      /\ chained' = IF ToChain(r) THEN Child(settings, "statusLine") ELSE chained
      /\ notes' \in MergedNotes(r)
      /\ installed' = r
  BY <1>2, <1>4 DEF Run, NextInstalled
<1>6. MergedSettings(r) # Conflict BY <1>4 DEF Refused
<1>7. ~ChainConflict(r) /\ MergedSettings(r) = Merged(Base(r), Fragment[r], Owned)
  BY <1>6 DEF MergedSettings, Base
<1> QED BY <1>5, <1>6, <1>7

LEMMA InvInit == Init => Inv
<1> SUFFICES ASSUME Init PROVE Inv OBVIOUS
<1>1. Sound(settings) BY UserAssumption DEF Init, Sound
<1>2. notes \in Seq(Range(notes))
  <2>1. notes \in Seq({"mine"}) BY DEF Init
  <2> QED BY <2>1, SequenceOf
<1> QED BY <1>1, <1>2 DEF Init, Inv

LEMMA InvNext == Inv /\ [Next]_vars => Inv'
<1> SUFFICES ASSUME Inv, [Next]_vars PROVE Inv' OBVIOUS
<1>1. CASE UNCHANGED vars
  <2>1. /\ settings' = settings /\ notes' = notes /\ installed' = installed /\ did' = did
    BY <1>1 DEF vars
  <2> QED BY <2>1 DEF Inv
<1>2. CASE Edit
  <2>1. did'[1] # "merged" /\ installed' = installed BY <1>2 DEF Edit
  <2>2. Sound(settings')
    <3>1. CASE EditSettings BY <3>1, EditSettingsSound DEF Inv
    <3>2. CASE ~EditSettings
      <4>1. settings' = settings BY <1>2, <3>2 DEF Edit, EditNotes, EditChained
      <4> QED BY <4>1 DEF Inv
    <3> QED BY <3>1, <3>2
  <2>3. notes' \in Seq(Range(notes'))
    <3>1. CASE EditNotes
      <4>1. notes' \in Edited(notes, LineEdits) /\ notes \in Seq(Range(notes))
        BY <3>1 DEF EditNotes, Inv
      <4>2. notes' \in Seq(Range(notes) \cup LineEdits) BY <4>1, EditedIs
      <4> QED BY <4>2, SequenceOf
    <3>2. CASE ~EditNotes
      <4>1. notes' = notes BY <1>2, <3>2 DEF Edit, EditSettings, EditChained
      <4> QED BY <4>1 DEF Inv
    <3> QED BY <3>1, <3>2
  <2> QED BY <2>1, <2>2, <2>3 DEF Inv
<1>3. ASSUME NEW r \in Releases, Run(r) PROVE Inv'
  <2>1. CASE did' # <<"merged", r>>
    <3>1. did' = <<"refused", r>> BY <1>3, <2>1 DEF Run
    <3>2. Refused(r) BY <1>3, <3>1 DEF Run
    <3>3. settings' = settings /\ notes' = notes /\ installed' = installed
      BY <1>3, <3>2 DEF Run
    <3>4. did'[1] # "merged" BY <3>1
    <3> QED BY <3>3, <3>4 DEF Inv
  <2>2. CASE did' = <<"merged", r>> /\ vars' # vars
    <3>1. /\ Merged(Base(r), Fragment[r], Owned) # Conflict
          /\ settings' = Merged(Base(r), Fragment[r], Owned)
          /\ notes' \in MergedNotes(r)
          /\ installed' = r
      BY <2>2, MergeStep
    <3>2. Sound(Base(r)) BY BaseIs DEF Inv
    <3>3. Shaped(Owned) BY OwnedIs DEF Inv
    <3>4. IsObject(settings') BY <3>1, <3>2, <3>3, MergedMembers DEF Sound
    <3>5. ASSUME NEW event \in Keys PROVE IsList(ArrayAt(settings', event))
      <4> DEFINE d == Fragment[r]
                 owned == Members(Child(d, "hooks")) \cup Members(Child(Owned, "hooks"))
      <4>1. IsObject(Base(r)) /\ IsList(ArrayAt(Base(r), event)) BY <3>2 DEF Sound
      <4>2. IF event \in owned
            THEN MergedArray(ArrayAt(settings', event), ArrayAt(Base(r), event),
                             ArrayAt(d, event), ArrayAt(Owned, event), <<"hooks", event>>)
            ELSE ArrayAt(settings', event) = ArrayAt(Base(r), event)
        BY <3>1, <3>3, <4>1, MergedArrays
      <4> HIDE DEF d, owned
      <4> QED BY <4>1, <4>2 DEF MergedArray
    <3>6. Merged(settings', Fragment[r], Fragment[r]) = settings'
      BY <3>1, <3>2, <3>3, MergedStable DEF Sound
    <3>7. notes' \in Seq(Range(notes')) /\ \E i : HasBlock(notes', r, i)
      BY <3>1, NotesMerged DEF Inv
    <3>8. did'[1] = "merged" /\ did'[2] = r BY <2>2
    <3> QED BY <3>1, <3>4, <3>5, <3>6, <3>7, <3>8 DEF Inv, Sound
  <2>3. CASE vars' = vars BY <1>1, <2>3
  <2> QED BY <2>1, <2>2, <2>3
<1> QED BY <1>1, <1>2, <1>3 DEF Next

LEMMA InvAlways == Spec => []Inv
BY InvInit, InvNext, PTL DEF Spec

LEMMA InvStable == Inv => SyncIsStable
<1> SUFFICES ASSUME Inv, did[1] = "merged"
             PROVE  MergedSettings(did[2]) = settings /\ MergedNotes(did[2]) = {notes}
  BY DEF SyncIsStable
<1> DEFINE r == did[2]
<1>1. /\ r \in Releases /\ installed = r
      /\ Merged(settings, Fragment[r], Fragment[r]) = settings
      /\ \E i : HasBlock(notes, r, i)
      /\ notes \in Seq(Range(notes))
  BY DEF Inv
<1> HIDE DEF r
<1>2. Owned = Fragment[r] BY <1>1, ReleasesAssumption DEF Owned
<1>3. ~ToChain(r) BY <1>2 DEF ToChain
<1>4. MergedSettings(r) = settings BY <1>1, <1>2, <1>3 DEF MergedSettings, ChainConflict
<1>5. MergedNotes(r) = {notes} BY <1>1, NotesStable
<1> QED BY <1>4, <1>5 DEF r

\* A run that was not refused can be repeated: what a merge makes of the settings and
\* of the instruction file is what the same merge makes of it, whatever the user had
\* in them (merge_json_fragment, merge_managed_block).
THEOREM StableSyncs == Spec => []SyncIsStable
BY InvStable, InvAlways, PTL

-----------------------------------------------------------------------------
(* What a run does to what is the user's *)

\* What a step that merges has made of each array and each other member.
LEMMA ArraysOfStep ==
    ASSUME Inv, [Next]_vars, vars' # vars, NEW r \in Releases, did' = <<"merged", r>>, NEW event
    PROVE  IF event \in Members(Child(Fragment[r], "hooks")) \cup Members(Child(Owned, "hooks"))
           THEN MergedArray(ArrayAt(settings', event), Array(event), ArrayAt(Fragment[r], event),
                            ArrayAt(Owned, event), <<"hooks", event>>)
           ELSE ArrayAt(settings', event) = Array(event)
<1>1. /\ Merged(Base(r), Fragment[r], Owned) # Conflict
      /\ settings' = Merged(Base(r), Fragment[r], Owned)
  BY MergeStep
<1>2. IsObject(Base(r)) /\ (event \in Keys => IsList(ArrayAt(Base(r), event)))
  BY BaseIs DEF Inv, Sound
<1>3. ArrayAt(Base(r), event) = Array(event) BY BaseIs DEF Inv
<1>4. Shaped(Owned) BY OwnedIs DEF Inv
<1>5. IF event \in Members(Child(Fragment[r], "hooks")) \cup Members(Child(Owned, "hooks"))
      THEN MergedArray(ArrayAt(settings', event), ArrayAt(Base(r), event),
                       ArrayAt(Fragment[r], event), ArrayAt(Owned, event), <<"hooks", event>>)
      ELSE ArrayAt(settings', event) = ArrayAt(Base(r), event)
  BY <1>1, <1>2, <1>4, MergedArrays
<1> QED BY <1>3, <1>5

LEMMA ShapedMembers ==
    ASSUME NEW f, Shaped(f)
    PROVE  Members(f) \subseteq {"hooks", "statusLine"}
<1>1. CASE f = None BY <1>1, Kinds DEF Members
<1>2. CASE f # None
  <2>1. PICK r \in Releases : f = Fragment[r] BY <1>2 DEF Shaped
  <2> QED BY <2>1, FragmentAssumption
<1> QED BY <1>1, <1>2

\* The user's settings, array entries and lines are all there after a merge, in their
\* order, whatever release follows which (merge_json_fragment, merge_managed_block).
THEOREM UserContentStays == Spec => UserContentKept
<1> DEFINE A == \A r \in Releases : did' = <<"merged", r>> =>
                  /\ \A event \in Members(Child(settings, "hooks")) :
                       UsersEntries(Array(event)', event, r) = UsersEntries(Array(event), event, r)
                  /\ \A k \in Members(settings) \ {"hooks", "statusLine"} :
                       Child(settings', k) = Child(settings, k)
                  /\ UsersLines(notes', r) = UsersLines(notes, r)
<1>1. Inv /\ [Next]_vars => [A]_vars
  <2> SUFFICES ASSUME Inv, [Next]_vars, vars' # vars, NEW r \in Releases, did' = <<"merged", r>>
               PROVE  /\ \A event : UsersEntries(Array(event)', event, r)
                                      = UsersEntries(Array(event), event, r)
                      /\ \A k : k \notin {"hooks", "statusLine"} =>
                           Child(settings', k) = Child(settings, k)
                      /\ UsersLines(notes', r) = UsersLines(notes, r)
    OBVIOUS
  <2>1. ASSUME NEW event
        PROVE  UsersEntries(Array(event)', event, r) = UsersEntries(Array(event), event, r)
    <3> DEFINE d == Fragment[r]
               owned == Members(Child(d, "hooks")) \cup Members(Child(Owned, "hooks"))
               E == Range(ArrayAt(Owned, event)) \cup Range(ArrayAt(d, event))
               next == ArrayAt(settings', event)
    <3>1. IF event \in owned
          THEN MergedArray(next, Array(event), ArrayAt(d, event), ArrayAt(Owned, event),
                           <<"hooks", event>>)
          ELSE next = Array(event)
      BY ArraysOfStep
    <3>2. Array(event)' = next BY DEF Array
    <3>3. \A list : UsersEntries(list, event, r) = Others(list, E)
      BY DEF UsersEntries, EntriesAt
    <3> HIDE DEF d, owned, next
    <3>4. Others(next, E) = Others(Array(event), E) BY <3>1 DEF MergedArray
    <3> HIDE DEF E
    <3> QED BY <3>2, <3>3, <3>4
  <2>2. ASSUME NEW k, k \notin {"hooks", "statusLine"}
        PROVE  Child(settings', k) = Child(settings, k)
    <3>1. /\ Merged(Base(r), Fragment[r], Owned) # Conflict
          /\ settings' = Merged(Base(r), Fragment[r], Owned)
      BY MergeStep
    <3>2. IsObject(Base(r)) /\ Child(Base(r), k) = Child(settings, k)
      BY <2>2, BaseIs DEF Inv, Sound
    <3>3. Shaped(Owned) /\ Shaped(Fragment[r]) BY OwnedIs DEF Inv, Shaped
    <3>4. k \notin Members(Fragment[r]) \cup Members(Owned) BY <2>2, <3>3, ShapedMembers
    <3> QED BY <3>1, <3>2, <3>3, <3>4, MergedMembers
  <2>3. UsersLines(notes', r) = UsersLines(notes, r)
    <3>1. notes' \in MergedNotes(r) BY MergeStep
    <3> QED BY <3>1, NotesMerged DEF Inv
  <2> QED BY <2>1, <2>2, <2>3
<1> QED BY <1>1, InvAlways, PTL DEF Spec, UserContentKept

\* The user's own status line is in the settings or in the chain file after every run,
\* or was merged member by member, and no run replaces a line that was chained before
\* (_chain_status_line).
THEOREM StatusLineStays == Spec => StatusLineKept
<1> DEFINE A == \A r \in Releases : did' = <<"merged", r>> =>
                  LET line == Child(settings, "statusLine")
                      next == Child(settings', "statusLine")
                  IN /\ \/ line \in {None, next, chained'}
                        \/ /\ line.kind = "object"
                           /\ \A k \in Members(line) :
                                line.at[k] \in {Child(Child(Owned, "statusLine"), k), Child(next, k)}
                     /\ chained # None => chained' = chained
<1>1. Inv /\ [Next]_vars => [A]_vars
  <2> SUFFICES ASSUME Inv, [Next]_vars, vars' # vars, NEW r \in Releases, did' = <<"merged", r>>
               PROVE  LET line == Child(settings, "statusLine")
                          next == Child(settings', "statusLine")
                      IN /\ \/ line \in {None, next, chained'}
                            \/ /\ line.kind = "object"
                               /\ \A k \in Members(line) :
                                    line.at[k] \in {Child(Child(Owned, "statusLine"), k),
                                                    Child(next, k)}
                         /\ chained # None => chained' = chained
    OBVIOUS
  <2> DEFINE d == Fragment[r]
             line == Child(settings, "statusLine")
             next == Child(settings', "statusLine")
             dl == Child(d, "statusLine")
             ol == Child(Owned, "statusLine")
             ByMembers == /\ line.kind = "object"
                          /\ \A k \in Members(line) : line.at[k] \in {Child(ol, k), Child(next, k)}
  <2>1. /\ ~ChainConflict(r)
        /\ Merged(Base(r), d, Owned) # Conflict
        /\ settings' = Merged(Base(r), d, Owned)
        /\ chained' = IF ToChain(r) THEN line ELSE chained
    BY MergeStep
  <2>2. ToChain(r) <=> line # None /\ dl # None /\ line # dl /\ ol = None BY DEF ToChain
  <2>3. chained # None => chained' = chained BY <2>1 DEF ChainConflict
  <2>4. Shaped(Owned) /\ Shaped(d) BY OwnedIs DEF Inv, Shaped
  <2>5. line \in {None, next, chained'} \/ ByMembers
    <3>1. CASE ToChain(r) BY <2>1, <3>1
    <3>2. CASE ~ToChain(r) /\ line # None
      <4>1. Base(r) = settings BY <3>2 DEF Base
      <4>2. IsObject(settings) BY DEF Inv, Sound
      <4>3. Merged(settings, d, Owned) # Conflict /\ settings' = Merged(settings, d, Owned)
        BY <2>1, <4>1
      <4>4. CASE "statusLine" \notin Members(d) \cup Members(Owned)
        <5>1. next = line BY <2>4, <4>2, <4>3, <4>4, MergedMembers
        <5> QED BY <5>1
      <4>5. CASE "statusLine" \in Members(d) \cup Members(Owned)
        <5>1. Middle(settings, d, Owned, "statusLine") # Conflict
          BY <2>4, <4>2, <4>3, <4>5, MergedMembers
        <5>2. line.kind = "object" BY <2>4, <3>2, <4>5, <5>1, MiddleIs
        <5>3. ASSUME NEW k \in Members(line)
              PROVE  line.at[k] \in {Child(ol, k), Child(next, k)}
          <6> DEFINE leaf == Leaf(settings, d, Owned, "statusLine", k)
                     owned == Members(dl) \cup Members(ol)
          <6>1. line.at[k] = Child(line, k) BY <5>3 DEF Child
          <6>2. /\ k \in owned => leaf # Conflict /\ Child(next, k) = Present(leaf)
                /\ k \notin owned => Child(next, k) = Child(line, k)
            BY <2>4, <4>2, <4>3, MergedParts
          <6>3. ASSUME k \in owned PROVE Child(line, k) \in {Child(ol, k), Present(leaf)}
            <7>1. leaf # Conflict BY <6>2, <6>3
            <7>2. Child(dl, k) # None \/ Child(ol, k) # None =>
                    Child(line, k) \in {Child(ol, k), Present(leaf)}
              BY <2>4, <7>1, LineLeaf
            <7>3. CASE Child(dl, k) = None /\ Child(ol, k) = None
              <8>1. leaf = MergedValue(Child(line, k), None, None, Empty, <<"statusLine", k>>)
                BY <7>3 DEF Leaf
              <8>2. k \in Members(dl) \/ k \in Members(ol) BY <6>3
              <8>3. FALSE
                <9>1. ASSUME NEW f, Shaped(f), k \in Members(Child(f, "statusLine"))
                      PROVE  Child(Child(f, "statusLine"), k) # None
                  <10>1. f # None BY <9>1, Kinds DEF Members, Child
                  <10>2. PICK q \in Releases : f = Fragment[q] BY <9>1, <10>1 DEF Shaped
                  <10>3. Child(f, "statusLine").at[k].kind = "scalar"
                    BY <9>1, <10>2, FragmentAssumption
                  <10> QED BY <9>1, <10>3, Kinds DEF Child
                <9> QED BY <2>4, <7>3, <8>2, <9>1
              <8> QED BY <8>3
            <7> QED BY <7>2, <7>3
          <6> HIDE DEF leaf, owned, line, next, ol, dl
          <6> QED BY <6>1, <6>2, <6>3
        <5> QED BY <5>2, <5>3
      <4> QED BY <4>4, <4>5
    <3>3. CASE line = None BY <3>3
    <3> QED BY <3>1, <3>2, <3>3
  <2> QED BY <2>3, <2>5
<1> QED BY <1>1, InvAlways, PTL DEF Spec, StatusLineKept

\* After a run the arrays hold the release's entries, each identity once, none that
\* only the release before shipped, and the instruction file the release's block alone.
THEOREM ReleasesAreManaged == Spec => ManagedAsReleased
<1> DEFINE A == \A r \in Releases : did' = <<"merged", r>> =>
                  /\ \A event \in Keys : <<"hooks", event>> \in Identity =>
                       LET shipped == EntriesAt(Fragment[r], event)
                           dropped == IdentitiesAt(Owned, event) \ IdentitiesAt(Fragment[r], event)
                           found == Array(event)'
                       IN /\ \A e \in shipped :
                               \E i \in DOMAIN found : found[i] = e
                                  /\ \A j \in DOMAIN found : found[j].id = e.id => j = i
                          /\ \A j \in DOMAIN found : found[j].id \notin dropped
                  /\ {SubSeq(notes', s[1], s[2]) : s \in Blocks(notes')} = {Block(r)}
<1>1. Inv /\ [Next]_vars => [A]_vars
  <2> SUFFICES ASSUME Inv, [Next]_vars, vars' # vars, NEW r \in Releases, did' = <<"merged", r>>
               PROVE  /\ \A event \in Keys : <<"hooks", event>> \in Identity =>
                           LET shipped == EntriesAt(Fragment[r], event)
                               dropped == IdentitiesAt(Owned, event)
                                            \ IdentitiesAt(Fragment[r], event)
                               found == Array(event)'
                           IN /\ \A e \in shipped :
                                   \E i \in DOMAIN found : found[i] = e
                                      /\ \A j \in DOMAIN found : found[j].id = e.id => j = i
                              /\ \A j \in DOMAIN found : found[j].id \notin dropped
                      /\ {SubSeq(notes', s[1], s[2]) : s \in Blocks(notes')} = {Block(r)}
    OBVIOUS
  <2>1. ASSUME NEW event \in Keys, <<"hooks", event>> \in Identity
        PROVE  /\ \A e \in EntriesAt(Fragment[r], event) :
                    \E i \in DOMAIN Array(event)' : Array(event)'[i] = e
                       /\ \A j \in DOMAIN Array(event)' : Array(event)'[j].id = e.id => j = i
               /\ \A j \in DOMAIN Array(event)' :
                    Array(event)'[j].id \notin
                      IdentitiesAt(Owned, event) \ IdentitiesAt(Fragment[r], event)
    <3> DEFINE d == Fragment[r]
               dl == ArrayAt(d, event)
               ol == ArrayAt(Owned, event)
               owned == Members(Child(d, "hooks")) \cup Members(Child(Owned, "hooks"))
               found == ArrayAt(settings', event)
    <3>1. IF event \in owned
          THEN MergedArray(found, Array(event), dl, ol, <<"hooks", event>>)
          ELSE found = Array(event)
      BY ArraysOfStep
    <3>2. Array(event)' = found BY DEF Array
    <3>3. Shaped(d) /\ Shaped(Owned) BY OwnedIs DEF Inv, Shaped
    <3>4. IsList(dl) /\ IsList(ol) BY <3>3, ShippedIs
    <3>5. event \notin owned => dl = <<>> /\ ol = <<>> BY <3>3, ShippedIs
    <3>6. EntriesAt(d, event) = Range(dl) /\ EntriesAt(Owned, event) = Range(ol) BY DEF EntriesAt
    <3> HIDE DEF dl, ol, owned, found, d
    <3>7. CASE event \notin owned
      <4>1. Range(dl) = {} /\ Range(ol) = {} BY <3>5, <3>7, EmptyList
      <4> QED BY <3>6, <4>1 DEF IdentitiesAt, d
    <3>8. CASE event \in owned
      <4>1. /\ IsList(found)
            /\ \A n \in 1..Len(dl) : Sole(found, dl[n])
            /\ \A n \in 1..Len(ol) : ~Identified(dl, ol[n].id) => Absent(found, ol[n].id)
        BY <2>1, <3>1, <3>8 DEF MergedArray, Placed
      <4>2. DOMAIN found = 1..Len(found) /\ DOMAIN dl = 1..Len(dl) /\ DOMAIN ol = 1..Len(ol)
        BY <3>4, <4>1, ListIs
      <4>3. ASSUME NEW e \in Range(dl)
            PROVE  \E i \in DOMAIN found : found[i] = e
                      /\ \A j \in DOMAIN found : found[j].id = e.id => j = i
        <5>1. Sole(found, e) BY <4>1, <4>2 DEF Range
        <5> QED BY <4>2, <5>1 DEF Sole
      <4>4. ASSUME NEW j \in DOMAIN found, NEW e \in Range(ol), found[j].id = e.id
            PROVE  \E s \in Range(dl) : e.id = s.id
        <5>1. PICK n \in 1..Len(ol) : ol[n] = e BY <4>2 DEF Range
        <5>2. Identified(dl, e.id) BY <4>1, <4>2, <4>4, <5>1 DEF Absent
        <5> QED BY <5>2 DEF Identified
      <4>5. \A j \in DOMAIN found :
              found[j].id \notin IdentitiesAt(Owned, event) \ IdentitiesAt(d, event)
        BY <3>6, <4>4 DEF IdentitiesAt
      <4> QED BY <3>2, <3>6, <4>3, <4>5 DEF d
    <3> QED BY <3>7, <3>8
  <2>2. {SubSeq(notes', s[1], s[2]) : s \in Blocks(notes')} = {Block(r)}
    <3>1. notes' \in MergedNotes(r) BY MergeStep
    <3>2. notes' \in Seq(Range(notes')) /\ \E i : HasBlock(notes', r, i)
      BY <3>1, NotesMerged DEF Inv
    <3>3. PICK i : HasBlock(notes', r, i) BY <3>2
    <3>4. Blocks(notes') = {<<i, i + 2>>} /\ SubSeq(notes', i, i + 2) = Block(r)
      BY <3>2, <3>3, HasBlockIs
    <3>5. <<i, i + 2>>[1] = i /\ <<i, i + 2>>[2] = i + 2 OBVIOUS
    <3>6. \A s \in Blocks(notes') : SubSeq(notes', s[1], s[2]) = Block(r) BY ONLY <3>4, <3>5
    <3>7. Blocks(notes') # {} BY <3>4
    <3> QED BY ONLY <3>6, <3>7
  <2> QED BY <2>1, <2>2
<1> QED BY <1>1, InvAlways, PTL DEF Spec, ManagedAsReleased
=============================================================================
