---------------------------- MODULE RecordsProofs ----------------------------
(***************************************************************************)
(* What every published record of a chain has in common with what the user *)
(* authorized, and with the records published before it, whatever authors  *)
(* and agents write.                                                       *)
(***************************************************************************)
EXTENDS Records, FiniteSetTheorems, SequenceTheorems, Induction

-----------------------------------------------------------------------------
(* The scopes of a record: the validator climbs from a scope as many steps   *)
(* as there are scopes, and has then seen all that is above it.  In a tree   *)
(* the root is above every other scope.                                      *)

Known(scopes) == {scopes[i].id : i \in DOMAIN scopes}

Parents(scopes, S) == {scopes[i].parent : i \in {j \in DOMAIN scopes : scopes[j].id \in S}}

Higher(scopes, S) == S \cup (Parents(scopes, S) \ {NoParent})

\* g is the climb of Above from id: its n-th value is what n steps have reached.
IsClimb(scopes, id, top, g) ==
    g = [n \in 0..top |-> IF n = 0 THEN {id} ELSE Higher(scopes, g[n - 1])]

\* The recursion that defines a climb has a solution.
LEMMA ClimbExists ==
    ASSUME NEW scopes, NEW id, NEW top \in Nat
    PROVE  \E g : IsClimb(scopes, id, top, g)
<1> DEFINE S == {m \in Nat : \E g : IsClimb(scopes, id, m, g)}
<1>1. 0 \in S
  <2>1. IsClimb(scopes, id, 0, [n \in 0..0 |-> {id}]) BY DEF IsClimb
  <2> QED BY <2>1
<1>2. ASSUME NEW m \in Nat, m \in S PROVE m + 1 \in S
  <2>1. PICK g : IsClimb(scopes, id, m, g) BY <1>2
  <2> DEFINE h == [n \in 0..(m + 1) |-> IF n <= m THEN g[n] ELSE Higher(scopes, g[m])]
  <2>2. \A n \in 0..m : g[n] = IF n = 0 THEN {id} ELSE Higher(scopes, g[n - 1])
    BY <2>1 DEF IsClimb
  <2>3. \A n \in 0..(m + 1) : h[n] = IF n = 0 THEN {id} ELSE Higher(scopes, h[n - 1])
    <3> SUFFICES ASSUME NEW n \in 0..(m + 1)
                 PROVE  h[n] = IF n = 0 THEN {id} ELSE Higher(scopes, h[n - 1])
      OBVIOUS
    <3>1. CASE n = 0 BY <2>2, <3>1
    <3>2. CASE n # 0 /\ n <= m
      <4>1. n - 1 \in 0..(m + 1) /\ n - 1 <= m /\ n \in 0..m BY <3>2
      <4>2. h[n - 1] = g[n - 1] /\ h[n] = g[n] BY <3>2, <4>1
      <4> QED BY <2>2, <3>2, <4>1, <4>2
    <3>3. CASE n = m + 1
      <4>1. n - 1 = m /\ m \in 0..(m + 1) /\ ~(n <= m) BY <3>3
      <4> QED BY <3>3, <4>1
    <3> QED BY <3>1, <3>2, <3>3
  <2>4. IsClimb(scopes, id, m + 1, h)
    <3> HIDE DEF h
    <3>1. h = [n \in 0..(m + 1) |-> h[n]] BY DEF h
    <3> QED BY <2>3, <3>1 DEF IsClimb
  <2> QED BY <2>4
<1> HIDE DEF S
<1>3. \A n \in Nat : n \in S BY <1>1, <1>2, SetInduction
<1> QED BY <1>3 DEF S

\* What is above a scope are the parents of what its whole climb has reached.
LEMMA AboveIs ==
    ASSUME NEW scopes, NEW id, Len(scopes) \in Nat
    PROVE  \E g : /\ IsClimb(scopes, id, Len(scopes), g)
                  /\ Above(scopes, id) = Known(scopes) \cap Parents(scopes, g[Len(scopes)])
<1> DEFINE up == CHOOSE g : g = [n \in 0..Len(scopes) |->
             IF n = 0 THEN {id} ELSE g[n - 1] \cup (Parents(scopes, g[n - 1]) \ {NoParent})]
<1>1. \E g : g = [n \in 0..Len(scopes) |->
             IF n = 0 THEN {id} ELSE g[n - 1] \cup (Parents(scopes, g[n - 1]) \ {NoParent})]
  <2>1. PICK g : IsClimb(scopes, id, Len(scopes), g) BY ClimbExists
  <2> QED BY <2>1, Zenon DEF IsClimb, Higher
<1>2. up = [n \in 0..Len(scopes) |->
             IF n = 0 THEN {id} ELSE up[n - 1] \cup (Parents(scopes, up[n - 1]) \ {NoParent})]
   BY <1>1
<1>3. IsClimb(scopes, id, Len(scopes), up) BY <1>2 DEF IsClimb, Higher
<1>4. Above(scopes, id) = Known(scopes) \cap Parents(scopes, up[Len(scopes)])
   BY DEF Above, Known, Parents
<1> QED BY <1>3, <1>4

\* What the lemmas ask of the scopes of a record.
IsTree(scopes) ==
    /\ Len(scopes) \in Nat /\ DOMAIN scopes = 1..Len(scopes)
    /\ Tree(scopes)

Closed(scopes, S) == Parents(scopes, S) \ {NoParent} \subseteq S

\* All ids from id up.
UpFrom(scopes, id) ==
    {x \in Known(scopes) : \A S : id \in S /\ Closed(scopes, S) => x \in S}

LEMMA KnownIsFinite ==
    ASSUME NEW scopes, IsTree(scopes)
    PROVE  IsFiniteSet(Known(scopes)) /\ Cardinality(Known(scopes)) <= Len(scopes)
<1> DEFINE L == Len(scopes)
           f == [i \in 1..L |-> scopes[i].id]
<1>1. f \in Surjection(1..L, Known(scopes))
  BY DEF Surjection, Known, IsTree
<1>2. IsFiniteSet(1..L) /\ Cardinality(1..L) = L
  <2>1. L \in Nat BY DEF IsTree
  <2>2. IsFiniteSet(1..L) /\ Cardinality(1..L) = IF 1 > L THEN 0 ELSE L - 1 + 1
    BY <2>1, FS_Interval
  <2> QED BY <2>1, <2>2
<1> HIDE DEF f
<1> QED BY <1>1, <1>2, FS_Surjection

LEMMA HigherKnown ==
    ASSUME NEW scopes, IsTree(scopes), NEW S, S \subseteq Known(scopes)
    PROVE  Higher(scopes, S) \subseteq Known(scopes)
BY DEF IsTree, Tree, Higher, Parents, Known

LEMMA HigherWithin ==
    ASSUME NEW scopes, NEW S, NEW V, S \subseteq V, Closed(scopes, V)
    PROVE  Higher(scopes, S) \subseteq V
BY DEF Closed, Higher, Parents

\* After as many steps as there are scopes the climb has reached them all.
LEMMA ClimbIsClosed ==
    ASSUME NEW scopes, IsTree(scopes), NEW id \in Known(scopes), NEW g,
           IsClimb(scopes, id, Len(scopes), g)
    PROVE  /\ id \in g[Len(scopes)] /\ g[Len(scopes)] \subseteq Known(scopes)
           /\ Closed(scopes, g[Len(scopes)])
           /\ \A V : id \in V /\ Closed(scopes, V) => g[Len(scopes)] \subseteq V
<1> DEFINE L == Len(scopes)
<1>0. L \in Nat BY DEF IsTree
<1>1. \A n \in 0..L : g[n] = IF n = 0 THEN {id} ELSE Higher(scopes, g[n - 1])
  BY DEF IsClimb
<1> DEFINE Grown(n) == /\ id \in g[n] /\ g[n] \subseteq Known(scopes) /\ IsFiniteSet(g[n])
                       /\ Closed(scopes, g[n]) \/ Cardinality(g[n]) >= n + 1
                       /\ \A V : id \in V /\ Closed(scopes, V) => g[n] \subseteq V
           S == {n \in Nat : n <= L => Grown(n)}
<1>2. 0 \in S
  <2>1. g[0] = {id} BY <1>0, <1>1
  <2>2. IsFiniteSet({id}) /\ Cardinality({id}) = 1 BY FS_Singleton
  <2>3. IsFiniteSet(g[0]) /\ Cardinality(g[0]) >= 0 + 1 BY <2>1, <2>2
  <2>4. Grown(0) BY <2>1, <2>3
  <2> QED BY <2>4
<1>3. ASSUME NEW n \in Nat, n \in S PROVE n + 1 \in S
  <2> SUFFICES ASSUME n + 1 <= L PROVE Grown(n + 1) OBVIOUS
  <2>1. Grown(n) BY <1>0, <1>3
  <2>2. n + 1 \in 0..L /\ n + 1 # 0 /\ (n + 1) - 1 = n BY <1>0
  <2>3. g[n + 1] = Higher(scopes, g[n]) BY <1>1, <2>2
  <2>4. id \in g[n + 1] BY <2>1, <2>3 DEF Higher
  <2>5. g[n + 1] \subseteq Known(scopes) BY <2>1, <2>3, HigherKnown
  <2>6. IsFiniteSet(g[n + 1]) BY <2>5, KnownIsFinite, FS_Subset
  <2>7. \A V : id \in V /\ Closed(scopes, V) => g[n + 1] \subseteq V
    BY <2>1, <2>3, HigherWithin
  <2>8. Closed(scopes, g[n + 1]) \/ Cardinality(g[n + 1]) >= (n + 1) + 1
    <3>1. CASE Closed(scopes, g[n])
      <4>1. g[n + 1] = g[n] BY <2>3, <3>1 DEF Closed, Higher
      <4> QED BY <3>1, <4>1
    <3>2. CASE ~Closed(scopes, g[n])
      <4>1. PICK x : x \in g[n + 1] /\ x \notin g[n] BY <2>3, <3>2 DEF Closed, Higher
      <4>2. Cardinality(g[n]) >= n + 1 /\ Cardinality(g[n]) \in Nat
        BY <2>1, <3>2, FS_CardinalityType
      <4>3. IsFiniteSet(g[n] \cup {x}) /\ Cardinality(g[n] \cup {x}) = Cardinality(g[n]) + 1
        BY <2>1, <4>1, FS_AddElement
      <4>4. g[n] \cup {x} \subseteq g[n + 1] BY <2>3, <4>1 DEF Higher
      <4>5. Cardinality(g[n] \cup {x}) <= Cardinality(g[n + 1])
        BY <2>6, <4>4, FS_Subset
      <4>6. Cardinality(g[n + 1]) \in Nat BY <2>6, FS_CardinalityType
      <4> QED BY <4>2, <4>3, <4>5, <4>6
    <3> QED BY <3>1, <3>2
  <2> QED BY <2>4, <2>5, <2>6, <2>7, <2>8
<1> HIDE DEF S
<1>4. \A n \in Nat : n \in S BY <1>2, <1>3, SetInduction
<1>5. Grown(L) BY <1>0, <1>4 DEF S
<1>6. Cardinality(g[L]) <= L
  <2>1. Cardinality(g[L]) <= Cardinality(Known(scopes))
    BY <1>5, KnownIsFinite, FS_Subset
  <2>2. Cardinality(g[L]) \in Nat /\ Cardinality(Known(scopes)) \in Nat
    BY <1>5, KnownIsFinite, FS_CardinalityType
  <2> QED BY <1>0, <2>1, <2>2, KnownIsFinite
<1>7. Cardinality(g[L]) \in Nat BY <1>5, FS_CardinalityType
<1> HIDE DEF L
<1> QED BY <1>0, <1>5, <1>6, <1>7 DEF L

\* A scope and all above it, and what Above leaves of that.
LEMMA UpFromIs ==
    ASSUME NEW scopes, IsTree(scopes), NEW id \in Known(scopes)
    PROVE  /\ id \in UpFrom(scopes, id) /\ UpFrom(scopes, id) \subseteq Known(scopes)
           /\ Closed(scopes, UpFrom(scopes, id))
           /\ \A V : id \in V /\ Closed(scopes, V) => UpFrom(scopes, id) \subseteq V
           /\ Above(scopes, id) = Known(scopes) \cap Parents(scopes, UpFrom(scopes, id))
           /\ UpFrom(scopes, id) \ {id} \subseteq Above(scopes, id)
<1>1. PICK g : /\ IsClimb(scopes, id, Len(scopes), g)
               /\ Above(scopes, id) = Known(scopes) \cap Parents(scopes, g[Len(scopes)])
  BY AboveIs DEF IsTree
<1>2. PICK U : U = g[Len(scopes)] OBVIOUS
<1>3. /\ id \in U /\ U \subseteq Known(scopes) /\ Closed(scopes, U)
      /\ \A V : id \in V /\ Closed(scopes, V) => U \subseteq V
  BY <1>1, <1>2, ClimbIsClosed
<1>4. UpFrom(scopes, id) = U BY <1>3 DEF UpFrom
<1>5. U \ {id} \subseteq Parents(scopes, U)
  <2> DEFINE V == {id} \cup (Parents(scopes, U) \ {NoParent})
  <2>1. V \subseteq U BY <1>3 DEF Closed
  <2>2. Closed(scopes, V) BY <2>1 DEF Closed, Parents
  <2>3. U \subseteq V BY <1>3, <2>2
  <2> QED BY <2>3
<1> QED BY <1>1, <1>2, <1>3, <1>4, <1>5

\* In a tree the highest scope is above all others: going up from any scope never
\* comes back to it, and ends only at the root.
LEMMA HighestAboveAll ==
    ASSUME NEW scopes, IsTree(scopes), NEW n \in DOMAIN scopes, n # Highest(scopes)
    PROVE  /\ Highest(scopes) \in DOMAIN scopes
           /\ scopes[Highest(scopes)].id \in Above(scopes, scopes[n].id)
<1> PICK root : root = Highest(scopes) OBVIOUS
<1>1. PICK i \in DOMAIN scopes :
        /\ {j \in DOMAIN scopes : scopes[j].highest} = {i}
        /\ {j \in DOMAIN scopes : scopes[j].parent = NoParent} = {i}
  BY DEF IsTree, Tree
<1>2. root = i
  <2>1. i \in DOMAIN scopes /\ scopes[i].highest BY <1>1
  <2>2. root \in DOMAIN scopes /\ scopes[root].highest BY <2>1 DEF Highest
  <2> QED BY <1>1, <2>2
<1>3. \A j, m \in DOMAIN scopes : scopes[j].id = scopes[m].id => j = m
  BY DEF IsTree, Tree
<1>4. \A j \in DOMAIN scopes \ {root} :
        scopes[j].parent \in Known(scopes) /\ scopes[j].parent # NoParent
  BY <1>1, <1>2 DEF IsTree, Tree, Known
<1>5. \A x \in Known(scopes) : x \notin Above(scopes, x)
  BY DEF IsTree, Tree, Known
<1> PICK r : r = scopes[root].id OBVIOUS
<1> SUFFICES ASSUME r \notin Above(scopes, scopes[n].id) PROVE FALSE BY <1>1, <1>2
<1> DEFINE Lost == {U \in SUBSET Known(scopes) :
                      \E x \in Known(scopes) : U = UpFrom(scopes, x) /\ r \notin U}
<1>6. scopes[n].id \in Known(scopes) /\ scopes[n].id # r BY <1>1, <1>2, <1>3 DEF Known
<1>7. UpFrom(scopes, scopes[n].id) \in Lost BY <1>6, UpFromIs
<1>8. Lost \subseteq FiniteSubsetsOf(Known(scopes))
  BY KnownIsFinite, FS_Subset DEF FiniteSubsetsOf
<1>9. \E U \in Lost : \A V \in Lost : <<V, U>> \notin StrictSubsetOrdering(Known(scopes))
  <2> HIDE DEF Lost
  <2>1. IsWellFoundedOn(StrictSubsetOrdering(Known(scopes)), FiniteSubsetsOf(Known(scopes)))
    BY FS_StrictSubsetOrderingWellFounded
  <2> QED BY <1>7, <1>8, <2>1, WFMin
<1>10. PICK U \in Lost : \A V \in Lost : V \subseteq U => V = U
  <2>1. PICK U \in Lost : \A V \in Lost : <<V, U>> \notin StrictSubsetOrdering(Known(scopes))
    BY <1>9
  <2>2. ASSUME NEW V \in Lost, V \subseteq U, V # U PROVE FALSE
    <3>1. <<V, U>> \in (SUBSET Known(scopes)) \X (SUBSET Known(scopes)) OBVIOUS
    <3>2. <<V, U>> \in StrictSubsetOrdering(Known(scopes))
      BY <2>2, <3>1 DEF StrictSubsetOrdering
    <3> QED BY <2>1, <3>2
  <2> QED BY <2>2
<1>11. PICK x \in Known(scopes) : U = UpFrom(scopes, x) /\ r \notin U BY <1>10
<1>12. PICK j \in DOMAIN scopes : x = scopes[j].id BY DEF Known
<1> PICK y : y = scopes[j].parent OBVIOUS
<1>13. x \in U /\ Closed(scopes, U) BY <1>11, UpFromIs
<1>14. j # root BY <1>11, <1>12, <1>13
<1>15. y \in Known(scopes) /\ y # NoParent BY <1>4, <1>12, <1>14
<1>16. y \in Parents(scopes, U) BY <1>12, <1>13 DEF Parents
<1>17. y \in U BY <1>13, <1>15, <1>16 DEF Closed
<1>18. UpFrom(scopes, y) \subseteq U BY <1>13, <1>15, <1>17, UpFromIs
<1>19. UpFrom(scopes, y) \in Lost BY <1>11, <1>15, <1>18
<1>20. UpFrom(scopes, y) = U BY <1>10, <1>18, <1>19
<1>21. Parents(scopes, U) \cap Known(scopes) = Above(scopes, x)
       /\ Parents(scopes, U) \cap Known(scopes) = Above(scopes, y)
  BY <1>11, <1>15, <1>20, UpFromIs
<1>22. x \in Above(scopes, x)
  <2>1. CASE x = y BY <1>15, <1>16, <1>21, <2>1
  <2>2. CASE x # y
    <3>1. x \in UpFrom(scopes, y) \ {y} BY <1>13, <1>20, <2>2
    <3>2. x \in Above(scopes, y) BY <1>15, <3>1, UpFromIs
    <3> QED BY <1>21, <3>2
  <2> QED BY <2>1, <2>2
<1> QED BY <1>5, <1>22

\* So an audit, whose root has nothing left, has nothing left anywhere.
LEMMA AuditIsDone ==
    ASSUME NEW scopes, Len(scopes) \in Nat, DOMAIN scopes = 1..Len(scopes),
           NEW type, type # "continuation", WellScoped(type, scopes),
           NEW n \in DOMAIN scopes
    PROVE  ~scopes[n].work /\ ~scopes[n].code
<1>1. IsTree(scopes) /\ Propagates(scopes) /\ ~scopes[Highest(scopes)].work
      /\ \A i \in DOMAIN scopes : scopes[i].code => scopes[i].work
  BY DEF IsTree, WellScoped, MatchesType, Consistent
<1>2. CASE n = Highest(scopes) BY <1>1, <1>2
<1>3. CASE n # Highest(scopes)
  <2>1. /\ Highest(scopes) \in DOMAIN scopes
        /\ scopes[Highest(scopes)].id \in Above(scopes, scopes[n].id)
    BY <1>1, <1>3, HighestAboveAll
  <2> QED BY <1>1, <2>1 DEF Propagates
<1> QED BY <1>2, <1>3

-----------------------------------------------------------------------------
(* The invariant of the chains *)

Entry(a, text) == [auth |-> a, text |-> text]

IsChain(c) == DOMAIN c = {"status", "root", "scopes", "record", "grant"}

TypeOK ==
    /\ DOMAIN chains = Auths /\ \A a \in Auths : IsChain(chains[a])
    /\ \E S : published \in Seq(S)
    /\ \A i \in DOMAIN published : published[i].auth \in Auths

-----------------------------------------------------------------------------
(* What is published was accepted. *)

LEMMA AcceptableIsAccepted ==
    ASSUME NEW a \in Auths, NEW path \in Paths, NEW text \in Acceptable(a, path)
    PROVE  Accepted(a, text)
BY DEF Acceptable

\* How a publication changes the record lines.
LEMMA StopStep ==
    ASSUME TypeOK, NEW a \in Auths, NEW path \in Paths, Stop(a, path)
    PROVE  \E text \in Acceptable(a, path) :
             /\ Accepted(a, text)
             /\ files' = [files EXCEPT ![path] = text] /\ UNCHANGED writing
             /\ chains' = [chains EXCEPT ![a] = NextChain(a, path, text)]
             /\ \E S : published' \in Seq(S)
             /\ Len(published) \in Nat /\ DOMAIN published = 1..Len(published)
             /\ DOMAIN published' = 1..(Len(published) + 1)
             /\ published'[Len(published) + 1] = Entry(a, text)
             /\ \A i \in 1..Len(published) : published'[i] = published[i]
<1>1. PICK text \in Acceptable(a, path) :
        /\ files' = [files EXCEPT ![path] = text] /\ UNCHANGED writing
        /\ chains' = [chains EXCEPT ![a] = NextChain(a, path, text)]
        /\ published' = Append(published, Entry(a, text))
  BY DEF Stop, Entry
<1>2. PICK S : published \in Seq(S) BY DEF TypeOK
<1> DEFINE e == Entry(a, text)
           T == S \cup {e}
<1>3. published \in Seq(T) BY <1>2
<1>4. e \in T OBVIOUS
<1>5. published' = Append(published, e) BY <1>1
<1> HIDE DEF e, T
<1>6. /\ published' \in Seq(T) /\ Len(published') = Len(published) + 1
      /\ Len(published) \in Nat /\ DOMAIN published = 1..Len(published)
      /\ DOMAIN published' = 1..(Len(published) + 1)
      /\ published'[Len(published) + 1] = e
      /\ \A i \in 1..Len(published) : published'[i] = published[i]
  BY <1>3, <1>4, <1>5
<1>7. Accepted(a, text) BY AcceptableIsAccepted
<1>8. QED BY <1>1, <1>6, <1>7 DEF e

LEMMA NextChainIs ==
    ASSUME TypeOK, NEW a \in Auths, NEW path, NEW text
    PROVE  /\ IsChain(NextChain(a, path, text))
           /\ NextChain(a, path, text).root = text.root
           /\ NextChain(a, path, text).scopes = Digests(text)
           /\ NextChain(a, path, text).record.text = text
           /\ NextChain(a, path, text).grant = Nothing
           /\ NextChain(a, path, text).status \in {"active", "complete"}
<1> DEFINE c == chains[a]
           b == Advanced(a, path, text)
<1>1. IsChain(c) BY DEF TypeOK
<1>2. /\ IsChain(b) /\ b.root = text.root /\ b.scopes = Digests(text)
      /\ b.record.text = text /\ b.status \in {"active", "complete"}
  BY <1>1 DEF IsChain, Advanced
<1>3. NextChain(a, path, text) = [b EXCEPT !.grant = Nothing] BY DEF NextChain
<1> HIDE DEF b
<1>4. QED BY <1>2, <1>3 DEF IsChain

LEMMA OpenedIs ==
    ASSUME NEW a, NEW record, NEW grant
    PROVE  LET c == Opened(a, record, grant) IN
           /\ IsChain(c) /\ c.status = "active" /\ c.root = Root(a)
           /\ c.scopes = Registered[a] /\ c.record = record /\ c.grant = grant
BY DEF Opened, IsChain

LEMMA NoChainIs ==
    /\ IsChain(NoChain) /\ NoChain.status = "none"
    /\ NoChain.record = Nothing /\ NoChain.grant = Nothing
BY DEF NoChain, IsChain

\* How a new authorization and an approval change the chains.
LEMMA RegisterStep ==
    ASSUME TypeOK, NEW a \in Auths, Register(a)
    PROVE  /\ chains[a].status = "none"
           /\ chains' = [chains EXCEPT ![a] = Opened(a, Nothing, Nothing)]
           /\ UNCHANGED published
BY NoChainIs DEF Register

LEMMA ApproveStep ==
    ASSUME TypeOK, NEW a \in Auths, NEW b \in Auths, Approve(a, b)
    PROVE  \E super :
             /\ a # b /\ chains[a].status = "active" /\ chains[b].status = "none"
             /\ chains[a].record # Nothing /\ chains[a].grant = Nothing
             /\ IsChain(super) /\ super.status = "superseded"
             /\ super.root = chains[a].root /\ super.scopes = chains[a].scopes
             /\ super.record = chains[a].record /\ super.grant = chains[a].grant
             /\ DOMAIN chains' = Auths /\ chains'[a] = super
             /\ chains'[b] = Opened(b, chains[a].record, Transition(a, b))
             /\ \A c \in Auths \ {a, b} : chains'[c] = chains[c]
             /\ UNCHANGED published
<1> DEFINE super == [chains[a] EXCEPT !.status = "superseded"]
<1>1. /\ a # b /\ chains[a].status = "active" /\ chains[b].status = "none"
      /\ chains[a].record # Nothing /\ chains[a].grant = Nothing /\ UNCHANGED published
  BY NoChainIs DEF Approve, Active
<1>2. chains' = [chains EXCEPT ![a] = super,
                               ![b] = Opened(b, chains[a].record, Transition(a, b))]
  BY DEF Approve
<1>3. /\ IsChain(super) /\ super.status = "superseded"
      /\ super.root = chains[a].root /\ super.scopes = chains[a].scopes
      /\ super.record = chains[a].record /\ super.grant = chains[a].grant
  BY DEF TypeOK, IsChain
<1> HIDE DEF super
<1>4. /\ DOMAIN chains' = Auths /\ chains'[a] = super
      /\ chains'[b] = Opened(b, chains[a].record, Transition(a, b))
      /\ \A c \in Auths \ {a, b} : chains'[c] = chains[c]
  BY <1>1, <1>2 DEF TypeOK
<1>5. QED BY <1>1, <1>3, <1>4

LEMMA InitTypes == Init => TypeOK
<1> SUFFICES ASSUME Init PROVE TypeOK OBVIOUS
<1>1. published \in Seq({}) /\ DOMAIN published = {} BY DEF Init
<1>2. \A a \in Auths : IsChain(chains[a]) BY DEF Init, IsChain, NoChain
<1>3. DOMAIN chains = Auths BY DEF Init
<1>4. QED BY <1>1, <1>2, <1>3 DEF TypeOK

LEMMA TypesKept == ASSUME TypeOK, [Next]_vars PROVE TypeOK'
<1>1. ASSUME NEW a \in Auths, Register(a) PROVE TypeOK'
  BY <1>1, RegisterStep, OpenedIs DEF TypeOK
<1>2. ASSUME NEW a \in Auths, NEW b \in Auths, Approve(a, b) PROVE TypeOK'
  BY <1>2, ApproveStep, OpenedIs DEF TypeOK
<1>3. ASSUME NEW a \in Auths, NEW path \in Paths, Stop(a, path) PROVE TypeOK'
  <2>1. PICK text :
          /\ chains' = [chains EXCEPT ![a] = NextChain(a, path, text)]
          /\ \E S : published' \in Seq(S)
          /\ Len(published) \in Nat /\ DOMAIN published = 1..Len(published)
          /\ DOMAIN published' = 1..(Len(published) + 1)
          /\ published'[Len(published) + 1] = Entry(a, text)
          /\ \A i \in 1..Len(published) : published'[i] = published[i]
    BY <1>3, StopStep
  <2>2. IsChain(NextChain(a, path, text)) BY NextChainIs
  <2>3. DOMAIN chains' = Auths /\ \A c \in Auths : IsChain(chains'[c])
    BY <2>1, <2>2 DEF TypeOK
  <2>4. \A i \in DOMAIN published' : published'[i].auth \in Auths
    <3>1. Entry(a, text).auth = a BY DEF Entry
    <3>2. QED BY <2>1, <3>1 DEF TypeOK
  <2>5. QED BY <2>1, <2>3, <2>4 DEF TypeOK
<1>4. CASE UNCHANGED <<chains, published>> BY <1>4 DEF TypeOK
<1>5. QED
  BY <1>1, <1>2, <1>3, <1>4 DEF Next, RenderLook, RenderWrite, vars

-----------------------------------------------------------------------------
(* Scopes. *)

\* What is accepted names the scopes of its chain, and they are what it says.
LEMMA AcceptedScopes ==
    ASSUME NEW a \in Auths, NEW text, Accepted(a, text)
    PROVE  /\ chains[a].status = "active"
           /\ text.auth = a /\ text.root = chains[a].root
           /\ Digests(text) = chains[a].scopes /\ Definitions(text) = Digests(text)
<1>1. /\ chains[a].status = "active"
      /\ text.auth = a /\ text.root = chains[a].root /\ Digests(text) = chains[a].scopes
      /\ Valid(text)
  BY DEF Accepted, AcceptedFirst, AcceptedNext, Succeeds
<1>2. \A i \in DOMAIN text.scopes : text.scopes[i].digest = Definition(text.scopes[i])
  BY <1>1 DEF Valid, Linked
<1>3. Definitions(text) = Digests(text) BY <1>2 DEF Definitions, Digests
<1>4. QED BY <1>1, <1>3

ChainsLocked ==
    \A a \in Auths :
        chains[a].status # "none" => chains[a].scopes = Registered[a] /\ chains[a].root = Root(a)

LEMMA ScopesKept ==
    ASSUME TypeOK, ChainsLocked, ScopesAreLocked, [Next]_vars
    PROVE  ChainsLocked' /\ ScopesAreLocked'
<1>1. ASSUME NEW a \in Auths, Register(a) PROVE ChainsLocked' /\ ScopesAreLocked'
  BY <1>1, RegisterStep, OpenedIs DEF TypeOK, ChainsLocked, ScopesAreLocked
<1>2. ASSUME NEW a \in Auths, NEW b \in Auths, Approve(a, b)
      PROVE  ChainsLocked' /\ ScopesAreLocked'
  BY <1>2, ApproveStep, OpenedIs DEF ChainsLocked, ScopesAreLocked
<1>3. ASSUME NEW a \in Auths, NEW path \in Paths, Stop(a, path)
      PROVE  ChainsLocked' /\ ScopesAreLocked'
  <2>1. PICK text :
          /\ Accepted(a, text)
          /\ chains' = [chains EXCEPT ![a] = NextChain(a, path, text)]
          /\ Len(published) \in Nat /\ DOMAIN published = 1..Len(published)
          /\ DOMAIN published' = 1..(Len(published) + 1)
          /\ published'[Len(published) + 1] = Entry(a, text)
          /\ \A i \in 1..Len(published) : published'[i] = published[i]
    BY <1>3, StopStep
  <2>2. /\ text.auth = a /\ text.root = Root(a) /\ Digests(text) = Registered[a]
        /\ Definitions(text) = Registered[a]
    BY <2>1, AcceptedScopes DEF ChainsLocked
  <2> DEFINE c == NextChain(a, path, text)
  <2>3. c.root = text.root /\ c.scopes = Digests(text) BY NextChainIs
  <2> HIDE DEF c
  <2>4. ChainsLocked' BY <2>1, <2>2, <2>3 DEF ChainsLocked, TypeOK, c
  <2>5. Entry(a, text).auth = a /\ Entry(a, text).text = text BY DEF Entry
  <2>6. ScopesAreLocked' BY <2>1, <2>2, <2>5 DEF ScopesAreLocked
  <2>7. QED BY <2>4, <2>6
<1>4. CASE UNCHANGED <<chains, published>> BY <1>4 DEF ChainsLocked, ScopesAreLocked
<1>5. QED
  BY <1>1, <1>2, <1>3, <1>4 DEF Next, RenderLook, RenderWrite, vars

\* However many records, sessions and drafts lie between, a published record
\* carries the scopes its user authorized (evaluate_stop, validate_successor).
THEOREM ScopesLocked == Spec => []ScopesAreLocked
<1> DEFINE I == TypeOK /\ ChainsLocked /\ ScopesAreLocked
<1>1. Init => ChainsLocked /\ ScopesAreLocked
  BY NoChainIs DEF Init, ChainsLocked, ScopesAreLocked
<1>2. Init => I BY <1>1, InitTypes
<1>3. I /\ [Next]_vars => I' BY TypesKept, ScopesKept
<1>4. I => ScopesAreLocked OBVIOUS
<1>5. QED BY <1>2, <1>3, <1>4, PTL DEF Spec

-----------------------------------------------------------------------------
(* Lines. A chain that has published has its last record as its current one;  *)
(* one that has not has none, or the last of the chain it took over.          *)

Published(a) == \E i \in DOMAIN published : published[i].auth = a

LastOf(j, a) ==
    /\ j \in DOMAIN published /\ published[j].auth = a
    /\ \A k \in DOMAIN published : published[k].auth = a => k <= j

Ends(a) == \E j \in DOMAIN published : LastOf(j, a) /\ chains[a].record.text = published[j].text

TakesOver(a, b) ==
    /\ chains[a].grant = Transition(b, a) /\ chains[b].status = "superseded"
    /\ \E j \in DOMAIN published : LastOf(j, b) /\ chains[a].record.text = published[j].text

ChainLine(a) ==
    /\ chains[a].status = "none" => ~Published(a)
    /\ Published(a) => chains[a].grant = Nothing /\ chains[a].record # Nothing /\ Ends(a)
    /\ ~Published(a) =>
         \/ chains[a].grant = Nothing /\ chains[a].record = Nothing
         \/ chains[a].record # Nothing /\ \E b \in Auths : TakesOver(a, b)

ChainLines == \A a \in Auths : ChainLine(a)

\* The value of a chain without a record is no reference to a record.
NothingIsNoReference == \A path, text : Nothing # [path |-> path, text |-> text]

LEMMA AcceptedFirstIs ==
    ASSUME NEW a \in Auths, NEW text, Accepted(a, text), chains[a].record = Nothing
    PROVE  text.pred = Nothing /\ text.transition = Nothing
<1>1. AcceptedFirst(a, text) BY DEF Accepted
<1>2. /\ text.pred = Nothing /\ text.evidence = [kind |-> "initial", of |-> a]
      /\ [evidence |-> text.evidence, transition |-> text.transition] \in Lineages
  BY <1>1 DEF AcceptedFirst, Valid, WellEvidenced
<1>3. text.evidence.kind = "initial" BY <1>2
<1>4. text.transition # Nothing => text.evidence.kind = "approved" BY <1>2 DEF Lineages
<1>5. QED BY <1>2, <1>3, <1>4

LEMMA AcceptedNextIs ==
    ASSUME NEW a \in Auths, NEW text, Accepted(a, text), chains[a].record # Nothing
    PROVE  text.pred = chains[a].record /\ text.transition = chains[a].grant
<1>1. AcceptedNext(a, text) BY DEF Accepted
<1>2. text.pred = chains[a].record BY <1>1 DEF AcceptedNext
<1>3. CASE chains[a].grant # Nothing
  BY <1>1, <1>2, <1>3 DEF AcceptedNext, Trusts
<1>4. CASE chains[a].grant = Nothing
  <2>1. ~Trusts(a, text, text.pred.text) BY <1>4 DEF Trusts
  <2>2. Succeeds(text, text.pred.text, text.pred.path, Nothing)
    BY <1>1, <2>1 DEF AcceptedNext
  <2>3. text.transition # Nothing => text.transition.hmac = Nothing
    BY <2>2 DEF Succeeds
  <2>4. [evidence |-> text.evidence, transition |-> text.transition] \in Lineages
    BY <2>2 DEF Succeeds, Valid, WellEvidenced
  <2>5. text.transition \in Transitions BY <2>4 DEF Lineages
  <2>6. text.transition # Nothing => text.transition.hmac \in Auths
    BY <2>5 DEF Transitions, Transition
  <2>7. Nothing \notin Auths BY NothingAssumption
  <2>8. text.transition = Nothing BY <2>3, <2>6, <2>7
  <2>9. QED BY <1>2, <1>4, <2>8
<1>5. QED BY <1>3, <1>4

LEMMA RegisterLines ==
    ASSUME TypeOK, ChainLines, RecordsFormALine, NEW a \in Auths, Register(a)
    PROVE  ChainLines' /\ RecordsFormALine'
<1>1. /\ chains[a].status = "none" /\ UNCHANGED published
      /\ chains'[a] = Opened(a, Nothing, Nothing)
      /\ \A c \in Auths \ {a} : chains'[c] = chains[c]
  BY RegisterStep DEF TypeOK
<1>2. chains'[a].record = Nothing /\ chains'[a].grant = Nothing BY <1>1, OpenedIs
<1>3. \A c \in Auths : Published(c)' <=> Published(c) BY <1>1 DEF Published
<1>4. \A c \in Auths, j \in DOMAIN published : LastOf(j, c)' <=> LastOf(j, c)
  BY <1>1 DEF LastOf
<1>5. ~Published(a) BY <1>1 DEF ChainLines, ChainLine
<1>6. \A c \in Auths : chains[c].status = "superseded" => chains'[c] = chains[c] BY <1>1
<1>7. ASSUME NEW c \in Auths PROVE ChainLine(c)'
  <2>1. CASE c = a BY <2>1, <1>2, <1>3, <1>5 DEF ChainLine
  <2>2. CASE c # a
    <3>1. chains'[c] = chains[c] BY <2>2, <1>1
    <3>2. \A b \in Auths : TakesOver(c, b) => TakesOver(c, b)'
      BY <3>1, <1>1, <1>4, <1>6 DEF TakesOver
    <3>3. Ends(c) => Ends(c)' BY <3>1, <1>1, <1>4 DEF Ends
    <3>4. QED BY <3>1, <3>2, <3>3, <1>3 DEF ChainLines, ChainLine
  <2>3. QED BY <2>1, <2>2
<1>8. RecordsFormALine' BY <1>1, <1>6 DEF RecordsFormALine, Latest
<1>9. QED BY <1>7, <1>8 DEF ChainLines

LEMMA ApproveLines ==
    ASSUME TypeOK, ChainLines, RecordsFormALine,
           NEW a \in Auths, NEW b \in Auths, Approve(a, b)
    PROVE  ChainLines' /\ RecordsFormALine'
<1>1. /\ a # b /\ chains[a].status = "active" /\ chains[b].status = "none"
      /\ chains[a].record # Nothing /\ chains[a].grant = Nothing /\ UNCHANGED published
      /\ chains'[a].status = "superseded" /\ chains'[a].record = chains[a].record
      /\ chains'[a].grant = chains[a].grant
      /\ chains'[b] = Opened(b, chains[a].record, Transition(a, b))
      /\ \A c \in Auths \ {a, b} : chains'[c] = chains[c]
  BY ApproveStep
<1>2. chains'[b].record = chains[a].record /\ chains'[b].grant = Transition(a, b)
  BY <1>1, OpenedIs
<1>3. \A c \in Auths : Published(c)' <=> Published(c) BY <1>1 DEF Published
<1>4. \A c \in Auths, j \in DOMAIN published : LastOf(j, c)' <=> LastOf(j, c)
  BY <1>1 DEF LastOf
<1>5. ~Published(b) BY <1>1 DEF ChainLines, ChainLine
<1>6. \A c \in Auths : chains[c].status = "superseded" => chains'[c] = chains[c] BY <1>1
<1>7. Ends(a)
  <2>1. \A x \in Auths : ~TakesOver(a, x) BY <1>1, NothingAssumption DEF TakesOver
  <2>2. QED BY <2>1, <1>1 DEF ChainLines, ChainLine
<1>8. TakesOver(b, a)' BY <1>1, <1>2, <1>4, <1>7 DEF TakesOver, Ends
<1>9. ASSUME NEW c \in Auths PROVE ChainLine(c)'
  <2>1. CASE c = b BY <2>1, <1>1, <1>2, <1>3, <1>5, <1>8 DEF ChainLine
  <2>2. CASE c # b
    <3>1. chains'[c].record = chains[c].record /\ chains'[c].grant = chains[c].grant
      BY <2>2, <1>1
    <3>2. \A x \in Auths : TakesOver(c, x) => TakesOver(c, x)'
      BY <3>1, <1>1, <1>4, <1>6 DEF TakesOver
    <3>3. Ends(c) => Ends(c)' BY <3>1, <1>1, <1>4 DEF Ends
    <3>4. chains'[c].status = "none" => chains[c].status = "none" BY <2>2, <1>1
    <3>5. QED BY <3>1, <3>2, <3>3, <3>4, <1>3 DEF ChainLines, ChainLine
  <2>3. QED BY <2>1, <2>2
<1>10. RecordsFormALine' BY <1>1, <1>6 DEF RecordsFormALine, Latest
<1>11. QED BY <1>9, <1>10 DEF ChainLines

\* The record that is published joins the line: it follows the last one of its
\* chain, or is the first.
LEMMA StopLines ==
    ASSUME NothingIsNoReference, TypeOK, ChainLines, RecordsFormALine,
           NEW a \in Auths, NEW path \in Paths, Stop(a, path)
    PROVE  ChainLines' /\ RecordsFormALine'
<1>0. PICK n : n = Len(published) + 1 OBVIOUS
<1>1. PICK text :
        /\ Accepted(a, text)
        /\ chains' = [chains EXCEPT ![a] = NextChain(a, path, text)]
        /\ n = Len(published) + 1 /\ Len(published) \in Nat
        /\ DOMAIN published = 1..Len(published)
        /\ DOMAIN published' = 1..n
        /\ published'[n] = Entry(a, text)
        /\ \A i \in 1..Len(published) : published'[i] = published[i]
  BY <1>0, StopStep
<1> DEFINE c == NextChain(a, path, text)
<1>2. /\ c.record.text = text /\ c.grant = Nothing
      /\ c.status \in {"active", "complete"}
  BY NextChainIs
<1>3. c.record # Nothing
  <2>1. c.record = [path |-> path, text |-> text]
    <3>1. IsChain(chains[a]) BY DEF TypeOK
    <3>2. Advanced(a, path, text).record = [path |-> path, text |-> text]
      BY <3>1 DEF Advanced, IsChain
    <3>3. "record" \in DOMAIN Advanced(a, path, text) BY <3>1 DEF Advanced, IsChain
    <3>4. QED BY <3>2, <3>3 DEF NextChain
  <2>2. QED BY <2>1 DEF NothingIsNoReference
<1> HIDE DEF c
<1>4. chains'[a] = c /\ \A d \in Auths \ {a} : chains'[d] = chains[d]
  BY <1>1 DEF TypeOK, c
<1>5. published'[n].auth = a /\ published'[n].text = text BY <1>1 DEF Entry
<1>6. chains[a].status = "active" BY <1>1 DEF Accepted
<1>7. LastOf(n, a)' BY <1>1, <1>5 DEF LastOf
<1>8. \A d \in Auths \ {a} : Published(d)' <=> Published(d)
  BY <1>1, <1>5 DEF Published
<1>9. \A d \in Auths \ {a}, j \in DOMAIN published : LastOf(j, d) => LastOf(j, d)'
  BY <1>1, <1>5 DEF LastOf
<1>10. DOMAIN published \subseteq DOMAIN published' BY <1>1
<1>11. \A d \in Auths : chains[d].status = "superseded" => d # a /\ chains'[d] = chains[d]
  BY <1>4, <1>6
<1>12. ASSUME NEW d \in Auths PROVE ChainLine(d)'
  <2>1. CASE d = a
    <3>1. Published(a)' BY <1>1, <1>5 DEF Published
    <3>2. n \in DOMAIN published' BY <1>1
    <3>3. Ends(a)' BY <3>2, <1>2, <1>4, <1>5, <1>7 DEF Ends
    <3>4. QED BY <2>1, <3>1, <3>3, <1>2, <1>3, <1>4 DEF ChainLine
  <2>2. CASE d # a
    <3>1. chains'[d] = chains[d] BY <2>2, <1>4
    <3>2. \A x \in Auths : TakesOver(d, x) => TakesOver(d, x)'
      BY <3>1, <1>1, <1>9, <1>10, <1>11 DEF TakesOver
    <3>3. Ends(d) => Ends(d)' BY <2>2, <3>1, <1>1, <1>9, <1>10 DEF Ends
    <3>4. QED BY <2>2, <3>1, <3>2, <3>3, <1>8 DEF ChainLines, ChainLine
  <2>3. QED BY <2>1, <2>2
<1>13. RecordsFormALine'
  <2> DEFINE Line(i) ==
         LET x == published[i].auth   t == published[i].text IN
         IF Latest(i, x) # {} THEN
             /\ t.transition = Nothing
             /\ \A j \in Latest(i, x) : t.pred.text = published[j].text
         ELSE
             \/ t.pred = Nothing /\ t.transition = Nothing
             \/ \E b \in Auths :
                  /\ t.transition = Transition(b, x) /\ chains[b].status = "superseded"
                  /\ \E j \in DOMAIN published :
                       /\ LastOf(j, b) /\ t.pred.text = published[j].text
  <2>1. RecordsFormALine <=> \A i \in DOMAIN published : Line(i)
    BY DEF RecordsFormALine, LastOf
  <2>2. RecordsFormALine' <=> \A i \in DOMAIN published' : Line(i)'
    BY DEF RecordsFormALine, LastOf
  <2>3. ASSUME NEW i \in DOMAIN published PROVE Line(i)'
    <3>1. published'[i] = published[i] BY <1>1
    <3>2. Latest(i, published[i].auth)' = Latest(i, published[i].auth)
      BY <1>1, <3>1 DEF Latest
    <3>3. \A j \in Latest(i, published[i].auth) : published'[j] = published[j]
      BY <1>1 DEF Latest
    <3>4. Line(i) BY <2>1
    <3>5. \A b \in Auths, j \in DOMAIN published :
             chains[b].status = "superseded" /\ LastOf(j, b) => LastOf(j, b)'
      BY <1>9, <1>11
    <3>6. CASE Latest(i, published[i].auth) # {} BY <3>1, <3>2, <3>3, <3>4, <3>6
    <3>7. CASE Latest(i, published[i].auth) = {}
      BY <3>1, <3>2, <3>4, <3>5, <3>7, <1>1, <1>10, <1>11
    <3>8. QED BY <3>6, <3>7
  <2>4. Line(n)'
    <3>1. Latest(n, a)' = {j \in DOMAIN published : LastOf(j, a)}
      BY <1>1 DEF Latest, LastOf
    <3>2. CASE Published(a)
      <4>1. PICK j \in DOMAIN published :
              LastOf(j, a) /\ chains[a].record.text = published[j].text
        BY <3>2 DEF ChainLines, ChainLine, Ends
      <4>2. \A k \in DOMAIN published : LastOf(k, a) => k = j
        BY <4>1, <1>1 DEF LastOf
      <4>3. text.pred = chains[a].record /\ text.transition = Nothing
        BY <3>2, <1>1, AcceptedNextIs DEF ChainLines, ChainLine
      <4>4. Latest(n, a)' = {j} BY <3>1, <4>1, <4>2
      <4>5. QED BY <4>1, <4>3, <4>4, <1>1, <1>5
    <3>3. CASE ~Published(a)
      <4>1. Latest(n, a)' = {} BY <3>1, <3>3 DEF Published, LastOf
      <4>2. CASE chains[a].record = Nothing
        <5>1. text.pred = Nothing /\ text.transition = Nothing
          BY <4>2, <1>1, AcceptedFirstIs
        <5>2. QED BY <5>1, <4>1, <1>5
      <4>3. CASE chains[a].record # Nothing
        <5>1. text.pred = chains[a].record /\ text.transition = chains[a].grant
          BY <4>3, <1>1, AcceptedNextIs
        <5>2. PICK b \in Auths : TakesOver(a, b)
          BY <4>3, <3>3 DEF ChainLines, ChainLine
        <5>3. PICK j \in DOMAIN published :
                LastOf(j, b) /\ chains[a].record.text = published[j].text
          BY <5>2 DEF TakesOver
        <5>4. LastOf(j, b)' /\ j \in DOMAIN published' /\ published'[j] = published[j]
          BY <5>2, <5>3, <1>1, <1>9, <1>10, <1>11 DEF TakesOver
        <5>5. chains'[b].status = "superseded" BY <5>2, <1>11 DEF TakesOver
        <5>6. text.transition = Transition(b, a) BY <5>1, <5>2 DEF TakesOver
        <5>7. QED BY <5>1, <5>3, <5>4, <5>5, <5>6, <4>1, <1>5
      <4>4. QED BY <4>2, <4>3
    <3>4. QED BY <3>2, <3>3
  <2>5. \A i \in DOMAIN published' : i \in DOMAIN published \/ i = n BY <1>1
  <2> HIDE DEF Line
  <2>6. \A i \in DOMAIN published' : Line(i)' BY <2>3, <2>4, <2>5
  <2>7. QED BY <2>2, <2>6
<1>14. QED BY <1>12, <1>13 DEF ChainLines

\* Given that a chain without a record is told from one with a record, every
\* chain's records form one line (evaluate_stop, validate_successor).
THEOREM OneLine == NothingIsNoReference => (Spec => []RecordsFormALine)
<1> SUFFICES ASSUME NothingIsNoReference PROVE Spec => []RecordsFormALine OBVIOUS
<1> DEFINE I == TypeOK /\ ChainLines /\ RecordsFormALine
<1>1. Init => ChainLines /\ RecordsFormALine
  BY NoChainIs DEF Init, ChainLines, ChainLine, Published, RecordsFormALine
<1>2. Init => I BY <1>1, InitTypes
<1>3. I /\ [Next]_vars => I'
  <2> SUFFICES ASSUME I, [Next]_vars PROVE ChainLines' /\ RecordsFormALine'
    BY TypesKept
  <2>1. CASE UNCHANGED <<chains, published>>
    <3>1. \A a \in Auths : ChainLine(a) => ChainLine(a)'
      BY <2>1 DEF ChainLine, Published, Ends, TakesOver, LastOf
    <3>2. RecordsFormALine' BY <2>1 DEF RecordsFormALine, Latest
    <3>3. QED BY <3>1, <3>2 DEF ChainLines
  <2>2. QED
    BY <2>1, RegisterLines, ApproveLines, StopLines
    DEF Next, RenderLook, RenderWrite, vars
<1>4. I => RecordsFormALine OBVIOUS
<1>5. QED BY <1>2, <1>3, <1>4, PTL DEF Spec

-----------------------------------------------------------------------------
(* Texts. *)

\* What an author can have written.
IsText(text) == \E page \in Pages : \E ref : text = Following(page, ref)

LEMMA PageIs ==
    ASSUME NEW page \in Pages, NEW ref
    PROVE  /\ WellScoped(page.type, page.scopes) /\ Linked(page.root, page.scopes)
           /\ [evidence |-> page.evidence, transition |-> page.transition] \in Lineages
           /\ \E shape \in Shapes : \E p, h :
                page.scopes = [i \in DOMAIN shape |-> Scope(shape[i], p[i], i = h)]
           /\ Following(page, ref) =
                [type |-> page.type, root |-> page.root, scopes |-> page.scopes,
                 id |-> page.id, auth |-> page.auth, pred |-> ref,
                 evidence |-> page.evidence, transition |-> page.transition]
           /\ Following(page, ref).scopes = page.scopes
<1>1. PICK s \in Sheets, d \in Ids, a \in Auths, l \in Lineages :
        page = [type |-> s.type, root |-> s.root, scopes |-> s.scopes, id |-> d, auth |-> a,
                pred |-> Nothing, evidence |-> l.evidence, transition |-> l.transition]
  BY DEF Pages
<1>2. WellScoped(s.type, s.scopes) /\ Linked(s.root, s.scopes) BY DEF Sheets
<1>3. l = [evidence |-> l.evidence, transition |-> l.transition] BY DEF Lineages
<1>4. \E shape \in Shapes : \E p, h :
        s.scopes = [i \in DOMAIN shape |-> Scope(shape[i], p[i], i = h)]
  BY DEF Sheets
<1>5. Following(page, ref).scopes = page.scopes BY <1>1 DEF Following
<1>6. Following(page, ref) =
        [type |-> page.type, root |-> page.root, scopes |-> page.scopes,
         id |-> page.id, auth |-> page.auth, pred |-> ref,
         evidence |-> page.evidence, transition |-> page.transition]
  BY <1>1 DEF Following
<1>7. [evidence |-> page.evidence, transition |-> page.transition] \in Lineages
  BY <1>1, <1>3
<1>8. page.type = s.type /\ page.root = s.root /\ page.scopes = s.scopes BY <1>1
<1>9. /\ WellScoped(page.type, page.scopes) /\ Linked(page.root, page.scopes)
      /\ \E shape \in Shapes : \E p, h :
           page.scopes = [i \in DOMAIN shape |-> Scope(shape[i], p[i], i = h)]
  BY <1>2, <1>4, <1>8
<1> QED BY <1>5, <1>6, <1>7, <1>9

\* The scopes of a text are a list.
LEMMA TextIsList ==
    ASSUME NEW text, IsText(text)
    PROVE  Len(text.scopes) \in Nat /\ DOMAIN text.scopes = 1..Len(text.scopes)
<1>1. PICK page \in Pages : \E ref : text = Following(page, ref) BY DEF IsText
<1>2. text.scopes = page.scopes
  <2>1. PICK ref : text = Following(page, ref) BY <1>1
  <2>2. Following(page, ref).scopes = page.scopes BY PageIs
  <2> QED BY <2>1, <2>2
<1>3. PICK shape \in Shapes : \E p, h :
        page.scopes = [i \in DOMAIN shape |-> Scope(shape[i], p[i], i = h)]
  BY PageIs
<1>4. PICK n \in Nat : DOMAIN shape = 1..n
  <2>1. shape \in Seq({shape[i] : i \in DOMAIN shape}) BY RecordsAssumption
  <2> QED BY <2>1
<1>5. PICK f : f = text.scopes /\ f = [i \in 1..n |-> f[i]] BY <1>2, <1>3, <1>4
<1> DEFINE S == {f[i] : i \in 1..n}
<1>6. f \in [1..n -> S] BY <1>5
<1>7. f \in Seq(S) BY <1>6, SeqDef
<1> HIDE DEF S
<1> QED BY <1>5, <1>7

\* A path holds a text as soon as somebody has read it, and so does a record.
TextsHeld ==
    /\ DOMAIN files = Paths /\ DOMAIN writing = Sessions
    /\ \A path \in Paths : files[path] \notin {Nothing, Draft} => IsText(files[path])
    /\ \A i \in DOMAIN published :
         IsText(published[i].text) /\ Valid(published[i].text)

LEMMA AcceptableIsText ==
    ASSUME TextsHeld, NEW a \in Auths, NEW path \in Paths, NEW text \in Acceptable(a, path)
    PROVE  IsText(text) /\ Valid(text)
<1>1. Valid(text) BY AcceptableIsAccepted DEF Accepted, AcceptedFirst, AcceptedNext, Succeeds
<1>2. IsText(text) BY DEF Acceptable, IsText, TextsHeld
<1> QED BY <1>1, <1>2

LEMMA TextsKept ==
    ASSUME TypeOK, TextsHeld, [Next]_vars
    PROVE  TextsHeld'
<1>1. ASSUME NEW a \in Auths, NEW path \in Paths, Stop(a, path) PROVE TextsHeld'
  <2>1. PICK text \in Acceptable(a, path) :
          /\ files' = [files EXCEPT ![path] = text] /\ UNCHANGED writing
          /\ Len(published) \in Nat /\ DOMAIN published = 1..Len(published)
          /\ DOMAIN published' = 1..(Len(published) + 1)
          /\ published'[Len(published) + 1] = Entry(a, text)
          /\ \A i \in 1..Len(published) : published'[i] = published[i]
    BY <1>1, StopStep
  <2>2. IsText(text) /\ Valid(text) BY AcceptableIsText
  <2>3. DOMAIN files' = Paths /\ DOMAIN writing' = Sessions BY <2>1 DEF TextsHeld
  <2>4. \A q \in Paths : files'[q] \notin {Nothing, Draft} => IsText(files'[q])
    BY <2>1, <2>2 DEF TextsHeld
  <2>5. Entry(a, text).text = text BY DEF Entry
  <2>6. \A i \in DOMAIN published' : IsText(published'[i].text) /\ Valid(published'[i].text)
    BY <2>1, <2>2, <2>5 DEF TextsHeld
  <2> QED BY <2>3, <2>4, <2>6 DEF TextsHeld
<1>2. ASSUME NEW s \in Sessions, RenderWrite(s) PROVE TextsHeld'
  BY <1>2 DEF RenderWrite, TextsHeld
<1>3. ASSUME NEW s \in Sessions, NEW path \in Paths, RenderLook(s, path) PROVE TextsHeld'
  BY <1>3 DEF RenderLook, TextsHeld
<1>4. CASE UNCHANGED <<files, writing, published>> BY <1>4 DEF TextsHeld
<1> QED BY <1>1, <1>2, <1>3, <1>4 DEF Next, Register, Approve, vars

LEMMA TextsAlways == Spec => [](TypeOK /\ TextsHeld)
<1>1. Init => TextsHeld BY DEF Init, TextsHeld
<1> QED BY <1>1, InitTypes, TypesKept, TextsKept, PTL DEF Spec

\* A work that is declared complete is done, in every scope, however deep the tree
\* its user authorized: the checks of the root and of the propagation leave no gap.
THEOREM AuditsAreDone == Spec => []AuditsLeaveNothing
<1>1. TextsHeld => AuditsLeaveNothing
  <2> SUFFICES ASSUME TextsHeld, NEW i \in DOMAIN published,
                      published[i].text.type = "audit",
                      NEW n \in DOMAIN published[i].text.scopes
               PROVE  LET s == published[i].text.scopes[n] IN ~s.work /\ ~s.code
    BY DEF AuditsLeaveNothing
  <2> PICK text : text = published[i].text OBVIOUS
  <2>1. IsText(text) /\ WellScoped(text.type, text.scopes) BY DEF TextsHeld, Valid
  <2>2. Len(text.scopes) \in Nat /\ DOMAIN text.scopes = 1..Len(text.scopes)
    BY <2>1, TextIsList
  <2> QED BY <2>1, <2>2, AuditIsDone
<1> QED BY <1>1, TextsAlways, PTL

-----------------------------------------------------------------------------
(* Renders over current records. *)

\* What a rendered file holds before somebody reads it is no record.
DraftIsNoText == \A page \in Pages : \A ref : Following(page, ref) # Draft

\* The current record of a chain is a published text at a path.
RecordsPublished ==
    \A a \in Auths : chains[a].record # Nothing =>
        /\ chains[a].record.path \in Paths
        /\ \E i \in DOMAIN published : published[i].text = chains[a].record.text

\* A record that is current where a render is going to write was published after
\* the render looked there.
Watched ==
    \A s \in Sessions : writing[s] # Nothing =>
        /\ writing[s].at \in Nat /\ writing[s].at <= Len(published)
        /\ \A a \in Auths : Holds(a) /\ chains[a].record.path = writing[s].path =>
             \E i \in (writing[s].at + 1)..Len(published) :
                 published[i].text = chains[a].record.text

LEMMA RecordIs ==
    ASSUME TypeOK, NEW a \in Auths, NEW path, NEW text
    PROVE  NextChain(a, path, text).record = [path |-> path, text |-> text]
<1>1. IsChain(chains[a]) BY DEF TypeOK
<1>2. /\ Advanced(a, path, text).record = [path |-> path, text |-> text]
      /\ "record" \in DOMAIN Advanced(a, path, text)
  BY <1>1 DEF Advanced, IsChain
<1> QED BY <1>2 DEF NextChain

LEMMA RecordIsNoDraft ==
    ASSUME DraftIsNoText, TextsHeld, RecordsPublished, NEW a \in Auths,
           chains[a].record # Nothing
    PROVE  chains[a].record.text # Draft
BY DEF RecordsPublished, TextsHeld, IsText, DraftIsNoText

LEMMA ApprovedRecords ==
    ASSUME TypeOK, NEW a \in Auths, NEW b \in Auths, Approve(a, b)
    PROVE  /\ UNCHANGED <<files, writing, published>>
           /\ \A c \in Auths : \E d \in Auths : chains'[c].record = chains[d].record
<1>1. /\ chains'[a].record = chains[a].record
      /\ chains'[b].record = chains[a].record
      /\ \A c \in Auths \ {a, b} : chains'[c] = chains[c]
  BY ApproveStep, OpenedIs
<1> QED BY <1>1 DEF Approve

LEMMA RegisteredRecords ==
    ASSUME TypeOK, NEW a \in Auths, Register(a)
    PROVE  /\ UNCHANGED <<files, writing, published>>
           /\ \A c \in Auths : chains'[c].record \in {Nothing, chains[c].record}
<1>1. chains' = [chains EXCEPT ![a] = Opened(a, Nothing, Nothing)] BY DEF Register
<1>2. chains'[a].record = Nothing BY <1>1, OpenedIs DEF TypeOK
<1>3. \A c \in Auths \ {a} : chains'[c] = chains[c] BY <1>1 DEF TypeOK
<1> QED BY <1>2, <1>3 DEF Register

LEMMA WatchKept ==
    ASSUME DraftIsNoText, TypeOK, TextsHeld, RecordsPublished, Watched, [Next]_vars
    PROVE  RecordsPublished' /\ Watched'
<1>1. ASSUME NEW a \in Auths, NEW b \in Auths, Approve(a, b)
      PROVE  RecordsPublished' /\ Watched'
  BY <1>1, ApprovedRecords DEF RecordsPublished, Watched, Holds
<1>2. ASSUME NEW a \in Auths, Register(a) PROVE RecordsPublished' /\ Watched'
  BY <1>2, RegisteredRecords DEF RecordsPublished, Watched, Holds
<1>3. ASSUME NEW s \in Sessions, NEW path \in Paths, RenderLook(s, path)
      PROVE  RecordsPublished' /\ Watched'
  <2>1. /\ UNCHANGED <<chains, files, published>> /\ ~Protected(path)
        /\ writing' = [writing EXCEPT ![s] = [path |-> path, at |-> Len(published)]]
    BY <1>3 DEF RenderLook
  <2>2. RecordsPublished' BY <2>1 DEF RecordsPublished
  <2>3. \A a \in Auths : Holds(a)' <=> Holds(a) BY <2>1 DEF Holds
  <2>4. \A a \in Auths : ~(Holds(a) /\ chains[a].record.path = path)
    BY <2>1 DEF Holds, Protected
  <2>5. Len(published) \in Nat BY DEF TypeOK
  <2>6. writing'[s] = [path |-> path, at |-> Len(published)]
    BY <2>1 DEF TextsHeld
  <2>7. \A r \in Sessions \ {s} : writing'[r] = writing[r] BY <2>1 DEF TextsHeld
  <2>8. ASSUME NEW r \in Sessions, writing'[r] # Nothing
        PROVE  /\ writing'[r].at \in Nat /\ writing'[r].at <= Len(published)
               /\ \A a \in Auths : Holds(a) /\ chains[a].record.path = writing'[r].path =>
                    \E i \in (writing'[r].at + 1)..Len(published) :
                        published[i].text = chains[a].record.text
    <3>1. CASE r = s BY <2>4, <2>5, <2>6, <3>1
    <3>2. CASE r # s BY <2>7, <2>8, <3>2 DEF Watched
    <3> QED BY <3>1, <3>2
  <2> QED BY <2>1, <2>2, <2>3, <2>8 DEF Watched
<1>4. ASSUME NEW s \in Sessions, RenderWrite(s) PROVE RecordsPublished' /\ Watched'
  <2>1. /\ UNCHANGED <<chains, published>> /\ files' = [files EXCEPT ![writing[s].path] = Draft]
        /\ writing' = [writing EXCEPT ![s] = Nothing]
    BY <1>4 DEF RenderWrite
  <2>2. RecordsPublished' BY <2>1 DEF RecordsPublished
  <2>3. \A r \in Sessions : writing'[r] # Nothing => writing'[r] = writing[r]
    BY <2>1 DEF TextsHeld
  <2>4. \A a \in Auths : Holds(a)' => Holds(a)
    BY <2>1, RecordIsNoDraft DEF Holds, TextsHeld, RecordsPublished
  <2> QED BY <2>1, <2>2, <2>3, <2>4 DEF Watched
<1>5. ASSUME NEW a \in Auths, NEW path \in Paths, Stop(a, path)
      PROVE  RecordsPublished' /\ Watched'
  <2> PICK n : n = Len(published) + 1 OBVIOUS
  <2>1. PICK text :
          /\ files' = [files EXCEPT ![path] = text] /\ UNCHANGED writing
          /\ chains' = [chains EXCEPT ![a] = NextChain(a, path, text)]
          /\ n = Len(published) + 1
          /\ Len(published) \in Nat /\ DOMAIN published = 1..Len(published)
          /\ DOMAIN published' = 1..n
          /\ published'[n] = Entry(a, text)
          /\ \A i \in 1..Len(published) : published'[i] = published[i]
    BY <1>5, StopStep
  <2>2. Len(published') = n /\ published'[n].text = text
    <3>1. PICK S : published' \in Seq(S) BY <1>5, StopStep
    <3>2. DOMAIN published' = 1..Len(published') /\ Len(published') \in Nat BY <3>1
    <3> QED BY <2>1, <3>2 DEF Entry
  <2>3. /\ chains'[a].record = [path |-> path, text |-> text]
        /\ \A c \in Auths \ {a} : chains'[c] = chains[c]
    BY <2>1, RecordIs DEF TypeOK
  <2>4. files'[path] = text /\ \A q \in Paths \ {path} : files'[q] = files[q]
    BY <2>1 DEF TextsHeld
  <2>5. RecordsPublished'
    <3> SUFFICES ASSUME NEW c \in Auths, chains'[c].record # Nothing
                 PROVE  /\ chains'[c].record.path \in Paths
                        /\ \E i \in DOMAIN published' :
                             published'[i].text = chains'[c].record.text
      BY DEF RecordsPublished
    <3>1. CASE c = a BY <2>1, <2>2, <2>3, <3>1
    <3>2. CASE c # a BY <2>1, <2>3, <3>2 DEF RecordsPublished
    <3> QED BY <3>1, <3>2
  <2>6. ASSUME NEW s \in Sessions, writing[s] # Nothing, NEW c \in Auths, Holds(c)',
               chains'[c].record.path = writing[s].path
        PROVE  \E i \in (writing[s].at + 1)..n : published'[i].text = chains'[c].record.text
    <3>1. writing[s].at \in Nat /\ writing[s].at <= Len(published) BY <2>6 DEF Watched
    <3>2. CASE chains'[c].record.path = path
      <4>1. chains'[c].record.text = text BY <2>4, <2>6, <3>2 DEF Holds
      <4> QED BY <2>1, <2>2, <3>1, <4>1
    <3>3. CASE chains'[c].record.path # path
      <4>1. c # a BY <2>3, <3>3
      <4>2. chains'[c] = chains[c] BY <2>3, <4>1
      <4>3. chains[c].record # Nothing /\ chains[c].record.path \in Paths
        BY <2>6, <4>2 DEF Holds, RecordsPublished
      <4>4. Holds(c) BY <2>4, <2>6, <3>3, <4>2, <4>3 DEF Holds
      <4>5. PICK i \in (writing[s].at + 1)..Len(published) :
              published[i].text = chains[c].record.text
        BY <2>6, <4>2, <4>4 DEF Watched
      <4> QED BY <2>1, <3>1, <4>2, <4>5
    <3> QED BY <3>2, <3>3
  <2>7. Watched' BY <2>1, <2>2, <2>6 DEF Watched
  <2> QED BY <2>5, <2>7
<1>6. CASE UNCHANGED vars BY <1>6 DEF vars, RecordsPublished, Watched, Holds
<1> QED BY <1>1, <1>2, <1>3, <1>4, <1>5, <1>6 DEF Next

\* A render destroys a current record only if that was published between its look
\* and its write; a Stop destroys none.
THEOREM RecordsAreKept == DraftIsNoText => (Spec => CurrentRecordsKept)
<1> SUFFICES ASSUME DraftIsNoText PROVE Spec => CurrentRecordsKept OBVIOUS
<1> DEFINE I == TypeOK /\ TextsHeld /\ RecordsPublished /\ Watched
           Kept == \A a \in Auths :
                     Holds(a) /\ files'[chains[a].record.path] # chains[a].record.text =>
                       \E s \in Sessions :
                         /\ writing[s] # Nothing /\ writing[s].path = chains[a].record.path
                         /\ \E i \in (writing[s].at + 1)..Len(published) :
                              published[i].text = chains[a].record.text
<1>1. Init => RecordsPublished /\ Watched
  BY NoChainIs DEF Init, RecordsPublished, Watched
<1>2. I /\ [Next]_vars => I' BY TypesKept, TextsKept, WatchKept
<1>3. I /\ [Next]_vars => [Kept]_vars
  <2> SUFFICES ASSUME I, Next, NEW a \in Auths, Holds(a),
                      files'[chains[a].record.path] # chains[a].record.text
               PROVE  \E s \in Sessions :
                        /\ writing[s] # Nothing /\ writing[s].path = chains[a].record.path
                        /\ \E i \in (writing[s].at + 1)..Len(published) :
                             published[i].text = chains[a].record.text
    OBVIOUS
  <2>1. /\ chains[a].record # Nothing /\ chains[a].record.path \in Paths
        /\ files[chains[a].record.path] = chains[a].record.text
        /\ files' # files
    BY DEF Holds, RecordsPublished
  <2>2. CASE \E s \in Sessions : RenderWrite(s)
    <3>1. PICK s \in Sessions : RenderWrite(s) BY <2>2
    <3>2. writing[s] # Nothing /\ writing[s].path = chains[a].record.path
      BY <2>1, <3>1 DEF RenderWrite, TextsHeld
    <3> QED BY <3>2 DEF Watched
  <2>3. CASE \E b \in Auths, path \in Paths : Stop(b, path)
    <3>1. PICK b \in Auths, path \in Paths : Stop(b, path) BY <2>3
    <3>2. PICK text \in Acceptable(b, path) : files' = [files EXCEPT ![path] = text]
      BY <3>1 DEF Stop
    <3>3. path = chains[a].record.path BY <2>1, <3>2 DEF TextsHeld
    <3>4. files[path] # Draft BY <2>1, <3>3, RecordIsNoDraft
    <3>5. text = files[path] BY <3>4 DEF Acceptable
    <3> QED BY <2>1, <3>2, <3>3, <3>5 DEF TextsHeld
  <2> QED BY <2>1, <2>2, <2>3 DEF Next, Register, Approve, RenderLook
<1>4. QED BY <1>1, <1>2, <1>3, InitTypes, TextsAlways, PTL DEF Spec, CurrentRecordsKept

-----------------------------------------------------------------------------
(* Work that can go on. *)

\* The current record of a chain is a valid one of the chain, or of the chain it
\* takes over: then, and only then, the approval is still to be published.
RecordsCurrent ==
    \A a \in Auths :
        LET r == chains[a].record   t == r.text   b == t.auth IN
        IF r = Nothing THEN chains[a].grant = Nothing
        ELSE /\ r = [path |-> r.path, text |-> t] /\ Valid(t)
             /\ b \in Auths /\ t.root = Root(b) /\ Digests(t) = Registered[b]
             /\ chains[a].grant = IF b = a THEN Nothing ELSE Transition(b, a)

\* An approved transition is one.
LEMMA TransitionIsSome ==
    ASSUME NEW a \in Auths, NEW b \in Auths PROVE Transition(a, b) # Nothing
<1>1. Transition(a, b) \in {Transition(x, y) : x, y \in Auths} OBVIOUS
<1> QED BY <1>1, NothingAssumption

\* Without an open approval the current record is the chain's own.
LEMMA OwnRecord ==
    ASSUME RecordsCurrent, NEW a \in Auths, chains[a].record # Nothing,
           chains[a].grant = Nothing
    PROVE  LET t == chains[a].record.text IN
           /\ t.auth = a /\ Valid(t) /\ t.root = Root(a) /\ Digests(t) = Registered[a]
<1> PICK t : t = chains[a].record.text OBVIOUS
<1>1. /\ t.auth \in Auths /\ Valid(t) /\ t.root = Root(t.auth)
      /\ Digests(t) = Registered[t.auth]
      /\ t.auth # a => Nothing = Transition(t.auth, a)
  BY DEF RecordsCurrent
<1>2. t.auth = a BY <1>1, TransitionIsSome
<1> QED BY <1>1, <1>2

LEMMA CurrentKept ==
    ASSUME TypeOK, ChainsLocked, RecordsCurrent, [Next]_vars
    PROVE  RecordsCurrent'
<1>1. ASSUME NEW a \in Auths, Register(a) PROVE RecordsCurrent'
  <2>1. /\ chains'[a] = Opened(a, Nothing, Nothing)
        /\ \A c \in Auths \ {a} : chains'[c] = chains[c]
    BY <1>1 DEF Register, TypeOK
  <2>2. chains'[a].record = Nothing /\ chains'[a].grant = Nothing BY <2>1, OpenedIs
  <2> QED BY <2>1, <2>2 DEF RecordsCurrent
<1>2. ASSUME NEW a \in Auths, NEW b \in Auths, Approve(a, b) PROVE RecordsCurrent'
  <2>1. /\ a # b /\ chains[a].record # Nothing /\ chains[a].grant = Nothing
        /\ chains'[a].record = chains[a].record /\ chains'[a].grant = chains[a].grant
        /\ chains'[b].record = chains[a].record /\ chains'[b].grant = Transition(a, b)
        /\ \A c \in Auths \ {a, b} : chains'[c] = chains[c]
    BY <1>2, ApproveStep, OpenedIs
  <2>2. chains[a].record.text.auth = a
    BY <2>1, OwnRecord
  <2> QED BY <2>1, <2>2 DEF RecordsCurrent
<1>3. ASSUME NEW a \in Auths, NEW path \in Paths, Stop(a, path) PROVE RecordsCurrent'
  <2>1. PICK text :
          Accepted(a, text) /\ chains' = [chains EXCEPT ![a] = NextChain(a, path, text)]
    BY <1>3, StopStep
  <2>2. PICK r : r = [path |-> path, text |-> text] OBVIOUS
  <2>3. /\ chains'[a].record = r /\ chains'[a].grant = Nothing
        /\ \A c \in Auths \ {a} : chains'[c] = chains[c]
    BY <2>1, <2>2, RecordIs, NextChainIs DEF TypeOK
  <2>4. /\ text.auth = a /\ text.root = Root(a) /\ Digests(text) = Registered[a]
    BY <2>1, AcceptedScopes DEF ChainsLocked
  <2>5. Valid(text) BY <2>1 DEF Accepted, AcceptedFirst, AcceptedNext, Succeeds
  <2>6. r.text = text /\ r.path = path BY <2>2
  <2> QED BY <2>2, <2>3, <2>4, <2>5, <2>6 DEF RecordsCurrent
<1>4. CASE UNCHANGED chains BY <1>4 DEF RecordsCurrent
<1> QED BY <1>1, <1>2, <1>3, <1>4 DEF Next, RenderLook, RenderWrite, vars

LEMMA CurrentAlways == Spec => [](TypeOK /\ ChainsLocked /\ RecordsCurrent)
<1> DEFINE I == TypeOK /\ ChainsLocked /\ RecordsCurrent
<1>1. Init => ChainsLocked /\ RecordsCurrent
  BY NoChainIs DEF Init, ChainsLocked, RecordsCurrent
<1>2. TypeOK /\ ChainsLocked /\ [Next]_vars => ChainsLocked'
  <2>1. ASSUME TypeOK, ChainsLocked, NEW a \in Auths, NEW path \in Paths, Stop(a, path)
        PROVE  ChainsLocked'
    <3>1. PICK text :
            Accepted(a, text) /\ chains' = [chains EXCEPT ![a] = NextChain(a, path, text)]
      BY <2>1, StopStep
    <3>2. text.root = Root(a) /\ Digests(text) = Registered[a]
      BY <2>1, <3>1, AcceptedScopes DEF ChainsLocked
    <3> QED BY <2>1, <3>1, <3>2, NextChainIs DEF ChainsLocked, TypeOK
  <2> QED
    BY <2>1, RegisterStep, ApproveStep, OpenedIs
    DEF Next, RenderLook, RenderWrite, vars, ChainsLocked, TypeOK
<1>3. I /\ [Next]_vars => I' BY <1>2, TypesKept, CurrentKept
<1> QED BY <1>1, <1>3, InitTypes, PTL DEF Spec

\* A list of scopes whose digests are those of its definitions.
LEMMA LinkedDigests ==
    ASSUME NEW root, NEW text, Linked(root, text.scopes)
    PROVE  Digests(text) = Definitions(text)
BY DEF Linked, Digests, Definitions

\* What Stop asks of the next record of a chain, of what is current.
LEMMA NextIsAccepted ==
    ASSUME RecordsCurrent, NEW a \in Auths, NEW text, Active(a), Holds(a),
           text.pred = chains[a].record, text.auth = a,
           text.root = chains[a].root, Digests(text) = chains[a].scopes,
           chains[a].root = Root(a), chains[a].scopes = Registered[a],
           text.transition = chains[a].grant, Valid(text),
           text.id # chains[a].record.text.id
    PROVE  Accepted(a, text)
<1> PICK r : r = chains[a].record OBVIOUS
<1> PICK before : before = r.text OBVIOUS
<1> PICK b : b = before.auth OBVIOUS
<1>1. /\ r # Nothing /\ files[r.path] = before /\ chains[a].status = "active"
      /\ text.pred = r /\ text.pred.text = before
  BY DEF Holds, Active
<1>2. /\ r = [path |-> r.path, text |-> before] /\ Valid(before) /\ b \in Auths
      /\ before.root = Root(b) /\ Digests(before) = Registered[b]
      /\ chains[a].grant = IF b = a THEN Nothing ELSE Transition(b, a)
  BY <1>1 DEF RecordsCurrent
<1>3. CASE b = a
  <2>1. chains[a].grant = Nothing /\ ~Trusts(a, text, before) BY <1>2, <1>3 DEF Trusts
  <2>2. Succeeds(text, before, r.path, Nothing)
    BY <1>1, <1>2, <1>3, <2>1 DEF Succeeds, Retained
  <2> QED BY <1>1, <1>2, <1>3, <2>1, <2>2 DEF Accepted, AcceptedNext
<1>4. CASE b # a
  <2> PICK t : t = Transition(b, a) OBVIOUS
  <2>1. /\ t.from = b /\ t.to = a /\ t.old = Root(b) /\ t.new = Root(a) /\ t.hmac = a
    BY DEF Transition
  <2>2. t # Nothing /\ chains[a].grant = t BY <1>2, <1>4, TransitionIsSome
  <2>3. Trusts(a, text, before) BY <2>1, <2>2 DEF Trusts
  <2>4. Succeeds(text, before, r.path, a)
    BY <1>1, <1>2, <1>4, <2>1, <2>2 DEF Succeeds, Consequent
  <2> QED BY <1>1, <1>2, <2>1, <2>2, <2>3, <2>4 DEF Accepted, AcceptedNext
<1> QED BY <1>3, <1>4

\* None of Stop's checks trips over another: what carries the authorized scopes, the
\* open approval and a new identifier is the next record of active work.
THEOREM ChainsContinue == Spec => []ChainsCanContinue
<1> DEFINE I == TypeOK /\ ChainsLocked /\ RecordsCurrent
<1>1. I => ChainsCanContinue
  <2> SUFFICES ASSUME I, NEW a \in Auths, Active(a), chains[a].record = Nothing \/ Holds(a),
                      NEW page \in Pages, page.auth = a, page.root = Root(a),
                      Definitions(page) = Registered[a], page.transition = chains[a].grant,
                      page.evidence.of = a,
                      chains[a].record # Nothing => page.id # chains[a].record.text.id
               PROVE  Accepted(a, Following(page, chains[a].record))
    BY DEF ChainsCanContinue
  <2> PICK r : r = chains[a].record OBVIOUS
  <2> PICK text : text = Following(page, r) OBVIOUS
  <2>1. /\ WellScoped(page.type, page.scopes) /\ Linked(page.root, page.scopes)
        /\ [evidence |-> page.evidence, transition |-> page.transition] \in Lineages
        /\ text = [type |-> page.type, root |-> page.root, scopes |-> page.scopes,
                   id |-> page.id, auth |-> page.auth, pred |-> r,
                   evidence |-> page.evidence, transition |-> page.transition]
    BY PageIs
  <2>2. /\ text.type = page.type /\ text.root = page.root /\ text.scopes = page.scopes
        /\ text.id = page.id /\ text.auth = page.auth /\ text.pred = r
        /\ text.evidence = page.evidence /\ text.transition = page.transition
    BY <2>1
  <2>3. Digests(text) = Registered[a]
    <3>1. Digests(page) = Registered[a] BY <2>1, LinkedDigests
    <3> QED BY <2>2, <3>1 DEF Digests
  <2>4. chains[a].status = "active" /\ chains[a].root = Root(a) /\ chains[a].scopes = Registered[a]
    BY DEF Active, ChainsLocked
  <2>5. chains[a].record = Nothing => chains[a].grant = Nothing BY DEF RecordsCurrent
  <2>6. Valid(text) BY <2>1, <2>2, <2>5 DEF Valid, WellEvidenced
  <2>7. CASE r = Nothing
    <3>1. page.transition = Nothing BY <2>5, <2>7
    <3>2. page.evidence.kind = "initial" /\ page.evidence \in Evidence
      BY <2>1, <3>1 DEF Lineages
    <3>3. page.evidence = [kind |-> "initial", of |-> a] BY <3>2 DEF Evidence
    <3> QED
      BY <2>2, <2>3, <2>4, <2>6, <2>7, <3>3 DEF Accepted, AcceptedFirst
  <2>8. CASE r # Nothing
    BY <2>2, <2>3, <2>4, <2>6, <2>8, NextIsAccepted
  <2> QED BY <2>7, <2>8
<1> QED BY <1>1, CurrentAlways, PTL

\* What an author hands to a scaffold, written out or with the inherited left out,
\* has the identifiers of the scopes of the record before, and its own.
LEMMA DraftIs ==
    ASSUME NEW before, NEW draft \in Drafts(before), NEW ref, ref.text = before
    PROVE  /\ draft.id # before.id
           /\ DOMAIN draft.scopes = DOMAIN before.scopes
           /\ \A i \in DOMAIN before.scopes : draft.scopes[i].id = before.scopes[i].id
           /\ Scaffold(draft, ref).auth = before.auth
           /\ Scaffold(draft, ref).root = before.root
           /\ Scaffold(draft, ref).pred = ref
           /\ Scaffold(draft, ref).id = draft.id
           /\ Scaffold(draft, ref).transition = before.transition
           /\ DOMAIN Scaffold(draft, ref).scopes = DOMAIN draft.scopes
           /\ \A i \in DOMAIN draft.scopes : Scaffold(draft, ref).scopes[i].digest
                  = before.scopes[Inherited(draft.scopes[i], before)].digest
<1> DEFINE Names(d) == [i \in DOMAIN d.scopes |-> d.scopes[i].id]
           Fields == {"type", "root", "scopes", "id", "auth", "pred", "evidence", "transition"}
           Parts == {"id", "parent", "def", "digest", "work", "code", "status", "highest"}
           Left(page) == [page EXCEPT
              !.auth = Omitted, !.root = Omitted, !.evidence = Omitted, !.transition = Omitted,
              !.scopes = [i \in DOMAIN @ |->
                            [@[i] EXCEPT !.def = Omitted, !.digest = Omitted]]]
<1>1. PICK page \in Pages :
        /\ page.id # before.id /\ Names(page) = Names(before)
        /\ draft = page \/ draft = Left(page)
  BY DEF Drafts
<1>2. DOMAIN page = Fields /\ \A i \in DOMAIN page.scopes : DOMAIN page.scopes[i] = Parts
  <2>1. DOMAIN page = Fields BY DEF Pages
  <2>2. PICK shape \in Shapes : \E p, h :
          page.scopes = [i \in DOMAIN shape |-> Scope(shape[i], p[i], i = h)]
    BY PageIs
  <2>3. PICK p, h : page.scopes = [i \in DOMAIN shape |-> Scope(shape[i], p[i], i = h)]
    BY <2>2
  <2>4. \A d, q, v : DOMAIN Scope(d, q, v) = Parts BY DEF Scope
  <2> QED BY <2>1, <2>3, <2>4
<1>3. /\ DOMAIN draft = Fields /\ draft.id = page.id
      /\ DOMAIN draft.scopes = DOMAIN page.scopes
      /\ \A i \in DOMAIN page.scopes :
           draft.scopes[i].id = page.scopes[i].id /\ DOMAIN draft.scopes[i] = Parts
  <2>1. CASE draft = page BY <1>2, <2>1
  <2>2. CASE draft = Left(page)
    <3> PICK scopes : scopes = [i \in DOMAIN page.scopes |->
                        [page.scopes[i] EXCEPT !.def = Omitted, !.digest = Omitted]]
      OBVIOUS
    <3>1. DOMAIN draft = Fields /\ draft.id = page.id /\ draft.scopes = scopes
      BY <1>2, <2>2
    <3>2. DOMAIN scopes = DOMAIN page.scopes OBVIOUS
    <3>3. \A i \in DOMAIN page.scopes :
            scopes[i].id = page.scopes[i].id /\ DOMAIN scopes[i] = Parts
      BY <1>2
    <3> QED BY <3>1, <3>2, <3>3
  <2> QED BY <1>1, <2>1, <2>2
<1>4. /\ DOMAIN page.scopes = DOMAIN before.scopes
      /\ \A i \in DOMAIN before.scopes : page.scopes[i].id = before.scopes[i].id
  <2>1. DOMAIN Names(page) = DOMAIN Names(before) BY <1>1
  <2>2. \A i \in DOMAIN Names(before) : Names(page)[i] = Names(before)[i] BY <1>1
  <2> QED BY <2>1, <2>2
<1> HIDE DEF Left, Names
<1> PICK t : t = before OBVIOUS
<1> PICK scopes : scopes = [i \in DOMAIN draft.scopes |->
                    LET source == t.scopes[Inherited(draft.scopes[i], t)] IN
                    [draft.scopes[i] EXCEPT !.def = source.def, !.digest = source.digest]]
  OBVIOUS
<1> PICK s : s = Scaffold(draft, ref) OBVIOUS
<1>5. s = [draft EXCEPT !.auth = t.auth, !.root = t.root, !.pred = ref,
                        !.evidence = t.evidence, !.transition = t.transition,
                        !.scopes = scopes]
  BY DEF Scaffold
<1>6. /\ s.auth = t.auth /\ s.root = t.root /\ s.pred = ref /\ s.id = draft.id
      /\ s.transition = t.transition /\ s.scopes = scopes
  BY <1>3, <1>5
<1>7. /\ DOMAIN scopes = DOMAIN draft.scopes
      /\ \A i \in DOMAIN draft.scopes :
           scopes[i].digest = t.scopes[Inherited(draft.scopes[i], t)].digest
  BY <1>3
<1>8. DOMAIN draft.scopes = DOMAIN before.scopes BY <1>3, <1>4
<1>9. \A i \in DOMAIN before.scopes : draft.scopes[i].id = before.scopes[i].id BY <1>3, <1>4
<1>10. draft.id # before.id BY <1>1, <1>3
<1> HIDE DEF Fields, Parts
<1>11. /\ DOMAIN Scaffold(draft, ref).scopes = DOMAIN draft.scopes
       /\ \A i \in DOMAIN draft.scopes : Scaffold(draft, ref).scopes[i].digest
                  = before.scopes[Inherited(draft.scopes[i], before)].digest
  BY <1>6, <1>7
<1>12. /\ Scaffold(draft, ref).auth = before.auth /\ Scaffold(draft, ref).root = before.root
       /\ Scaffold(draft, ref).pred = ref /\ Scaffold(draft, ref).id = draft.id
       /\ Scaffold(draft, ref).transition = before.transition
  BY <1>6
<1> QED BY <1>8, <1>9, <1>10, <1>11, <1>12

\* Where the identifiers are in order and distinct, a scope inherits from its own.
LEMMA InheritsOwn ==
    ASSUME NEW before, Tree(before.scopes), NEW i \in DOMAIN before.scopes,
           NEW d, d.id = before.scopes[i].id
    PROVE  Inherited(d, before) = i
<1>1. \A j \in DOMAIN before.scopes : before.scopes[j].id = d.id => j = i BY DEF Tree
<1> QED BY <1>1 DEF Inherited

\* What render --successor-of makes of the current record, with a new identifier, Stop
\* accepts, unless the record publishes a transition.
THEOREM ScaffoldsAreAccepted == Spec => []OrdinaryScaffoldsContinue
<1> DEFINE I == TypeOK /\ ChainsLocked /\ RecordsCurrent
<1>1. I => OrdinaryScaffoldsContinue
  <2> SUFFICES ASSUME I, NEW a \in Auths, Active(a), Holds(a), chains[a].grant = Nothing,
                      chains[a].record.text.transition = Nothing,
                      NEW draft \in Drafts(chains[a].record.text),
                      Scaffolds(draft, chains[a].record)
               PROVE  Accepted(a, Scaffold(draft, chains[a].record))
    BY DEF OrdinaryScaffoldsContinue, ScaffoldAccepted
  <2> PICK r : r = chains[a].record OBVIOUS
  <2> PICK before : before = r.text OBVIOUS
  <2> PICK text : text = Scaffold(draft, r) OBVIOUS
  <2>1. r # Nothing BY DEF Holds
  <2>2. /\ Valid(before) /\ before.auth = a
        /\ before.root = Root(a) /\ Digests(before) = Registered[a]
    BY <2>1, OwnRecord
  <2>3. Valid(text) BY DEF Scaffolds
  <2>4. /\ draft.id # before.id
        /\ DOMAIN draft.scopes = DOMAIN before.scopes
        /\ \A i \in DOMAIN before.scopes : draft.scopes[i].id = before.scopes[i].id
        /\ text.auth = before.auth /\ text.root = before.root /\ text.pred = r
        /\ text.id = draft.id /\ text.transition = before.transition
        /\ DOMAIN text.scopes = DOMAIN draft.scopes
        /\ \A i \in DOMAIN draft.scopes :
             text.scopes[i].digest = before.scopes[Inherited(draft.scopes[i], before)].digest
    <3>1. draft \in Drafts(before) OBVIOUS
    <3> QED BY <3>1, DraftIs
  <2>5. Tree(before.scopes) BY <2>2 DEF Valid, WellScoped
  <2>6. \A i \in DOMAIN before.scopes : text.scopes[i].digest = before.scopes[i].digest
    BY <2>4, <2>5, InheritsOwn
  <2>7. Digests(text) = Registered[a] BY <2>2, <2>4, <2>6 DEF Digests
  <2>8. chains[a].root = Root(a) /\ chains[a].scopes = Registered[a]
    BY DEF Active, ChainsLocked
  <2> QED BY <2>2, <2>3, <2>4, <2>7, <2>8, NextIsAccepted
<1> QED BY <1>1, CurrentAlways, PTL
=============================================================================
