-------------------------- MODULE InstallerProofs --------------------------
(***************************************************************************)
(* What an installation owes the files of the user and its own state file, *)
(* for every release, every set of targets and any number of runs and      *)
(* edits.                                                                  *)
(*                                                                         *)
(* The invariant says what a plan is (one change per target, from what the *)
(* plan found to what the release says, the state file last, no conflict), *)
(* and, while the user edits nothing, that the files are those the plan    *)
(* found with its first changes made: as many as are to be rolled back.    *)
(***************************************************************************)
EXTENDS Installer, Induction, FiniteSetTheorems, SequenceTheorems, TLAPS

Files == Targets \cup {StateFile}

\* A change from and to what a file of its kind may hold: never the user's text.
CleanChanges ==
    [target : Targets, before : Copies \cup {Absent}, after : Copies \cup {Absent}]
    \cup [target : {StateFile}, before : States \cup {Absent}, after : States]

RunRecords ==
    [pc : {"idle", "check", "verify", "write", "back", "restore"},
     said : {"none", "ok", "failed", "killed"}, op : {"install", "sync"},
     release : Releases \cup {Absent}, plan : Seq(CleanChanges), next : Nat \ {0},
     applied : Seq(CleanChanges), failures : BOOLEAN,
     start : [Files -> Texts \cup States], raced : BOOLEAN, touched : BOOLEAN]

TypeOK ==
    /\ file \in [Files -> Texts \cup States]
    /\ \A f \in Targets : file[f] \in Texts
    /\ file[StateFile] \in States \cup {Absent}
    /\ run \in RunRecords
    /\ runs \in Nat /\ edits \in Nat

\* The targets that were owned when the files were fs.
OwnedIn(fs) == IF fs[StateFile] = Absent THEN [f \in Targets |-> Absent]
               ELSE fs[StateFile].owned

\* What a plan of release r found is free of conflicts.
Free(fs, op, r) ==
    /\ \A f \in Shipped(r) :
         IF fs[f] = Absent THEN OwnedIn(fs)[f] = Absent
         ELSE fs[f] = Ships[r][f] \/ (OwnedIn(fs)[f] # Absent /\ fs[f] = OwnedIn(fs)[f])
    /\ \A f \in Retires[r] : fs[f] \in {Absent, OwnedIn(fs)[f]}
    /\ \A f \in Targets : OwnedIn(fs)[f] = Absent \/ f \in Shipped(r) \cup Retires[r]
    /\ op = "install" <=> fs[StateFile] = Absent

Planned(plan, f) == \E i \in DOMAIN plan : plan[i].target = f

\* A change of a plan made of the files fs for release r.
Fit(c, fs, r) ==
    /\ c.before = fs[c.target]
    /\ \/ c.target \in Shipped(r) /\ c.after = Ships[r][c.target]
       \/ c.target \in Retires[r] /\ c.after = Absent
       \/ c.target = StateFile /\ c.after = NextState(r)

\* The plan holds the changes that release r needs, each of them once.
Fits(plan, fs, r) ==
    /\ r \in Releases
    /\ \A i \in DOMAIN plan : Fit(plan[i], fs, r)
    /\ \A i, j \in DOMAIN plan : plan[i].target = plan[j].target => i = j
    /\ \A i \in DOMAIN plan : plan[i].target = StateFile => i = Len(plan)
    /\ \A f \in Shipped(r) : fs[f] = Ships[r][f] \/ Planned(plan, f)
    /\ \A f \in Retires[r] : OwnedIn(fs)[f] = Absent \/ Planned(plan, f)
    /\ fs[StateFile] = NextState(r) \/ Planned(plan, StateFile)

\* The first n changes of the plan are made, and nothing else.
Done(n) ==
    /\ n <= Len(run.plan)
    /\ \A i \in 1 .. n : file[run.plan[i].target] = run.plan[i].after
    /\ \A f \in Files :
         (\A i \in 1 .. n : run.plan[i].target # f) => file[f] = run.start[f]

\* The first n changes are to be rolled back.
Applied(n) ==
    Len(run.applied) = n /\ \A i \in 1 .. n : run.applied[i] = run.plan[i]

\* What is at hand still is what it was compared with.
Compared ==
    /\ run.pc = "write" => run.next <= Len(run.plan)
    /\ run.pc = "write" /\ ~run.raced =>
         file[run.plan[run.next].target] = run.plan[run.next].before
    /\ run.pc = "restore" => run.applied # <<>>
    /\ run.pc = "restore" /\ ~run.raced => file[Last.target] = Last.after

\* How far a run has come that nobody disturbed.
Undisturbed ==
    /\ run.pc = "check" => run.next = 1 /\ Applied(0) /\ Done(0)
    /\ run.pc \in {"verify", "write"} => Applied(run.next - 1) /\ Done(run.next - 1)
    /\ ~Windows /\ ~run.failures =>
         /\ run.pc \in {"back", "restore"} => \E n \in Nat : Applied(n) /\ Done(n)
         /\ run.pc = "idle" /\ run.said = "failed" => Done(0)
         /\ run.pc = "idle" /\ run.said = "killed" => \E n \in Nat : Done(n)

Inv ==
    /\ TypeOK
    /\ Compared
    /\ run.pc # "idle" => run.said = "none"
    /\ run.pc # "idle" \/ run.said # "none" =>
         /\ Fits(run.plan, run.start, run.release)
         /\ Free(run.start, run.op, run.release)
    /\ ~run.touched => Undisturbed

-----------------------------------------------------------------------------
(* Lemmas on the plan. *)

Ordered(fs) == \A i, j \in DOMAIN fs : i < j => Place(fs[i]) < Place(fs[j])

LEMMA PlaceOfPath == \A i \in DOMAIN Paths : Place(Paths[i]) = i
BY InstallerAssumption DEF Place

\* Any set of targets can be put in path order.
LEMMA TargetsCanBeOrdered ==
    ASSUME NEW S \in SUBSET Targets
    PROVE  IsFiniteSet(S) /\ \E fs \in [1 .. Cardinality(S) -> S] : Ordered(fs)
<1> DEFINE First(k) == {Paths[i] : i \in {j \in DOMAIN Paths : j <= k}}
           Orderable(T) == /\ IsFiniteSet(T)
                           /\ \E fs \in [1 .. Cardinality(T) -> T] : Ordered(fs)
           Good == {k \in Nat : \A T \in SUBSET First(k) : Orderable(T)}
<1>1. Len(Paths) \in Nat /\ DOMAIN Paths = 1 .. Len(Paths) BY InstallerAssumption
<1>2. 0 \in Good
  <2>1. First(0) = {} BY <1>1
  <2>2. Orderable({})
    <3>1. IsFiniteSet({}) /\ Cardinality({}) = 0 BY FS_EmptySet
    <3> DEFINE fs == [i \in 1 .. 0 |-> {}]
    <3>2. fs \in [1 .. 0 -> {}] /\ Ordered(fs) BY DEF Ordered
    <3> QED BY <3>1, <3>2
  <2> HIDE DEF Orderable, First
  <2> QED BY <2>1, <2>2
<1>3. ASSUME NEW k \in Nat, k \in Good PROVE k + 1 \in Good
  <2> SUFFICES ASSUME NEW T \in SUBSET First(k + 1) PROVE Orderable(T) BY <1>3
  <2>1. CASE T \subseteq First(k) BY <1>3, <2>1
  <2>2. CASE ~(T \subseteq First(k))
    <3> PICK x \in T : x \notin First(k) BY <2>2
    <3>1. k + 1 \in DOMAIN Paths /\ x = Paths[k + 1]
      <4> PICK i \in DOMAIN Paths : i <= k + 1 /\ x = Paths[i] OBVIOUS
      <4> QED BY <1>1
    <3> DEFINE U == T \ {x}
    <3>2. U \subseteq First(k)
      <4> SUFFICES ASSUME NEW y \in U PROVE y \in First(k) OBVIOUS
      <4> PICK i \in DOMAIN Paths : i <= k + 1 /\ y = Paths[i] OBVIOUS
      <4> QED BY <1>1, <3>1
    <3>3. Orderable(U) BY <1>3, <3>2
    <3> PICK n : n = Cardinality(U) OBVIOUS
    <3>4. n \in Nat BY <3>3, FS_CardinalityType
    <3>5. T = U \cup {x} /\ x \notin U OBVIOUS
    <3>6. IsFiniteSet(T) /\ Cardinality(T) = n + 1
      <4> HIDE DEF U
      <4> QED BY <3>3, <3>5, FS_AddElement
    <3> PICK gs \in [1 .. n -> U] : Ordered(gs) BY <3>3
    <3> DEFINE fs == [i \in 1 .. n + 1 |-> IF i <= n THEN gs[i] ELSE x]
    <3>7. \A i \in 1 .. n : gs[i] \in U /\ gs[i] \in T OBVIOUS
    <3>8. fs \in [1 .. n + 1 -> T]
      <4>1. \A i \in 1 .. n + 1 : i <= n => i \in 1 .. n BY <3>4
      <4>2. \A i \in 1 .. n + 1 : (IF i <= n THEN gs[i] ELSE x) \in T BY <3>7, <4>1
      <4> HIDE DEF U
      <4> QED BY <4>2
    <3>9. \A y \in U : Place(y) <= k
      <4> SUFFICES ASSUME NEW y \in U PROVE Place(y) <= k OBVIOUS
      <4> PICK i \in DOMAIN Paths : i <= k /\ y = Paths[i] BY <3>2
      <4> QED BY PlaceOfPath
    <3>10. Place(x) = k + 1 BY <3>1, PlaceOfPath
    <3>11. \A y \in U : Place(y) \in Nat
      <4> SUFFICES ASSUME NEW y \in U PROVE Place(y) \in Nat OBVIOUS
      <4> PICK i \in DOMAIN Paths : i <= k /\ y = Paths[i] BY <3>2
      <4> QED BY <1>1, PlaceOfPath
    <3>12. ASSUME NEW i \in DOMAIN fs, NEW j \in DOMAIN fs, i < j
           PROVE  Place(fs[i]) < Place(fs[j])
      <4>1. i \in 1 .. n /\ fs[i] = gs[i] BY <3>4, <3>12
      <4>2. CASE j \in 1 .. n
        <5>1. fs[j] = gs[j] BY <4>2, <3>4
        <5> QED BY <3>12, <4>1, <4>2, <5>1 DEF Ordered
      <4>3. CASE j = n + 1
        <5>1. fs[j] = x BY <4>3, <3>4
        <5>2. fs[i] \in U BY <4>1, <3>7
        <5> HIDE DEF fs, U
        <5> QED BY <5>1, <5>2, <3>9, <3>10, <3>11
      <4> QED BY <4>2, <4>3, <3>4
    <3>13. Ordered(fs) BY <3>12 DEF Ordered
    <3> HIDE DEF fs
    <3> QED BY <3>6, <3>8, <3>13
  <2> QED BY <2>1, <2>2
<1>4. S \subseteq First(Len(Paths)) BY <1>1, InstallerAssumption
<1> HIDE DEF Good
<1>5. \A k \in Nat : k \in Good BY <1>2, <1>3, SetInduction
<1> HIDE DEF First
<1>6. \A T \in SUBSET First(Len(Paths)) : Orderable(T) BY <1>1, <1>5 DEF Good
<1> QED BY <1>4, <1>6

\* InOrder lists each of its targets once.
LEMMA InOrderLists ==
    ASSUME NEW S \in SUBSET Targets
    PROVE  /\ InOrder(S) \in Seq(S)
           /\ \A i, j \in DOMAIN InOrder(S) : InOrder(S)[i] = InOrder(S)[j] => i = j
           /\ \A f \in S : \E i \in DOMAIN InOrder(S) : InOrder(S)[i] = f
<1> PICK n : n = Cardinality(S) OBVIOUS
<1>1. IsFiniteSet(S) /\ n \in Nat BY TargetsCanBeOrdered, FS_CardinalityType
<1> PICK fs : fs = InOrder(S) OBVIOUS
<1>2. fs \in [1 .. n -> S] /\ Ordered(fs)
  <2>1. InOrder(S) = CHOOSE gs \in [1 .. n -> S] : Ordered(gs) BY DEF InOrder, Ordered
  <2>2. \E gs \in [1 .. n -> S] : Ordered(gs) BY TargetsCanBeOrdered
  <2> QED BY <2>1, <2>2
<1>3. \A f \in S : Place(f) \in Nat
  <2> SUFFICES ASSUME NEW f \in S PROVE Place(f) \in Nat OBVIOUS
  <2> PICK i \in DOMAIN Paths : Paths[i] = f BY InstallerAssumption
  <2> QED BY PlaceOfPath, InstallerAssumption
<1>4. \A i, j \in 1 .. n : fs[i] = fs[j] => i = j
  <2> SUFFICES ASSUME NEW i \in 1 .. n, NEW j \in 1 .. n, fs[i] = fs[j] PROVE i = j OBVIOUS
  <2>1. Place(fs[i]) \in Nat /\ Place(fs[i]) = Place(fs[j]) BY <1>2, <1>3
  <2>2. ~(i < j) /\ ~(j < i) BY <1>2, <2>1 DEF Ordered
  <2> QED BY <1>1, <2>2
<1>5. fs \in Injection(1 .. n, S) BY <1>2, <1>4 DEF Injection, IsInjective
<1>6. Cardinality(1 .. n) = n BY <1>1, FS_Interval
<1>7. fs \in Surjection(1 .. n, S) BY <1>1, <1>5, <1>6, FS_Injection
<1>8. \A f \in S : \E i \in 1 .. n : fs[i] = f BY <1>7 DEF Surjection
<1>9. fs \in Seq(S) BY <1>1, <1>2
<1> QED BY <1>2, <1>4, <1>8, <1>9

Unique(plan) == \A i, j \in DOMAIN plan : plan[i].target = plan[j].target => i = j

\* One change per target of a set, in order.
LEMMA ListedChanges ==
    ASSUME NEW S \in SUBSET Targets, NEW plan,
           plan = [i \in DOMAIN InOrder(S) |-> plan[i]],
           \A i \in DOMAIN InOrder(S) :
               plan[i] \in CleanChanges /\ plan[i].target = InOrder(S)[i]
    PROVE  plan \in Seq(CleanChanges) /\ Unique(plan) /\ \A f : Planned(plan, f) <=> f \in S
<1>1. InOrder(S) \in Seq(S) BY InOrderLists
<1> PICK n \in Nat : DOMAIN InOrder(S) = 1 .. n BY <1>1
<1>2. DOMAIN plan = 1 .. n OBVIOUS
<1>3. plan \in [1 .. n -> CleanChanges] OBVIOUS
<1>4. plan \in Seq(CleanChanges) BY <1>3
<1>5. Unique(plan) BY <1>2, InOrderLists DEF Unique
<1>6. \A f : Planned(plan, f) <=> f \in S BY <1>1, <1>2, InOrderLists DEF Planned
<1> QED BY <1>4, <1>5, <1>6

\* Two lists of changes of different targets.
LEMMA JoinedChanges ==
    ASSUME NEW s \in Seq(CleanChanges), NEW t \in Seq(CleanChanges), Unique(s), Unique(t),
           \A f : ~(Planned(s, f) /\ Planned(t, f))
    PROVE  /\ s \o t \in Seq(CleanChanges) /\ Unique(s \o t)
           /\ \A f : Planned(s \o t, f) <=> Planned(s, f) \/ Planned(t, f)
           /\ \A i \in DOMAIN (s \o t) :
                \/ i \in DOMAIN s /\ (s \o t)[i] = s[i]
                \/ i - Len(s) \in DOMAIN t /\ (s \o t)[i] = t[i - Len(s)]
<1> PICK u : u = s \o t OBVIOUS
<1>1. /\ u \in Seq(CleanChanges) /\ Len(u) = Len(s) + Len(t) /\ DOMAIN u = 1 .. Len(u)
      /\ \A i \in 1 .. Len(s) : i \in DOMAIN u /\ u[i] = s[i]
      /\ \A i \in 1 .. Len(t) : i + Len(s) \in DOMAIN u /\ u[i + Len(s)] = t[i]
    OBVIOUS
<1>2. /\ DOMAIN s = 1 .. Len(s) /\ DOMAIN t = 1 .. Len(t)
      /\ Len(s) \in Nat /\ Len(t) \in Nat
    OBVIOUS
<1>3. \A i \in DOMAIN u :
         \/ i \in DOMAIN s /\ u[i] = s[i]
         \/ i - Len(s) \in DOMAIN t /\ u[i] = t[i - Len(s)]
  <2> SUFFICES ASSUME NEW i \in DOMAIN u, i \notin DOMAIN s
               PROVE  i - Len(s) \in DOMAIN t /\ u[i] = t[i - Len(s)]
      BY <1>1, <1>2
  <2>1. i - Len(s) \in 1 .. Len(t) BY <1>1, <1>2
  <2>2. i = (i - Len(s)) + Len(s) BY <1>1, <1>2
  <2> QED BY <1>1, <1>2, <2>1, <2>2
<1>4. \A f : Planned(u, f) <=> Planned(s, f) \/ Planned(t, f)
  <2> TAKE f
  <2>1. Planned(u, f) => Planned(s, f) \/ Planned(t, f) BY <1>3 DEF Planned
  <2>2. Planned(s, f) => Planned(u, f) BY <1>1, <1>2 DEF Planned
  <2>3. Planned(t, f) => Planned(u, f) BY <1>1, <1>2 DEF Planned
  <2> QED BY <2>1, <2>2, <2>3
<1>5. Unique(u)
  <2> SUFFICES ASSUME NEW i \in DOMAIN u, NEW j \in DOMAIN u, u[i].target = u[j].target
               PROVE  i = j
      BY DEF Unique
  <2>1. CASE i \in DOMAIN s /\ j \in DOMAIN s BY <1>1, <1>2, <2>1 DEF Unique
  <2>2. CASE i \notin DOMAIN s /\ j \notin DOMAIN s
    <3>1. i - Len(s) = j - Len(s) BY <1>3, <2>2 DEF Unique
    <3> QED BY <1>1, <1>2, <3>1
  <2>3. CASE i \in DOMAIN s /\ j \notin DOMAIN s
    <3>1. u[i] = s[i] /\ u[j] = t[j - Len(s)] /\ j - Len(s) \in DOMAIN t
        BY <1>1, <1>2, <1>3, <2>3
    <3>2. Planned(s, u[i].target) /\ Planned(t, u[i].target) BY <2>3, <3>1 DEF Planned
    <3> QED BY <3>2
  <2>4. CASE i \notin DOMAIN s /\ j \in DOMAIN s
    <3>1. u[j] = s[j] /\ u[i] = t[i - Len(s)] /\ i - Len(s) \in DOMAIN t
        BY <1>1, <1>2, <1>3, <2>4
    <3>2. Planned(s, u[j].target) /\ Planned(t, u[j].target) BY <2>4, <3>1 DEF Planned
    <3> QED BY <3>2
  <2> QED BY <2>1, <2>2, <2>3, <2>4
<1> QED BY <1>1, <1>3, <1>4, <1>5

\* A plan without conflicts holds the changes its release needs.
LEMMA PlansFit ==
    ASSUME TypeOK, NEW r \in Releases, NEW op \in {"install", "sync"}, Conflicts(op, r) = {}
    PROVE  /\ Changes(r) \in Seq(CleanChanges)
           /\ Fits(Changes(r), file, r) /\ Free(file, op, r)
<1>1. /\ Shipped(r) \in SUBSET Targets /\ Retires[r] \in SUBSET Targets
      /\ Retires[r] \cap Shipped(r) = {}
      /\ \A f \in Shipped(r) : Ships[r][f] \in Copies
    BY InstallerAssumption DEF Shipped
<1>2. Owned = OwnedIn(file) /\ Owned \in [Targets -> Copies \cup {Absent}]
  <2>1. CASE file[StateFile] = Absent BY <2>1 DEF Owned, OwnedIn
  <2>2. CASE file[StateFile] # Absent BY <2>2 DEF Owned, OwnedIn, TypeOK, States
  <2> QED BY <2>1, <2>2
<1>3. NextState(r) \in States /\ NextState(r) # Absent
    BY <1>1, InstallerAssumption DEF NextState, States
<1>4. Free(file, op, r)
  <2>1. \A f \in Shipped(r) : ~CopyConflict(f, r) BY DEF Conflicts
  <2>2. \A f \in Retires[r] : ~RetiredConflict(f) BY DEF Conflicts
  <2>3. \A f \in Targets : ~Omitted(f, r) BY DEF Conflicts
  <2>4. (op = "install") = (file[StateFile] = Absent)
    <3>1. StateFile \notin Conflicts(op, r) OBVIOUS
    <3> QED BY <3>1 DEF Conflicts
  <2> QED BY <1>2, <2>1, <2>2, <2>3, <2>4
       DEF Free, CopyConflict, RetiredConflict, Omitted
<1> DEFINE Removed == {f \in Retires[r] : Owned[f] # Absent}
           Updated == {f \in Shipped(r) : file[f] # Ships[r][f]}
<1> PICK re, up, st : re = Removals(r) /\ up = Updates(r) /\ st = StateChange(r) OBVIOUS
<1>5. \A f, after : /\ Change(f, after).target = f /\ Change(f, after).before = file[f]
                    /\ Change(f, after).after = after
    BY DEF Change
<1>6. \A f \in Removed : Change(f, Absent) \in CleanChanges
  <2> SUFFICES ASSUME NEW f \in Removed PROVE Change(f, Absent) \in CleanChanges OBVIOUS
  <2>1. file[f] \in Copies \cup {Absent} BY <1>1, <1>2, <1>4 DEF Free
  <2> QED BY <1>1, <2>1 DEF Change, CleanChanges
<1>7. \A f \in Updated : Change(f, Ships[r][f]) \in CleanChanges
  <2> SUFFICES ASSUME NEW f \in Updated PROVE Change(f, Ships[r][f]) \in CleanChanges OBVIOUS
  <2>1. file[f] \in Copies \cup {Absent} BY <1>1, <1>2, <1>4 DEF Free
  <2> QED BY <1>1, <2>1 DEF Change, CleanChanges
<1>8. /\ re \in Seq(CleanChanges) /\ Unique(re) /\ \A f : Planned(re, f) <=> f \in Removed
      /\ \A i \in DOMAIN re : re[i].target \in Removed /\ re[i].before = file[re[i].target]
                              /\ re[i].after = Absent
  <2> PICK fs : fs = InOrder(Removed) OBVIOUS
  <2>1. re = [i \in DOMAIN fs |-> Change(fs[i], Absent)] BY DEF Removals
  <2>2. Removed \in SUBSET Targets BY <1>1
  <2> HIDE DEF Removed
  <2>3. \A i \in DOMAIN fs : fs[i] \in Removed BY <2>2, InOrderLists
  <2>4. \A i \in DOMAIN fs : re[i] = Change(fs[i], Absent) BY <2>1
  <2>5. \A i \in DOMAIN fs : re[i] \in CleanChanges /\ re[i].target = fs[i]
                             /\ re[i].before = file[fs[i]] /\ re[i].after = Absent
      BY <1>5, <1>6, <2>3, <2>4
  <2>6. re = [i \in DOMAIN fs |-> re[i]] BY <2>1
  <2> QED BY <2>1, <2>2, <2>3, <2>5, <2>6, ListedChanges
<1>9. /\ up \in Seq(CleanChanges) /\ Unique(up) /\ \A f : Planned(up, f) <=> f \in Updated
      /\ \A i \in DOMAIN up : up[i].target \in Updated /\ up[i].before = file[up[i].target]
                              /\ up[i].after = Ships[r][up[i].target]
  <2> PICK fs : fs = InOrder(Updated) OBVIOUS
  <2>1. up = [i \in DOMAIN fs |-> Change(fs[i], Ships[r][fs[i]])] BY DEF Updates
  <2>2. Updated \in SUBSET Targets BY <1>1
  <2> HIDE DEF Updated
  <2>3. \A i \in DOMAIN fs : fs[i] \in Updated BY <2>2, InOrderLists
  <2>4. \A i \in DOMAIN fs : up[i] = Change(fs[i], Ships[r][fs[i]]) BY <2>1
  <2>5. \A i \in DOMAIN fs : up[i] \in CleanChanges /\ up[i].target = fs[i]
                             /\ up[i].before = file[fs[i]] /\ up[i].after = Ships[r][fs[i]]
      BY <1>5, <1>7, <2>3, <2>4
  <2>6. up = [i \in DOMAIN fs |-> up[i]] BY <2>1
  <2> QED BY <2>1, <2>2, <2>3, <2>5, <2>6, ListedChanges
<1>10. /\ st \in Seq(CleanChanges) /\ Unique(st) /\ Len(st) \in {0, 1}
       /\ \A i \in DOMAIN st : /\ st[i].target = StateFile /\ st[i].before = file[StateFile]
                               /\ st[i].after = NextState(r) /\ i = Len(st)
       /\ Planned(st, StateFile) <=> file[StateFile] # NextState(r)
  <2> PICK c : c = Change(StateFile, NextState(r)) OBVIOUS
  <2>1. /\ c \in CleanChanges /\ c.target = StateFile /\ c.before = file[StateFile]
        /\ c.after = NextState(r)
      BY <1>3, <1>5 DEF Change, CleanChanges, TypeOK
  <2>2. st = IF file[StateFile] = NextState(r) THEN <<>> ELSE <<c>> BY DEF StateChange
  <2>3. CASE file[StateFile] = NextState(r) BY <2>2, <2>3 DEF Unique, Planned
  <2>4. CASE file[StateFile] # NextState(r) BY <2>1, <2>2, <2>4 DEF Unique, Planned
  <2> QED BY <2>3, <2>4
<1> PICK ru : ru = re \o up OBVIOUS
<1> PICK plan : plan = ru \o st OBVIOUS
<1>11. Changes(r) = plan BY DEF Changes
<1>12. \A f : ~(Planned(re, f) /\ Planned(up, f)) BY <1>1, <1>8, <1>9
<1>13. /\ ru \in Seq(CleanChanges) /\ Unique(ru)
       /\ \A f : Planned(ru, f) <=> f \in Removed \/ f \in Updated
       /\ \A i \in DOMAIN ru : \/ i \in DOMAIN re /\ ru[i] = re[i]
                               \/ i - Len(re) \in DOMAIN up /\ ru[i] = up[i - Len(re)]
    BY <1>8, <1>9, <1>12, JoinedChanges
<1>14. \A i \in DOMAIN ru : Fit(ru[i], file, r) /\ ru[i].target \in Targets
  <2> TAKE i \in DOMAIN ru
  <2>1. CASE i \in DOMAIN re /\ ru[i] = re[i]
      BY <1>1, <1>8, <2>1 DEF Fit
  <2>2. CASE i - Len(re) \in DOMAIN up /\ ru[i] = up[i - Len(re)]
      BY <1>1, <1>9, <2>2 DEF Fit
  <2> QED BY <1>13, <2>1, <2>2
<1>15. \A f : ~(Planned(ru, f) /\ Planned(st, f))
  <2>1. \A f : Planned(st, f) => f = StateFile BY <1>10 DEF Planned
  <2>2. ~Planned(ru, StateFile) BY <1>14, InstallerAssumption DEF Planned
  <2> QED BY <2>1, <2>2
<1>16. /\ plan \in Seq(CleanChanges) /\ Unique(plan)
       /\ \A f : Planned(plan, f) <=> Planned(ru, f) \/ Planned(st, f)
       /\ \A i \in DOMAIN plan : \/ i \in DOMAIN ru /\ plan[i] = ru[i]
                                 \/ i - Len(ru) \in DOMAIN st /\ plan[i] = st[i - Len(ru)]
  <2>1. ru \in Seq(CleanChanges) /\ st \in Seq(CleanChanges) /\ Unique(ru) /\ Unique(st)
      BY <1>10, <1>13
  <2>2. /\ ru \o st \in Seq(CleanChanges) /\ Unique(ru \o st)
        /\ \A f : Planned(ru \o st, f) <=> Planned(ru, f) \/ Planned(st, f)
        /\ \A i \in DOMAIN (ru \o st) :
             \/ i \in DOMAIN ru /\ (ru \o st)[i] = ru[i]
             \/ i - Len(ru) \in DOMAIN st /\ (ru \o st)[i] = st[i - Len(ru)]
    BY ONLY <2>1, <1>15, JoinedChanges
  <2> QED BY <2>2
<1>17. ASSUME NEW i \in DOMAIN plan
       PROVE  Fit(plan[i], file, r) /\ (plan[i].target = StateFile => i = Len(plan))
  <2>1. CASE i \in DOMAIN ru /\ plan[i] = ru[i]
      BY <1>14, <2>1, InstallerAssumption
  <2>2. CASE i - Len(ru) \in DOMAIN st /\ plan[i] = st[i - Len(ru)]
    <3>1. Fit(plan[i], file, r) BY <1>10, <2>2 DEF Fit
    <3>2. i - Len(ru) = Len(st) BY <1>10, <2>2
    <3>3. Len(plan) = Len(ru) + Len(st) /\ i \in Nat /\ Len(ru) \in Nat
        BY <1>10, <1>13, <1>16
    <3> QED BY <1>10, <3>1, <3>2, <3>3
  <2> QED BY <1>16, <2>1, <2>2
<1>18. /\ \A f \in Shipped(r) : file[f] = Ships[r][f] \/ Planned(plan, f)
       /\ \A f \in Retires[r] : OwnedIn(file)[f] = Absent \/ Planned(plan, f)
       /\ file[StateFile] = NextState(r) \/ Planned(plan, StateFile)
    BY <1>2, <1>10, <1>13, <1>16
<1>19. Fits(plan, file, r) BY <1>16, <1>17, <1>18 DEF Fits, Unique
<1> QED BY <1>4, <1>11, <1>16, <1>19

-----------------------------------------------------------------------------
(* The invariant holds at first, and through every step. *)

LEMMA InitInv == Init => Inv
<1> SUFFICES ASSUME Init PROVE Inv OBVIOUS
<1>1. file \in [Files -> Texts \cup States] /\ \A f \in Files : file[f] = Absent
    BY DEF Init, Files, Texts
<1>2. /\ NoRun \in RunRecords /\ NoRun.pc = "idle" /\ NoRun.said = "none"
      /\ run = NoRun
  <2>1. <<>> \in Seq(CleanChanges) /\ 1 \in Nat \ {0} OBVIOUS
  <2>2. [f \in Files |-> Absent] \in [Files -> Texts \cup States] BY DEF Texts
  <2> QED BY <2>1, <2>2 DEF NoRun, RunRecords, Init, Files
<1>3. TypeOK BY <1>1, <1>2 DEF Init, TypeOK, Texts, Files
<1> QED BY <1>2, <1>3 DEF Inv, Compared, Undisturbed

\* A change writes what its target may hold, and nothing else.
LEMMA Put ==
    ASSUME TypeOK, NEW c \in CleanChanges,
           NEW v \in {c.before, c.after, file[c.target], Absent},
           file' = [file EXCEPT ![c.target] = v]
    PROVE  /\ file' \in [Files -> Texts \cup States]
           /\ \A f \in Targets : file'[f] \in Texts
           /\ file'[StateFile] \in States \cup {Absent}
           /\ c.target \in Files /\ file'[c.target] = v
           /\ \A f \in Files : f # c.target => file'[f] = file[f]
<1>1. CASE c.target \in Targets /\ {c.before, c.after} \subseteq Texts
    BY <1>1, InstallerAssumption DEF TypeOK, Files, Texts
<1>2. CASE c.target = StateFile /\ {c.before, c.after} \subseteq States \cup {Absent}
    BY <1>2, InstallerAssumption DEF TypeOK, Files, Texts
<1> QED BY <1>1, <1>2 DEF CleanChanges, Texts

\* A step of the run at hand.
LEMMA RunStep ==
    ASSUME Inv, run.pc # "idle", run' \in RunRecords, UNCHANGED <<runs, edits>>,
           run'.plan = run.plan, run'.start = run.start, run'.op = run.op,
           run'.release = run.release, run'.touched = run.touched,
           file' \in [Files -> Texts \cup States], \A f \in Targets : file'[f] \in Texts,
           file'[StateFile] \in States \cup {Absent},
           run'.pc # "idle" => run'.said = "none", Compared',
           ~run.touched => Undisturbed'
    PROVE  Inv'
<1>1. TypeOK' BY DEF Inv, TypeOK
<1>2. Fits(run.plan, run.start, run.release)' /\ Free(run.start, run.op, run.release)'
    BY DEF Inv, Fits, Free, Fit, Planned, OwnedIn, NextState
<1> QED BY <1>1, <1>2 DEF Inv

\* A run ends and leaves its files as they are.
LEMMA FinishInv ==
    ASSUME Inv, run.pc # "idle", NEW said \in {"ok", "failed", "killed"}, Finish(said),
           UNCHANGED <<file, runs, edits>>,
           ~run.touched /\ ~Windows /\ ~run.failures =>
             /\ said = "failed" => Done(0)
             /\ said = "killed" => \E n \in Nat : Done(n)
    PROVE  Inv'
<1>1. /\ run' \in RunRecords /\ run'.pc = "idle" /\ run'.said = said
      /\ run'.plan = run.plan /\ run'.start = run.start /\ run'.op = run.op
      /\ run'.release = run.release /\ run'.touched = run.touched
      /\ run'.failures = run.failures
    BY DEF Finish, Inv, TypeOK, RunRecords
<1>2. \A n : Done(n)' <=> Done(n) BY <1>1 DEF Done
<1>3. Compared' BY <1>1 DEF Compared
<1>4. ~run.touched => Undisturbed' BY <1>1, <1>2 DEF Undisturbed
<1>5. TypeOK BY DEF Inv
<1> HIDE DEF Inv
<1> QED BY <1>1, <1>3, <1>4, <1>5, RunStep DEF TypeOK

LEMMA PlanInv ==
    ASSUME Inv, NEW op \in {"install", "sync"}, NEW r \in Releases, Plan(op, r)
    PROVE  Inv'
<1>1. TypeOK BY DEF Inv
<1>2. /\ Changes(r) \in Seq(CleanChanges)
      /\ Fits(Changes(r), file, r) /\ Free(file, op, r)
    BY <1>1, PlansFit DEF Plan
<1>3. /\ run'.pc = "check" /\ run'.said = "none" /\ run'.op = op /\ run'.release = r
      /\ run'.plan = Changes(r) /\ run'.next = 1 /\ run'.applied = <<>>
      /\ run'.failures = FALSE /\ run'.start = file /\ run'.raced = FALSE
      /\ run'.touched = FALSE
    BY DEF Plan, NoRun
<1>4. run' \in RunRecords
  <2>1. <<>> \in Seq(CleanChanges) /\ 1 \in Nat \ {0} OBVIOUS
  <2> QED BY <1>1, <1>2, <2>1 DEF Plan, NoRun, RunRecords, TypeOK
<1>5. TypeOK' BY <1>1, <1>4 DEF TypeOK, Plan
<1>6. Done(0)' /\ Applied(0)' BY <1>2, <1>3 DEF Done, Applied, Plan
<1>7. Fits(run.plan, run.start, run.release)' /\ Free(run.start, run.op, run.release)'
    BY <1>2, <1>3 DEF Fits, Free, Fit, Planned, OwnedIn, NextState
<1> QED BY <1>3, <1>5, <1>6, <1>7 DEF Inv, Compared, Undisturbed

LEMMA CheckInv == ASSUME Inv, Check PROVE Inv'
<1>1. ~run.touched => run.next = 1 /\ Applied(0) /\ Done(0)
    BY DEF Inv, Check, Undisturbed
<1>2. CASE \A i \in DOMAIN run.plan : Unchanged(run.plan[i])
  <2>1. run' = [run EXCEPT !.pc = "verify"] BY <1>2 DEF Check
  <2>2. /\ run' \in RunRecords /\ run'.pc = "verify" /\ run'.said = run.said
        /\ run'.plan = run.plan /\ run'.start = run.start /\ run'.op = run.op
        /\ run'.release = run.release /\ run'.touched = run.touched
        /\ run'.next = run.next /\ run'.applied = run.applied
      BY <2>1 DEF Inv, TypeOK, RunRecords
  <2>3. \A n : (Done(n)' <=> Done(n)) /\ (Applied(n)' <=> Applied(n))
      BY <2>2 DEF Done, Applied, Check
  <2>4. ~run.touched => Undisturbed' BY <1>1, <2>2, <2>3 DEF Undisturbed
  <2>5. Compared' BY <2>2 DEF Compared
  <2>6. TypeOK /\ run.said = "none" BY DEF Inv, Check
  <2> HIDE DEF Inv
  <2> QED BY <2>2, <2>4, <2>5, <2>6, RunStep DEF TypeOK, Check
<1>3. CASE ~ \A i \in DOMAIN run.plan : Unchanged(run.plan[i])
    BY <1>1, <1>3, FinishInv DEF Check
<1> QED BY <1>2, <1>3

LEMMA VerifyInv == ASSUME Inv, Verify PROVE Inv'
<1>1. /\ TypeOK /\ run.pc = "verify" /\ run.said = "none" /\ run.next \in Nat \ {0}
      /\ ~run.touched => Applied(run.next - 1) /\ Done(run.next - 1)
    BY DEF Inv, TypeOK, RunRecords, Verify, Undisturbed
<1>2. CASE run.next > Len(run.plan) BY <1>1, <1>2, FinishInv DEF Verify
<1>3. CASE ~(run.next > Len(run.plan))
  <2> PICK pc \in {"write", "back"} :
        /\ run' = [run EXCEPT !.pc = pc, !.raced = FALSE]
        /\ pc = "write" => Unchanged(run.plan[run.next])
      BY <1>3 DEF Verify
  <2>1. /\ run' \in RunRecords /\ run'.pc = pc /\ run'.said = run.said
        /\ run'.plan = run.plan /\ run'.start = run.start /\ run'.op = run.op
        /\ run'.release = run.release /\ run'.touched = run.touched
        /\ run'.next = run.next /\ run'.applied = run.applied /\ run'.raced = FALSE
      BY <1>1 DEF TypeOK, RunRecords
  <2>2. \A n : (Done(n)' <=> Done(n)) /\ (Applied(n)' <=> Applied(n))
      BY <2>1 DEF Done, Applied, Verify
  <2>3. run.next <= Len(run.plan) BY <1>1, <1>3 DEF TypeOK, RunRecords
  <2>4. Compared' BY <2>1, <2>3 DEF Compared, Unchanged, Verify
  <2>5. run.next - 1 \in Nat BY <1>1
  <2>6. ~run.touched => Undisturbed' BY <1>1, <2>1, <2>2, <2>5 DEF Undisturbed
  <2> HIDE DEF Inv
  <2> QED BY <1>1, <2>1, <2>4, <2>6, RunStep DEF TypeOK, Verify
<1> QED BY <1>2, <1>3

LEMMA KillInv == ASSUME Inv, Kill PROVE Inv'
<1>1. run.next - 1 \in Nat BY DEF Inv, TypeOK, RunRecords
<1>2. ~run.touched /\ ~Windows /\ ~run.failures => \E n \in Nat : Done(n)
    BY <1>1 DEF Inv, Undisturbed, Kill, TypeOK, RunRecords
<1> QED BY <1>2, FinishInv DEF Kill

LEMMA EditInv == ASSUME Inv, NEW f \in Targets, Edit(f) PROVE Inv'
<1>1. /\ run' = [run EXCEPT !.touched = TRUE, !.raced = @ \/ f \in AtHand]
      /\ TypeOK /\ f \in Files /\ edits' = edits + 1 /\ runs' = runs
    BY DEF Edit, Inv, Files
<1>2. PICK text \in Texts : file' = [file EXCEPT ![f] = text] BY DEF Edit, Texts
<1>3. /\ run' \in RunRecords /\ run'.pc = run.pc /\ run'.said = run.said
      /\ run'.plan = run.plan /\ run'.start = run.start /\ run'.op = run.op
      /\ run'.release = run.release /\ run'.touched = TRUE
      /\ run'.next = run.next /\ run'.applied = run.applied
      /\ run'.raced = (run.raced \/ f \in AtHand)
  <2> PICK raced \in BOOLEAN : raced = (run.raced \/ f \in AtHand)
      BY <1>1 DEF TypeOK, RunRecords
  <2>1. run' = [run EXCEPT !.touched = TRUE, !.raced = raced] BY <1>1
  <2> QED BY <1>1, <2>1 DEF TypeOK, RunRecords
<1>4. TypeOK'
    BY <1>1, <1>2, <1>3, InstallerAssumption DEF TypeOK, Files
<1>5. \A g \in Files : g # f => file'[g] = file[g] BY <1>1, <1>2 DEF TypeOK
<1>6. Compared'
  <2>1. Compared BY DEF Inv
  <2>2. ASSUME run.pc = "write", ~run'.raced
        PROVE  file'[run.plan[run.next].target] = run.plan[run.next].before
    <3>1. run.plan[run.next].target # f /\ ~run.raced BY <1>3, <2>2 DEF AtHand
    <3>2. run.plan[run.next] \in CleanChanges
        BY <1>1, <2>1, <2>2 DEF Compared, TypeOK, RunRecords
    <3>3. run.plan[run.next].target \in Files BY <3>2 DEF CleanChanges, Files
    <3> QED BY <1>5, <2>1, <2>2, <3>1, <3>3 DEF Compared
  <2>3. ASSUME run.pc = "restore", ~run'.raced PROVE file'[Last.target] = Last.after
    <3>1. Last.target # f /\ ~run.raced BY <1>3, <2>3 DEF AtHand
    <3>2. Last \in CleanChanges
        BY <1>1, <2>1, <2>3 DEF Compared, TypeOK, RunRecords, Last
    <3>3. Last.target \in Files BY <3>2 DEF CleanChanges, Files
    <3> QED BY <1>5, <2>1, <2>3, <3>1, <3>3 DEF Compared
  <2>4. Last' = Last BY <1>3 DEF Last
  <2> QED BY <1>3, <2>1, <2>2, <2>3, <2>4 DEF Compared
<1>7. Fits(run.plan, run.start, run.release)' <=> Fits(run.plan, run.start, run.release)
    BY <1>3 DEF Fits, Fit, Planned, OwnedIn, NextState
<1>8. Free(run.start, run.op, run.release)' <=> Free(run.start, run.op, run.release)
    BY <1>3 DEF Free, OwnedIn
<1> QED BY <1>3, <1>4, <1>6, <1>7, <1>8 DEF Inv

\* One more change is made.
LEMMA OneMoreDone ==
    ASSUME Inv, NEW n \in Nat, Done(n), n + 1 <= Len(run.plan),
           run'.plan = run.plan, run'.start = run.start,
           run.pc # "idle",
           file' = [file EXCEPT ![run.plan[n + 1].target] = run.plan[n + 1].after]
    PROVE  Done(n + 1)'
<1> PICK c : c = run.plan[n + 1] OBVIOUS
<1>1. run.plan \in Seq(CleanChanges) BY DEF Inv, TypeOK, RunRecords
<1>2. n + 1 \in DOMAIN run.plan /\ \A i \in 1 .. n : i \in DOMAIN run.plan /\ i # n + 1
    BY <1>1
<1>3. \A i \in 1 .. n : run.plan[i].target # c.target
    BY <1>2 DEF Inv, Fits
<1>4. c.target \in Files /\ file \in [Files -> Texts \cup States]
    BY <1>1, <1>2 DEF CleanChanges, Files, Inv, TypeOK
<1>5. file'[c.target] = c.after /\ \A f \in Files : f # c.target => file'[f] = file[f]
    BY <1>4
<1>6. \A i \in 1 .. n : run.plan[i].target \in Files
    BY <1>1, <1>2 DEF CleanChanges, Files
<1>7. \A i \in 1 .. n + 1 : i \in 1 .. n \/ i = n + 1 OBVIOUS
<1>8. \A i \in 1 .. n + 1 : file'[run.plan[i].target] = run.plan[i].after
    BY <1>3, <1>5, <1>6, <1>7 DEF Done
<1>9. ASSUME NEW f \in Files, \A i \in 1 .. n + 1 : run.plan[i].target # f
      PROVE  file'[f] = run.start[f]
  <2>1. f # c.target BY <1>9
  <2>2. \A i \in 1 .. n : run.plan[i].target # f BY <1>9
  <2> QED BY <1>5, <2>1, <2>2 DEF Done
<1> QED BY <1>8, <1>9 DEF Done

\* The last change that is made is undone.
LEMMA OneLessDone ==
    ASSUME Inv, NEW n \in Nat, Done(n + 1), run'.plan = run.plan, run'.start = run.start,
           run.pc # "idle",
           file' = [file EXCEPT ![run.plan[n + 1].target] = run.plan[n + 1].before]
    PROVE  Done(n)'
<1> PICK c : c = run.plan[n + 1] OBVIOUS
<1>1. run.plan \in Seq(CleanChanges) BY DEF Inv, TypeOK, RunRecords
<1>2. n + 1 \in DOMAIN run.plan /\ \A i \in 1 .. n : i \in DOMAIN run.plan /\ i # n + 1
    BY <1>1 DEF Done
<1>3. \A i \in 1 .. n : run.plan[i].target # c.target
    BY <1>2 DEF Inv, Fits
<1>4. c.target \in Files /\ file \in [Files -> Texts \cup States]
    BY <1>1, <1>2 DEF CleanChanges, Files, Inv, TypeOK
<1>5. file'[c.target] = c.before /\ \A f \in Files : f # c.target => file'[f] = file[f]
    BY <1>4
<1>6. c.before = run.start[c.target] BY <1>2 DEF Inv, Fits, Fit
<1>7. \A i \in 1 .. n : run.plan[i].target \in Files
    BY <1>1, <1>2 DEF CleanChanges, Files
<1>8. \A i \in 1 .. n : file'[run.plan[i].target] = run.plan[i].after
    BY <1>3, <1>5, <1>7 DEF Done
<1>9. ASSUME NEW f \in Files, \A i \in 1 .. n : run.plan[i].target # f
      PROVE  file'[f] = run.start[f]
  <2>1. CASE f = c.target BY <1>5, <1>6, <2>1
  <2>2. CASE f # c.target
    <3>1. \A i \in 1 .. n + 1 : run.plan[i].target # f BY <1>9, <2>2
    <3> QED BY <1>5, <2>2, <3>1 DEF Done
  <2> QED BY <2>1, <2>2
<1>10. n <= Len(run.plan) BY <1>1 DEF Done
<1> QED BY <1>8, <1>9, <1>10 DEF Done

LEMMA WriteInv == ASSUME Inv, Write PROVE Inv'
<1> PICK c : c = run.plan[run.next] OBVIOUS
<1>1. /\ TypeOK /\ run.pc = "write" /\ run.said = "none" /\ run.next \in Nat \ {0}
      /\ run.plan \in Seq(CleanChanges) /\ run.applied \in Seq(CleanChanges)
      /\ run.next <= Len(run.plan) /\ c \in CleanChanges
      /\ UNCHANGED <<runs, edits>>
    BY DEF Inv, TypeOK, RunRecords, Write, Compared
<1>2. ~run.touched => Applied(run.next - 1) /\ Done(run.next - 1)
    BY <1>1 DEF Inv, Undisturbed
<1> PICK n \in Nat : run.next = n + 1
  <2>1. run.next - 1 \in Nat /\ run.next = (run.next - 1) + 1 BY <1>1
  <2> QED BY <2>1
<1> PICK more : more = Append(run.applied, c) OBVIOUS
<1>3. /\ more \in Seq(CleanChanges)
      /\ Applied(n) => Len(more) = n + 1 /\ \A i \in 1 .. n + 1 : more[i] = run.plan[i]
  <2>1. more \in Seq(CleanChanges) /\ Len(more) = Len(run.applied) + 1
        /\ more[Len(more)] = c /\ \A i \in 1 .. Len(run.applied) : more[i] = run.applied[i]
      BY <1>1
  <2>2. \A i \in 1 .. n + 1 : i \in 1 .. n \/ i = n + 1 OBVIOUS
  <2> QED BY <2>1, <2>2 DEF Applied
<1>4. CASE /\ file' = [file EXCEPT ![c.target] = c.after]
           /\ run' = [run EXCEPT !.pc = "verify", !.next = @ + 1, !.applied = Append(@, c)]
  <2> PICK next \in Nat \ {0} : next = n + 2 OBVIOUS
  <2>1. run' = [run EXCEPT !.pc = "verify", !.next = next, !.applied = more]
    <3>1. run.next + 1 = next /\ Append(run.applied, c) = more BY <1>1
    <3> QED BY <1>4, <3>1, Zenon
  <2>2. /\ run' \in RunRecords /\ run'.pc = "verify" /\ run'.said = run.said
        /\ run'.plan = run.plan /\ run'.start = run.start /\ run'.op = run.op
        /\ run'.release = run.release /\ run'.touched = run.touched
        /\ run'.next = n + 2 /\ run'.applied = more
      BY <1>1, <1>3, <2>1 DEF TypeOK, RunRecords
  <2>3. ~run.touched => Applied(n + 1)' /\ Done(n + 1)'
    <3> SUFFICES ASSUME ~run.touched PROVE Applied(n + 1)' /\ Done(n + 1)' OBVIOUS
    <3>1. Applied(n) /\ Done(n) BY <1>2
    <3>2. Applied(n + 1)' BY <1>3, <2>2, <3>1 DEF Applied
    <3> HIDE DEF Inv
    <3> QED BY <1>1, <1>4, <2>2, <3>1, <3>2, OneMoreDone
  <2>4. run'.next - 1 = n + 1 BY <2>2
  <2>5. ~run.touched => Undisturbed' BY <2>2, <2>3, <2>4 DEF Undisturbed
  <2>6. Compared' BY <2>2 DEF Compared
  <2> HIDE DEF Inv
  <2> QED BY <1>1, <1>4, <2>2, <2>5, <2>6, Put, RunStep
<1>5. CASE /\ \E left \in Left(c) : file' = [file EXCEPT ![c.target] = left]
           /\ run' = [run EXCEPT !.pc = "back"]
  <2> PICK left \in Left(c) : file' = [file EXCEPT ![c.target] = left] BY <1>5
  <2>1. left \in {file[c.target], Absent} /\ (~Windows => left = file[c.target])
      BY DEF Left
  <2>2. /\ run' \in RunRecords /\ run'.pc = "back" /\ run'.said = run.said
        /\ run'.plan = run.plan /\ run'.start = run.start /\ run'.op = run.op
        /\ run'.release = run.release /\ run'.touched = run.touched
        /\ run'.applied = run.applied
      BY <1>1, <1>5 DEF TypeOK, RunRecords
  <2>3. ~Windows => file' = file BY <2>1, <1>1 DEF TypeOK
  <2>4. ~Windows => (Applied(n)' <=> Applied(n)) /\ (Done(n)' <=> Done(n))
      BY <2>2, <2>3 DEF Applied, Done
  <2>5. ~run.touched => Undisturbed' BY <1>2, <2>2, <2>4 DEF Undisturbed
  <2>6. Compared' BY <2>2 DEF Compared
  <2>7. left \in {c.before, c.after, file[c.target], Absent} BY <2>1
  <2>8. file' = [file EXCEPT ![c.target] = left] OBVIOUS
  <2> HIDE DEF Inv
  <2> QED BY <1>1, <2>2, <2>5, <2>6, <2>7, <2>8, Put, RunStep
<1>6. CASE /\ file' = [file EXCEPT ![c.target] = c.after]
           /\ run' = [run EXCEPT !.pc = "back", !.applied = ToRollBack(c)]
  <2>1. /\ run' \in RunRecords /\ run'.pc = "back" /\ run'.said = run.said
        /\ run'.plan = run.plan /\ run'.start = run.start /\ run'.op = run.op
        /\ run'.release = run.release /\ run'.touched = run.touched
        /\ run'.applied = more
      BY <1>1, <1>3, <1>6 DEF TypeOK, RunRecords, ToRollBack
  <2>2. ~run.touched => Applied(n + 1)' /\ Done(n + 1)'
    <3> SUFFICES ASSUME ~run.touched PROVE Applied(n + 1)' /\ Done(n + 1)' OBVIOUS
    <3>1. Applied(n) /\ Done(n) BY <1>2
    <3>2. Applied(n + 1)' BY <1>3, <2>1, <3>1 DEF Applied
    <3> HIDE DEF Inv
    <3> QED BY <1>1, <1>6, <2>1, <3>1, <3>2, OneMoreDone
  <2>3. n + 1 \in Nat OBVIOUS
  <2>4. ~run.touched => Undisturbed' BY <2>1, <2>2, <2>3 DEF Undisturbed
  <2>5. Compared' BY <2>1 DEF Compared
  <2> HIDE DEF Inv
  <2> QED BY <1>1, <1>6, <2>1, <2>4, <2>5, Put, RunStep
<1> QED BY <1>4, <1>5, <1>6 DEF Write

\* What is left to roll back.
LEMMA Popped ==
    ASSUME NEW s \in Seq(CleanChanges), s # <<>>
    PROVE  /\ Pop(s) \in Seq(CleanChanges) /\ Len(Pop(s)) = Len(s) - 1
           /\ \A i \in 1 .. Len(s) - 1 : Pop(s)[i] = s[i]
<1> PICK n \in Nat : n = Len(s) - 1 OBVIOUS
<1>1. 1 \in Int /\ n \in Int /\ \A i \in 1 .. n : s[i] \in CleanChanges OBVIOUS
<1>2. /\ SubSeq(s, 1, n) \in Seq(CleanChanges)
      /\ Len(SubSeq(s, 1, n)) = IF 1 <= n THEN n - 1 + 1 ELSE 0
      /\ \A i \in 1 .. n - 1 + 1 : SubSeq(s, 1, n)[i] = s[1 + i - 1]
    BY <1>1, SubSeqProperties
<1>3. \A i \in 1 .. n : i \in 1 .. n - 1 + 1 /\ 1 + i - 1 = i OBVIOUS
<1>4. n - 1 + 1 = n /\ (~(1 <= n) => n = 0) OBVIOUS
<1>5. Pop(s) = SubSeq(s, 1, n) BY DEF Pop
<1> QED BY <1>2, <1>3, <1>4, <1>5

LEMMA BackInv == ASSUME Inv, Back PROVE Inv'
<1>1. /\ TypeOK /\ run.pc = "back" /\ run.said = "none"
      /\ run.applied \in Seq(CleanChanges) /\ UNCHANGED <<file, runs, edits>>
    BY DEF Inv, TypeOK, RunRecords, Back
<1>2. ~run.touched /\ ~Windows /\ ~run.failures =>
         \E n \in Nat : Applied(n) /\ Done(n)
    BY <1>1 DEF Inv, Undisturbed
<1>3. CASE run.applied = <<>>
  <2>1. ~run.touched /\ ~Windows /\ ~run.failures => Done(0)
      BY <1>2, <1>3 DEF Applied
  <2> QED BY <1>1, <1>3, <2>1, FinishInv DEF Back
<1>4. CASE run.applied # <<>> /\ Restorable(Last)
  <2>1. run' = [run EXCEPT !.pc = "restore", !.raced = FALSE] BY <1>4 DEF Back
  <2>2. /\ run' \in RunRecords /\ run'.pc = "restore" /\ run'.said = run.said
        /\ run'.plan = run.plan /\ run'.start = run.start /\ run'.op = run.op
        /\ run'.release = run.release /\ run'.touched = run.touched
        /\ run'.applied = run.applied /\ run'.failures = run.failures
      BY <1>1, <2>1 DEF TypeOK, RunRecords
  <2>3. Compared' BY <1>1, <1>4, <2>2 DEF Compared, Restorable, Last
  <2>4. \A n : (Applied(n)' <=> Applied(n)) /\ (Done(n)' <=> Done(n))
      BY <1>1, <2>2 DEF Applied, Done
  <2>5. ~run.touched => Undisturbed' BY <1>2, <2>2, <2>4 DEF Undisturbed
  <2> HIDE DEF Inv
  <2> QED BY <1>1, <2>2, <2>3, <2>5, RunStep DEF TypeOK
<1>5. CASE run.applied # <<>> /\ ~Restorable(Last)
  <2>1. run' = [run EXCEPT !.applied = Pop(@), !.failures = TRUE] BY <1>5 DEF Back
  <2>2. Pop(run.applied) \in Seq(CleanChanges) BY <1>1, <1>5, Popped
  <2>3. /\ run' \in RunRecords /\ run'.pc = "back" /\ run'.said = run.said
        /\ run'.plan = run.plan /\ run'.start = run.start /\ run'.op = run.op
        /\ run'.release = run.release /\ run'.touched = run.touched
        /\ run'.failures = TRUE
      BY <1>1, <2>1, <2>2 DEF TypeOK, RunRecords
  <2>4. Compared' /\ Undisturbed' BY <2>3 DEF Compared, Undisturbed
  <2> HIDE DEF Inv
  <2> QED BY <1>1, <2>3, <2>4, RunStep DEF TypeOK
<1> QED BY <1>3, <1>4, <1>5

LEMMA RestoreInv == ASSUME Inv, Restore PROVE Inv'
<1> PICK c : c = Last OBVIOUS
<1>1. /\ TypeOK /\ run.pc = "restore" /\ run.said = "none"
      /\ run.applied \in Seq(CleanChanges) /\ run.applied # <<>>
      /\ UNCHANGED <<runs, edits>>
    BY DEF Inv, TypeOK, RunRecords, Restore, Compared
<1>2. c \in CleanChanges BY <1>1 DEF Last
<1>3. ~run.touched /\ ~Windows /\ ~run.failures =>
         \E n \in Nat : Applied(n) /\ Done(n)
    BY <1>1 DEF Inv, Undisturbed
<1> PICK less : less = Pop(run.applied) OBVIOUS
<1>4. /\ less \in Seq(CleanChanges) /\ Len(less) = Len(run.applied) - 1
      /\ \A i \in 1 .. Len(run.applied) - 1 : less[i] = run.applied[i]
    BY <1>1, Popped
<1>5. CASE /\ file' = [file EXCEPT ![c.target] = c.before]
           /\ run' = [run EXCEPT !.pc = "back", !.applied = Pop(@)]
  <2>1. /\ run' \in RunRecords /\ run'.pc = "back" /\ run'.said = run.said
        /\ run'.plan = run.plan /\ run'.start = run.start /\ run'.op = run.op
        /\ run'.release = run.release /\ run'.touched = run.touched
        /\ run'.applied = less /\ run'.failures = run.failures
      BY <1>1, <1>4, <1>5 DEF TypeOK, RunRecords
  <2>2. ASSUME ~run.touched, ~Windows, ~run.failures
        PROVE  \E n \in Nat : Applied(n)' /\ Done(n)'
    <3> PICK m \in Nat : Applied(m) /\ Done(m) BY <1>3, <2>2
    <3>1. m # 0 /\ Len(run.applied) = m BY <1>1 DEF Applied
    <3> PICK n \in Nat : m = n + 1 BY <3>1
    <3>2. c = run.plan[n + 1] BY <3>1 DEF Applied, Last
    <3>3. Applied(n)' BY <1>4, <2>1, <3>1 DEF Applied
    <3>4. Done(n + 1) /\ run.pc # "idle" BY <1>1
    <3>5. file' = [file EXCEPT ![run.plan[n + 1].target] = run.plan[n + 1].before]
        BY <1>5, <3>2
    <3> HIDE DEF Inv
    <3>6. Done(n)' BY <2>1, <3>4, <3>5, OneLessDone
    <3> QED BY <3>3, <3>6
  <2>3. ~run.touched => Undisturbed' BY <2>1, <2>2 DEF Undisturbed
  <2>4. Compared' BY <2>1 DEF Compared
  <2> HIDE DEF Inv
  <2> QED BY <1>1, <1>2, <1>5, <2>1, <2>3, <2>4, Put, RunStep
<1>6. CASE /\ \E left \in Left(Undo(c)) \cup {c.before} :
                file' = [file EXCEPT ![c.target] = left]
           /\ run' = [run EXCEPT !.pc = "back", !.applied = Pop(@), !.failures = TRUE]
  <2> PICK left \in Left(Undo(c)) \cup {c.before} : file' = [file EXCEPT ![c.target] = left]
      BY <1>6
  <2>1. left \in {c.before, c.after, file[c.target], Absent} BY DEF Left, Undo
  <2>2. /\ run' \in RunRecords /\ run'.pc = "back" /\ run'.said = run.said
        /\ run'.plan = run.plan /\ run'.start = run.start /\ run'.op = run.op
        /\ run'.release = run.release /\ run'.touched = run.touched
        /\ run'.failures = TRUE
      BY <1>1, <1>4, <1>6 DEF TypeOK, RunRecords
  <2>3. Compared' /\ Undisturbed' BY <2>2 DEF Compared, Undisturbed
  <2>4. file' = [file EXCEPT ![c.target] = left] OBVIOUS
  <2> HIDE DEF Inv
  <2> QED BY <1>1, <1>2, <2>1, <2>2, <2>3, <2>4, Put, RunStep
<1> QED BY <1>5, <1>6 DEF Restore

LEMMA StepInv == Inv /\ [Next]_vars => Inv'
<1> SUFFICES ASSUME Inv, [Next]_vars PROVE Inv' OBVIOUS
<1>1. ASSUME NEW op \in {"install", "sync"}, NEW r \in Releases, Plan(op, r) PROVE Inv'
    BY <1>1, PlanInv
<1>2. CASE Check BY <1>2, CheckInv
<1>3. CASE Verify BY <1>3, VerifyInv
<1>4. CASE Write BY <1>4, WriteInv
<1>5. CASE Back BY <1>5, BackInv
<1>6. CASE Restore BY <1>6, RestoreInv
<1>7. CASE Kill BY <1>7, KillInv
<1>8. ASSUME NEW f \in Targets, Edit(f) PROVE Inv' BY <1>8, EditInv
<1>9. CASE UNCHANGED vars
  <2>1. file' = file /\ run' = run /\ runs' = runs /\ edits' = edits BY <1>9 DEF vars
  <2>2. TypeOK' BY <2>1 DEF Inv, TypeOK
  <2>3. Compared' BY <2>1 DEF Inv, Compared, Last
  <2>4. \A n : (Done(n)' <=> Done(n)) /\ (Applied(n)' <=> Applied(n))
      BY <2>1 DEF Done, Applied
  <2>5. ~run.touched => Undisturbed' BY <2>1, <2>4 DEF Inv, Undisturbed
  <2>6. Fits(run.plan, run.start, run.release)' <=> Fits(run.plan, run.start, run.release)
      BY <2>1 DEF Fits, Fit, Planned, OwnedIn, NextState
  <2>7. Free(run.start, run.op, run.release)' <=> Free(run.start, run.op, run.release)
      BY <2>1 DEF Free, OwnedIn
  <2> QED BY <2>1, <2>2, <2>3, <2>5, <2>6, <2>7 DEF Inv
<1> QED BY <1>1, <1>2, <1>3, <1>4, <1>5, <1>6, <1>7, <1>8, <1>9 DEF Next

LEMMA InstallerInv == Spec => []Inv
BY InitInv, StepInv, PTL DEF Spec

-----------------------------------------------------------------------------
(* What a plan of which the first changes are made has made of the files. *)

LEMMA DoneSoFar ==
    ASSUME Inv, run.pc # "idle" \/ run.said # "none", NEW n \in Nat, Done(n)
    PROVE  LET r == run.release IN
           /\ r \in Releases
           /\ \A f \in Shipped(r) : file[f] \in {run.start[f], Ships[r][f]}
           /\ \A f \in Retires[r] : file[f] \in {run.start[f], Absent}
           /\ file[StateFile] \in {run.start[StateFile], NextState(r)}
           /\ n < Len(run.plan) => file[StateFile] = run.start[StateFile]
           /\ (\A i \in DOMAIN run.plan : i <= n \/ run.plan[i].target = StateFile) =>
                /\ \A f \in Shipped(r) : file[f] = Ships[r][f]
                /\ \A f \in Retires[r] :
                     OwnedIn(run.start)[f] = Absent \/ file[f] = Absent
<1> PICK r : r = run.release OBVIOUS
<1> PICK plan : plan = run.plan OBVIOUS
<1>1. /\ Fits(plan, run.start, r) /\ r \in Releases /\ plan \in Seq(CleanChanges)
      /\ n <= Len(plan) /\ Len(plan) \in Nat /\ DOMAIN plan = 1 .. Len(plan)
    BY DEF Inv, Fits, TypeOK, RunRecords, Done
<1>2. /\ Shipped(r) \subseteq Targets /\ Retires[r] \subseteq Targets
      /\ Retires[r] \cap Shipped(r) = {} /\ StateFile \notin Targets
    BY <1>1, InstallerAssumption DEF Shipped
<1>3. ASSUME NEW i \in DOMAIN plan
      PROVE  /\ plan[i].target \in Shipped(r) => plan[i].after = Ships[r][plan[i].target]
             /\ plan[i].target \in Retires[r] => plan[i].after = Absent
             /\ plan[i].target = StateFile => plan[i].after = NextState(r) /\ i = Len(plan)
    BY <1>1, <1>2 DEF Fits, Fit
<1>4. \A i \in 1 .. n : i \in DOMAIN plan /\ file[plan[i].target] = plan[i].after
    BY <1>1 DEF Done
<1>5. \A f \in Files : \/ \E i \in 1 .. n : plan[i].target = f
                       \/ file[f] = run.start[f]
    BY DEF Done
<1>6. Targets \subseteq Files /\ StateFile \in Files BY DEF Files
<1>7. ASSUME NEW f \in Shipped(r) PROVE file[f] \in {run.start[f], Ships[r][f]}
    BY <1>2, <1>3, <1>4, <1>5, <1>6
<1>8. ASSUME NEW f \in Retires[r] PROVE file[f] \in {run.start[f], Absent}
    BY <1>2, <1>3, <1>4, <1>5, <1>6
<1>9. file[StateFile] \in {run.start[StateFile], NextState(r)}
    BY <1>3, <1>4, <1>5, <1>6
<1>10. n < Len(plan) => file[StateFile] = run.start[StateFile]
    BY <1>1, <1>3, <1>4, <1>5, <1>6
<1>11. ASSUME \A i \in DOMAIN plan : i <= n \/ plan[i].target = StateFile
       PROVE  /\ \A f \in Shipped(r) : file[f] = Ships[r][f]
              /\ \A f \in Retires[r] : OwnedIn(run.start)[f] = Absent \/ file[f] = Absent
  <2>1. ASSUME NEW f \in Targets, Planned(plan, f)
        PROVE  \E i \in 1 .. n : plan[i].target = f
    <3> PICK i \in DOMAIN plan : plan[i].target = f BY <2>1 DEF Planned
    <3>1. i <= n BY <1>2, <1>11
    <3>2. i \in 1 .. n BY <1>1, <3>1
    <3> QED BY <3>2
  <2>2. ASSUME NEW f \in Shipped(r) PROVE file[f] = Ships[r][f]
    <3>1. run.start[f] = Ships[r][f] \/ Planned(plan, f) BY <1>1 DEF Fits
    <3>2. CASE \E i \in 1 .. n : plan[i].target = f BY <1>3, <1>4, <3>2
    <3>3. CASE ~ \E i \in 1 .. n : plan[i].target = f
        BY <1>2, <1>5, <1>6, <2>1, <3>1, <3>3
    <3> QED BY <3>2, <3>3
  <2>3. ASSUME NEW f \in Retires[r]
        PROVE  OwnedIn(run.start)[f] = Absent \/ file[f] = Absent
    <3>1. OwnedIn(run.start)[f] = Absent \/ Planned(plan, f) BY <1>1 DEF Fits
    <3>2. CASE \E i \in 1 .. n : plan[i].target = f BY <1>3, <1>4, <3>2
    <3>3. CASE ~ \E i \in 1 .. n : plan[i].target = f
        BY <1>2, <2>1, <3>1, <3>3
    <3> QED BY <3>2, <3>3
  <2> QED BY <2>2, <2>3
<1> QED BY <1>1, <1>7, <1>8, <1>9, <1>10, <1>11

-----------------------------------------------------------------------------
(* The theorems. *)

\* What the user made of a file is never overwritten, by a plan, a later write of
\* the same run or a rollback, but when the edit came between the comparison and
\* the write (apply_plan, _rollback).
THEOREM UserEditsAreKept == Spec => EditsAreKept
<1>1. Inv /\ [Next]_vars =>
        [\A f \in Targets :
            file[f] = Edited /\ file'[f] # Edited /\ edits' = edits => run.raced]_vars
  <2> SUFFICES ASSUME Inv, Next, NEW f \in Targets,
                      file[f] = Edited, file'[f] # Edited, edits' = edits
               PROVE  run.raced
      BY DEF vars
  <2>1. Edited \notin Copies \cup {Absent} /\ f # StateFile /\ TypeOK /\ edits \in Nat
        /\ Compared
      BY InstallerAssumption DEF Inv, TypeOK
  <2>2. Write \/ Restore
    <3>1. file' # file /\ edits' # edits + 1 BY <2>1
    <3> QED BY <3>1 DEF Next, Plan, Check, Verify, Back, Kill, Edit
  <2>3. CASE Write
    <3> PICK c : c = run.plan[run.next] OBVIOUS
    <3>1. c \in CleanChanges BY <2>1, <2>3 DEF Write, Compared, TypeOK, RunRecords
    <3> PICK v : file' = [file EXCEPT ![c.target] = v] BY <2>3 DEF Write
    <3>2. c.target = f BY <2>1 DEF TypeOK, Files
    <3>3. c.before \in Copies \cup {Absent} BY <2>1, <3>1, <3>2 DEF CleanChanges
    <3> QED BY <2>1, <2>3, <3>2, <3>3 DEF Write, Compared
  <2>4. CASE Restore
    <3> PICK c : c = Last OBVIOUS
    <3>1. c \in CleanChanges
        BY <2>1, <2>4 DEF Restore, Compared, TypeOK, RunRecords, Last
    <3> PICK v : file' = [file EXCEPT ![c.target] = v] BY <2>4 DEF Restore
    <3>2. c.target = f BY <2>1 DEF TypeOK, Files
    <3>3. c.after \in Copies \cup {Absent} BY <2>1, <3>1, <3>2 DEF CleanChanges
    <3> QED BY <2>1, <2>4, <3>2, <3>3 DEF Restore, Compared
  <2> QED BY <2>2, <2>3, <2>4
<1> QED BY <1>1, InstallerInv, PTL DEF Spec, EditsAreKept

\* When the state file is written, each target it owns holds the text it names,
\* unless the user edited meanwhile: it is the last change of every plan, and its
\* owner the text of every target the release ships (build_plan, apply_plan).
THEOREM StateFileClaimsTruth == Spec => StateClaimsTruth
<1>1. Inv /\ [Next]_vars =>
        [file'[StateFile] \notin {file[StateFile], Absent} /\ run.pc = "write"
             /\ ~run.touched =>
           \A f \in Targets :
               LET owned == file'[StateFile].owned[f] IN
               owned # Absent => file[f] = owned]_vars
  <2> SUFFICES ASSUME Inv, Next, file'[StateFile] \notin {file[StateFile], Absent},
                      run.pc = "write", ~run.touched,
                      NEW f \in Targets, file'[StateFile].owned[f] # Absent
               PROVE  file[f] = file'[StateFile].owned[f]
      BY DEF vars
  <2>1. TypeOK /\ Compared /\ StateFile \notin Targets
      BY InstallerAssumption DEF Inv
  <2>2. Write
    <3>1. file'[StateFile] # file[StateFile] OBVIOUS
    <3>2. ~ \E g \in Targets : Edit(g) BY <2>1, <3>1 DEF Edit, TypeOK, Files
    <3> QED BY <3>1, <3>2 DEF Next, Plan, Check, Verify, Back, Restore, Kill
  <2> PICK c : c = run.plan[run.next] OBVIOUS
  <2> PICK r : r = run.release OBVIOUS
  <2>3. /\ c \in CleanChanges /\ run.next \in DOMAIN run.plan /\ run.next \in Nat \ {0}
        /\ DOMAIN run.plan = 1 .. Len(run.plan) /\ Len(run.plan) \in Nat
      BY <2>1 DEF Compared, TypeOK, RunRecords
  <2>4. PICK v \in {c.after, file[c.target], Absent} : file' = [file EXCEPT ![c.target] = v]
      BY <2>2 DEF Write, Left
  <2>5. c.target = StateFile /\ file'[StateFile] = c.after
      BY <2>1, <2>4 DEF TypeOK, Files
  <2>6. Fits(run.plan, run.start, r) BY DEF Inv
  <2>7. run.next = Len(run.plan) BY <2>3, <2>5, <2>6 DEF Fits
  <2>8. c.after = NextState(r) /\ r \in Releases
      BY <2>1, <2>3, <2>5, <2>6, InstallerAssumption DEF Fits, Fit, Shipped
  <2>9. f \in Shipped(r) /\ file'[StateFile].owned[f] = Ships[r][f]
      BY <2>5, <2>8 DEF NextState
  <2>10. run.next - 1 \in Nat /\ Done(run.next - 1)
      BY <2>3 DEF Inv, Undisturbed
  <2>11. \A i \in DOMAIN run.plan : i <= run.next - 1 \/ run.plan[i].target = StateFile
      BY <2>3, <2>5, <2>7
  <2>12. \A g \in Shipped(r) : file[g] = Ships[r][g]
      BY <2>10, <2>11, DoneSoFar
  <2> QED BY <2>9, <2>12
<1> QED BY <1>1, InstallerInv, PTL DEF Spec, StateClaimsTruth

\* A run that failed, reports no failure of its rollback and met no edit leaves
\* every file as the plan found it, where a failed replacement leaves the old file
\* (apply_plan, _rollback; on Windows it does not, as the run installer_windows
\* shows).
THEOREM FailuresRestore == ASSUME ~Windows PROVE Spec => []FailureRestores
<1>1. Inv => FailureRestores
  <2> SUFFICES ASSUME Inv, run.said = "failed", ~run.failures, ~run.touched
               PROVE  file = run.start
      BY DEF FailureRestores
  <2>1. run.pc = "idle" BY DEF Inv
  <2>2. Done(0) BY <2>1 DEF Inv, Undisturbed
  <2>3. \A f \in Files : file[f] = run.start[f] BY <2>2 DEF Done
  <2>4. DOMAIN file = Files /\ DOMAIN run.start = Files
      BY DEF Inv, TypeOK, RunRecords
  <2>5. file = [f \in Files |-> file[f]] /\ run.start = [f \in Files |-> run.start[f]]
      BY DEF Inv, TypeOK, RunRecords
  <2> QED BY <2>3, <2>5
<1> QED BY <1>1, InstallerInv, PTL

\* Whatever was written when the installer was killed, or left by a failed run, a
\* second run of the same operation meets no conflict, or has nothing left to do
\* (build_plan accepts the desired text and the owned one).
THEOREM InterruptedRunsCanComplete == ASSUME ~Windows PROVE Spec => []InterruptedRunsComplete
<1>1. Inv => InterruptedRunsComplete
  <2> SUFFICES ASSUME Inv, run.said \in {"killed", "failed"}, ~run.failures, ~run.touched
               PROVE  \/ Conflicts(run.op, run.release) = {}
                      \/ /\ file[StateFile] = NextState(run.release)
                         /\ Conflicts("sync", run.release) = {}
      BY DEF InterruptedRunsComplete
  <2> PICK r : r = run.release OBVIOUS
  <2> PICK start : start = run.start OBVIOUS
  <2>1. run.pc = "idle" /\ 0 \in Nat BY DEF Inv
  <2>2. PICK n \in Nat : Done(n) BY <2>1 DEF Inv, Undisturbed
  <2>3. /\ r \in Releases /\ Free(start, run.op, r)
        /\ \A f \in Shipped(r) : file[f] \in {start[f], Ships[r][f]}
        /\ \A f \in Retires[r] : file[f] \in {start[f], Absent}
        /\ file[StateFile] \in {start[StateFile], NextState(r)}
        /\ n < Len(run.plan) => file[StateFile] = start[StateFile]
        /\ (\A i \in DOMAIN run.plan : i <= n \/ run.plan[i].target = StateFile) =>
             /\ \A f \in Shipped(r) : file[f] = Ships[r][f]
             /\ \A f \in Retires[r] : OwnedIn(start)[f] = Absent \/ file[f] = Absent
    <3>1. Free(start, run.op, r) BY DEF Inv
    <3> HIDE DEF Inv
    <3> QED BY <2>2, <3>1, DoneSoFar
  <2>4. /\ Shipped(r) \subseteq Targets /\ Retires[r] \subseteq Targets
        /\ \A f \in Shipped(r) : Ships[r][f] \in Copies /\ Ships[r][f] # Absent
      BY <2>3, InstallerAssumption DEF Shipped
  <2>5. Owned = OwnedIn(file) BY DEF Owned, OwnedIn
  <2>6. NextState(r) \in States /\ NextState(r) # Absent
        /\ \A f \in Targets : NextState(r).owned[f] =
                                IF f \in Shipped(r) THEN Ships[r][f] ELSE Absent
      BY <2>3, <2>4, InstallerAssumption DEF NextState, States
  <2>7. CASE file[StateFile] = start[StateFile]
    <3>1. Owned = OwnedIn(start) BY <2>5, <2>7 DEF OwnedIn
    <3>2. \A f \in Shipped(r) : ~CopyConflict(f, r)
        BY <2>3, <2>4, <3>1 DEF CopyConflict, Free
    <3>3. \A f \in Retires[r] : ~RetiredConflict(f)
        BY <2>3, <3>1 DEF RetiredConflict, Free
    <3>4. \A f \in Targets : ~Omitted(f, r) BY <2>3, <3>1 DEF Omitted, Free
    <3>5. (run.op = "install") = (file[StateFile] = Absent) BY <2>3, <2>7 DEF Free
    <3> QED BY <3>2, <3>3, <3>4, <3>5 DEF Conflicts
  <2>8. CASE file[StateFile] # start[StateFile]
    <3>1. file[StateFile] = NextState(r) /\ ~(n < Len(run.plan)) BY <2>3, <2>8
    <3>2. \A i \in DOMAIN run.plan : i <= n
      <4>1. Len(run.plan) \in Nat /\ DOMAIN run.plan = 1 .. Len(run.plan)
          BY DEF Inv, TypeOK, RunRecords
      <4> QED BY <3>1, <4>1
    <3>3. /\ \A f \in Shipped(r) : file[f] = Ships[r][f]
          /\ \A f \in Retires[r] : OwnedIn(start)[f] = Absent \/ file[f] = Absent
        BY <2>3, <3>2
    <3>4. \A f \in Targets : Owned[f] = IF f \in Shipped(r) THEN Ships[r][f] ELSE Absent
        BY <2>5, <2>6, <3>1 DEF OwnedIn
    <3>5. \A f \in Shipped(r) : ~CopyConflict(f, r)
        BY <2>4, <3>3 DEF CopyConflict
    <3>6. \A f \in Retires[r] : file[f] = Absent
        BY <2>3, <3>3 DEF Free
    <3>7. \A f \in Retires[r] : ~RetiredConflict(f) BY <3>6 DEF RetiredConflict
    <3>8. \A f \in Targets : ~Omitted(f, r) BY <3>4 DEF Omitted
    <3>9. file[StateFile] # Absent BY <2>6, <3>1
    <3>10. Conflicts("sync", r) = {} BY <3>5, <3>7, <3>8, <3>9 DEF Conflicts
    <3> QED BY <3>1, <3>10
  <2> QED BY <2>7, <2>8
<1> QED BY <1>1, InstallerInv, PTL
=============================================================================
