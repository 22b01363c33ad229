------------------------------ MODULE Records ------------------------------
(***************************************************************************)
(* Handoff records: what the validator accepts of a record, what render    *)
(* and its scaffold produce, what Stop accepts as the next record of an    *)
(* authorization chain, and the files that hold the records.               *)
(*                                                                         *)
(* A text is the parsed record itself, and stands for its own digest: two  *)
(* records have one digest only if they are the same text.  Author and     *)
(* agent write a file in two steps, as render does: it looks whether the   *)
(* target is a published record, then it writes.  What a draft says is     *)
(* chosen when somebody reads it.  Who may stop, and when, is the matter   *)
(* of Lifecycle.                                                           *)
(***************************************************************************)
EXTENDS Naturals, Sequences, FiniteSets

CONSTANTS
    Auths,       \* authorization chains
    Registered,  \* per chain: the scopes its user authorized, root first
    Shapes,      \* lists of scope definitions an author may write
    Progresses,  \* what an author may say is left of a scope
    Ids,         \* record identifiers
    Paths,       \* files under handoffs/
    Sessions,
    MaxRecords,  \* bound: records that are ever published
    NoParent, Nothing, Omitted, Draft

ASSUME RecordsAssumption ==
    /\ MaxRecords \in Nat
    /\ \A shape \in Shapes : shape \in Seq({shape[i] : i \in DOMAIN shape})
    /\ \A a \in Auths :
         /\ Registered[a] \in Shapes
         /\ \A i \in DOMAIN Registered[a] :
              LET earlier == {Registered[a][j].id : j \in 1..(i - 1)} IN
              /\ Registered[a][i].id \notin earlier
              /\ Registered[a][i].parent \in IF i = 1 THEN {NoParent} ELSE earlier
    /\ Progresses \subseteq [work : BOOLEAN, code : BOOLEAN, status : {"pending", "complete"}]

VARIABLES
    chains,     \* the registry's chains
    files,      \* what each path holds
    writing,    \* per session: the render between its look and its write
    published   \* the records Stop accepted, in order

vars == <<chains, files, writing, published>>

-----------------------------------------------------------------------------
(* The scopes of a record. A definition is [id, parent, def]; a scope also    *)
(* has the digest the author wrote for it and its progress.                   *)

Definition(s) == [id |-> s.id, parent |-> s.parent, def |-> s.def]

Scope(d, p, highest) ==
    [id |-> d.id, parent |-> d.parent, def |-> d.def, digest |-> d,
     work |-> p.work, code |-> p.code, status |-> p.status, highest |-> highest]

Definitions(text) == [i \in DOMAIN text.scopes |-> Definition(text.scopes[i])]

Digests(text) == [i \in DOMAIN text.scopes |-> text.scopes[i].digest]

\* The scopes above a scope, by following parents as long as they are known.
Above(scopes, id) ==
    LET parents(S) == {scopes[i].parent : i \in {j \in DOMAIN scopes : scopes[j].id \in S}}
        up[n \in 0..Len(scopes)] ==
            IF n = 0 THEN {id} ELSE up[n - 1] \cup (parents(up[n - 1]) \ {NoParent})
    IN {scopes[i].id : i \in DOMAIN scopes} \cap parents(up[Len(scopes)])

\* mutant of Propagates: only code is propagated to the scopes above
PropagatesCode(scopes) ==
    \A i, j \in DOMAIN scopes :
        scopes[j].id \in Above(scopes, scopes[i].id) /\ scopes[i].code => scopes[j].code

\* What remains in a scope remains in every scope above it.
Propagates(scopes) ==
    \A i, j \in DOMAIN scopes :
        scopes[j].id \in Above(scopes, scopes[i].id) =>
            /\ scopes[i].work => scopes[j].work
            /\ scopes[i].code => scopes[j].code

\* One highest scope, which is the only root; known parents and no cycle.
Tree(scopes) ==
    /\ \A i, j \in DOMAIN scopes : scopes[i].id = scopes[j].id => i = j
    /\ \E i \in DOMAIN scopes :
         /\ {j \in DOMAIN scopes : scopes[j].highest} = {i}
         /\ {j \in DOMAIN scopes : scopes[j].parent = NoParent} = {i}
    /\ \A i \in DOMAIN scopes :
         /\ scopes[i].parent \in {scopes[j].id : j \in DOMAIN scopes} \cup {NoParent}
         /\ scopes[i].id \notin Above(scopes, scopes[i].id)

Consistent(s) ==
    /\ s.code => s.work
    /\ s.status = "complete" => ~s.work

Highest(scopes) == CHOOSE i \in DOMAIN scopes : scopes[i].highest

\* A continuation has work left in its root, an audit is of a finished one.
MatchesType(type, root) ==
    IF type = "continuation" THEN root.work /\ root.status # "complete"
    ELSE ~root.work /\ root.status = "complete"

WellScoped(type, scopes) ==
    /\ scopes # <<>>
    /\ Tree(scopes)
    /\ \A i \in DOMAIN scopes : Consistent(scopes[i])
    /\ Propagates(scopes)
    /\ MatchesType(type, scopes[Highest(scopes)])

\* The digests are those of the definitions, the root is the highest scope.
Linked(root, scopes) ==
    /\ \A i \in DOMAIN scopes : scopes[i].digest = Definition(scopes[i])
    /\ scopes[Highest(scopes)].id = root

-----------------------------------------------------------------------------
(* Lineage. A reference is [path, text]. Evidence names the grant it carries  *)
(* the HMAC of, which is that of a chain; a transition carries one too.       *)

Root(a) == Registered[a][1].id

Evidence == [kind : {"initial", "approved"}, of : Auths]

Transition(a, b) == [from |-> a, to |-> b, old |-> Root(a), new |-> Root(b), hmac |-> b]

Transitions == {Transition(a, b) : a, b \in Auths} \cup {Nothing}

ASSUME NothingAssumption == Nothing \notin Auths \cup {Transition(a, b) : a, b \in Auths}

\* Approved evidence goes with the transition it is of, initial with none.
Lineages ==
    {l \in [evidence : Evidence, transition : Transitions] :
        IF l.transition = Nothing THEN l.evidence.kind = "initial"
        ELSE l.evidence = [kind |-> "approved", of |-> l.transition.hmac]}

WellEvidenced(text) ==
    /\ [evidence |-> text.evidence, transition |-> text.transition] \in Lineages
    /\ text.transition # Nothing => text.pred # Nothing

\* What render writes, and what validate finds no fault with.
Valid(text) ==
    /\ WellScoped(text.type, text.scopes) /\ Linked(text.root, text.scopes)
    /\ WellEvidenced(text)

\* Without an approved transition a record keeps the authority, the root and the
\* scopes of the one before, in order.
Retained(text, before) ==
    /\ text.auth = before.auth /\ text.root = before.root
    /\ Digests(text) = Digests(before)

Consequent(t, text, before) ==
    /\ t.from = before.auth /\ t.to = text.auth /\ t.from # t.to
    /\ t.old = before.root /\ t.new = text.root

\* validate_successor; hmac: that of the approval Stop trusts, if any
Succeeds(text, before, path, hmac) ==
    /\ text.id # before.id
    /\ text.pred = [path |-> path, text |-> before]
    /\ IF text.transition = Nothing THEN Retained(text, before)
       ELSE text.transition.hmac = hmac /\ Consequent(text.transition, text, before)
    /\ Valid(before) /\ Valid(text)

-----------------------------------------------------------------------------
(* What an author may hand to render. *)

\* Lists of scopes that fit a type and a root; the rest render refuses.
Sheets ==
    {s \in [type : {"continuation", "audit"}, root : {Root(a) : a \in Auths},
            scopes : UNION {{[i \in DOMAIN shape |-> Scope(shape[i], p[i], i = h)] :
                               p \in [DOMAIN shape -> Progresses], h \in DOMAIN shape} :
                            shape \in Shapes}] :
        WellScoped(s.type, s.scopes) /\ Linked(s.root, s.scopes)}

References ==
    {[path |-> q, text |-> files[q]] : q \in {p \in Paths : files[p] \notin {Nothing, Draft}}}

\* All an author chooses, by mistake or not, but for the record it follows.
Pages ==
    {[type |-> s.type, root |-> s.root, scopes |-> s.scopes, id |-> i, auth |-> a,
      pred |-> Nothing, evidence |-> l.evidence, transition |-> l.transition] :
        s \in Sheets, i \in Ids, a \in Auths, l \in Lineages}

Following(page, ref) == [page EXCEPT !.pred = ref]

Inherited(definition, before) ==
    CHOOSE i \in DOMAIN before.scopes : before.scopes[i].id = definition.id

\* mutant of Scaffold: the predecessor's own predecessor is inherited too
ScaffoldSibling(draft, ref) ==
    [draft EXCEPT
        !.auth = ref.text.auth, !.root = ref.text.root, !.pred = ref.text.pred,
        !.evidence = ref.text.evidence, !.transition = ref.text.transition,
        !.scopes = [i \in DOMAIN @ |->
                      LET source == ref.text.scopes[Inherited(@[i], ref.text)] IN
                      [@[i] EXCEPT !.def = source.def, !.digest = source.digest]]]

\* render --successor-of: lineage, definitions and digests are the predecessor's
Scaffold(draft, ref) ==
    [draft EXCEPT
        !.auth = ref.text.auth, !.root = ref.text.root, !.pred = ref,
        !.evidence = ref.text.evidence, !.transition = ref.text.transition,
        !.scopes = [i \in DOMAIN @ |->
                      LET source == ref.text.scopes[Inherited(@[i], ref.text)] IN
                      [@[i] EXCEPT !.def = source.def, !.digest = source.digest]]]

\* What an author may have written where the scaffold has v.
Agrees(written, v) == written \in {Omitted, v}

\* What the scaffold refuses: a predecessor that ends the work, a scope it does
\* not have, any other value for what is inherited, and what render refuses.
Scaffolds(draft, ref) ==
    LET before == ref.text IN
    /\ before.type = "continuation"
    /\ Agrees(draft.auth, before.auth) /\ Agrees(draft.root, before.root)
    /\ Agrees(draft.evidence, before.evidence) /\ Agrees(draft.transition, before.transition)
    /\ \A i \in DOMAIN draft.scopes :
         \E j \in DOMAIN before.scopes :
            /\ before.scopes[j].id = draft.scopes[i].id
            /\ Agrees(draft.scopes[i].def, before.scopes[j].def)
            /\ Agrees(draft.scopes[i].digest, before.scopes[j].digest)
    /\ Valid(Scaffold(draft, ref))

-----------------------------------------------------------------------------
(* The chains of the registry. grant is the approval the next record must     *)
(* publish, record the reference of the current one.                          *)

NoChain == [status |-> "none", root |-> Nothing, scopes |-> <<>>, record |-> Nothing,
            grant |-> Nothing]

Opened(a, record, grant) ==
    [status |-> "active", root |-> Root(a), scopes |-> Registered[a], record |-> record,
     grant |-> grant]

\* The first record: that of the registered authority, following nothing.
AcceptedFirst(a, text) ==
    /\ text.pred = Nothing
    /\ text.auth = a /\ text.root = chains[a].root /\ Digests(text) = chains[a].scopes
    /\ text.evidence = [kind |-> "initial", of |-> a]
    /\ Valid(text)

Trusts(a, text, before) ==
    LET grant == chains[a].grant IN
    /\ grant # Nothing /\ before.auth = grant.from
    /\ text.auth = a /\ text.transition = grant

\* mutant of AcceptedNext: the record is held to its predecessor alone
AcceptedNextOfAny(a, text) ==
    /\ text.pred # Nothing
    /\ files[text.pred.path] = text.pred.text
    /\ Succeeds(text, text.pred.text, text.pred.path, a)
    /\ text.auth = a

\* A later record: the direct successor of the current one, which can be read.
AcceptedNext(a, text) ==
    LET chain == chains[a]   before == text.pred.text
        trusted == Trusts(a, text, before)
    IN /\ text.pred # Nothing
       /\ files[text.pred.path] = before
       /\ chain.grant # Nothing => trusted
       /\ text.pred = chain.record
       /\ before.auth = IF trusted THEN chain.grant.from ELSE a
       /\ text.root = chain.root /\ text.auth = a
       /\ Digests(before) = IF trusted THEN Registered[chain.grant.from] ELSE chain.scopes
       /\ Digests(text) = chain.scopes
       /\ Succeeds(text, before, text.pred.path, IF trusted THEN a ELSE Nothing)

Accepted(a, text) ==
    /\ chains[a].status = "active"
    /\ IF chains[a].record = Nothing THEN AcceptedFirst(a, text) ELSE AcceptedNext(a, text)

\* The chain as the accepted record has it.
Advanced(a, path, text) ==
    [chains[a] EXCEPT !.record = [path |-> path, text |-> text], !.scopes = Digests(text),
                      !.root = text.root,
                      !.status = IF text.type = "audit" THEN "complete" ELSE "active"]

\* mutant of NextChain: the approval stays open
NextChainOpen(a, path, text) == Advanced(a, path, text)

\* The approval is used up by the record that publishes it.
NextChain(a, path, text) == [Advanced(a, path, text) EXCEPT !.grant = Nothing]

-----------------------------------------------------------------------------
(* The steps. *)

Active(a) == chains[a].status = "active"

\* A user authorizes new work, of one scope, unless the same is already active.
Register(a) ==
    /\ chains[a] = NoChain /\ Len(Registered[a]) = 1
    /\ \A b \in Auths : Active(b) => chains[b].scopes[1] # Registered[a][1]
    /\ chains' = [chains EXCEPT ![a] = Opened(a, Nothing, Nothing)]
    /\ UNCHANGED <<files, writing, published>>

\* The user approves that chain b takes over from chain a, with scopes below its root.
Approve(a, b) ==
    /\ Active(a) /\ chains[b] = NoChain
    /\ chains[a].record # Nothing /\ chains[a].grant = Nothing
    /\ chains' = [chains EXCEPT ![a].status = "superseded",
                                ![b] = Opened(b, chains[a].record, Transition(a, b))]
    /\ UNCHANGED <<files, writing, published>>

\* mutant of Protected: only the record of active work is protected
ProtectedActive(path) ==
    \E a \in Auths : Active(a) /\ chains[a].record # Nothing
                     /\ chains[a].record.text = files[path]

\* The file holds the current record of some chain, whatever its status.
Protected(path) ==
    \E a \in Auths : chains[a].record # Nothing /\ chains[a].record.text = files[path]

\* render looks at its target; at: what was published by then
RenderLook(s, path) ==
    /\ Len(published) < MaxRecords
    /\ writing[s] = Nothing /\ ~Protected(path)
    /\ writing' = [writing EXCEPT ![s] = [path |-> path, at |-> Len(published)]]
    /\ UNCHANGED <<chains, files, published>>

RenderWrite(s) ==
    /\ writing[s] # Nothing
    /\ files' = [files EXCEPT ![writing[s].path] = Draft]
    /\ writing' = [writing EXCEPT ![s] = Nothing]
    /\ UNCHANGED <<chains, published>>

\* What Stop accepts of all a path may be found to hold.
Acceptable(a, path) ==
    IF files[path] = Draft THEN
        UNION {{Following(page, ref) : page \in {p \in Pages : Accepted(a, Following(p, ref))}} :
                  ref \in References \cup {Nothing}}
    ELSE {text \in {files[path]} \ {Nothing} : Accepted(a, text)}

\* A Stop that offers the record at a path: publication, or nothing happens.
Stop(a, path) ==
    /\ Len(published) < MaxRecords
    /\ \E text \in Acceptable(a, path) :
         /\ files' = [files EXCEPT ![path] = text]
         /\ chains' = [chains EXCEPT ![a] = NextChain(a, path, text)]
         /\ published' = Append(published, [auth |-> a, text |-> text])
    /\ UNCHANGED writing

Init ==
    /\ chains = [a \in Auths |-> NoChain]
    /\ files = [path \in Paths |-> Nothing]
    /\ writing = [s \in Sessions |-> Nothing]
    /\ published = <<>>

Next ==
    \/ \E a \in Auths : Register(a)
    \/ \E a, b \in Auths : Approve(a, b)
    \/ \E s \in Sessions, path \in Paths : RenderLook(s, path)
    \/ \E s \in Sessions : RenderWrite(s)
    \/ \E a \in Auths, path \in Paths : Stop(a, path)

Spec == Init /\ [][Next]_vars

-----------------------------------------------------------------------------
(* Properties *)

\* When work is declared complete nothing of it is left: an accepted audit has
\* no scope, however deep, with work or code remaining.
AuditsLeaveNothing ==
    \A i \in DOMAIN published :
        published[i].text.type = "audit" =>
            \A n \in DOMAIN published[i].text.scopes :
                LET s == published[i].text.scopes[n] IN ~s.work /\ ~s.code

Latest(i, a) ==
    {j \in 1..(i - 1) : published[j].auth = a /\ ~\E k \in (j + 1)..(i - 1) : published[k].auth = a}

\* The scopes a user authorized are what every record of the work carries, in
\* order and unaltered, however many records, sessions and drafts lie between:
\* no record adds, drops or rewrites a scope on its own authority.
ScopesAreLocked ==
    \A i \in DOMAIN published :
        LET a == published[i].auth   text == published[i].text IN
        /\ text.auth = a /\ text.root = Root(a)
        /\ Definitions(text) = Registered[a]

\* The records of a chain form one line. Each follows the one published before it
\* in the chain; the first follows nothing, or the last one of the chain it took
\* over, with the one transition record of the line.
RecordsFormALine ==
    \A i \in DOMAIN published :
        LET a == published[i].auth   text == published[i].text IN
        IF Latest(i, a) # {} THEN
            /\ text.transition = Nothing
            /\ \A j \in Latest(i, a) : text.pred.text = published[j].text
        ELSE
            \/ text.pred = Nothing /\ text.transition = Nothing
            \/ \E b \in Auths :
                 /\ text.transition = Transition(b, a) /\ chains[b].status = "superseded"
                 /\ \E j \in DOMAIN published :
                      /\ published[j].auth = b /\ text.pred.text = published[j].text
                      /\ \A k \in DOMAIN published : published[k].auth = b => k <= j

Holds(a) == chains[a].record # Nothing /\ files[chains[a].record.path] = chains[a].record.text

\* Rendering destroys the current record of a chain, complete or superseded ones
\* included, only in the window the guard leaves: the record was published
\* between the look at the file and the write to it.
CurrentRecordsKept ==
    [][\A a \in Auths :
          Holds(a) /\ files'[chains[a].record.path] # chains[a].record.text =>
              \E s \in Sessions :
                  /\ writing[s] # Nothing /\ writing[s].path = chains[a].record.path
                  /\ \E i \in (writing[s].at + 1)..Len(published) :
                       published[i].text = chains[a].record.text]_vars

\* The many checks of Stop never contradict each other: as long as the current
\* record of active work can be read, any record of that work with a new identifier
\* that follows it, and carries the open approval if there is one, is accepted.
ChainsCanContinue ==
    \A a \in Auths :
        Active(a) /\ (chains[a].record = Nothing \/ Holds(a)) =>
            \A page \in Pages :
                /\ page.auth = a /\ page.root = Root(a) /\ Definitions(page) = Registered[a]
                /\ page.transition = chains[a].grant
                /\ page.evidence.of = a
                /\ chains[a].record # Nothing => page.id # chains[a].record.text.id
                => Accepted(a, Following(page, chains[a].record))

\* What an author may hand to a scaffold: a record of its own, with the scopes of
\* the predecessor in their order; what is inherited is written, or all left out.
Drafts(before) ==
    LET written ==
            {page \in Pages :
                /\ page.id # before.id
                /\ [i \in DOMAIN page.scopes |-> page.scopes[i].id]
                     = [i \in DOMAIN before.scopes |-> before.scopes[i].id]}
    IN written \cup
       {[page EXCEPT !.auth = Omitted, !.root = Omitted, !.evidence = Omitted,
                     !.transition = Omitted,
                     !.scopes = [i \in DOMAIN @ |->
                                   [@[i] EXCEPT !.def = Omitted, !.digest = Omitted]]] :
           page \in written}

ScaffoldAccepted(a) ==
    \A draft \in Drafts(chains[a].record.text) :
        Scaffolds(draft, chains[a].record) => Accepted(a, Scaffold(draft, chains[a].record))

\* A scaffold of the current record, with a new identifier and the scopes in their
\* order, is a record Stop accepts whenever render makes it: no check of the
\* successor trips over what the scaffold copies. Of a record that publishes a
\* transition this does not hold.
OrdinaryScaffoldsContinue ==
    \A a \in Auths :
        Active(a) /\ Holds(a) /\ chains[a].grant = Nothing
        /\ chains[a].record.text.transition = Nothing => ScaffoldAccepted(a)

\* The same of every current record, as the source and mechanics.md have it: the
\* scaffold copies the lineage a successor never chooses.
ScaffoldsContinue ==
    \A a \in Auths :
        Active(a) /\ Holds(a) /\ chains[a].grant = Nothing => ScaffoldAccepted(a)
=============================================================================
