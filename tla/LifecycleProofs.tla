-------------------------- MODULE LifecycleProofs --------------------------
(***************************************************************************)
(* What hooks and commands do to the registry, for any number of sessions, *)
(* chains, roots, turns and records, and however hooks interleave, are     *)
(* killed or fail to write.  Every write is one the registry's own theorems*)
(* speak of; a hook writes only from what it read and is still so.         *)
(***************************************************************************)
EXTENDS Lifecycle, TLAPS

Proved == INSTANCE RegistryProofs WITH Records <- 1..MaxRecords, NoRecord <- 0,
                                       Revisions <- Nat, ChainRevisions <- Nat

-----------------------------------------------------------------------------
(* The registry that hooks write is the one RegistryProofs speaks of. *)

\* The rest of a session and the re-entries are what the registry assumes.
LEMMA RegistryAssumed == Proved!RegistryAssumption
<1>1. Rest0 \in Rest BY DEF Rest0, Rest, Circuit
<1> QED BY <1>1, LifecycleAssumption DEF Proved!RegistryAssumption, Reentries

LEMMA SameValues ==
    /\ Reg!SessionStates = Proved!SessionStates
    /\ Reg!ChainStates = Proved!ChainStates
    /\ Reg!NoChain = Proved!NoChain
    /\ \A s : Reg!SessionValid(s) <=> Proved!SessionValid(s)
    /\ \A c : Reg!ChainValid(c) <=> Proved!ChainValid(c)
BY DEF Reg!SessionStates, Proved!SessionStates, Reg!ChainStates, Proved!ChainStates,
       Reg!NoChain, Proved!NoChain, Reg!SessionValid, Proved!SessionValid,
       Reg!ChainValid, Proved!ChainValid, Reg!Modes, Proved!Modes

LEMMA SameCall ==
    ASSUME NEW k, NEW s, NEW c
    PROVE  /\ Reg!Current(k) = Proved!Current(k)
           /\ Reg!Reentry(k, s, c) <=> Proved!Reentry(k, s, c)
           /\ Reg!Supersedes(k, s, c) <=> Proved!Supersedes(k, s, c)
           /\ Reg!NewChains(k, s, c) = Proved!NewChains(k, s, c)
           /\ Reg!NewSessions(k, s, c) = Proved!NewSessions(k, s, c)
<1>1. /\ Reg!Current(k) = Proved!Current(k)
      /\ Reg!Reentry(k, s, c) <=> Proved!Reentry(k, s, c)
      /\ Reg!Supersedes(k, s, c) <=> Proved!Supersedes(k, s, c)
  BY DEF Reg!Current, Proved!Current, Reg!ChainAt, Proved!ChainAt, Reg!NoChain,
         Proved!NoChain, Reg!Reentry, Proved!Reentry, Reg!Supersedes, Proved!Supersedes
<1>2. Reg!NewChains(k, s, c) = Proved!NewChains(k, s, c)
  BY <1>1, SameValues
     DEF Reg!NewChains, Proved!NewChains, Reg!SupersededBy, Proved!SupersededBy
<1>3. Reg!NewSessions(k, s, c) = Proved!NewSessions(k, s, c)
  BY <1>1 DEF Reg!NewSessions, Proved!NewSessions, Reg!Moved, Proved!Moved
<1> QED BY <1>1, <1>2, <1>3

LEMMA SameRules ==
    ASSUME NEW k, NEW s, NEW c
    PROVE  /\ Reg!Rules(k, s, c) <=> Proved!Rules(k, s, c)
           /\ Reg!Valid(k, s, c) <=> Proved!Valid(k, s, c)
           /\ Reg!Write(k, s, c) <=> Proved!Write(k, s, c)
<1>1. Reg!SessionAdvances(k, s.rev) <=> Proved!SessionAdvances(k, s.rev)
  BY DEF Reg!SessionAdvances, Proved!SessionAdvances
<1>2. Reg!ChainWriteAllowed(s.auth, c) <=> Proved!ChainWriteAllowed(s.auth, c)
  BY SameValues DEF Reg!ChainWriteAllowed, Proved!ChainWriteAllowed, Reg!EvidenceKept,
                    Proved!EvidenceKept
<1>3. Reg!StaysTracked(k, s, c) <=> Proved!StaysTracked(k, s, c)
  BY SameCall, SameValues DEF Reg!StaysTracked, Proved!StaysTracked
<1>4. Reg!TransitionAllowed(k, s, c) <=> Proved!TransitionAllowed(k, s, c)
  BY SameCall, SameValues DEF Reg!TransitionAllowed, Proved!TransitionAllowed
<1>5. Reg!JoinAllowed(k, s, c) <=> Proved!JoinAllowed(k, s, c)
  BY SameCall, SameValues DEF Reg!JoinAllowed, Proved!JoinAllowed
<1>6. Reg!Reconciled(k, s, c) <=> Proved!Reconciled(k, s, c)
  BY SameCall DEF Reg!Reconciled, Proved!Reconciled
<1>7. Reg!CompletionReleases(k, s, c) <=> Proved!CompletionReleases(k, s, c)
  BY SameCall DEF Reg!CompletionReleases, Proved!CompletionReleases
<1>8. Reg!Rules(k, s, c) <=> Proved!Rules(k, s, c)
  BY <1>1, <1>2, <1>3, <1>4, <1>5, <1>6, <1>7
     DEF Reg!Rules, Proved!Rules, Reg!Admitted, Proved!Admitted
<1>9. Reg!Valid(k, s, c) <=> Proved!Valid(k, s, c)
  BY SameCall
     DEF Reg!Valid, Proved!Valid, Reg!Envelope, Proved!Envelope, Reg!HoldsCurrentChain,
         Proved!HoldsCurrentChain, Reg!SuccessorsKnown, Proved!SuccessorsKnown,
         Reg!ActiveRootsUnique, Proved!ActiveRootsUnique, Reg!SuccessorsAcyclic,
         Proved!SuccessorsAcyclic
<1> QED BY <1>8, <1>9, SameCall DEF Reg!Write, Proved!Write

\* The registry's own invariant, as RegistryProofs states it.
RegInv == Reg!TypeOK /\ Reg!EnvelopeHeld /\ Reg!FinishedReleases

LEMMA SameInvariant == (RegInv <=> Proved!IInv) /\ (Reg!TypeOK <=> Proved!TypeOK)
<1>1. Reg!TypeOK <=> Proved!TypeOK
  BY SameValues DEF Reg!TypeOK, Proved!TypeOK
<1>2. Reg!EnvelopeHeld <=> Proved!EnvelopeHeld
  BY DEF Reg!EnvelopeHeld, Proved!EnvelopeHeld, Reg!Envelope, Proved!Envelope,
         Reg!HoldsCurrentChain, Proved!HoldsCurrentChain, Reg!SuccessorsKnown,
         Proved!SuccessorsKnown, Reg!ActiveRootsUnique, Proved!ActiveRootsUnique,
         Reg!SuccessorsAcyclic, Proved!SuccessorsAcyclic
<1>3. Reg!FinishedReleases <=> Proved!FinishedReleases
  BY SameValues DEF Reg!FinishedReleases, Proved!FinishedReleases, Reg!ChainAt,
                    Proved!ChainAt
<1> QED BY <1>1, <1>2, <1>3 DEF RegInv, Proved!IInv

-----------------------------------------------------------------------------
(* A write of the registry, and what it leaves behind. *)

\* A session and a chain that the constructors accept.
GoodInput(k, s, c) ==
    /\ k \in Sessions
    /\ s \in Reg!SessionStates /\ Reg!SessionValid(s)
    /\ c \in Reg!ChainStates \cup {Reg!NoChain} /\ Reg!ChainValid(c)

MadeBy(k, s, c) == GoodInput(k, s, c) /\ Reg!Write(k, s, c)

LEMMA MadeIsProved ==
    ASSUME NEW k, NEW s, NEW c, MadeBy(k, s, c)
    PROVE  Proved!GoodCall(k, s, c) /\ Proved!Write(k, s, c)
BY SameValues, SameRules DEF MadeBy, GoodInput, Proved!GoodCall, Reg!Write

LEMMA WriteKeepsRegistry ==
    ASSUME RegInv, NEW k, NEW s, NEW c, MadeBy(k, s, c)
    PROVE  RegInv'
<1>1. Proved!IInv /\ Proved!TypeOK BY SameInvariant DEF Proved!IInv
<1>2. Proved!GoodCall(k, s, c) /\ Proved!Write(k, s, c) BY MadeIsProved
<1>3. Proved!TypeOK' BY <1>1, <1>2, RegistryAssumed, Proved!WriteType
<1>4. Proved!FinishedReleases' BY <1>1, <1>2, RegistryAssumed, Proved!WriteReleases
<1>5. Proved!EnvelopeHeld'
  BY <1>2 DEF Proved!Write, Proved!Valid, Proved!EnvelopeHeld
<1>6. Proved!IInv' BY <1>3, <1>4, <1>5 DEF Proved!IInv
<1>7. RegInv' <=> Proved!IInv' BY SameInvariant, PTL
<1> QED BY <1>6, <1>7

\* What a write does to another session: nothing, or it moves it to a successor.
MovedTo(p, q, s, c) ==
    /\ p.auth \in Auths /\ q.auth = s.auth /\ s.auth \in Auths
    /\ q.rev = p.rev + 1 /\ q.mode = p.mode /\ q.rest = p.rest /\ q.crev = c.rev
    /\ chains[p.auth].status = "active" /\ chains'[p.auth].status = "superseded"

LEMMA SessionsAfterWrite ==
    ASSUME RegInv, NEW k, NEW s, NEW c, MadeBy(k, s, c)
    PROVE  /\ sessions'[k] = s
           /\ \A j \in Sessions \ {k} :
                sessions'[j] = sessions[j] \/ MovedTo(sessions[j], sessions'[j], s, c)
<1>1. Proved!IInv /\ Proved!TypeOK BY SameInvariant DEF Proved!IInv
<1>2. Proved!GoodCall(k, s, c) /\ Proved!Write(k, s, c) BY MadeIsProved
<1>3. sessions'[k] = s
  BY <1>2, RegistryAssumed, Proved!SessionAfterWrite DEF Proved!GoodCall
<1>4. ASSUME NEW j \in Sessions \ {k}, sessions'[j] # sessions[j]
      PROVE  MovedTo(sessions[j], sessions'[j], s, c)
  <2>1. /\ sessions[j].auth \in Auths
        /\ chains[sessions[j].auth].status = "active"
        /\ chains'[sessions[j].auth].status = "superseded"
        /\ s.auth \in Auths /\ c.rev \in Nat
        /\ sessions'[j] = Proved!Moved(sessions[j], s.auth, c.rev)
    BY <1>1, <1>2, <1>4, RegistryAssumed, Proved!PeerChange
  <2>2. sessions[j] \in Proved!SessionStates BY <1>1 DEF Proved!TypeOK
  <2> QED BY <2>1, <2>2, RegistryAssumed, Proved!MovedFields DEF MovedTo
<1> QED BY <1>3, <1>4

\* What a write does to a chain: it supersedes it, writes it or leaves it.
Replaced(k, s, a) ==
    /\ chains[a].status = "active" /\ ~chains[a].evidence
    /\ chains'[a].status = "superseded" /\ chains'[a].succ = s.auth
    /\ chains'[a].rev = chains[a].rev + 1
    /\ chains'[a].record = chains[a].record
    /\ a = sessions[k].auth /\ a # s.auth /\ s.auth \in Auths
    /\ chains[s.auth] = Reg!NoChain

Rewritten(s, c, a) ==
    /\ a = s.auth /\ chains'[a] = c /\ c \in Reg!ChainStates
    /\ c.status \in {"active", "complete"}
    /\ chains[a] # Reg!NoChain => chains[a].status = "active" /\ c.root = chains[a].root
    /\ c = chains[a] \/ c.rev = chains[a].rev + 1

LEMMA ChainsAfterWrite ==
    ASSUME RegInv, NEW k, NEW s, NEW c, MadeBy(k, s, c), NEW a \in Auths
    PROVE  \/ Replaced(k, s, a) /\ Reg!Supersedes(k, s, c)
           \/ Rewritten(s, c, a) /\ c # Reg!NoChain
           \/ chains'[a] = chains[a] /\ (a = s.auth => c = Reg!NoChain)
<1>1. Proved!IInv /\ Proved!TypeOK BY SameInvariant DEF Proved!IInv
<1>2. Proved!GoodCall(k, s, c) /\ Proved!Write(k, s, c) BY MadeIsProved
<1>3. CASE Proved!IsSuperseded(k, s, c, a)
  <2>1. /\ a = sessions[k].auth /\ s.auth \in Auths /\ a # s.auth
        /\ chains[a].status = "active" /\ ~chains[a].evidence
        /\ chains[s.auth] = Proved!NoChain
    BY <1>1, <1>2, <1>3, RegistryAssumed, Proved!SupersedesFacts
       DEF Proved!IsSuperseded
  <2>2. chains[a] \in Proved!ChainStates
    BY <1>1, <2>1 DEF Proved!TypeOK, Proved!NoChain
  <2>3. chains'[a] = Proved!SupersededBy(chains[a], s.auth)
    BY <1>2, <1>3, RegistryAssumed, Proved!ChainAfterWrite
  <2>4. Reg!Supersedes(k, s, c) BY <1>3, SameCall DEF Proved!IsSuperseded
  <2> QED BY <2>1, <2>2, <2>3, <2>4, RegistryAssumed, Proved!SupersededFields, SameValues
          DEF Replaced
<1>4. CASE Proved!IsWritten(k, s, c, a)
  <2>1. chains'[a] = c BY <1>2, <1>4, RegistryAssumed, Proved!ChainAfterWrite
  <2>2. /\ a = s.auth /\ c \in Proved!ChainStates /\ c.status \in {"active", "complete"}
        /\ chains[a] # Proved!NoChain =>
             /\ chains[a].status = "active"
             /\ c.root = chains[a].root
             /\ c = chains[a] \/ c.rev = chains[a].rev + 1
        /\ chains[a] = Proved!NoChain => c.rev = 1
    BY <1>1, <1>2, <1>4, RegistryAssumed, Proved!WrittenFacts
  <2>3. chains[a] = Proved!NoChain => c.rev = chains[a].rev + 1
    BY <2>2 DEF Proved!NoChain
  <2> QED BY <1>4, <2>1, <2>2, <2>3, SameValues DEF Rewritten, Proved!IsWritten
<1>5. CASE ~Proved!IsSuperseded(k, s, c, a) /\ ~Proved!IsWritten(k, s, c, a)
  BY <1>2, <1>5, RegistryAssumed, Proved!ChainAfterWrite, SameValues
     DEF Proved!IsWritten
<1> QED BY <1>3, <1>4, <1>5

\* A call that the registry answers with "ok" is a write by a caller that read
\* the live revisions.
LEMMA OkIsWrite ==
    ASSUME NEW k, NEW s, NEW c, NEW chainRev, NEW sessionRev
    PROVE  Reg!Outcome(k, s, c, chainRev, sessionRev) = "ok" <=>
             /\ Reg!Fresh(k, s, chainRev, sessionRev)
             /\ Reg!Rules(k, s, c) /\ Reg!Valid(k, s, c)
BY DEF Reg!Outcome, Reg!Rules

\* A call is stale when what it read is not live, or its session is not level
\* with the chain it leaves.
LEMMA StaleOutcome ==
    ASSUME NEW k, NEW s, NEW c, NEW chainRev, NEW sessionRev,
           Reg!Outcome(k, s, c, chainRev, sessionRev) = "stale"
    PROVE  ~Reg!Fresh(k, s, chainRev, sessionRev) \/ ~Reg!Reconciled(k, s, c)
BY DEF Reg!Outcome

LEMMA RefusedOutcome ==
    ASSUME NEW k, NEW s, NEW c, NEW chainRev, NEW sessionRev,
           Reg!Outcome(k, s, c, chainRev, sessionRev) = "refused"
    PROVE  Reg!Fresh(k, s, chainRev, sessionRev)
           /\ ~(Reg!Rules(k, s, c) /\ Reg!Valid(k, s, c))
BY DEF Reg!Outcome, Reg!Rules

\* What hooks write is a step of the registry: no caller names a successor.
LEMMA WriteIsRegistryStep ==
    ASSUME NEW k, NEW s, NEW c, MadeBy(k, s, c)
    PROVE  Reg!Next
<1>1. /\ k \in Sessions /\ s.rev \in Nat /\ s.auth \in Auths \cup {NoAuth}
      /\ Reg!SessionAdvances(k, s.rev) /\ Reg!ChainWriteAllowed(s.auth, c)
  BY DEF MadeBy, GoodInput, Reg!SessionStates, Reg!Write, Reg!Rules, Reg!Admitted
<1>2. s \in Reg!SessionInputs(s.rev, s.auth)
  BY DEF MadeBy, GoodInput, Reg!SessionStates, Reg!SessionInputs
<1>3. c \in Reg!ChainInputs
  <2>1. CASE c = Reg!NoChain BY <2>1 DEF Reg!ChainInputs
  <2>2. CASE c # Reg!NoChain
    <3>1. c \in Reg!ChainStates /\ c.status # "superseded" /\ s.auth \in Auths
      BY <1>1, <2>2 DEF MadeBy, GoodInput, Reg!ChainWriteAllowed
    <3>2. Reg!SuccessorsKnown(Reg!NewChains(k, s, c))
      BY DEF MadeBy, Reg!Write, Reg!Valid, Reg!Envelope
    <3>3. Reg!NewChains(k, s, c)[s.auth] = c
      BY <2>2, <3>1 DEF Reg!NewChains, Reg!Supersedes
    <3>4. c.succ = NoAuth BY <3>1, <3>2, <3>3 DEF Reg!SuccessorsKnown
    <3> QED BY <3>1, <3>4 DEF MadeBy, GoodInput, Reg!ChainInputs, Reg!ChainStates
  <2> QED BY <2>1, <2>2
<1>4. Reg!Write(k, s, c) BY DEF MadeBy
<1> QED BY <1>1, <1>2, <1>3, <1>4 DEF Reg!Next, Reg!WriteBy

-----------------------------------------------------------------------------
(* The invariant: what a running hook has read and where it stands, for the *)
(* session s it serves, the chains ch, the turn t last delivered to the     *)
(* session and n published records.                                        *)

Events == [say : Words \cup {"stray"}, arg : Roots \cup Nat, turn : Nat, host : BOOLEAN]
Offers == [form : Forms, auth : Auths \cup {NoAuth}, pred : Nat]
Verdicts == {"wait", "reply", "decision", "counted", "uncounted"} \cup RecordForms

IdleHooks ==
    [pc : {"idle"},
     said : {"none", "killed", "allow", "block", "policy", "unrecorded", "advisory"}]
PromptHooks == [pc : PromptSteps, event : Events, snap : Snapshots]
RefreshHooks ==
    [pc : {"refresh"}, snap : Snapshots, behind : BOOLEAN, event : Offers]
PublishHooks ==
    [pc : {"publish", "catchup"}, snap : Snapshots, behind : BOOLEAN, retry : BOOLEAN,
     verdict : Verdicts, pred : Nat]

\* What was read is a value of its kind, is no newer than the registry, and is
\* what the registry holds as long as the revisions are.
SnapFits(snap, s, ch) ==
    /\ snap \in Snapshots
    /\ Reg!SessionValid(snap.session) /\ Reg!ChainValid(snap.chain)
    /\ snap.chain = Reg!NoChain <=> snap.session.auth = NoAuth
    /\ snap.session.rev <= s.rev
    /\ snap.session.rev = s.rev => snap.session = s
    /\ snap.session.auth # NoAuth =>
         /\ snap.chain.rev <= ch[snap.session.auth].rev
         /\ snap.chain.rev = ch[snap.session.auth].rev => snap.chain = ch[snap.session.auth]

IsLive(snap, s, ch) ==
    snap.session = s /\ (s.auth # NoAuth => snap.chain = ch[s.auth])

Level(snap) == snap.session.crev = snap.chain.rev

\* A user's prompt is the last turn delivered; the host's says nothing.
EventFits(e, t, n) ==
    /\ e \in Events
    /\ IF e.host THEN e.say = "task" ELSE e.turn = t /\ t > 0
    /\ e.say = "track" => e.arg \in Roots
    /\ e.say = "continue" => e.arg \in 1..n

\* Before the turn is recorded, and after.
Early == {"reconcile", "echo", "reenter"}
Late == {"clear", "answer", "track", "join", "continue"}

Unseen(snap, e) == snap.session.rest.turn < e.turn
Seen(snap, e) == snap.session.rest.turn = e.turn /\ snap.session.rest.count = 0

\* Where the prompt hook stands follows from what it has read; while that is
\* live, and no write failed, it is reconciled before the turn is recorded.
StepFits(pc, snap, e) ==
    /\ e.host => pc \in {"reconcile", "observe", "mark"}
    /\ pc = "reconcile" => NeedsReconcile(snap)
    /\ pc \in Early /\ ~e.host => Unseen(snap, e)
    /\ pc = "reenter" => snap.session.mode = "complete"
    /\ pc = "observe" => snap.session.mode # "complete"
    /\ pc = "observe" /\ ~e.host => Unseen(snap, e) \/ Seen(snap, e)
    /\ pc \in Late => Seen(snap, e)
    /\ pc = "answer" => e.say \in {"yes", "no"}
    /\ pc \in {"track", "join"} => e.say = "track" /\ snap.session.mode = "ungated"
    /\ pc = "continue" => e.say = "continue" /\ snap.session.mode = "ungated"

PromptFits(h, s, ch, t, n) ==
    /\ h \in PromptHooks
    /\ SnapFits(h.snap, s, ch) /\ EventFits(h.event, t, n)
    /\ StepFits(h.pc, h.snap, h.event)
    /\ ~StorageFails /\ IsLive(h.snap, s, ch) /\ h.pc \in {"echo", "reenter", "observe"}
         => ~NeedsReconcile(h.snap)

\* A verdict is of the snapshot it was judged by: only a session level with its
\* chain is counted against or lets its record through; one that a peer overtook
\* is counted against only where that arms the circuit.
VerdictFits(h) ==
    LET s == h.snap.session IN
    /\ h.verdict = "counted" =>
         \/ s.rest.count >= Circuit
         \/ IF h.retry /\ h.behind THEN CountAfter(s) = Circuit ELSE Level(h.snap)
    /\ h.verdict \notin {"counted", "uncounted"} => s.rest.count < Circuit /\ Level(h.snap)
    /\ h.verdict = "decision" => s.mode = "awaiting"
    /\ h.verdict \in {"wait", "reply"} \cup RecordForms => s.mode = "tracked"
    /\ h.verdict \in RecordForms => h.pred = h.snap.chain.record

StopFits(h, s, ch) ==
    /\ h \in RefreshHooks \cup PublishHooks
    /\ SnapFits(h.snap, s, ch)
    /\ h.pc \in {"refresh", "catchup"} => PeerAdvanced(h.snap)
    /\ h.pc = "refresh" => h.behind /\ h.snap.session.rest.count < Circuit
    /\ h.pc = "catchup" => h.verdict = "uncounted" /\ ~h.retry
    /\ h.pc = "publish" => VerdictFits(h)
    /\ ~StorageFails /\ IsLive(h.snap, s, ch) /\ h.pc = "publish"
         => (h.verdict = "uncounted" \/ (h.retry /\ h.behind) => Level(h.snap))

HookFits(h, s, ch, t, n) ==
    h \in IdleHooks \/ PromptFits(h, s, ch, t, n) \/ StopFits(h, s, ch)

\* A completed session is level with its chain, which is frozen.
CompleteLevel ==
    \A k \in Sessions :
        sessions[k].mode = "complete" => sessions[k].crev = chains[sessions[k].auth].rev

Published == [auth : Auths, pred : 0..MaxRecords, audit : BOOLEAN]

HookInv ==
    /\ RegInv /\ CompleteLevel
    /\ hook = [k \in Sessions |-> hook[k]]
    /\ \A k \in Sessions :
         /\ HookFits(hook[k], sessions[k], chains, turns[k], Len(published))
         /\ sessions[k].rest.turn <= turns[k]
    /\ turns \in [Sessions -> Nat]
    /\ published \in Seq(Published) /\ Len(published) <= MaxRecords

-----------------------------------------------------------------------------
(* Snapshots *)

LEMMA SnapFields ==
    ASSUME NEW snap \in Snapshots
    PROVE  /\ snap.session \in Reg!SessionStates
           /\ snap.chain \in Reg!ChainStates \cup {Reg!NoChain}
           /\ snap = [session |-> snap.session, chain |-> snap.chain]
           /\ snap.chain.rev \in Nat
BY DEF Snapshots, Reg!ChainStates, Reg!NoChain

LEMMA SessionFields ==
    ASSUME NEW s \in Reg!SessionStates
    PROVE  /\ s.rev \in Nat /\ s.crev \in Nat /\ s.auth \in Auths \cup {NoAuth}
           /\ s.mode \in {"ungated", "tracked", "awaiting", "complete"}
           /\ s.decision \in Auths \cup {NoAuth}
           /\ s.proposal \in Proposals \cup {NoProposal}
           /\ s.rest \in Rest
           /\ s.rest.turn \in Nat /\ s.rest.count \in 0..3
           /\ s.rest.echo \in BOOLEAN /\ s.rest.origin \in {"none", "user", "host"}
BY DEF Reg!SessionStates, Reg!Modes, Rest, Circuit

LEMMA ChainFields ==
    ASSUME NEW c \in Reg!ChainStates
    PROVE  /\ c.status \in {"active", "complete", "superseded"} /\ c.root \in Roots
           /\ c.rev \in Nat /\ c.record \in 0..MaxRecords
           /\ c.succ \in Auths \cup {NoAuth} /\ c.evidence \in BOOLEAN /\ c.tag \in Tags
BY LifecycleAssumption DEF Reg!ChainStates

LEMMA RegistryFields ==
    ASSUME RegInv
    PROVE  /\ \A k \in Sessions :
                /\ sessions[k] \in Reg!SessionStates /\ Reg!SessionValid(sessions[k])
                /\ Reg!HoldsCurrentChain(chains, sessions[k])
                /\ sessions[k].auth # NoAuth =>
                     /\ sessions[k].auth \in Auths
                     /\ chains[sessions[k].auth] \in Reg!ChainStates
                     /\ chains[sessions[k].auth].status \in {"active", "complete"}
           /\ \A a \in Auths :
                /\ chains[a] \in Reg!ChainStates \cup {Reg!NoChain}
                /\ Reg!ChainValid(chains[a])
                /\ chains[a].rev \in Nat
           /\ sessions = [k \in Sessions |-> sessions[k]]
           /\ chains = [a \in Auths |-> chains[a]]
<1>1. Reg!TypeOK /\ Reg!EnvelopeHeld BY DEF RegInv
<1>2. \A a \in Auths :
        /\ chains[a] \in Reg!ChainStates \cup {Reg!NoChain}
        /\ Reg!ChainValid(chains[a])
  BY <1>1 DEF Reg!TypeOK
<1>3. \A a \in Auths : chains[a].rev \in Nat
  BY <1>2 DEF Reg!ChainStates, Reg!NoChain
<1>4. \A k \in Sessions :
        /\ sessions[k] \in Reg!SessionStates /\ Reg!SessionValid(sessions[k])
        /\ Reg!HoldsCurrentChain(chains, sessions[k])
  BY <1>1 DEF Reg!TypeOK, Reg!EnvelopeHeld, Reg!Envelope
<1>5. ASSUME NEW k \in Sessions, sessions[k].auth # NoAuth
      PROVE  /\ sessions[k].auth \in Auths
             /\ chains[sessions[k].auth] \in Reg!ChainStates
             /\ chains[sessions[k].auth].status \in {"active", "complete"}
  <2>1. sessions[k].auth \in Auths BY <1>4, <1>5, SessionFields
  <2>2. chains[sessions[k].auth].status \in {"active", "complete"}
    BY <1>4, <1>5 DEF Reg!HoldsCurrentChain
  <2> QED BY <1>2, <2>1, <2>2 DEF Reg!NoChain
<1>6. sessions = [k \in Sessions |-> sessions[k]] /\ chains = [a \in Auths |-> chains[a]]
  BY <1>1 DEF Reg!TypeOK
<1> QED BY <1>2, <1>3, <1>4, <1>5, <1>6

\* What a hook reads is live.
LEMMA SnapshotFits ==
    ASSUME RegInv, NEW k \in Sessions
    PROVE  /\ SnapFits(Snapshot(k), sessions[k], chains)
           /\ IsLive(Snapshot(k), sessions[k], chains)
           /\ Snapshot(k).session = sessions[k]
           /\ sessions[k].auth # NoAuth => Snapshot(k).chain = chains[sessions[k].auth]
           /\ sessions[k].auth = NoAuth => Snapshot(k).chain = Reg!NoChain
<1> PICK p : p = sessions[k] OBVIOUS
<1> PICK c : c = Reg!Current(k) OBVIOUS
<1>1. /\ p \in Reg!SessionStates /\ Reg!SessionValid(p) /\ p.rev \in Nat
      /\ p.auth # NoAuth => /\ p.auth \in Auths /\ chains[p.auth] \in Reg!ChainStates
                            /\ Reg!ChainValid(chains[p.auth])
  BY RegistryFields, SessionFields
<1>2. p.auth # NoAuth => c = chains[p.auth] BY DEF Reg!Current, Reg!ChainAt
<1>3. p.auth = NoAuth => c = Reg!NoChain BY DEF Reg!Current, Reg!ChainAt
<1>4. c \in Reg!ChainStates \cup {Reg!NoChain} /\ Reg!ChainValid(c)
      /\ (c = Reg!NoChain <=> p.auth = NoAuth)
  BY <1>1, <1>2, <1>3 DEF Reg!ChainStates, Reg!NoChain, Reg!ChainValid
<1>5. c.rev \in Nat BY <1>4 DEF Reg!ChainStates, Reg!NoChain
<1>6. Snapshot(k) = [session |-> p, chain |-> c] BY DEF Snapshot
<1> QED BY <1>1, <1>2, <1>3, <1>4, <1>5, <1>6 DEF SnapFits, IsLive, Snapshots

\* A caller whose revisions are live has read what is there.
LEMMA FreshIsLive ==
    ASSUME RegInv, NEW k \in Sessions, NEW snap, SnapFits(snap, sessions[k], chains),
           NEW s, Reg!Fresh(k, s, snap.chain.rev, snap.session.rev)
    PROVE  IsLive(snap, sessions[k], chains)
<1>1. snap.session = sessions[k] BY DEF Reg!Fresh, SnapFits
<1>2. CASE sessions[k].auth # NoAuth
  <2>1. Reg!Target(k, s) = chains[sessions[k].auth]
    BY <1>2 DEF Reg!Target, Reg!Current, Reg!ChainAt
  <2> QED BY <1>1, <1>2, <2>1 DEF Reg!Fresh, SnapFits, IsLive
<1> QED BY <1>1, <1>2 DEF IsLive

\* A value changes only with its revision.
LaterSession(p, q) == q = p \/ q.rev = p.rev + 1
LaterChains(ch, later) ==
    \A a \in Auths : later[a] = ch[a] \/ later[a].rev = ch[a].rev + 1

LEMMA RevisionsRise ==
    ASSUME RegInv, NEW k, NEW s, NEW c, MadeBy(k, s, c)
    PROVE  /\ \A j \in Sessions : LaterSession(sessions[j], sessions'[j])
           /\ LaterChains(chains, chains')
<1>1. s.rev = sessions[k].rev + 1
  BY DEF MadeBy, Reg!Write, Reg!Rules, Reg!Admitted, Reg!SessionAdvances
<1>2. \A j \in Sessions : LaterSession(sessions[j], sessions'[j])
  BY <1>1, SessionsAfterWrite DEF LaterSession, MovedTo
<1>3. LaterChains(chains, chains')
  BY ChainsAfterWrite DEF LaterChains, Replaced, Rewritten
<1> QED BY <1>2, <1>3

LEMMA SnapFitsLater ==
    ASSUME NEW snap, NEW p \in Reg!SessionStates, NEW q, NEW ch, NEW later,
           LaterSession(p, q), LaterChains(ch, later), \A a \in Auths : ch[a].rev \in Nat,
           SnapFits(snap, p, ch)
    PROVE  /\ SnapFits(snap, q, later)
           /\ IsLive(snap, q, later) => IsLive(snap, p, ch)
<1>1. /\ snap.session \in Reg!SessionStates /\ snap.session.rev \in Nat /\ p.rev \in Nat
      /\ snap.session.auth \in Auths \cup {NoAuth} /\ snap.chain.rev \in Nat
  BY SnapFields, SessionFields DEF SnapFits
<1>2. /\ snap.session.rev <= q.rev
      /\ snap.session.rev = q.rev => q = p /\ snap.session = q
  BY <1>1 DEF SnapFits, LaterSession
<1>3. ASSUME snap.session.auth # NoAuth
      PROVE  /\ snap.chain.rev <= later[snap.session.auth].rev
             /\ snap.chain.rev = later[snap.session.auth].rev =>
                   /\ later[snap.session.auth] = ch[snap.session.auth]
                   /\ snap.chain = later[snap.session.auth]
  <2> PICK a \in Auths : a = snap.session.auth BY <1>1, <1>3
  <2>1. ch[a].rev \in Nat /\ (later[a] = ch[a] \/ later[a].rev = ch[a].rev + 1)
    BY DEF LaterChains
  <2>2. snap.chain.rev <= ch[a].rev /\ (snap.chain.rev = ch[a].rev => snap.chain = ch[a])
    BY <1>3 DEF SnapFits
  <2> QED BY <1>1, <2>1, <2>2
<1>4. SnapFits(snap, q, later) BY <1>2, <1>3 DEF SnapFits
<1>5. ASSUME IsLive(snap, q, later) PROVE IsLive(snap, p, ch)
  BY <1>2, <1>3, <1>5 DEF IsLive
<1> QED BY <1>4, <1>5

LEMMA HookFitsLater ==
    ASSUME NEW h, NEW p \in Reg!SessionStates, NEW q, NEW ch, NEW later,
           LaterSession(p, q), LaterChains(ch, later), \A a \in Auths : ch[a].rev \in Nat,
           NEW t, NEW n \in Nat, NEW m \in Nat, n <= m, HookFits(h, p, ch, t, n)
    PROVE  HookFits(h, q, later, t, m)
<1>1. CASE h \in IdleHooks BY <1>1 DEF HookFits
<1>2. CASE PromptFits(h, p, ch, t, n)
  <2>1. SnapFits(h.snap, q, later) /\ (IsLive(h.snap, q, later) => IsLive(h.snap, p, ch))
    BY <1>2, SnapFitsLater DEF PromptFits
  <2>2. EventFits(h.event, t, m)
    <3>1. EventFits(h.event, t, n) BY <1>2 DEF PromptFits
    <3>2. 1..n \subseteq 1..m OBVIOUS
    <3> QED BY <3>1, <3>2 DEF EventFits
  <2> QED BY <1>2, <2>1, <2>2 DEF PromptFits, HookFits
<1>3. CASE StopFits(h, p, ch)
  <2>1. SnapFits(h.snap, q, later) /\ (IsLive(h.snap, q, later) => IsLive(h.snap, p, ch))
    BY <1>3, SnapFitsLater DEF StopFits
  <2> QED BY <1>3, <2>1 DEF StopFits, HookFits
<1> QED BY <1>1, <1>2, <1>3 DEF HookFits

SnapshotsLive ==
    \A j \in Sessions : /\ SnapFits(Snapshot(j), sessions[j], chains)
                        /\ IsLive(Snapshot(j), sessions[j], chains)

LEMMA SnapshotsFit == RegInv => SnapshotsLive
BY SnapshotFits DEF SnapshotsLive

\* What a hook goes on with after a successful write is what it left behind.
LEMMA WrittenFits ==
    ASSUME RegInv, NEW k, NEW s, NEW c, MadeBy(k, s, c)
    PROVE  /\ SnapFits(Written(k, s, c), sessions'[k], chains')
           /\ Written(k, s, c).session = s
           /\ IsLive(Written(k, s, c), sessions'[k], chains')
<1>1. k \in Sessions BY DEF MadeBy, GoodInput
<1>2. RegInv' BY WriteKeepsRegistry
<1>3. /\ SnapFits(Snapshot(k)', sessions'[k], chains')
      /\ IsLive(Snapshot(k)', sessions'[k], chains')
  <2>1. SnapshotsLive' BY <1>2, SnapshotsFit, PTL
  <2> QED BY <2>1, <1>1 DEF SnapshotsLive, SnapFits, IsLive
<1>4. sessions'[k] = s /\ chains' = Reg!NewChains(k, s, c)
  BY <1>1, SessionsAfterWrite DEF MadeBy, Reg!Write
<1>5. Written(k, s, c) = Snapshot(k)'
  BY <1>4 DEF Written, Snapshot, Reg!Current, Reg!ChainAt
<1>6. /\ SnapFits(Written(k, s, c), sessions'[k], chains')
      /\ IsLive(Written(k, s, c), sessions'[k], chains')
  BY <1>3, <1>5 DEF SnapFits, IsLive
<1> QED BY <1>4, <1>6 DEF Written

-----------------------------------------------------------------------------
(* Where a prompt hook goes next *)

LEMMA GotoIs ==
    ASSUME NEW x, NEW e, NEW y, NEW pc, NEW snap
    PROVE  /\ pc # "idle" => Goto([pc |-> x, event |-> e, snap |-> y], pc, snap)
                               = [pc |-> pc, event |-> e, snap |-> snap]
           /\ pc = "idle" => Goto([pc |-> x, event |-> e, snap |-> y], pc, snap) = Idle("none")
BY DEF Goto

LEMMA IdleFits ==
    ASSUME NEW said \in {"none", "killed", "allow", "block", "policy", "unrecorded", "advisory"},
           NEW s, NEW ch, NEW t, NEW n
    PROVE  HookFits(Idle(said), s, ch, t, n)
BY DEF HookFits, IdleHooks, Idle

\* A step a prompt hook may take next, by what it has read.
GoodStep(pc, snap, e, s, ch) ==
    /\ pc \in PromptSteps \cup {"idle"}
    /\ pc # "idle" => StepFits(pc, snap, e)
    /\ ~StorageFails /\ IsLive(snap, s, ch) /\ pc \in {"echo", "reenter", "observe"}
         => ~NeedsReconcile(snap)

LEMMA GotoFits ==
    ASSUME NEW x, NEW e, NEW y, NEW pc, NEW snap, NEW s, NEW ch, NEW t, NEW n,
           SnapFits(snap, s, ch), EventFits(e, t, n), GoodStep(pc, snap, e, s, ch)
    PROVE  HookFits(Goto([pc |-> x, event |-> e, snap |-> y], pc, snap), s, ch, t, n)
<1>1. CASE pc = "idle"
  <2>1. Goto([pc |-> x, event |-> e, snap |-> y], pc, snap) = Idle("none") BY <1>1 DEF Goto
  <2>2. HookFits(Idle("none"), s, ch, t, n) BY IdleFits
  <2> QED BY <2>1, <2>2
<1>2. CASE pc # "idle"
  <2> PICK h : h = [pc |-> pc, event |-> e, snap |-> snap] OBVIOUS
  <2>1. Goto([pc |-> x, event |-> e, snap |-> y], pc, snap) = h BY <1>2, GotoIs
  <2>2. h.pc = pc /\ h.event = e /\ h.snap = snap OBVIOUS
  <2>3. h \in PromptHooks
    BY <1>2 DEF PromptHooks, GoodStep, SnapFits, EventFits
  <2>4. PromptFits(h, s, ch, t, n)
    BY <1>2, <2>2, <2>3 DEF PromptFits, GoodStep
  <2> QED BY <2>1, <2>4 DEF HookFits
<1> QED BY <1>1, <1>2

LEMMA AfterEchoIsGood ==
    ASSUME NEW snap, NEW e, NEW s, NEW ch, NEW t, NEW n, EventFits(e, t, n),
           ~e.host => Unseen(snap, e),
           ~StorageFails /\ IsLive(snap, s, ch) => ~NeedsReconcile(snap)
    PROVE  GoodStep(AfterEcho(snap, e), snap, e, s, ch)
BY DEF GoodStep, AfterEcho, StepFits, PromptSteps, Early, Late, EventFits

LEMMA AfterReconcileIsGood ==
    ASSUME NEW snap, NEW e, NEW s, NEW ch, NEW t, NEW n, EventFits(e, t, n),
           ~e.host => Unseen(snap, e),
           ~StorageFails /\ IsLive(snap, s, ch) => ~NeedsReconcile(snap)
    PROVE  GoodStep(AfterReconcile(snap, e), snap, e, s, ch)
<1>1. CASE EchoMatches(snap, e)
  <2>1. ~e.host BY <1>1 DEF EchoMatches, EventFits
  <2> QED BY <1>1, <2>1 DEF GoodStep, AfterReconcile, StepFits, PromptSteps, Early, Late
<1>2. CASE ~EchoMatches(snap, e) BY <1>2, AfterEchoIsGood DEF AfterReconcile
<1> QED BY <1>1, <1>2

LEMMA AfterAnswerIsGood ==
    ASSUME NEW snap, NEW e, NEW s, NEW ch, ~e.host, Seen(snap, e)
    PROVE  GoodStep(AfterAnswer(snap, e), snap, e, s, ch)
BY DEF GoodStep, AfterAnswer, StepFits, PromptSteps, Early, Late

LEMMA AfterClearIsGood ==
    ASSUME NEW snap, NEW e, NEW s, NEW ch, ~e.host, Seen(snap, e)
    PROVE  GoodStep(AfterClear(snap, e), snap, e, s, ch)
<1>1. CASE snap.session.decision # NoAuth /\ e.say \in {"yes", "no"}
  BY <1>1 DEF GoodStep, AfterClear, StepFits, PromptSteps, Early, Late
<1>2. CASE ~(snap.session.decision # NoAuth /\ e.say \in {"yes", "no"})
  BY <1>2, AfterAnswerIsGood DEF AfterClear
<1> QED BY <1>1, <1>2

LEMMA AfterObserveIsGood ==
    ASSUME NEW snap, NEW e, NEW s, NEW ch, ~e.host => Seen(snap, e)
    PROVE  GoodStep(AfterObserve(snap, e), snap, e, s, ch)
<1>1. CASE e.host
  BY <1>1 DEF GoodStep, AfterObserve, StepFits, PromptSteps, Early, Late
<1>2. CASE ~e.host /\ snap.session.rest.echo
  BY <1>2 DEF GoodStep, AfterObserve, StepFits, PromptSteps, Early, Late
<1>3. CASE ~e.host /\ ~snap.session.rest.echo
  BY <1>3, AfterClearIsGood DEF AfterObserve
<1> QED BY <1>1, <1>2, <1>3

\* A turn that could not be recorded leaves its origin at most.
LEMMA UnobservedIsGood ==
    ASSUME NEW snap, NEW e, NEW s, NEW ch
    PROVE  GoodStep(Unobserved(snap, e), snap, e, s, ch)
BY DEF GoodStep, Unobserved, StepFits, PromptSteps, Early, Late

-----------------------------------------------------------------------------
(* What every step keeps *)

\* The registry is as it was, or session k wrote it and holds no turn that was
\* not delivered.
RegistryStep(k) ==
    \/ UNCHANGED <<chains, sessions>>
    \/ \E s, c : MadeBy(k, s, c) /\ s.rest.turn <= turns[k]

LEMMA CompleteLevelKept ==
    ASSUME RegInv, CompleteLevel, NEW k, NEW s, NEW c, MadeBy(k, s, c)
    PROVE  CompleteLevel'
<1> SUFFICES ASSUME NEW j \in Sessions, sessions'[j].mode = "complete"
             PROVE  sessions'[j].crev = chains'[sessions'[j].auth].rev
  BY DEF CompleteLevel
<1>1. CASE j = k
  <2>1. sessions'[j] = s BY <1>1, SessionsAfterWrite
  <2>2. s.auth # NoAuth BY <2>1 DEF MadeBy, GoodInput, Reg!SessionValid
  <2> QED BY <2>1, <2>2 DEF MadeBy, Reg!Write, Reg!Rules, Reg!Reconciled
<1>2. CASE j # k
  <2> PICK p : p = sessions[j] OBVIOUS
  <2>1. /\ p \in Reg!SessionStates /\ Reg!SessionValid(p)
        /\ Reg!HoldsCurrentChain(chains, p)
    BY RegistryFields
  <2>2. sessions'[j] = p \/ MovedTo(p, sessions'[j], s, c)
    BY <1>2, SessionsAfterWrite
  <2>3. p.mode = "complete" BY <2>2 DEF MovedTo
  <2>4. p.auth \in Auths /\ chains[p.auth].status = "complete"
    BY <2>1, <2>3, SessionFields DEF Reg!SessionValid, Reg!HoldsCurrentChain
  <2>5. sessions'[j] = p BY <2>2, <2>4 DEF MovedTo
  <2>6. chains'[p.auth] = chains[p.auth]
    BY <2>4, ChainsAfterWrite DEF Replaced, Rewritten, Reg!NoChain
  <2> QED BY <2>3, <2>5, <2>6 DEF CompleteLevel
<1> QED BY <1>1, <1>2

LEMMA RegistryStepKeeps ==
    ASSUME HookInv, NEW k \in Sessions, RegistryStep(k)
    PROVE  /\ RegInv' /\ CompleteLevel'
           /\ \A j \in Sessions :
                /\ sessions'[j].rest.turn <= turns[j]
                /\ LaterSession(sessions[j], sessions'[j])
           /\ LaterChains(chains, chains')
<1>1. CASE UNCHANGED <<chains, sessions>>
  <2>1. RegInv'
    BY <1>1 DEF HookInv, RegInv, Reg!TypeOK, Reg!EnvelopeHeld, Reg!FinishedReleases,
                Reg!ChainAt
  <2>2. CompleteLevel' BY <1>1 DEF HookInv, CompleteLevel
  <2> QED BY <1>1, <2>1, <2>2 DEF HookInv, LaterSession, LaterChains
<1>2. CASE \E s, c : MadeBy(k, s, c) /\ s.rest.turn <= turns[k]
  <2>1. PICK s, c : MadeBy(k, s, c) /\ s.rest.turn <= turns[k] BY <1>2
  <2>2. RegInv /\ CompleteLevel BY DEF HookInv
  <2>3. RegInv' /\ CompleteLevel'
    BY <2>1, <2>2, WriteKeepsRegistry, CompleteLevelKept
  <2>4. \A j \in Sessions : sessions'[j].rest.turn <= turns[j]
    BY <2>1, <2>2, SessionsAfterWrite DEF HookInv, MovedTo
  <2> QED BY <2>1, <2>2, <2>3, <2>4, RevisionsRise
<1> QED BY <1>1, <1>2 DEF RegistryStep

LEMMA HooksStayFit ==
    ASSUME HookInv, NEW k \in Sessions, RegistryStep(k), NEW j \in Sessions,
           NEW h, HookFits(h, sessions[j], chains, turns[j], Len(published)),
           NEW n \in Nat, Len(published) <= n
    PROVE  HookFits(h, sessions'[j], chains', turns[j], n)
<1>1. /\ LaterSession(sessions[j], sessions'[j]) /\ LaterChains(chains, chains')
      /\ sessions[j] \in Reg!SessionStates /\ \A a \in Auths : chains[a].rev \in Nat
  BY RegistryStepKeeps, RegistryFields DEF HookInv
<1>2. Len(published) \in Nat BY DEF HookInv
<1> QED BY <1>1, <1>2, HookFitsLater

\* A step of session k keeps the invariant when its own hook fits afterwards.
LEMMA StepKeeps ==
    ASSUME HookInv, NEW k \in Sessions, RegistryStep(k),
           NEW h, hook' = [hook EXCEPT ![k] = h],
           NEW t \in Nat, turns' = [turns EXCEPT ![k] = t], turns[k] <= t,
           published' \in Seq(Published), Len(published) <= Len(published'),
           Len(published') <= MaxRecords,
           HookFits(h, sessions'[k], chains', t, Len(published'))
    PROVE  HookInv'
<1>1. turns \in [Sessions -> Nat] /\ hook = [j \in Sessions |-> hook[j]]
      /\ Len(published) \in Nat /\ Len(published') \in Nat
  BY DEF HookInv
<1>2. /\ RegInv' /\ CompleteLevel'
      /\ \A j \in Sessions : sessions'[j].rest.turn <= turns[j]
      /\ \A j \in Sessions : sessions'[j] \in Reg!SessionStates'
  <2>1. RegInv' /\ CompleteLevel'
        /\ \A j \in Sessions : sessions'[j].rest.turn <= turns[j]
    BY RegistryStepKeeps
  <2> QED BY <2>1 DEF RegInv, Reg!TypeOK
<1>3. hook' = [j \in Sessions |-> hook'[j]] BY <1>1
<1>4. turns' \in [Sessions -> Nat] BY <1>1
<1>5. ASSUME NEW j \in Sessions
      PROVE  /\ HookFits(hook'[j], sessions'[j], chains', turns'[j], Len(published'))
             /\ sessions'[j].rest.turn <= turns'[j]
  <2>1. CASE j = k
    <3>1. hook'[j] = h /\ turns'[j] = t BY <1>1, <2>1
    <3>2. sessions'[j].rest.turn \in Nat
      BY <1>2, SessionFields DEF Reg!SessionStates, Rest
    <3> QED BY <1>1, <1>2, <2>1, <3>1, <3>2
  <2>2. CASE j # k
    <3>1. hook'[j] = hook[j] /\ turns'[j] = turns[j] BY <1>1, <2>2
    <3>2. HookFits(hook[j], sessions[j], chains, turns[j], Len(published)) BY DEF HookInv
    <3> QED BY <1>1, <1>2, <3>1, <3>2, HooksStayFit
  <2> QED BY <2>1, <2>2
<1> QED BY <1>2, <1>3, <1>4, <1>5 DEF HookInv

\* A step of a hook that delivers nothing and publishes nothing.
LEMMA QuietStepKeeps ==
    ASSUME HookInv, NEW k \in Sessions, RegistryStep(k),
           NEW h, hook' = [hook EXCEPT ![k] = h], UNCHANGED <<turns, published>>,
           HookFits(h, sessions'[k], chains', turns[k], Len(published))
    PROVE  HookInv'
<1> PICK t : t = turns[k] OBVIOUS
<1>1. /\ t \in Nat /\ turns' = [turns EXCEPT ![k] = t] /\ turns[k] <= t
      /\ published' \in Seq(Published) /\ Len(published) <= Len(published')
      /\ Len(published') <= MaxRecords
      /\ HookFits(h, sessions'[k], chains', t, Len(published'))
  BY LifecycleAssumption DEF HookInv
<1> QED BY ONLY HookInv, k \in Sessions, RegistryStep(k), hook' = [hook EXCEPT ![k] = h],
           <1>1, StepKeeps

\* A best-effort step keeps the invariant when what it asks for is well-formed
\* and the hook fits where it goes, whether the write was made or not.
LEMMA AttemptKeeps ==
    ASSUME HookInv, NEW k \in Sessions, NEW chainRev, NEW s, NEW c, NEW done, NEW undone,
           Attempt(k, chainRev, s, c, done, undone),
           Reg!Fresh(k, s, chainRev, hook[k].snap.session.rev) /\ Reg!Rules(k, s, c)
             => GoodInput(k, s, c) /\ s.rest.turn <= turns[k],
           MadeBy(k, s, c)
             => HookFits(done, sessions'[k], chains', turns[k], Len(published)),
           StorageFails \/ Result(k, chainRev, s, c) # "ok"
             => HookFits(undone, sessions[k], chains, turns[k], Len(published))
    PROVE  /\ HookInv'
           /\ UNCHANGED <<turns, published>>
           /\ \/ UNCHANGED <<chains, sessions>>
              \/ /\ MadeBy(k, s, c)
                 /\ Reg!Fresh(k, s, chainRev, hook[k].snap.session.rev)
<1>1. UNCHANGED <<turns, published>> /\ Len(published) \in Nat
  BY DEF Attempt, HookInv
<1>2. CASE Result(k, chainRev, s, c) = "ok" /\ Install(k, s, c)
           /\ (SetHook(k, done) \/ (StorageFails /\ SetHook(k, undone)))
  <2>1. Reg!Fresh(k, s, chainRev, hook[k].snap.session.rev) /\ Reg!Rules(k, s, c)
        /\ Reg!Valid(k, s, c)
    BY <1>2, OkIsWrite DEF Result
  <2>2. MadeBy(k, s, c) /\ s.rest.turn <= turns[k]
    BY <1>2, <2>1 DEF MadeBy, Reg!Write, Install
  <2>3. RegistryStep(k) BY <2>2 DEF RegistryStep
  <2>4. CASE SetHook(k, done)
    <3>1. hook' = [hook EXCEPT ![k] = done] BY <2>4 DEF SetHook
    <3>2. HookFits(done, sessions'[k], chains', turns[k], Len(published)) BY <1>1, <2>2
    <3>3. HookInv' BY <1>1, <2>3, <3>1, <3>2, QuietStepKeeps
    <3> QED BY <1>1, <2>1, <2>2, <3>3
  <2>5. CASE StorageFails /\ SetHook(k, undone)
    <3>1. hook' = [hook EXCEPT ![k] = undone] BY <2>5 DEF SetHook
    <3>2. HookFits(undone, sessions'[k], chains', turns[k], Len(published))
      BY <1>1, <2>3, <2>5, HooksStayFit
    <3>3. HookInv' BY <1>1, <2>3, <3>1, <3>2, QuietStepKeeps
    <3> QED BY <1>1, <2>1, <2>2, <3>3
  <2> QED BY <1>2, <2>4, <2>5
<1>3. CASE (StorageFails \/ Result(k, chainRev, s, c) # "ok")
           /\ UNCHANGED <<chains, sessions>> /\ SetHook(k, undone)
  <2>1. RegistryStep(k) BY <1>3 DEF RegistryStep
  <2>2. hook' = [hook EXCEPT ![k] = undone] BY <1>3 DEF SetHook
  <2>3. HookFits(undone, sessions'[k], chains', turns[k], Len(published))
    BY <1>1, <1>3
  <2>4. HookInv' BY <1>1, <2>1, <2>2, <2>3, QuietStepKeeps
  <2> QED BY <1>1, <1>3, <2>4
<1> QED BY <1>2, <1>3 DEF Attempt

\* A step that writes nothing.
LEMMA SkipKeeps ==
    ASSUME HookInv, NEW k \in Sessions, NEW h, Skip(k, h),
           HookFits(h, sessions[k], chains, turns[k], Len(published))
    PROVE  HookInv'
<1>1. UNCHANGED <<turns, published>> BY DEF Skip
<1>2. RegistryStep(k) BY DEF Skip, RegistryStep
<1>3. hook' = [hook EXCEPT ![k] = h] BY DEF Skip, SetHook
<1>4. HookFits(h, sessions'[k], chains', turns[k], Len(published)) BY DEF Skip
<1> QED BY <1>1, <1>2, <1>3, <1>4, QuietStepKeeps

-----------------------------------------------------------------------------
(* What hooks ask the registry for is well-formed. *)

LEMMA BumpIs ==
    ASSUME NEW s \in Reg!SessionStates
    PROVE  /\ Bump(s) \in Reg!SessionStates
           /\ Bump(s) = [rev |-> s.rev + 1, mode |-> s.mode, auth |-> s.auth,
                         crev |-> s.crev, decision |-> s.decision,
                         proposal |-> s.proposal, rest |-> s.rest]
BY DEF Bump, Reg!SessionStates

LEMMA NoChainIsGood ==
    /\ Reg!NoChain \in Reg!ChainStates \cup {Reg!NoChain}
    /\ Reg!ChainValid(Reg!NoChain)
BY DEF Reg!ChainValid, Reg!NoChain

\* A session with new turn marks, the same otherwise.
LEMMA RestChanged ==
    ASSUME NEW s \in Reg!SessionStates, Reg!SessionValid(s), NEW r \in Rest,
           NEW t, t = [Bump(s) EXCEPT !.rest = r]
    PROVE  /\ t \in Reg!SessionStates /\ Reg!SessionValid(t)
           /\ t = [rev |-> s.rev + 1, mode |-> s.mode, auth |-> s.auth,
                   crev |-> s.crev, decision |-> s.decision,
                   proposal |-> s.proposal, rest |-> r]
BY BumpIs DEF Reg!SessionStates, Reg!SessionValid

\* A session that took note of a chain that peers moved.
LEMMA ReconciledIs ==
    ASSUME NEW snap \in Snapshots, Reg!SessionValid(snap.session),
           snap.session.mode # "ungated", NEW t, t = Reconciled(snap)
    PROVE  /\ t \in Reg!SessionStates /\ Reg!SessionValid(t)
           /\ t = [rev |-> snap.session.rev + 1,
                   mode |-> IF Completed(snap) THEN "complete" ELSE snap.session.mode,
                   auth |-> snap.session.auth, crev |-> snap.chain.rev,
                   decision |-> snap.session.decision,
                   proposal |-> snap.session.proposal, rest |-> snap.session.rest]
<1> PICK s \in Reg!SessionStates : s = snap.session BY SnapFields
<1> PICK m : m = IF Completed(snap) THEN "complete" ELSE s.mode OBVIOUS
<1>1. snap.chain.rev \in Nat BY SnapFields
<1>2. t = [rev |-> s.rev + 1, mode |-> m, auth |-> s.auth, crev |-> snap.chain.rev,
           decision |-> s.decision, proposal |-> s.proposal, rest |-> s.rest]
  <2> PICK b : b = Bump(s) OBVIOUS
  <2>1. b = [rev |-> s.rev + 1, mode |-> s.mode, auth |-> s.auth, crev |-> s.crev,
             decision |-> s.decision, proposal |-> s.proposal, rest |-> s.rest]
    BY BumpIs
  <2>2. t = [b EXCEPT !.crev = snap.chain.rev,
                      !.mode = IF Completed(snap) THEN "complete" ELSE @]
    BY DEF Reconciled
  <2>3. b.mode = s.mode BY <2>1
  <2>4. m = IF Completed(snap) THEN "complete" ELSE b.mode BY <2>3
  <2>5. t = [b EXCEPT !.crev = snap.chain.rev, !.mode = m] BY <2>2, <2>4
  <2> QED BY ONLY <2>1, <2>5
<1>3. m \in Reg!Modes /\ m # "ungated" /\ (m = "awaiting" => s.mode = "awaiting")
  BY DEF Reg!SessionStates, Reg!Modes
<1>4. s.rev + 1 \in Nat BY DEF Reg!SessionStates
<1>5. t \in Reg!SessionStates BY <1>1, <1>2, <1>3, <1>4 DEF Reg!SessionStates
<1>6. Reg!SessionValid(t) BY <1>2, <1>3 DEF Reg!SessionValid
<1> QED BY <1>2, <1>5, <1>6

\* A successful write leaves a session that needs no reconciling: what it says of
\* its chain is checked by the registry.
LEMMA WrittenIsLevel ==
    ASSUME NEW k, NEW s, NEW c, MadeBy(k, s, c)
    PROVE  ~NeedsReconcile(Written(k, s, c))
<1>1. s.auth = NoAuth => s.mode = "ungated"
  BY DEF MadeBy, GoodInput, Reg!SessionValid
<1>2. s.auth # NoAuth =>
        /\ s.crev = Reg!NewChains(k, s, c)[s.auth].rev
        /\ Reg!NewChains(k, s, c)[s.auth].status = "complete" => s.mode = "complete"
  BY DEF MadeBy, Reg!Write, Reg!Rules, Reg!Reconciled, Reg!CompletionReleases
<1> QED BY <1>1, <1>2 DEF NeedsReconcile, Completed, Written

\* A session that stays on its chain and is level with it, and released when it
\* is complete, is never refused.
LEMMA QuietWriteSucceeds ==
    ASSUME RegInv, NEW k \in Sessions, NEW s, Reg!SessionValid(s),
           s.rev = sessions[k].rev + 1, s.auth = sessions[k].auth,
           Reg!HoldsCurrentChain(chains, s),
           s.auth # NoAuth => /\ s.crev = chains[s.auth].rev
                              /\ chains[s.auth].status = "complete" => s.mode = "complete"
    PROVE  Reg!Rules(k, s, Reg!NoChain) /\ Reg!Valid(k, s, Reg!NoChain)
<1> PICK c : c = Reg!NoChain OBVIOUS
<1>1. ~Reg!Supersedes(k, s, c) BY DEF Reg!Supersedes
<1>2. Reg!NewChains(k, s, c) = chains
  <2>1. chains = [a \in Auths |-> chains[a]] BY RegistryFields
  <2> QED BY <1>1, <2>1 DEF Reg!NewChains
<1>3. s.auth # NoAuth =>
        /\ s.auth \in Auths /\ chains[s.auth].status \in {"active", "complete"}
        /\ Reg!Current(k) = chains[s.auth] /\ Reg!Current(k) # Reg!NoChain
        /\ s.mode # "ungated"
  BY RegistryFields
     DEF Reg!Current, Reg!ChainAt, Reg!NoChain, Reg!SessionValid
<1>4. s.auth = NoAuth => Reg!Current(k) = Reg!NoChain
  BY DEF Reg!Current, Reg!ChainAt
<1>5. Reg!Admitted(k, s, c)
  BY <1>1, <1>2, <1>3, <1>4
     DEF Reg!Admitted, Reg!SessionAdvances, Reg!ChainWriteAllowed, Reg!StaysTracked,
         Reg!TransitionAllowed, Reg!JoinAllowed
<1>6. Reg!Reconciled(k, s, c) /\ Reg!CompletionReleases(k, s, c)
  BY <1>2 DEF Reg!Reconciled, Reg!CompletionReleases
<1>7. \A j \in Sessions : Reg!HoldsCurrentChain(chains, Reg!NewSessions(k, s, c)[j])
  BY <1>1, RegistryFields DEF Reg!NewSessions
<1>8. Reg!Valid(k, s, c)
  BY <1>2, <1>7 DEF RegInv, Reg!EnvelopeHeld, Reg!Valid, Reg!Envelope
<1> QED BY <1>5, <1>6, <1>8 DEF Reg!Rules

\* A session can always take note of what peers did to its chain.
LEMMA ReconcileSucceeds ==
    ASSUME RegInv, NEW k \in Sessions, NEW snap, SnapFits(snap, sessions[k], chains),
           IsLive(snap, sessions[k], chains), snap.session.mode # "ungated"
    PROVE  Reg!Rules(k, Reconciled(snap), Reg!NoChain)
           /\ Reg!Valid(k, Reconciled(snap), Reg!NoChain)
<1> PICK p : p = sessions[k] OBVIOUS
<1> PICK t : t = Reconciled(snap) OBVIOUS
<1>1. snap.session = p /\ snap \in Snapshots /\ Reg!SessionValid(p) /\ p.mode # "ungated"
      /\ p.auth # NoAuth
  BY DEF SnapFits, IsLive, Reg!SessionValid
<1>2. snap.chain = chains[p.auth] BY <1>1 DEF IsLive
<1>3. /\ Reg!HoldsCurrentChain(chains, p) /\ chains[p.auth].rev \in Nat
      /\ chains[p.auth].status \in {"active", "complete"}
  BY <1>1, RegistryFields
<1>4. /\ Reg!SessionValid(t) /\ t.rev = p.rev + 1 /\ t.auth = p.auth
      /\ t.crev = chains[p.auth].rev /\ t.decision = p.decision
      /\ t.mode = IF Completed(snap) THEN "complete" ELSE p.mode
  BY <1>1, <1>2, ReconciledIs
<1>5. /\ chains[p.auth].status = "complete" => t.mode = "complete"
      /\ t.mode = "complete" => chains[p.auth].status = "complete"
  BY <1>1, <1>2, <1>3, <1>4 DEF Completed, Reg!HoldsCurrentChain
<1>6. Reg!HoldsCurrentChain(chains, t)
  BY <1>1, <1>3, <1>4, <1>5 DEF Reg!HoldsCurrentChain
<1> QED BY <1>1, <1>4, <1>5, <1>6, QuietWriteSucceeds

-----------------------------------------------------------------------------
(* The hook that takes a step *)

LEMMA PromptHook ==
    ASSUME HookInv, NEW k \in Sessions, hook[k].pc \in PromptSteps
    PROVE  /\ PromptFits(hook[k], sessions[k], chains, turns[k], Len(published))
           /\ hook[k] = [pc |-> hook[k].pc, event |-> hook[k].event, snap |-> hook[k].snap]
           /\ hook[k].snap.session \in Reg!SessionStates
           /\ Reg!SessionValid(hook[k].snap.session)
<1>1. HookFits(hook[k], sessions[k], chains, turns[k], Len(published)) BY DEF HookInv
<1>2. hook[k] \notin IdleHooks BY DEF IdleHooks, PromptSteps
<1>3. ~StopFits(hook[k], sessions[k], chains)
  BY DEF StopFits, RefreshHooks, PublishHooks, PromptSteps
<1>4. PromptFits(hook[k], sessions[k], chains, turns[k], Len(published))
  BY <1>1, <1>2, <1>3 DEF HookFits
<1>5. hook[k] = [pc |-> hook[k].pc, event |-> hook[k].event, snap |-> hook[k].snap]
  BY <1>4 DEF PromptFits, PromptHooks
<1>6. SnapFits(hook[k].snap, sessions[k], chains) BY <1>4 DEF PromptFits
<1> QED BY <1>4, <1>5, <1>6, SnapFields DEF SnapFits

LEMMA StopHook ==
    ASSUME HookInv, NEW k \in Sessions, hook[k].pc \in StopSteps
    PROVE  /\ StopFits(hook[k], sessions[k], chains)
           /\ hook[k].snap.session \in Reg!SessionStates
           /\ Reg!SessionValid(hook[k].snap.session)
<1>1. HookFits(hook[k], sessions[k], chains, turns[k], Len(published)) BY DEF HookInv
<1>2. hook[k] \notin IdleHooks BY DEF IdleHooks, StopSteps
<1>3. ~PromptFits(hook[k], sessions[k], chains, turns[k], Len(published))
  BY DEF PromptFits, PromptHooks, PromptSteps, StopSteps
<1>4. StopFits(hook[k], sessions[k], chains) BY <1>1, <1>2, <1>3 DEF HookFits
<1>5. SnapFits(hook[k].snap, sessions[k], chains) BY <1>4 DEF StopFits
<1> QED BY <1>4, <1>5, SnapFields DEF SnapFits

\* A running prompt hook fits where it goes when the step is a good one.
LEMMA HookGoes ==
    ASSUME HookInv, NEW k \in Sessions, hook[k].pc \in PromptSteps,
           NEW pc, NEW snap, NEW s, NEW ch, SnapFits(snap, s, ch),
           GoodStep(pc, snap, hook[k].event, s, ch)
    PROVE  HookFits(Goto(hook[k], pc, snap), s, ch, turns[k], Len(published))
<1> PICK h : h = hook[k] OBVIOUS
<1>1. /\ h = [pc |-> h.pc, event |-> h.event, snap |-> h.snap]
      /\ EventFits(h.event, turns[k], Len(published))
  BY PromptHook DEF PromptFits
<1> PICK x, e, y : x = h.pc /\ e = h.event /\ y = h.snap OBVIOUS
<1>2. HookFits(Goto([pc |-> x, event |-> e, snap |-> y], pc, snap), s, ch, turns[k],
               Len(published))
  BY <1>1, GotoFits
<1> QED BY <1>1, <1>2

\* A session that is live has no turn that was not delivered.
LEMMA LiveTurn ==
    ASSUME HookInv, NEW k \in Sessions, NEW snap, IsLive(snap, sessions[k], chains)
    PROVE  snap.session = sessions[k] /\ snap.session.rest.turn <= turns[k]
BY DEF IsLive, HookInv

\* What a session asked for, when it asked from a live snapshot.
WroteLive(k, s, c) == MadeBy(k, s, c) /\ IsLive(hook[k].snap, sessions[k], chains)

\* A best-effort step from the revisions of the snapshot.
LEMMA LiveAttemptKeeps ==
    ASSUME HookInv, NEW k \in Sessions, NEW s, NEW c, NEW done, NEW undone,
           SnapFits(hook[k].snap, sessions[k], chains),
           Attempt(k, hook[k].snap.chain.rev, s, c, done, undone),
           IsLive(hook[k].snap, sessions[k], chains)
             => GoodInput(k, s, c) /\ s.rest.turn <= turns[k],
           MadeBy(k, s, c)
             => HookFits(done, sessions'[k], chains', turns[k], Len(published)),
           StorageFails \/ Result(k, hook[k].snap.chain.rev, s, c) # "ok"
             => HookFits(undone, sessions[k], chains, turns[k], Len(published))
    PROVE  /\ HookInv' /\ UNCHANGED <<turns, published>>
           /\ UNCHANGED <<chains, sessions>> \/ WroteLive(k, s, c)
<1> PICK snap : snap = hook[k].snap OBVIOUS
<1>1. Reg!Fresh(k, s, snap.chain.rev, snap.session.rev)
        => IsLive(snap, sessions[k], chains)
  BY FreshIsLive DEF HookInv
<1>2. PICK rev : rev = snap.chain.rev OBVIOUS
<1>3. /\ HookInv' /\ UNCHANGED <<turns, published>>
      /\ \/ UNCHANGED <<chains, sessions>>
         \/ MadeBy(k, s, c) /\ Reg!Fresh(k, s, rev, hook[k].snap.session.rev)
  BY <1>1, <1>2, AttemptKeeps
<1> QED BY <1>1, <1>2, <1>3 DEF WroteLive

\* A hook that has read what is there passes the compare half of the write.
LEMMA LiveIsFresh ==
    ASSUME NEW k \in Sessions, NEW snap, SnapFits(snap, sessions[k], chains),
           IsLive(snap, sessions[k], chains), NEW s, s.auth = sessions[k].auth
    PROVE  Reg!Fresh(k, s, snap.chain.rev, snap.session.rev)
<1>1. snap.session = sessions[k] BY DEF IsLive
<1>2. CASE sessions[k].auth # NoAuth
  BY <1>1, <1>2 DEF IsLive, Reg!Fresh, Reg!Target, Reg!Current, Reg!ChainAt
<1>3. CASE sessions[k].auth = NoAuth
  <2>1. snap.chain = Reg!NoChain BY <1>1, <1>3 DEF SnapFits
  <2>2. Reg!Target(k, s) = Reg!NoChain BY <1>3 DEF Reg!Target, Reg!ChainAt
  <2> QED BY <1>1, <2>1, <2>2 DEF Reg!Fresh
<1> QED BY <1>2, <1>3

\* A hook that reconciled in vain was overtaken, unless the storage failed.
LEMMA ReconcileFailsStale ==
    ASSUME RegInv, NEW k \in Sessions, SnapFits(hook[k].snap, sessions[k], chains),
           hook[k].snap.session.mode # "ungated",
           ~StorageFails,
           StorageFails \/ Result(k, hook[k].snap.chain.rev, Reconciled(hook[k].snap),
                                  Reg!NoChain) # "ok"
    PROVE  ~IsLive(hook[k].snap, sessions[k], chains)
<1> SUFFICES ASSUME IsLive(hook[k].snap, sessions[k], chains) PROVE FALSE OBVIOUS
<1> PICK snap : snap = hook[k].snap OBVIOUS
<1> PICK t : t = Reconciled(snap) OBVIOUS
<1>1. Reg!Rules(k, t, Reg!NoChain) /\ Reg!Valid(k, t, Reg!NoChain)
  BY ReconcileSucceeds
<1>2. t.auth = sessions[k].auth
  <2>1. snap \in Snapshots /\ Reg!SessionValid(snap.session) BY DEF SnapFits
  <2>2. t.auth = snap.session.auth BY <2>1, ReconciledIs
  <2> QED BY <2>2 DEF IsLive
<1>3. Reg!Fresh(k, t, snap.chain.rev, snap.session.rev) BY <1>2, LiveIsFresh
<1> QED BY <1>1, <1>3, OkIsWrite DEF Result

-----------------------------------------------------------------------------
(* The steps of the prompt hook: what each writes, and that it keeps the    *)
(* invariant                                                               *)

LEMMA StepReconcile ==
    ASSUME HookInv, NEW k \in Sessions, PromptReconcile(k)
    PROVE  /\ HookInv' /\ UNCHANGED <<turns, published>>
           /\ \/ UNCHANGED <<chains, sessions>>
              \/ WroteLive(k, Reconciled(hook[k].snap), Reg!NoChain)
<1> PICK h : h = hook[k] OBVIOUS
<1> PICK t : t = Reconciled(h.snap) OBVIOUS
<1> PICK w : w = Written(k, t, Reg!NoChain) OBVIOUS
<1>1. h.pc = "reconcile" /\ h.pc \in PromptSteps BY DEF PromptReconcile, PromptSteps
<1>2. /\ SnapFits(h.snap, sessions[k], chains)
      /\ EventFits(h.event, turns[k], Len(published))
      /\ NeedsReconcile(h.snap) /\ (~h.event.host => Unseen(h.snap, h.event))
  BY <1>1, PromptHook DEF PromptFits, StepFits, Early
<1>3. h.snap.session.mode # "ungated" BY <1>2 DEF NeedsReconcile
<1>4. /\ t \in Reg!SessionStates /\ Reg!SessionValid(t)
      /\ t.rest = h.snap.session.rest
  BY <1>2, <1>3, ReconciledIs DEF SnapFits
<1>5. IsLive(h.snap, sessions[k], chains)
        => GoodInput(k, t, Reg!NoChain) /\ t.rest.turn <= turns[k]
  BY <1>4, NoChainIsGood, LiveTurn DEF GoodInput
<1>6. ASSUME MadeBy(k, t, Reg!NoChain)
      PROVE  HookFits(Goto(h, AfterReconcile(w, h.event), w), sessions'[k], chains',
                      turns[k], Len(published))
  <2>1. SnapFits(w, sessions'[k], chains') /\ w.session = t
    BY <1>6, WrittenFits DEF HookInv
  <2>2. ~NeedsReconcile(w) BY <1>6, WrittenIsLevel
  <2>3. ~h.event.host => Unseen(w, h.event) BY <1>2, <1>4, <2>1 DEF Unseen
  <2>4. GoodStep(AfterReconcile(w, h.event), w, h.event, sessions'[k], chains')
    BY <1>2, <2>2, <2>3, AfterReconcileIsGood
  <2> QED BY <1>1, <2>1, <2>4, HookGoes
<1>7. ASSUME StorageFails \/ Result(k, h.snap.chain.rev, t, Reg!NoChain) # "ok"
      PROVE  HookFits(Goto(h, AfterReconcile(h.snap, h.event), h.snap), sessions[k], chains,
                      turns[k], Len(published))
  <2>1. ~StorageFails => ~IsLive(h.snap, sessions[k], chains)
    BY <1>2, <1>3, <1>7, ReconcileFailsStale DEF HookInv
  <2>2. GoodStep(AfterReconcile(h.snap, h.event), h.snap, h.event, sessions[k], chains)
    BY <1>2, <2>1, AfterReconcileIsGood
  <2> QED BY <1>1, <1>2, <2>2, HookGoes
<1>8. Attempt(k, h.snap.chain.rev, t, Reg!NoChain,
              Goto(h, AfterReconcile(w, h.event), w),
              Goto(h, AfterReconcile(h.snap, h.event), h.snap))
  BY DEF PromptReconcile, Reconcile
<1> QED BY <1>2, <1>5, <1>6, <1>7, <1>8, LiveAttemptKeeps

\* The session with its wait for the host's echo over.
EchoSpent(s) == [Bump(s) EXCEPT !.rest.echo = FALSE]

LEMMA EchoSpentIs ==
    ASSUME NEW s \in Reg!SessionStates, Reg!SessionValid(s)
    PROVE  /\ EchoSpent(s) \in Reg!SessionStates /\ Reg!SessionValid(EchoSpent(s))
           /\ EchoSpent(s) = [rev |-> s.rev + 1, mode |-> s.mode, auth |-> s.auth,
                              crev |-> s.crev, decision |-> s.decision,
                              proposal |-> s.proposal,
                              rest |-> [s.rest EXCEPT !.echo = FALSE]]
           /\ EchoSpent(s).mode = s.mode /\ EchoSpent(s).auth = s.auth
           /\ EchoSpent(s).rest.turn = s.rest.turn /\ EchoSpent(s).rest.count = s.rest.count
<1>1. PICK r : r = [s.rest EXCEPT !.echo = FALSE] OBVIOUS
<1>2. PICK b : b = Bump(s) OBVIOUS
<1>3. b.rest = s.rest BY <1>2, BumpIs
<1>4. EchoSpent(s) = [b EXCEPT !.rest.echo = FALSE] BY <1>2 DEF EchoSpent
<1>5. EchoSpent(s) = [b EXCEPT !.rest = r] BY ONLY <1>1, <1>3, <1>4
<1>6. r \in Rest BY <1>1, SessionFields DEF Rest
<1>7. r.turn = s.rest.turn /\ r.count = s.rest.count BY <1>1, SessionFields DEF Rest
<1>8. PICK t : t = EchoSpent(s) OBVIOUS
<1>9. /\ t \in Reg!SessionStates /\ Reg!SessionValid(t)
      /\ t = [rev |-> s.rev + 1, mode |-> s.mode, auth |-> s.auth, crev |-> s.crev,
              decision |-> s.decision, proposal |-> s.proposal, rest |-> r]
  BY <1>2, <1>5, <1>6, <1>8, RestChanged
<1>10. t.mode = s.mode /\ t.auth = s.auth /\ t.rest = r BY ONLY <1>9
<1> QED BY <1>1, <1>7, <1>8, <1>9, <1>10

LEMMA StepEcho ==
    ASSUME HookInv, NEW k \in Sessions, PromptEcho(k)
    PROVE  /\ HookInv' /\ UNCHANGED <<turns, published>>
           /\ \/ UNCHANGED <<chains, sessions>>
              \/ WroteLive(k, EchoSpent(hook[k].snap.session), Reg!NoChain)
<1> PICK h : h = hook[k] OBVIOUS
<1> PICK t : t = EchoSpent(h.snap.session) OBVIOUS
<1>1. h.pc = "echo" /\ h.pc \in PromptSteps BY DEF PromptEcho, PromptSteps
<1>2. /\ SnapFits(h.snap, sessions[k], chains)
      /\ EventFits(h.event, turns[k], Len(published))
      /\ ~h.event.host => Unseen(h.snap, h.event)
      /\ ~StorageFails /\ IsLive(h.snap, sessions[k], chains) => ~NeedsReconcile(h.snap)
  BY <1>1, PromptHook DEF PromptFits, StepFits, Early
<1>3. /\ t \in Reg!SessionStates /\ Reg!SessionValid(t)
      /\ t.rest.turn = h.snap.session.rest.turn
  BY <1>1, PromptHook, EchoSpentIs, SessionFields
<1>4. IsLive(h.snap, sessions[k], chains)
        => GoodInput(k, t, Reg!NoChain) /\ t.rest.turn <= turns[k]
  BY <1>3, NoChainIsGood, LiveTurn DEF GoodInput
<1>5. HookFits(Idle("none"), sessions'[k], chains', turns[k], Len(published)) BY IdleFits
<1>6. GoodStep(AfterEcho(h.snap, h.event), h.snap, h.event, sessions[k], chains)
  BY <1>2, AfterEchoIsGood
<1>7. HookFits(Goto(h, AfterEcho(h.snap, h.event), h.snap), sessions[k], chains,
               turns[k], Len(published))
  BY <1>1, <1>2, <1>6, HookGoes
<1>8. Attempt(k, h.snap.chain.rev, t, Reg!NoChain, Idle("none"),
              Goto(h, AfterEcho(h.snap, h.event), h.snap))
  BY DEF PromptEcho, EchoSpent
<1> QED BY <1>2, <1>4, <1>5, <1>7, <1>8, LiveAttemptKeeps

LEMMA ReenteredIs ==
    ASSUME NEW s \in Reg!SessionStates, NEW e, e.turn \in Nat
    PROVE  /\ Reentered(s, e) \in Reg!SessionStates /\ Reg!SessionValid(Reentered(s, e))
           /\ Reentered(s, e) = [rev |-> s.rev + 1, mode |-> "ungated", auth |-> NoAuth,
                                 crev |-> 0, decision |-> NoAuth, proposal |-> NoProposal,
                                 rest |-> [turn |-> e.turn, origin |-> "none",
                                           count |-> 0, echo |-> FALSE]]
           /\ Reentered(s, e).mode = "ungated" /\ Reentered(s, e).auth = NoAuth
           /\ Reentered(s, e).rest.turn = e.turn /\ Reentered(s, e).rest.count = 0
<1>1. PICK r : r = [turn |-> e.turn, origin |-> "none", count |-> 0, echo |-> FALSE]
  OBVIOUS
<1>2. PICK q : q = [rev |-> 0, mode |-> "ungated", auth |-> NoAuth, crev |-> 0,
                    decision |-> NoAuth, proposal |-> NoProposal, rest |-> Rest0]
  OBVIOUS
<1>3. PICK p : p = [turn |-> 0, origin |-> "none", count |-> 0, echo |-> FALSE] OBVIOUS
<1>4. PICK v, w : v = s.rev + 1 /\ w = e.turn OBVIOUS
<1>5. q.rest = p /\ r = [p EXCEPT !.turn = w]
  <2>1. q.rest = p BY <1>2, <1>3 DEF Rest0
  <2>2. r = [turn |-> w, origin |-> "none", count |-> 0, echo |-> FALSE] BY <1>1, <1>4
  <2>3. PICK x : x = [p EXCEPT !.turn = w] OBVIOUS
  <2>4. x = [turn |-> w, origin |-> "none", count |-> 0, echo |-> FALSE]
    BY ONLY <1>3, <2>3
  <2> QED BY ONLY <2>1, <2>2, <2>3, <2>4
<1>6. Reentered(s, e) = [q EXCEPT !.rev = v, !.rest.turn = w]
  BY <1>2, <1>4 DEF Reentered, Reg!NewSession
<1>7. Reentered(s, e) = [q EXCEPT !.rev = v, !.rest = r] BY ONLY <1>2, <1>5, <1>6
<1>8. PICK t : t = Reentered(s, e) OBVIOUS
<1>9. t = [rev |-> v, mode |-> "ungated", auth |-> NoAuth, crev |-> 0,
           decision |-> NoAuth, proposal |-> NoProposal, rest |-> r]
  BY ONLY <1>2, <1>7, <1>8
<1>10. /\ t.mode = "ungated" /\ t.auth = NoAuth /\ t.rest = r /\ t.decision = NoAuth
       /\ t.crev = 0 /\ t.proposal = NoProposal
  BY ONLY <1>9
<1>11. r.turn = e.turn /\ r.count = 0 /\ r \in Rest BY <1>1 DEF Rest, Circuit
<1>12. v \in Nat BY <1>4, SessionFields
<1>13. t \in Reg!SessionStates /\ Reg!SessionValid(t)
  BY <1>9, <1>10, <1>11, <1>12 DEF Reg!SessionStates, Reg!SessionValid, Reg!Modes
<1> QED BY <1>1, <1>4, <1>8, <1>9, <1>10, <1>11, <1>13

LEMMA StepReenter ==
    ASSUME HookInv, NEW k \in Sessions, PromptReenter(k)
    PROVE  /\ HookInv' /\ UNCHANGED <<turns, published>>
           /\ \/ UNCHANGED <<chains, sessions>>
              \/ WroteLive(k, Reentered(hook[k].snap.session, hook[k].event), Reg!NoChain)
<1> PICK h : h = hook[k] OBVIOUS
<1> PICK t : t = Reentered(h.snap.session, h.event) OBVIOUS
<1> PICK w : w = Written(k, t, Reg!NoChain) OBVIOUS
<1>1. h.pc = "reenter" /\ h.pc \in PromptSteps BY DEF PromptReenter, PromptSteps
<1>2. /\ SnapFits(h.snap, sessions[k], chains)
      /\ EventFits(h.event, turns[k], Len(published)) /\ ~h.event.host
  BY <1>1, PromptHook DEF PromptFits, StepFits
<1>3. h.event.turn = turns[k] /\ turns[k] \in Nat BY <1>2 DEF EventFits, HookInv
<1>4. /\ t \in Reg!SessionStates /\ Reg!SessionValid(t)
      /\ t.mode = "ungated" /\ t.rest.turn = h.event.turn /\ t.rest.count = 0
  BY <1>1, <1>3, PromptHook, ReenteredIs DEF Rest0
<1>5. GoodInput(k, t, Reg!NoChain) /\ t.rest.turn <= turns[k]
  BY <1>3, <1>4, NoChainIsGood DEF GoodInput
<1>6. ASSUME MadeBy(k, t, Reg!NoChain)
      PROVE  HookFits(Goto(h, "observe", w), sessions'[k], chains', turns[k],
                      Len(published))
  <2>1. SnapFits(w, sessions'[k], chains') /\ w.session = t
    BY <1>6, WrittenFits DEF HookInv
  <2>2. ~NeedsReconcile(w) BY <1>6, WrittenIsLevel
  <2>3. StepFits("observe", w, h.event)
    BY <1>2, <1>4, <2>1 DEF StepFits, Seen, Early, Late
  <2>4. GoodStep("observe", w, h.event, sessions'[k], chains')
    BY <2>2, <2>3 DEF GoodStep, PromptSteps
  <2> QED BY <1>1, <2>1, <2>4, HookGoes
<1>7. HookFits(Idle("none"), sessions[k], chains, turns[k], Len(published)) BY IdleFits
<1>8. Attempt(k, h.snap.chain.rev, t, Reg!NoChain, Goto(h, "observe", w), Idle("none"))
  BY DEF PromptReenter
<1> QED BY <1>2, <1>5, <1>6, <1>7, <1>8, LiveAttemptKeeps

-----------------------------------------------------------------------------
(* Recording the turn *)

LEMMA KnownIsLive ==
    ASSUME RegInv, NEW k \in Sessions, Known(k), SnapFits(hook[k].snap, sessions[k], chains)
    PROVE  /\ IsLive(hook[k].snap, sessions[k], chains)
           /\ hook[k].snap.session = sessions[k] /\ hook[k].snap.chain = Reg!Current(k)
           /\ Level(hook[k].snap)
<1> PICK snap : snap = hook[k].snap OBVIOUS
<1> PICK live : live = Snapshot(k) OBVIOUS
<1>1. /\ live.session = sessions[k]
      /\ sessions[k].auth # NoAuth => live.chain = chains[sessions[k].auth]
      /\ sessions[k].auth = NoAuth => live.chain = Reg!NoChain
  BY SnapshotFits
<1>2. live.chain = Reg!Current(k) BY DEF Snapshot
<1>3. snap.session = sessions[k] BY <1>1 DEF Known, SnapFits
<1>4. snap.chain = live.chain
  BY <1>1, <1>3 DEF Known, SnapFits
<1> QED BY <1>1, <1>2, <1>3, <1>4 DEF IsLive, Level, Known

LEMMA ObservedIs ==
    ASSUME NEW s \in Reg!SessionStates, Reg!SessionValid(s), NEW e, e.turn \in Nat
    PROVE  /\ Observed(s, e) \in Reg!SessionStates /\ Reg!SessionValid(Observed(s, e))
           /\ Observed(s, e) =
                [rev |-> s.rev + 1, mode |-> s.mode, auth |-> s.auth, crev |-> s.crev,
                 decision |-> s.decision,
                 proposal |-> IF Adjacent(s) /\ e.say = "no" THEN NoProposal ELSE s.proposal,
                 rest |-> [turn |-> e.turn, origin |-> "user", count |-> 0,
                           echo |-> s.rest.echo]]
           /\ Observed(s, e).rev = s.rev + 1
           /\ Observed(s, e).mode = s.mode /\ Observed(s, e).auth = s.auth
           /\ Observed(s, e).decision = s.decision /\ Observed(s, e).crev = s.crev
           /\ Observed(s, e).rest.turn = e.turn /\ Observed(s, e).rest.count = 0
<1>1. PICK r : r = [turn |-> e.turn, origin |-> "user", count |-> 0, echo |-> s.rest.echo]
  OBVIOUS
<1>2. PICK q : q = IF Adjacent(s) /\ e.say = "no" THEN NoProposal ELSE s.proposal OBVIOUS
<1>3. PICK b : b = Bump(s) OBVIOUS
<1>4. PICK t : t = Observed(s, e) OBVIOUS
<1>5. b = [rev |-> s.rev + 1, mode |-> s.mode, auth |-> s.auth, crev |-> s.crev,
           decision |-> s.decision, proposal |-> s.proposal, rest |-> s.rest]
  BY <1>3, BumpIs
<1>6. b.rest = s.rest /\ b.proposal = s.proposal BY <1>5
<1>7. t = [b EXCEPT !.rest = [turn |-> e.turn, origin |-> "user", count |-> 0,
                              echo |-> b.rest.echo],
                    !.proposal = IF Adjacent(s) /\ e.say = "no" THEN NoProposal
                                 ELSE b.proposal]
  BY <1>3, <1>4, <1>5 DEF Observed
<1>8. /\ r = [turn |-> e.turn, origin |-> "user", count |-> 0, echo |-> b.rest.echo]
      /\ q = IF Adjacent(s) /\ e.say = "no" THEN NoProposal ELSE b.proposal
  BY <1>1, <1>2, <1>6
<1>9. t = [b EXCEPT !.rest = r, !.proposal = q] BY ONLY <1>7, <1>8
<1>10. t = [rev |-> s.rev + 1, mode |-> s.mode, auth |-> s.auth, crev |-> s.crev,
            decision |-> s.decision, proposal |-> q, rest |-> r]
  BY ONLY <1>5, <1>9
<1>11. /\ t.mode = s.mode /\ t.auth = s.auth /\ t.rest = r /\ t.proposal = q
       /\ t.decision = s.decision /\ t.crev = s.crev /\ t.rev = s.rev + 1
  BY ONLY <1>10
<1>12. r.turn = e.turn /\ r.count = 0 /\ r \in Rest BY <1>1, SessionFields DEF Rest, Circuit
<1>13. q \in Proposals \cup {NoProposal} BY <1>2, SessionFields
<1>14. t \in Reg!SessionStates
  BY <1>10, <1>12, <1>13, SessionFields DEF Reg!SessionStates, Reg!Modes
<1>15. Reg!SessionValid(t) BY <1>11 DEF Reg!SessionValid
<1>16. t = [rev |-> s.rev + 1, mode |-> s.mode, auth |-> s.auth, crev |-> s.crev,
            decision |-> s.decision,
            proposal |-> IF Adjacent(s) /\ e.say = "no" THEN NoProposal ELSE s.proposal,
            rest |-> [turn |-> e.turn, origin |-> "user", count |-> 0,
                      echo |-> s.rest.echo]]
  BY ONLY <1>1, <1>2, <1>10
<1> QED BY <1>4, <1>11, <1>12, <1>14, <1>15, <1>16

LEMMA HostObservedIs ==
    ASSUME NEW s \in Reg!SessionStates, Reg!SessionValid(s)
    PROVE  /\ HostObserved(s) \in Reg!SessionStates /\ Reg!SessionValid(HostObserved(s))
           /\ HostObserved(s) =
                [rev |-> s.rev + 1, mode |-> s.mode, auth |-> s.auth, crev |-> s.crev,
                 decision |-> s.decision, proposal |-> s.proposal,
                 rest |-> [s.rest EXCEPT !.origin = "host"]]
           /\ HostObserved(s).mode = s.mode /\ HostObserved(s).auth = s.auth
           /\ HostObserved(s).rest.turn = s.rest.turn
           /\ HostObserved(s).rest.count = s.rest.count
<1>1. PICK r : r = [s.rest EXCEPT !.origin = "host"] OBVIOUS
<1>2. PICK b : b = Bump(s) OBVIOUS
<1>3. b.rest = s.rest BY <1>2, BumpIs
<1>4. HostObserved(s) = [b EXCEPT !.rest.origin = "host"] BY <1>2 DEF HostObserved
<1>5. HostObserved(s) = [b EXCEPT !.rest = r] BY ONLY <1>1, <1>3, <1>4
<1>6. r \in Rest BY <1>1, SessionFields DEF Rest
<1>7. r.turn = s.rest.turn /\ r.count = s.rest.count BY <1>1, SessionFields DEF Rest
<1>8. PICK t : t = HostObserved(s) OBVIOUS
<1>9. /\ t \in Reg!SessionStates /\ Reg!SessionValid(t)
      /\ t = [rev |-> s.rev + 1, mode |-> s.mode, auth |-> s.auth, crev |-> s.crev,
              decision |-> s.decision, proposal |-> s.proposal, rest |-> r]
  BY <1>2, <1>5, <1>6, <1>8, RestChanged
<1>10. t.mode = s.mode /\ t.auth = s.auth /\ t.rest = r BY ONLY <1>9
<1> QED BY <1>1, <1>7, <1>8, <1>9, <1>10

LEMMA RerootedIs ==
    ASSUME NEW s \in Reg!SessionStates, Reg!SessionValid(s), NEW e, e.turn \in Nat,
           NEW a \in Auths
    PROVE  /\ Rerooted(s, a, e) \in Reg!SessionStates /\ Reg!SessionValid(Rerooted(s, a, e))
           /\ Rerooted(s, a, e) =
                [rev |-> s.rev + 1, mode |-> "tracked", auth |-> a, crev |-> 1,
                 decision |-> s.decision, proposal |-> NoProposal,
                 rest |-> [turn |-> e.turn, origin |-> "user", count |-> 0,
                           echo |-> s.rest.echo]]
           /\ Rerooted(s, a, e).mode = "tracked" /\ Rerooted(s, a, e).auth = a
           /\ Rerooted(s, a, e).rest.turn = e.turn /\ Rerooted(s, a, e).rest.count = 0
           /\ Rerooted(s, a, e).decision = s.decision
<1>1. PICK o : o = Observed(s, e) OBVIOUS
<1>2. PICK r : r = [turn |-> e.turn, origin |-> "user", count |-> 0, echo |-> s.rest.echo]
  OBVIOUS
<1>3. PICK q : q = IF Adjacent(s) /\ e.say = "no" THEN NoProposal ELSE s.proposal OBVIOUS
<1>4. PICK t : t = Rerooted(s, a, e) OBVIOUS
<1>5. o = [rev |-> s.rev + 1, mode |-> s.mode, auth |-> s.auth, crev |-> s.crev,
           decision |-> s.decision, proposal |-> q, rest |-> r]
  BY <1>1, <1>2, <1>3, ObservedIs
<1>6. t = [o EXCEPT !.mode = "tracked", !.auth = a, !.crev = 1, !.proposal = NoProposal]
  BY <1>1, <1>4 DEF Rerooted
<1>7. t = [rev |-> s.rev + 1, mode |-> "tracked", auth |-> a, crev |-> 1,
           decision |-> s.decision, proposal |-> NoProposal, rest |-> r]
  BY ONLY <1>5, <1>6
<1>8. /\ t.mode = "tracked" /\ t.auth = a /\ t.rest = r /\ t.crev = 1
      /\ t.decision = s.decision /\ t.proposal = NoProposal
  BY ONLY <1>7
<1>9. r.turn = e.turn /\ r.count = 0 /\ r \in Rest BY <1>2, SessionFields DEF Rest, Circuit
<1>10. a # NoAuth BY LifecycleAssumption
<1>11. s.rev + 1 \in Nat /\ s.decision \in Auths \cup {NoAuth} BY SessionFields
<1>12. t \in Reg!SessionStates BY <1>7, <1>9, <1>11 DEF Reg!SessionStates, Reg!Modes
<1>13. Reg!SessionValid(t) BY <1>8, <1>10 DEF Reg!SessionValid
<1> QED BY <1>2, <1>4, <1>7, <1>8, <1>9, <1>12, <1>13

LEMMA NewChainIs ==
    ASSUME NEW root \in Roots, NEW k \in Sessions, NEW turn \in Nat
    PROVE  /\ NewChain(root, k, turn) \in Reg!ChainStates
           /\ Reg!ChainValid(NewChain(root, k, turn))
BY LifecycleAssumption DEF NewChain, Reg!ChainStates, Reg!ChainValid, Tags

LEMMA SuccessorChainIs ==
    ASSUME NEW k \in Sessions, NEW snap \in Snapshots, Adjacent(snap.session), NEW e,
           e.turn \in Nat, snap.chain.record # 0
    PROVE  /\ SuccessorChain(k, snap, e) \in Reg!ChainStates
           /\ Reg!ChainValid(SuccessorChain(k, snap, e))
           /\ SuccessorChain(k, snap, e) =
                [status |-> "active", root |-> snap.session.proposal.root, rev |-> 1,
                 record |-> snap.chain.record, succ |-> NoAuth, evidence |-> TRUE,
                 tag |-> [grant |-> <<k, e.turn>>, title |-> FALSE]]
<1>1. PICK r, d, g : r = snap.session.proposal.root /\ d = snap.chain.record
                       /\ g = <<k, e.turn>>
  OBVIOUS
<1>2. r \in Roots BY <1>1, SnapFields, SessionFields DEF Adjacent, Proposals
<1>3. d \in 0..MaxRecords /\ d # 0
  <2>1. CASE snap.chain \in Reg!ChainStates BY <1>1, <2>1, ChainFields
  <2>2. CASE snap.chain = Reg!NoChain BY <1>1, <2>2 DEF Reg!NoChain
  <2> QED BY <2>1, <2>2, SnapFields
<1>4. g \in Sessions \X Nat BY <1>1
<1>5. PICK x : x = [grant |-> g, title |-> TRUE] OBVIOUS
<1>6. PICK y : y = [grant |-> g, title |-> FALSE] OBVIOUS
<1>7. PICK c : c = [status |-> "active", root |-> r, rev |-> 1, record |-> 0,
                    succ |-> NoAuth, evidence |-> FALSE, tag |-> x]
  OBVIOUS
<1>8. PICK t : t = SuccessorChain(k, snap, e) OBVIOUS
<1>9. c = NewChain(snap.session.proposal.root, k, e.turn) BY <1>1, <1>5, <1>7 DEF NewChain
<1>10. t = [c EXCEPT !.record = d, !.evidence = TRUE, !.tag.title = FALSE]
  BY <1>1, <1>8, <1>9 DEF SuccessorChain
<1>11. c.tag = x BY ONLY <1>7
<1>12. PICK z : z = [x EXCEPT !.title = FALSE] OBVIOUS
<1>13. z = y
  <2>1. z = [grant |-> g, title |-> FALSE] BY ONLY <1>5, <1>12
  <2> QED BY ONLY <1>6, <2>1
<1>14. t = [c EXCEPT !.record = d, !.evidence = TRUE, !.tag = y]
  BY ONLY <1>7, <1>10, <1>11, <1>12, <1>13
<1>15. t = [status |-> "active", root |-> r, rev |-> 1, record |-> d, succ |-> NoAuth,
            evidence |-> TRUE, tag |-> y]
  BY ONLY <1>7, <1>14
<1>16. y \in Tags BY ONLY <1>4, <1>6 DEF Tags
<1>17. t \in Reg!ChainStates BY <1>2, <1>3, <1>15, <1>16, LifecycleAssumption DEF Reg!ChainStates
<1>18. Reg!ChainValid(t) BY <1>3, <1>15 DEF Reg!ChainValid
<1> QED BY <1>1, <1>6, <1>8, <1>15, <1>17, <1>18

AfterTurn(k, snap) == Goto(hook[k], AfterObserve(snap, hook[k].event), snap)
TurnLost(k) == Goto(hook[k], Unobserved(hook[k].snap, hook[k].event), hook[k].snap)

LEMMA LostFits ==
    ASSUME HookInv, NEW k \in Sessions, hook[k].pc \in PromptSteps
    PROVE  HookFits(TurnLost(k), sessions[k], chains, turns[k], Len(published))
<1>1. SnapFits(hook[k].snap, sessions[k], chains) BY PromptHook DEF PromptFits
<1>2. GoodStep(Unobserved(hook[k].snap, hook[k].event), hook[k].snap, hook[k].event,
               sessions[k], chains)
  BY UnobservedIsGood
<1> QED BY <1>1, <1>2, HookGoes DEF TurnLost

\* The turn is recorded by a session that says so.
LEMMA RecordKeeps ==
    ASSUME HookInv, NEW k \in Sessions, hook[k].pc \in PromptSteps, NEW t, NEW c,
           GoodInput(k, t, c), t.rest.turn <= turns[k],
           ~hook[k].event.host => t.rest.turn = hook[k].event.turn /\ t.rest.count = 0,
           Attempt(k, hook[k].snap.chain.rev, t, c, AfterTurn(k, Written(k, t, c)),
                   TurnLost(k))
    PROVE  /\ HookInv' /\ UNCHANGED <<turns, published>>
           /\ UNCHANGED <<chains, sessions>> \/ WroteLive(k, t, c)
<1> PICK w : w = Written(k, t, c) OBVIOUS
<1> PICK e : e = hook[k].event OBVIOUS
<1>1. SnapFits(hook[k].snap, sessions[k], chains) BY PromptHook DEF PromptFits
<1>2. ASSUME MadeBy(k, t, c)
      PROVE  HookFits(AfterTurn(k, w), sessions'[k], chains', turns[k], Len(published))
  <2>1. SnapFits(w, sessions'[k], chains') /\ w.session = t
    BY <1>2, WrittenFits DEF HookInv
  <2>2. ~e.host => Seen(w, e) BY <2>1 DEF Seen
  <2>3. GoodStep(AfterObserve(w, e), w, e, sessions'[k], chains')
    BY <2>2, AfterObserveIsGood
  <2> QED BY <2>1, <2>3, HookGoes DEF AfterTurn
<1> QED BY <1>1, <1>2, LostFits, LiveAttemptKeeps

\* What recording a turn writes: the mark of a host turn, the user's turn, or the
\* chain that the user approved.
TurnWritten(k) ==
    LET e == hook[k].event   s == hook[k].snap.session   chain == hook[k].snap.chain IN
    \/ e.host /\ WroteLive(k, HostObserved(s), Reg!NoChain)
    \/ /\ ~e.host /\ s.rest.turn # e.turn /\ ~Approves(s, e)
       /\ WroteLive(k, Observed(s, e), Reg!NoChain)
    \/ /\ ~e.host /\ s.rest.turn # e.turn /\ Approves(s, e)
       /\ chain.record # 0 /\ ~chain.evidence
       /\ \E a \in Absent : WroteLive(k, Rerooted(s, a, e), SuccessorChain(k, hook[k].snap, e))

LEMMA StepObserve ==
    ASSUME HookInv, NEW k \in Sessions, PromptObserve(k)
    PROVE  /\ HookInv' /\ UNCHANGED <<turns, published>>
           /\ UNCHANGED <<chains, sessions>> \/ TurnWritten(k)
<1> PICK snap : snap = hook[k].snap OBVIOUS
<1> PICK s : s = snap.session OBVIOUS
<1> PICK e : e = hook[k].event OBVIOUS
<1>1. hook[k].pc = "observe" /\ hook[k].pc \in PromptSteps
  BY DEF PromptObserve, PromptSteps
<1>2. /\ SnapFits(snap, sessions[k], chains) /\ EventFits(e, turns[k], Len(published))
      /\ ~e.host => Unseen(snap, e) \/ Seen(snap, e)
      /\ s \in Reg!SessionStates /\ Reg!SessionValid(s) /\ snap \in Snapshots
  BY <1>1, PromptHook DEF PromptFits, StepFits, SnapFits
<1>3. e.turn \in Nat /\ (~e.host => e.turn = turns[k]) /\ turns[k] \in Nat
  BY <1>2 DEF EventFits, Events, HookInv
<1>4. CASE Skip(k, TurnLost(k))
  <2>1. HookInv' BY <1>1, <1>4, LostFits, SkipKeeps
  <2> QED BY <1>4, <2>1 DEF Skip
<1>5. CASE /\ IF e.host THEN s.rest.origin = "host" ELSE s.rest.turn = e.turn
           /\ Skip(k, AfterTurn(k, snap))
  <2>1. ~e.host => Seen(snap, e)
    BY <1>2, <1>5, SessionFields DEF Unseen
  <2>2. GoodStep(AfterObserve(snap, e), snap, e, sessions[k], chains)
    BY <2>1, AfterObserveIsGood
  <2>3. HookFits(AfterTurn(k, snap), sessions[k], chains, turns[k], Len(published))
    BY <1>1, <1>2, <2>2, HookGoes DEF AfterTurn
  <2>4. HookInv' BY <1>5, <2>3, SkipKeeps
  <2> QED BY <1>5, <2>4 DEF Skip
<1>6. CASE /\ Known(k) /\ e.host
           /\ Attempt(k, snap.chain.rev, HostObserved(s), Reg!NoChain,
                      AfterTurn(k, Written(k, HostObserved(s), Reg!NoChain)), TurnLost(k))
  <2> PICK t : t = HostObserved(s) OBVIOUS
  <2>1. /\ t \in Reg!SessionStates /\ Reg!SessionValid(t) /\ t.rest.turn = s.rest.turn
    BY <1>2, HostObservedIs
  <2>2. s.rest.turn <= turns[k] BY <1>2, <1>6, KnownIsLive DEF HookInv
  <2>3. GoodInput(k, t, Reg!NoChain) BY <2>1, NoChainIsGood DEF GoodInput
  <2>4. /\ HookInv' /\ UNCHANGED <<turns, published>>
        /\ UNCHANGED <<chains, sessions>> \/ WroteLive(k, t, Reg!NoChain)
    BY <1>1, <1>6, <2>1, <2>2, <2>3, RecordKeeps
  <2> QED BY <1>6, <2>4 DEF TurnWritten
<1>7. CASE /\ Known(k) /\ ~e.host /\ s.rest.turn # e.turn /\ ~Approves(s, e)
           /\ Attempt(k, snap.chain.rev, Observed(s, e), Reg!NoChain,
                      AfterTurn(k, Written(k, Observed(s, e), Reg!NoChain)), TurnLost(k))
  <2> PICK t : t = Observed(s, e) OBVIOUS
  <2>1. /\ t \in Reg!SessionStates /\ Reg!SessionValid(t) /\ t.rest.turn = e.turn
        /\ t.rest.count = 0
    BY <1>2, <1>3, ObservedIs
  <2>3. GoodInput(k, t, Reg!NoChain) BY <2>1, NoChainIsGood DEF GoodInput
  <2>4. /\ HookInv' /\ UNCHANGED <<turns, published>>
        /\ UNCHANGED <<chains, sessions>> \/ WroteLive(k, t, Reg!NoChain)
    BY <1>1, <1>3, <1>7, <2>1, <2>3, RecordKeeps
  <2> QED BY <1>7, <2>4 DEF TurnWritten
<1>8. CASE /\ Known(k) /\ ~e.host /\ s.rest.turn # e.turn /\ Approves(s, e)
           /\ ~(snap.chain.record = 0 \/ snap.chain.evidence)
           /\ \E a \in Absent :
                Attempt(k, snap.chain.rev, Rerooted(s, a, e), SuccessorChain(k, snap, e),
                        AfterTurn(k, Written(k, Rerooted(s, a, e),
                                             SuccessorChain(k, snap, e))), TurnLost(k))
  <2> PICK c : c = SuccessorChain(k, snap, e) OBVIOUS
  <2>1. PICK a \in Absent :
          Attempt(k, snap.chain.rev, Rerooted(s, a, e), c,
                  AfterTurn(k, Written(k, Rerooted(s, a, e), c)), TurnLost(k))
    BY <1>8
  <2> PICK t : t = Rerooted(s, a, e) OBVIOUS
  <2>2. a \in Auths BY DEF Absent
  <2>3. /\ t \in Reg!SessionStates /\ Reg!SessionValid(t) /\ t.rest.turn = e.turn
        /\ t.rest.count = 0
    BY <1>2, <1>3, <2>2, RerootedIs
  <2>4. c \in Reg!ChainStates /\ Reg!ChainValid(c)
    BY <1>2, <1>3, <1>8, SuccessorChainIs DEF Approves
  <2>5. GoodInput(k, t, c) BY <2>3, <2>4 DEF GoodInput
  <2>6. /\ HookInv' /\ UNCHANGED <<turns, published>>
        /\ UNCHANGED <<chains, sessions>> \/ WroteLive(k, t, c)
    <3>1. Attempt(k, hook[k].snap.chain.rev, t, c, AfterTurn(k, Written(k, t, c)),
                  TurnLost(k))
      BY <2>1
    <3>2. /\ t.rest.turn <= turns[k]
          /\ t.rest.turn = hook[k].event.turn /\ t.rest.count = 0
      BY <1>3, <1>8, <2>3
    <3> QED BY ONLY HookInv, k \in Sessions, <1>1, <2>5, <3>1, <3>2, RecordKeeps
  <2> QED BY <1>8, <2>6 DEF TurnWritten
<1> QED BY <1>4, <1>5, <1>6, <1>7, <1>8 DEF PromptObserve, AfterTurn, TurnLost

-----------------------------------------------------------------------------
(* What follows the turn *)

\* The session with the origin of the turn left in it.
Marked(s, e) == [Bump(s) EXCEPT !.rest.origin = Origin(e)]

LEMMA StepMark ==
    ASSUME HookInv, NEW k \in Sessions, PromptMark(k)
    PROVE  /\ HookInv' /\ UNCHANGED <<turns, published>>
           /\ \/ UNCHANGED <<chains, sessions>>
              \/ WroteLive(k, Marked(hook[k].snap.session, hook[k].event), Reg!NoChain)
<1> PICK s : s = hook[k].snap.session OBVIOUS
<1> PICK t : t = Marked(s, hook[k].event) OBVIOUS
<1>1. hook[k].pc = "mark" /\ hook[k].pc \in PromptSteps BY DEF PromptMark, PromptSteps
<1>2. /\ SnapFits(hook[k].snap, sessions[k], chains)
      /\ s \in Reg!SessionStates /\ Reg!SessionValid(s)
  BY <1>1, PromptHook DEF PromptFits
<1>3. t \in Reg!SessionStates /\ Reg!SessionValid(t) /\ t.rest.turn = s.rest.turn
  <2> PICK r : r = [s.rest EXCEPT !.origin = Origin(hook[k].event)] OBVIOUS
  <2>1. r \in Rest /\ r.turn = s.rest.turn BY <1>2, SessionFields DEF Rest, Origin
  <2>2. t = [Bump(s) EXCEPT !.rest = r] BY <1>2, BumpIs DEF Marked
  <2> QED BY ONLY <1>2, <2>1, <2>2, RestChanged
<1>4. IsLive(hook[k].snap, sessions[k], chains)
        => GoodInput(k, t, Reg!NoChain) /\ t.rest.turn <= turns[k]
  BY <1>3, NoChainIsGood, LiveTurn DEF GoodInput
<1>5. /\ HookFits(Idle("none"), sessions'[k], chains', turns[k], Len(published))
      /\ HookFits(Idle("none"), sessions[k], chains, turns[k], Len(published))
  BY IdleFits
<1>6. Attempt(k, hook[k].snap.chain.rev, t, Reg!NoChain, Idle("none"), Idle("none"))
  BY DEF PromptMark, Marked
<1> QED BY <1>2, <1>4, <1>5, <1>6, LiveAttemptKeeps

LEMMA StepClear ==
    ASSUME HookInv, NEW k \in Sessions, PromptClear(k)
    PROVE  /\ HookInv' /\ UNCHANGED <<turns, published>>
           /\ \/ UNCHANGED <<chains, sessions>>
              \/ WroteLive(k, EchoSpent(hook[k].snap.session), Reg!NoChain)
<1> PICK h : h = hook[k] OBVIOUS
<1> PICK t : t = EchoSpent(h.snap.session) OBVIOUS
<1> PICK w : w = Written(k, t, Reg!NoChain) OBVIOUS
<1>1. h.pc = "clear" /\ h.pc \in PromptSteps BY DEF PromptClear, PromptSteps
<1>2. SnapFits(h.snap, sessions[k], chains) /\ Seen(h.snap, h.event) /\ ~h.event.host
  BY <1>1, PromptHook DEF PromptFits, StepFits, Late
<1>3. /\ t \in Reg!SessionStates /\ Reg!SessionValid(t)
      /\ t.rest.turn = h.snap.session.rest.turn /\ t.rest.count = h.snap.session.rest.count
  BY <1>1, PromptHook, EchoSpentIs
<1>4. IsLive(h.snap, sessions[k], chains)
        => GoodInput(k, t, Reg!NoChain) /\ t.rest.turn <= turns[k]
  BY <1>3, NoChainIsGood, LiveTurn DEF GoodInput
<1>5. ASSUME MadeBy(k, t, Reg!NoChain)
      PROVE  HookFits(Goto(h, AfterClear(w, h.event), w), sessions'[k], chains', turns[k],
                      Len(published))
  <2>1. SnapFits(w, sessions'[k], chains') /\ w.session = t
    BY <1>5, WrittenFits DEF HookInv
  <2>2. Seen(w, h.event) BY <1>2, <1>3, <2>1 DEF Seen
  <2>3. GoodStep(AfterClear(w, h.event), w, h.event, sessions'[k], chains')
    BY <1>2, <2>2, AfterClearIsGood
  <2> QED BY <1>1, <2>1, <2>3, HookGoes
<1>6. HookFits(Goto(h, AfterClear(h.snap, h.event), h.snap), sessions[k], chains, turns[k],
               Len(published))
  <2>1. GoodStep(AfterClear(h.snap, h.event), h.snap, h.event, sessions[k], chains)
    BY <1>2, AfterClearIsGood
  <2> QED BY <1>1, <1>2, <2>1, HookGoes
<1>7. Attempt(k, h.snap.chain.rev, t, Reg!NoChain, Goto(h, AfterClear(w, h.event), w),
              Goto(h, AfterClear(h.snap, h.event), h.snap))
  BY DEF PromptClear, EchoSpent
<1> QED BY <1>2, <1>4, <1>5, <1>6, <1>7, LiveAttemptKeeps

LEMMA AnsweredIs ==
    ASSUME NEW s \in Reg!SessionStates, Reg!SessionValid(s), NEW e, e.turn \in Nat
    PROVE  /\ Answered(s, e) \in Reg!SessionStates /\ Reg!SessionValid(Answered(s, e))
           /\ Answered(s, e) =
                [rev |-> s.rev + 1,
                 mode |-> IF s.mode = "awaiting" THEN "tracked" ELSE s.mode,
                 auth |-> s.auth, crev |-> s.crev,
                 decision |-> IF s.mode = "awaiting" THEN NoAuth ELSE s.decision,
                 proposal |-> s.proposal,
                 rest |-> [turn |-> e.turn, origin |-> s.rest.origin, count |-> 0,
                           echo |-> s.rest.echo]]
           /\ Answered(s, e).mode = (IF s.mode = "awaiting" THEN "tracked" ELSE s.mode)
           /\ Answered(s, e).decision = (IF s.mode = "awaiting" THEN NoAuth ELSE s.decision)
           /\ Answered(s, e).auth = s.auth
           /\ Answered(s, e).rest.turn = e.turn /\ Answered(s, e).rest.count = 0
<1>1. PICK r : r = [turn |-> e.turn, origin |-> s.rest.origin, count |-> 0,
                    echo |-> s.rest.echo]
  OBVIOUS
<1>2. PICK m : m = IF s.mode = "awaiting" THEN "tracked" ELSE s.mode OBVIOUS
<1>3. PICK d : d = IF s.mode = "awaiting" THEN NoAuth ELSE s.decision OBVIOUS
<1>4. PICK b : b = Bump(s) OBVIOUS
<1>5. PICK t : t = Answered(s, e) OBVIOUS
<1>6. PICK x : x = [s.rest EXCEPT !.count = 0, !.turn = e.turn] OBVIOUS
<1>7. b = [rev |-> s.rev + 1, mode |-> s.mode, auth |-> s.auth, crev |-> s.crev,
           decision |-> s.decision, proposal |-> s.proposal, rest |-> s.rest]
  BY <1>4, BumpIs
<1>8. b.mode = s.mode /\ b.decision = s.decision /\ b.rest = s.rest BY ONLY <1>7
<1>9. t = [b EXCEPT !.mode = IF b.mode = "awaiting" THEN "tracked" ELSE b.mode,
                    !.decision = IF s.mode = "awaiting" THEN NoAuth ELSE b.decision,
                    !.rest.count = 0, !.rest.turn = e.turn]
  BY <1>4, <1>5, <1>7 DEF Answered
<1>10. /\ m = IF b.mode = "awaiting" THEN "tracked" ELSE b.mode
       /\ d = IF s.mode = "awaiting" THEN NoAuth ELSE b.decision
  BY <1>2, <1>3, <1>8
<1>11. x = r
  <2>1. s.rest = [turn |-> s.rest.turn, origin |-> s.rest.origin, count |-> s.rest.count,
                  echo |-> s.rest.echo]
    BY SessionFields DEF Rest
  <2>2. PICK y : y = s.rest OBVIOUS
  <2>3. x = [y EXCEPT !.count = 0, !.turn = e.turn] BY <1>6, <2>2
  <2>4. y = [turn |-> s.rest.turn, origin |-> s.rest.origin, count |-> s.rest.count,
             echo |-> s.rest.echo]
    BY <2>1, <2>2
  <2>5. x = [turn |-> e.turn, origin |-> s.rest.origin, count |-> 0, echo |-> s.rest.echo]
    BY ONLY <2>3, <2>4
  <2> QED BY ONLY <1>1, <2>5
<1>12. t = [b EXCEPT !.mode = m, !.decision = d, !.rest = x]
  <2>1. PICK y : y = [b EXCEPT !.mode = m, !.decision = d] OBVIOUS
  <2>2. t = [y EXCEPT !.rest.count = 0, !.rest.turn = e.turn]
    BY ONLY <1>9, <1>10, <2>1
  <2>3. y = [rev |-> s.rev + 1, mode |-> m, auth |-> s.auth, crev |-> s.crev,
             decision |-> d, proposal |-> s.proposal, rest |-> s.rest]
    BY ONLY <1>7, <2>1
  <2>4. y.rest = s.rest BY ONLY <2>3
  <2>5. t = [y EXCEPT !.rest = x] BY ONLY <1>6, <2>2, <2>3, <2>4
  <2> QED BY ONLY <2>1, <2>5
<1>13. t = [rev |-> s.rev + 1, mode |-> m, auth |-> s.auth, crev |-> s.crev,
            decision |-> d, proposal |-> s.proposal, rest |-> r]
  BY ONLY <1>7, <1>11, <1>12
<1>14. /\ t.mode = m /\ t.decision = d /\ t.rest = r /\ t.auth = s.auth
       /\ t.proposal = s.proposal /\ t.crev = s.crev
  BY ONLY <1>13
<1>15. r.turn = e.turn /\ r.count = 0 /\ r \in Rest BY <1>1, SessionFields DEF Rest, Circuit
<1>16. m \in Reg!Modes /\ (m = "ungated" <=> s.mode = "ungated") /\ m # "awaiting"
  BY <1>2, SessionFields DEF Reg!Modes
<1>17. d \in Auths \cup {NoAuth} BY <1>3, SessionFields
<1>18. t \in Reg!SessionStates
  BY <1>13, <1>15, <1>16, <1>17, SessionFields DEF Reg!SessionStates
<1>19. Reg!SessionValid(t) BY <1>14, <1>16 DEF Reg!SessionValid
<1>20. Answered(s, e) =
         [rev |-> s.rev + 1,
          mode |-> IF s.mode = "awaiting" THEN "tracked" ELSE s.mode,
          auth |-> s.auth, crev |-> s.crev,
          decision |-> IF s.mode = "awaiting" THEN NoAuth ELSE s.decision,
          proposal |-> s.proposal,
          rest |-> [turn |-> e.turn, origin |-> s.rest.origin, count |-> 0,
                    echo |-> s.rest.echo]]
  BY ONLY <1>1, <1>2, <1>3, <1>5, <1>13
<1> QED BY <1>2, <1>3, <1>5, <1>14, <1>15, <1>18, <1>19, <1>20

LEMMA StepAnswer ==
    ASSUME HookInv, NEW k \in Sessions, PromptAnswer(k)
    PROVE  /\ HookInv' /\ UNCHANGED <<turns, published>>
           /\ \/ UNCHANGED <<chains, sessions>>
              \/ WroteLive(k, Answered(hook[k].snap.session, hook[k].event), Reg!NoChain)
<1> PICK h : h = hook[k] OBVIOUS
<1> PICK t : t = Answered(h.snap.session, h.event) OBVIOUS
<1> PICK w : w = Written(k, t, Reg!NoChain) OBVIOUS
<1>1. h.pc = "answer" /\ h.pc \in PromptSteps BY DEF PromptAnswer, PromptSteps
<1>2. SnapFits(h.snap, sessions[k], chains) /\ Seen(h.snap, h.event) /\ ~h.event.host
      /\ EventFits(h.event, turns[k], Len(published))
  BY <1>1, PromptHook DEF PromptFits, StepFits, Late
<1>3. h.event.turn = turns[k] /\ turns[k] \in Nat BY <1>2 DEF EventFits, HookInv
<1>4. /\ t \in Reg!SessionStates /\ Reg!SessionValid(t)
      /\ t.rest.turn = h.event.turn /\ t.rest.count = 0
  BY <1>1, <1>3, PromptHook, AnsweredIs
<1>5. GoodInput(k, t, Reg!NoChain) /\ t.rest.turn <= turns[k]
  BY <1>3, <1>4, NoChainIsGood DEF GoodInput
<1>6. ASSUME MadeBy(k, t, Reg!NoChain)
      PROVE  HookFits(Goto(h, AfterAnswer(w, h.event), w), sessions'[k], chains', turns[k],
                      Len(published))
  <2>1. SnapFits(w, sessions'[k], chains') /\ w.session = t
    BY <1>6, WrittenFits DEF HookInv
  <2>2. Seen(w, h.event) BY <1>4, <2>1 DEF Seen
  <2>3. GoodStep(AfterAnswer(w, h.event), w, h.event, sessions'[k], chains')
    BY <1>2, <2>2, AfterAnswerIsGood
  <2> QED BY <1>1, <2>1, <2>3, HookGoes
<1>7. HookFits(Goto(h, AfterAnswer(h.snap, h.event), h.snap), sessions[k], chains, turns[k],
               Len(published))
  <2>1. GoodStep(AfterAnswer(h.snap, h.event), h.snap, h.event, sessions[k], chains)
    BY <1>2, AfterAnswerIsGood
  <2> QED BY <1>1, <1>2, <2>1, HookGoes
<1>8. Attempt(k, h.snap.chain.rev, t, Reg!NoChain, Goto(h, AfterAnswer(w, h.event), w),
              Goto(h, AfterAnswer(h.snap, h.event), h.snap))
  BY DEF PromptAnswer
<1> QED BY <1>2, <1>5, <1>6, <1>7, <1>8, LiveAttemptKeeps

LEMMA HoldingIs ==
    ASSUME NEW s \in Reg!SessionStates, NEW a \in Auths, NEW rev \in Nat
    PROVE  /\ Holding(s, a, rev) \in Reg!SessionStates
           /\ Reg!SessionValid(Holding(s, a, rev))
           /\ Holding(s, a, rev) =
                [rev |-> s.rev + 1, mode |-> "tracked", auth |-> a, crev |-> rev,
                 decision |-> s.decision, proposal |-> s.proposal, rest |-> s.rest]
           /\ Holding(s, a, rev).mode = "tracked" /\ Holding(s, a, rev).auth = a
           /\ Holding(s, a, rev).rest = s.rest
<1>1. PICK b : b = Bump(s) OBVIOUS
<1>2. PICK t : t = Holding(s, a, rev) OBVIOUS
<1>3. b = [rev |-> s.rev + 1, mode |-> s.mode, auth |-> s.auth, crev |-> s.crev,
           decision |-> s.decision, proposal |-> s.proposal, rest |-> s.rest]
  BY <1>1, BumpIs
<1>4. t = [b EXCEPT !.mode = "tracked", !.auth = a, !.crev = rev] BY <1>1, <1>2 DEF Holding
<1>5. t = [rev |-> s.rev + 1, mode |-> "tracked", auth |-> a, crev |-> rev,
           decision |-> s.decision, proposal |-> s.proposal, rest |-> s.rest]
  BY ONLY <1>3, <1>4
<1>6. a # NoAuth BY LifecycleAssumption
<1>7. t \in Reg!SessionStates BY <1>5, SessionFields DEF Reg!SessionStates, Reg!Modes
<1>8. t.mode = "tracked" /\ t.auth = a /\ t.rest = s.rest BY ONLY <1>5
<1>9. Reg!SessionValid(t) BY <1>6, <1>8 DEF Reg!SessionValid
<1> QED BY <1>2, <1>5, <1>7, <1>8, <1>9

\* A session that holds no chain takes one: only its own revision has to be live.
LEMMA EnrollKeeps ==
    ASSUME HookInv, NEW k \in Sessions, hook[k].pc \in PromptSteps,
           hook[k].snap.session.mode = "ungated",
           NEW a \in Auths, NEW rev \in Nat, NEW c, NEW chainRev, NEW done, NEW undone,
           c \in Reg!ChainStates \cup {Reg!NoChain}, Reg!ChainValid(c),
           Attempt(k, chainRev, Holding(hook[k].snap.session, a, rev), c, done, undone),
           HookFits(done, sessions'[k], chains', turns[k], Len(published)),
           HookFits(undone, sessions[k], chains, turns[k], Len(published))
    PROVE  /\ HookInv' /\ UNCHANGED <<turns, published>>
           /\ \/ UNCHANGED <<chains, sessions>>
              \/ WroteLive(k, Holding(hook[k].snap.session, a, rev), c)
<1> PICK snap : snap = hook[k].snap OBVIOUS
<1> PICK t : t = Holding(snap.session, a, rev) OBVIOUS
<1>1. /\ SnapFits(snap, sessions[k], chains)
      /\ snap.session \in Reg!SessionStates /\ Reg!SessionValid(snap.session)
  BY PromptHook DEF PromptFits
<1>2. Reg!Fresh(k, t, chainRev, snap.session.rev) => IsLive(snap, sessions[k], chains)
  BY <1>1 DEF Reg!Fresh, SnapFits, IsLive, Reg!SessionValid
<1>3. /\ t \in Reg!SessionStates /\ Reg!SessionValid(t)
      /\ t.rest.turn = snap.session.rest.turn
  BY <1>1, HoldingIs
<1>4. GoodInput(k, t, c) BY <1>3 DEF GoodInput
<1>5. IsLive(snap, sessions[k], chains) => t.rest.turn <= turns[k]
  BY <1>3, LiveTurn
<1>6. /\ HookInv' /\ UNCHANGED <<turns, published>>
      /\ \/ UNCHANGED <<chains, sessions>>
         \/ MadeBy(k, t, c) /\ Reg!Fresh(k, t, chainRev, hook[k].snap.session.rev)
  BY <1>2, <1>4, <1>5, AttemptKeeps
<1> QED BY <1>2, <1>6 DEF WroteLive

\* What the prompt hook writes to enroll its session in a chain it creates, or in
\* one that is there.
Enrolled(k) ==
    LET s == hook[k].snap.session IN
    \E a \in Absent :
        WroteLive(k, Holding(s, a, 1), NewChain(hook[k].event.arg, k, s.rest.turn))
Held(k) ==
    LET s == hook[k].snap.session IN
    \E a \in Auths : WroteLive(k, Holding(s, a, chains[a].rev), Reg!NoChain)

LEMMA HoldKeeps ==
    ASSUME HookInv, NEW k \in Sessions, hook[k].pc \in PromptSteps,
           hook[k].snap.session.mode = "ungated", NEW a \in Auths, PromptHold(k, a)
    PROVE  /\ HookInv' /\ UNCHANGED <<turns, published>>
           /\ UNCHANGED <<chains, sessions>> \/ Held(k)
<1>1. PICK rev \in Nat : rev = chains[a].rev BY RegistryFields DEF HookInv
<1>2. Attempt(k, rev, Holding(hook[k].snap.session, a, rev), Reg!NoChain, Idle("none"),
              Idle("none"))
  BY <1>1 DEF PromptHold
<1>3. /\ HookFits(Idle("none"), sessions'[k], chains', turns[k], Len(published))
      /\ HookFits(Idle("none"), sessions[k], chains, turns[k], Len(published))
  BY IdleFits
<1>4. /\ HookInv' /\ UNCHANGED <<turns, published>>
      /\ \/ UNCHANGED <<chains, sessions>>
         \/ WroteLive(k, Holding(hook[k].snap.session, a, rev), Reg!NoChain)
  BY <1>2, <1>3, NoChainIsGood, EnrollKeeps
<1> QED BY <1>1, <1>4 DEF Held

LEMMA IdleSkip ==
    ASSUME HookInv, NEW k \in Sessions, Skip(k, Idle("none"))
    PROVE  HookInv' /\ UNCHANGED <<turns, published>> /\ UNCHANGED <<chains, sessions>>
<1>1. HookFits(Idle("none"), sessions[k], chains, turns[k], Len(published)) BY IdleFits
<1>2. HookInv' BY <1>1, SkipKeeps
<1> QED BY <1>2 DEF Skip

LEMMA StepTrack ==
    ASSUME HookInv, NEW k \in Sessions, PromptTrack(k)
    PROVE  /\ HookInv' /\ UNCHANGED <<turns, published>>
           /\ UNCHANGED <<chains, sessions>> \/ Enrolled(k)
<1> PICK snap : snap = hook[k].snap OBVIOUS
<1> PICK s : s = snap.session OBVIOUS
<1> PICK e : e = hook[k].event OBVIOUS
<1>1. hook[k].pc = "track" /\ hook[k].pc \in PromptSteps BY DEF PromptTrack, PromptSteps
<1>2. /\ SnapFits(snap, sessions[k], chains) /\ EventFits(e, turns[k], Len(published))
      /\ StepFits("track", snap, e) /\ s.mode = "ungated" /\ e.say = "track"
      /\ s \in Reg!SessionStates /\ Reg!SessionValid(s)
  BY <1>1, PromptHook DEF PromptFits, StepFits
<1>3. HookFits(Goto(hook[k], "join", snap), sessions[k], chains, turns[k], Len(published))
  <2>1. GoodStep("join", snap, e, sessions[k], chains)
    BY <1>2 DEF GoodStep, StepFits, PromptSteps, Early, Late
  <2> QED BY <1>1, <1>2, <2>1, HookGoes
<1>4. CASE Skip(k, Idle("none")) BY <1>4, IdleSkip
<1>5. CASE Skip(k, Goto(hook[k], "join", snap))
  <2>1. HookInv' BY <1>3, <1>5, SkipKeeps
  <2> QED BY <1>5, <2>1 DEF Skip
<1>6. CASE \E a \in Absent :
             Attempt(k, 0, Holding(s, a, 1), NewChain(e.arg, k, s.rest.turn),
                     Idle("none"), Goto(hook[k], "join", snap))
  <2>1. PICK a \in Absent :
          Attempt(k, 0, Holding(s, a, 1), NewChain(e.arg, k, s.rest.turn),
                  Idle("none"), Goto(hook[k], "join", snap))
    BY <1>6
  <2> PICK c : c = NewChain(e.arg, k, s.rest.turn) OBVIOUS
  <2>2. c \in Reg!ChainStates \cup {Reg!NoChain} /\ Reg!ChainValid(c)
    <3>1. e.arg \in Roots /\ s.rest.turn \in Nat BY <1>2, SessionFields DEF EventFits
    <3> QED BY <3>1, NewChainIs
  <2>3. HookFits(Idle("none"), sessions'[k], chains', turns[k], Len(published)) BY IdleFits
  <2>4. a \in Auths /\ 1 \in Nat BY DEF Absent
  <2>5. /\ HookInv' /\ UNCHANGED <<turns, published>>
        /\ UNCHANGED <<chains, sessions>> \/ WroteLive(k, Holding(s, a, 1), c)
    BY <1>1, <1>2, <1>3, <2>1, <2>2, <2>3, <2>4, EnrollKeeps
  <2> QED BY <2>5 DEF Enrolled
<1> QED BY <1>4, <1>5, <1>6 DEF PromptTrack

LEMMA StepJoin ==
    ASSUME HookInv, NEW k \in Sessions, PromptJoin(k)
    PROVE  /\ HookInv' /\ UNCHANGED <<turns, published>>
           /\ UNCHANGED <<chains, sessions>> \/ Held(k)
<1>1. hook[k].pc = "join" /\ hook[k].pc \in PromptSteps BY DEF PromptJoin, PromptSteps
<1>2. hook[k].snap.session.mode = "ungated" BY <1>1, PromptHook DEF PromptFits, StepFits
<1>3. CASE Skip(k, Idle("none")) BY <1>3, IdleSkip
<1>4. CASE \E a \in Owners(hook[k].event.arg) : PromptHold(k, a)
  BY <1>1, <1>2, <1>4, HoldKeeps DEF Owners
<1> QED BY <1>3, <1>4 DEF PromptJoin

LEMMA StepContinue ==
    ASSUME HookInv, NEW k \in Sessions, PromptContinue(k)
    PROVE  /\ HookInv' /\ UNCHANGED <<turns, published>>
           /\ UNCHANGED <<chains, sessions>> \/ Held(k)
<1> PICK d : d = hook[k].event.arg OBVIOUS
<1>1. hook[k].pc = "continue" /\ hook[k].pc \in PromptSteps
  BY DEF PromptContinue, PromptSteps
<1>2. /\ hook[k].snap.session.mode = "ungated" /\ d \in 1..Len(published)
  BY <1>1, PromptHook DEF PromptFits, StepFits, EventFits
<1>3. published[d].auth \in Auths
  <2>1. published \in Seq(Published) BY DEF HookInv
  <2>2. published[d] \in Published BY <1>2, <2>1
  <2> QED BY <2>2 DEF Published
<1>4. CASE Skip(k, Idle("none")) BY <1>4, IdleSkip
<1>5. CASE PromptHold(k, published[d].auth) BY <1>1, <1>2, <1>3, <1>5, HoldKeeps
<1> QED BY <1>4, <1>5 DEF PromptContinue

-----------------------------------------------------------------------------
(* The steps of the stop hook *)

\* What is accepted is accepted of a session level with its chain.
LEMMA AcceptedFits ==
    ASSUME NEW snap, NEW m, Accepted(snap, m)
    PROVE  /\ Level(snap) /\ m.form \in {"wait", "reply", "decision"} \cup RecordForms
           /\ m.form = "decision" => snap.session.mode = "awaiting"
           /\ m.form # "decision" => snap.session.mode = "tracked"
           /\ m.form \in RecordForms => m.pred = snap.chain.record
BY DEF Accepted, Level, RecordForms

LEMMA JudgedFits ==
    ASSUME NEW h, NEW snap, NEW s, NEW ch, NEW t, NEW n,
           SnapFits(snap, s, ch), h.event \in Offers, h.behind \in BOOLEAN,
           ~h.behind => ~PeerAdvanced(snap) \/ snap.session.rest.count >= Circuit,
           h.behind /\ ~StorageFails /\ IsLive(snap, s, ch) => Level(snap)
    PROVE  HookFits(Judged(h, snap), s, ch, t, n)
<1>1. CASE Released(snap.session) /\ snap.session.rest.count < Circuit
  <2>1. Judged(h, snap) = Idle("allow") BY <1>1 DEF Judged
  <2>2. HookFits(Idle("allow"), s, ch, t, n) BY IdleFits
  <2> QED BY <2>1, <2>2
<1>2. CASE ~(Released(snap.session) /\ snap.session.rest.count < Circuit)
  <2>1. PICK v : v = Verdict(snap, h.event, h.behind) OBVIOUS
  <2>2. PICK p : p = IF v \in RecordForms THEN h.event.pred ELSE 0 OBVIOUS
  <2>3. PICK g : g = [pc |-> "publish", snap |-> snap, behind |-> h.behind, retry |-> TRUE,
                      verdict |-> v, pred |-> p]
    OBVIOUS
  <2>4. Judged(h, snap) = g BY <1>2, <2>1, <2>2, <2>3 DEF Judged
  <2>5. /\ g.pc = "publish" /\ g.snap = snap /\ g.behind = h.behind /\ g.retry
        /\ g.verdict = v /\ g.pred = p
    BY ONLY <2>3
  <2>6. /\ snap.session.rest.count \in 0..3 /\ snap \in Snapshots
        /\ snap.chain.rev \in Nat
    BY SnapFields, SessionFields DEF SnapFits
  <2>7. /\ v \in Verdicts /\ VerdictFits(g)
        /\ v = "uncounted" => h.behind
    <3>1. CASE snap.session.rest.count >= Circuit
      <4>1. v = "counted" BY <2>1, <3>1 DEF Verdict
      <4>2. VerdictFits(g) BY <2>5, <3>1, <4>1 DEF VerdictFits, RecordForms
      <4> QED BY <4>1, <4>2 DEF Verdicts
    <3>2. CASE snap.session.rest.count < Circuit /\ Accepted(snap, h.event)
      <4>1. v = h.event.form BY <2>1, <2>6, <3>2 DEF Verdict, Circuit
      <4>2. /\ Level(snap) /\ v \in {"wait", "reply", "decision"} \cup RecordForms
            /\ v = "decision" => snap.session.mode = "awaiting"
            /\ v # "decision" => snap.session.mode = "tracked"
            /\ v \in RecordForms => h.event.pred = snap.chain.record
        BY <3>2, <4>1, AcceptedFits
      <4>3. v \in RecordForms => p = snap.chain.record BY <2>2, <4>2
      <4>4. VerdictFits(g)
        BY <2>5, <3>2, <4>2, <4>3 DEF VerdictFits, RecordForms
      <4> QED BY <4>2, <4>4 DEF Verdicts, RecordForms
    <3>3. CASE snap.session.rest.count < Circuit /\ ~Accepted(snap, h.event)
      <4>1. v = IF h.behind /\ ~Arms(snap, h.event) THEN "uncounted" ELSE "counted"
        BY <2>1, <2>6, <3>3 DEF Verdict, Circuit
      <4>2. ~h.behind => Level(snap)
        <5>1. ~h.behind => ~PeerAdvanced(snap) BY <2>6, <3>3 DEF Circuit
        <5> QED BY <1>2, <3>3, <5>1 DEF PeerAdvanced, Released, Level
      <4>3. v = "counted" /\ h.behind => CountAfter(snap.session) = Circuit
        BY <4>1 DEF Arms
      <4>4. v \in {"counted", "uncounted"} /\ (v = "uncounted" => h.behind) BY <4>1
      <4>5. VerdictFits(g) BY <2>5, <4>2, <4>3, <4>4 DEF VerdictFits, RecordForms
      <4> QED BY <4>4, <4>5 DEF Verdicts
    <3> QED BY <2>6, <3>1, <3>2, <3>3 DEF Circuit
  <2>8. p \in Nat BY <2>2 DEF Offers
  <2>9. g \in PublishHooks BY <2>3, <2>6, <2>7, <2>8 DEF PublishHooks
  <2>10. StopFits(g, s, ch)
    BY <2>5, <2>7, <2>9 DEF StopFits
  <2> QED BY <2>4, <2>10 DEF HookFits
<1> QED BY <1>1, <1>2

LEMMA StepStop ==
    ASSUME HookInv, NEW k \in Sessions, Stop(k)
    PROVE  HookInv' /\ UNCHANGED <<chains, sessions, turns, published>>
<1> PICK snap : snap = Snapshot(k) OBVIOUS
<1> PICK behind \in BOOLEAN :
        behind = (PeerAdvanced(snap) /\ snap.session.rest.count < Circuit)
  BY DEF PeerAdvanced
<1>1. PICK m \in Messages(k) :
        LET h == [pc |-> "refresh", snap |-> snap, behind |-> behind, event |-> m]
        IN Skip(k, IF behind THEN h ELSE Judged(h, snap))
  BY DEF Stop
<1> PICK h : h = [pc |-> "refresh", snap |-> snap, behind |-> behind, event |-> m] OBVIOUS
<1>2. Skip(k, IF behind THEN h ELSE Judged(h, snap)) BY <1>1
<1>3. SnapFits(snap, sessions[k], chains) BY SnapshotFits DEF HookInv
<1>4. m \in Offers
  <2>1. Agents[k] \cap Forms \subseteq Forms OBVIOUS
  <2>2. Len(published) \in Nat BY DEF HookInv
  <2>3. m.pred \in Nat /\ m.auth \in Auths \cup {NoAuth} /\ m.form \in Forms
        /\ m = [form |-> m.form, auth |-> m.auth, pred |-> m.pred]
    BY <2>2 DEF Messages, Absent, Forms
  <2> QED BY <2>3 DEF Offers
<1>5. behind \in BOOLEAN BY DEF PeerAdvanced
<1>6. snap.session.rest.count \in 0..3 BY <1>3, SnapFields, SessionFields DEF SnapFits
<1>7. CASE behind
  <2>1. h.pc = "refresh" /\ h.snap = snap /\ h.behind BY <1>7
  <2>2. h \in RefreshHooks BY <1>3, <1>4, <1>5 DEF RefreshHooks, SnapFits
  <2>3. StopFits(h, sessions[k], chains) BY <1>3, <1>7, <2>1, <2>2 DEF StopFits
  <2>4. HookFits(h, sessions[k], chains, turns[k], Len(published)) BY <2>3 DEF HookFits
  <2>5. Skip(k, h) BY <1>2, <1>7
  <2>6. HookInv' BY <2>4, <2>5, SkipKeeps
  <2> QED BY <2>5, <2>6 DEF Skip
<1>8. CASE ~behind
  <2>1. ~PeerAdvanced(snap) \/ snap.session.rest.count >= Circuit
    <3>1. ~(PeerAdvanced(snap) /\ snap.session.rest.count < Circuit) BY <1>8
    <3> QED BY ONLY <1>6, <3>1 DEF Circuit
  <2>2. HookFits(Judged(h, snap), sessions[k], chains, turns[k], Len(published))
    <3>1. h.event \in Offers /\ h.behind \in BOOLEAN /\ ~h.behind BY <1>4, <1>5, <1>8
    <3> QED BY <1>3, <2>1, <3>1, JudgedFits
  <2>3. Skip(k, Judged(h, snap)) BY <1>2, <1>8
  <2>4. HookInv' BY <2>2, <2>3, SkipKeeps
  <2> QED BY <2>3, <2>4 DEF Skip
<1> QED BY <1>7, <1>8

\* A stop hook that takes note of what peers did.
LEMMA StepRefresh ==
    ASSUME HookInv, NEW k \in Sessions, StopRefresh(k)
    PROVE  /\ HookInv' /\ UNCHANGED <<turns, published>>
           /\ \/ UNCHANGED <<chains, sessions>>
              \/ WroteLive(k, Reconciled(hook[k].snap), Reg!NoChain)
<1> PICK h : h = hook[k] OBVIOUS
<1> PICK t : t = Reconciled(h.snap) OBVIOUS
<1> PICK w : w = Written(k, t, Reg!NoChain) OBVIOUS
<1>1. h.pc = "refresh" /\ h.pc \in StopSteps BY DEF StopRefresh, StopSteps
<1>2. /\ SnapFits(h.snap, sessions[k], chains)
      /\ PeerAdvanced(h.snap) /\ h.behind /\ h.event \in Offers
  BY <1>1, StopHook DEF StopFits, RefreshHooks, PublishHooks
<1>3. h.snap.session.mode # "ungated" BY <1>2 DEF PeerAdvanced
<1>4. /\ t \in Reg!SessionStates /\ Reg!SessionValid(t)
      /\ t.rest = h.snap.session.rest
  BY <1>2, <1>3, ReconciledIs DEF SnapFits
<1>5. IsLive(h.snap, sessions[k], chains)
        => GoodInput(k, t, Reg!NoChain) /\ t.rest.turn <= turns[k]
  BY <1>4, NoChainIsGood, LiveTurn DEF GoodInput
<1>6. ASSUME MadeBy(k, t, Reg!NoChain)
      PROVE  HookFits(Judged(h, w), sessions'[k], chains', turns[k], Len(published))
  <2>1. SnapFits(w, sessions'[k], chains') /\ w.session = t
    BY <1>6, WrittenFits DEF HookInv
  <2>2. ~NeedsReconcile(w) BY <1>6, WrittenIsLevel
  <2>3. t.mode # "ungated" BY <1>2, <1>3, ReconciledIs DEF SnapFits
  <2>4. Level(w) BY <2>1, <2>2, <2>3 DEF NeedsReconcile, Level
  <2>5. h.behind \in BOOLEAN BY <1>1, StopHook DEF StopFits, RefreshHooks, PublishHooks
  <2> QED BY <1>2, <2>1, <2>4, <2>5, JudgedFits
<1>7. ASSUME StorageFails \/ Result(k, h.snap.chain.rev, t, Reg!NoChain) # "ok"
      PROVE  HookFits(Judged(h, h.snap), sessions[k], chains, turns[k], Len(published))
  <2>1. ~StorageFails => ~IsLive(h.snap, sessions[k], chains)
    BY <1>2, <1>3, <1>7, ReconcileFailsStale DEF HookInv
  <2>2. h.behind \in BOOLEAN BY <1>1, StopHook DEF StopFits, RefreshHooks, PublishHooks
  <2> QED BY <1>2, <2>1, <2>2, JudgedFits
<1>8. Attempt(k, h.snap.chain.rev, t, Reg!NoChain, Judged(h, w), Judged(h, h.snap))
  BY DEF StopRefresh, Reconcile
<1> QED BY <1>2, <1>5, <1>6, <1>7, <1>8, LiveAttemptKeeps

\* Where a stop hook that was overtaken once goes on.
AfterCatchUp(h, snap) ==
    IF snap.session.mode = "complete" THEN Idle("allow")
    ELSE [h EXCEPT !.pc = "publish", !.snap = snap]

LEMMA CatchUpFits ==
    ASSUME NEW h \in PublishHooks, h.verdict = "uncounted", ~h.retry,
           NEW snap, NEW s, NEW ch, NEW t, NEW n, SnapFits(snap, s, ch),
           ~StorageFails /\ IsLive(snap, s, ch) => Level(snap)
    PROVE  HookFits(AfterCatchUp(h, snap), s, ch, t, n)
<1>1. CASE snap.session.mode = "complete"
  <2>1. AfterCatchUp(h, snap) = Idle("allow") BY <1>1 DEF AfterCatchUp
  <2>2. HookFits(Idle("allow"), s, ch, t, n) BY IdleFits
  <2> QED BY <2>1, <2>2
<1>2. CASE snap.session.mode # "complete"
  <2> PICK g : g = [h EXCEPT !.pc = "publish", !.snap = snap] OBVIOUS
  <2>1. AfterCatchUp(h, snap) = g BY <1>2 DEF AfterCatchUp
  <2>2. g \in PublishHooks BY DEF PublishHooks, SnapFits
  <2>3. g.pc = "publish" /\ g.snap = snap /\ g.verdict = "uncounted" /\ ~g.retry
    BY DEF PublishHooks
  <2>4. VerdictFits(g) BY <2>3 DEF VerdictFits, RecordForms
  <2>5. StopFits(g, s, ch) BY <2>2, <2>3, <2>4 DEF StopFits
  <2> QED BY <2>1, <2>5 DEF HookFits
<1> QED BY <1>1, <1>2

LEMMA StepCatchUp ==
    ASSUME HookInv, NEW k \in Sessions, StopCatchUp(k)
    PROVE  /\ HookInv' /\ UNCHANGED <<turns, published>>
           /\ \/ UNCHANGED <<chains, sessions>>
              \/ WroteLive(k, Reconciled(hook[k].snap), Reg!NoChain)
<1> PICK h : h = hook[k] OBVIOUS
<1> PICK t : t = Reconciled(h.snap) OBVIOUS
<1> PICK w : w = Written(k, t, Reg!NoChain) OBVIOUS
<1>1. h.pc = "catchup" /\ h.pc \in StopSteps BY DEF StopCatchUp, StopSteps
<1>2. /\ SnapFits(h.snap, sessions[k], chains)
      /\ PeerAdvanced(h.snap) /\ h \in PublishHooks /\ h.verdict = "uncounted" /\ ~h.retry
  BY <1>1, StopHook DEF StopFits, RefreshHooks
<1>3. h.snap.session.mode # "ungated" BY <1>2 DEF PeerAdvanced
<1>4. /\ t \in Reg!SessionStates /\ Reg!SessionValid(t)
      /\ t.rest = h.snap.session.rest
  BY <1>2, <1>3, ReconciledIs DEF SnapFits
<1>5. IsLive(h.snap, sessions[k], chains)
        => GoodInput(k, t, Reg!NoChain) /\ t.rest.turn <= turns[k]
  BY <1>4, NoChainIsGood, LiveTurn DEF GoodInput
<1>6. ASSUME MadeBy(k, t, Reg!NoChain)
      PROVE  HookFits(AfterCatchUp(h, w), sessions'[k], chains', turns[k], Len(published))
  <2>1. SnapFits(w, sessions'[k], chains') /\ w.session = t
    BY <1>6, WrittenFits DEF HookInv
  <2>2. ~NeedsReconcile(w) BY <1>6, WrittenIsLevel
  <2>3. t.mode # "ungated" BY <1>2, <1>3, ReconciledIs DEF SnapFits
  <2>4. Level(w) BY <2>1, <2>2, <2>3 DEF NeedsReconcile, Level
  <2> QED BY <1>2, <2>1, <2>4, CatchUpFits
<1>7. ASSUME StorageFails \/ Result(k, h.snap.chain.rev, t, Reg!NoChain) # "ok"
      PROVE  HookFits(AfterCatchUp(h, h.snap), sessions[k], chains, turns[k], Len(published))
  <2>1. ~StorageFails => ~IsLive(h.snap, sessions[k], chains)
    BY <1>2, <1>3, <1>7, ReconcileFailsStale DEF HookInv
  <2> QED BY <1>2, <2>1, CatchUpFits
<1>8. Attempt(k, h.snap.chain.rev, t, Reg!NoChain, AfterCatchUp(h, w),
              AfterCatchUp(h, h.snap))
  BY DEF StopCatchUp, Reconcile, AfterCatchUp
<1> QED BY <1>2, <1>5, <1>6, <1>7, <1>8, LiveAttemptKeeps

-----------------------------------------------------------------------------
(* Publishing the verdict of a turn's end *)

\* What the verdict leaves of the session's turn marks.
RestWritten(h) ==
    LET s == h.snap.session IN
    [turn |-> s.rest.turn, origin |-> s.rest.origin,
     count |-> CASE h.verdict = "uncounted" -> s.rest.count
                 [] h.verdict = "counted" -> CountAfter(s)
                 [] OTHER -> 0,
     echo |-> CASE h.verdict = "uncounted" -> TRUE
                [] h.verdict = "counted" -> CountAfter(s) < Circuit
                [] OTHER -> FALSE]

LEMMA ChainWrittenIs ==
    ASSUME NEW h
    PROVE  /\ h.verdict \in {"counted", "uncounted"} => ChainWritten(h) = Reg!NoChain
           /\ h.verdict \in RecordForms
                => ChainWritten(h) = NextChain(h.snap.chain, h.verdict)
           /\ h.verdict \notin {"counted", "uncounted"} \cup RecordForms
                => ChainWritten(h) = h.snap.chain
<1> PICK v, x, y : v = h.verdict /\ x = NextChain(h.snap.chain, h.verdict)
                   /\ y = h.snap.chain
  OBVIOUS
<1>1. ChainWritten(h) = CASE v \in {"counted", "uncounted"} -> Reg!NoChain
                          [] v \in RecordForms -> x
                          [] OTHER -> y
  BY DEF ChainWritten
<1>2. v \in RecordForms => v \notin {"counted", "uncounted"} BY DEF RecordForms
<1>3. CASE v = "counted" BY <1>1, <1>2, <1>3
<1>4. CASE v = "uncounted" BY <1>1, <1>2, <1>4
<1>5. CASE v \in RecordForms BY <1>1, <1>2, <1>5
<1>6. CASE v \notin {"counted", "uncounted"} \cup RecordForms BY <1>1, <1>6
<1> QED BY <1>3, <1>4, <1>5, <1>6

LEMMA RestWrittenIs ==
    ASSUME NEW h, h.snap.session \in Reg!SessionStates
    PROVE  /\ RestWritten(h) \in Rest
           /\ RestWritten(h).turn = h.snap.session.rest.turn
           /\ RestWritten(h).origin = h.snap.session.rest.origin
           /\ h.verdict = "uncounted" => RestWritten(h).count = h.snap.session.rest.count
           /\ h.verdict = "counted" => RestWritten(h).count = CountAfter(h.snap.session)
           /\ h.verdict \notin {"counted", "uncounted"} => RestWritten(h).count = 0
           /\ CountAfter(h.snap.session) \in 1..3
           /\ h.snap.session.rest.count \in 0..3
           /\ CountAfter(h.snap.session) >= h.snap.session.rest.count
<1>1. PICK s : s = h.snap.session OBVIOUS
<1>2. PICK v, n : v = h.verdict /\ n = CountAfter(s) OBVIOUS
<1>3. s.rest \in Rest /\ s.rest.count \in 0..3 /\ s.rest.turn \in Nat
      /\ s.rest.echo \in BOOLEAN /\ s.rest.origin \in {"none", "user", "host"}
  BY <1>1, SessionFields
<1>4. n \in 1..3 /\ n >= s.rest.count BY <1>2, <1>3 DEF CountAfter, Circuit
<1>5. PICK r : r = RestWritten(h) OBVIOUS
<1>6. PICK c : c = CASE v = "uncounted" -> s.rest.count
                     [] v = "counted" -> n
                     [] OTHER -> 0
  OBVIOUS
<1>7. PICK o : o = CASE v = "uncounted" -> TRUE
                     [] v = "counted" -> n < Circuit
                     [] OTHER -> FALSE
  OBVIOUS
<1>8. r = [turn |-> s.rest.turn, origin |-> s.rest.origin, count |-> c, echo |-> o]
  BY <1>1, <1>2, <1>5, <1>6, <1>7 DEF RestWritten
<1>9. /\ v = "uncounted" => c = s.rest.count
      /\ v = "counted" => c = n
      /\ v \notin {"counted", "uncounted"} => c = 0
  BY ONLY <1>6
<1>10. o \in BOOLEAN
  <2>1. CASE v = "uncounted" BY ONLY <1>7, <2>1
  <2>2. CASE v = "counted" BY ONLY <1>7, <2>2
  <2>3. CASE v \notin {"counted", "uncounted"} BY ONLY <1>7, <2>3
  <2> QED BY <2>1, <2>2, <2>3
<1>11. c \in 0..3 BY <1>3, <1>4, <1>9
<1>12. r \in Rest BY <1>3, <1>8, <1>10, <1>11 DEF Rest, Circuit
<1>13. r.turn = s.rest.turn /\ r.origin = s.rest.origin /\ r.count = c BY ONLY <1>8
<1> QED BY <1>1, <1>2, <1>3, <1>4, <1>5, <1>9, <1>12, <1>13

LEMMA SessionWrittenIs ==
    ASSUME NEW h, h.snap.session \in Reg!SessionStates
    PROVE  /\ SessionWritten(h) =
                [rev |-> h.snap.session.rev + 1,
                 mode |-> IF h.verdict = "audit" THEN "complete" ELSE h.snap.session.mode,
                 auth |-> h.snap.session.auth,
                 crev |-> IF h.verdict \in {"counted", "uncounted"} THEN h.snap.chain.rev
                          ELSE ChainWritten(h).rev,
                 decision |-> h.snap.session.decision,
                 proposal |-> h.snap.session.proposal, rest |-> RestWritten(h)]
           /\ SessionWritten(h).mode
                = (IF h.verdict = "audit" THEN "complete" ELSE h.snap.session.mode)
           /\ SessionWritten(h).auth = h.snap.session.auth
           /\ SessionWritten(h).rest = RestWritten(h)
           /\ SessionWritten(h).decision = h.snap.session.decision
           /\ SessionWritten(h).proposal = h.snap.session.proposal
<1>1. PICK s, v : s = h.snap.session /\ v = h.verdict OBVIOUS
<1>2. PICK b : b = Bump(s) OBVIOUS
<1>3. PICK r : r = s.rest OBVIOUS
<1>4. PICK n : n = CountAfter(s) OBVIOUS
<1>5. PICK w : w = RestWritten(h) OBVIOUS
<1>6. PICK t : t = SessionWritten(h) OBVIOUS
<1>7. PICK p, q : p = h.snap.chain.rev /\ q = ChainWritten(h).rev OBVIOUS
<1>8. PICK m : m = IF v = "audit" THEN "complete" ELSE s.mode OBVIOUS
<1>9. PICK x : x = IF v \in {"counted", "uncounted"} THEN p ELSE q OBVIOUS
<1>10. b = [rev |-> s.rev + 1, mode |-> s.mode, auth |-> s.auth, crev |-> s.crev,
            decision |-> s.decision, proposal |-> s.proposal, rest |-> r]
  BY <1>1, <1>2, <1>3, BumpIs
<1>11. b.rest = r /\ b.mode = s.mode BY ONLY <1>10
<1>12. r = [turn |-> r.turn, origin |-> r.origin, count |-> r.count, echo |-> r.echo]
  BY <1>1, <1>3, SessionFields DEF Rest
<1>13. t = [rev |-> s.rev + 1, mode |-> m, auth |-> s.auth, crev |-> x,
            decision |-> s.decision, proposal |-> s.proposal, rest |-> w]
  <2>1. CASE v = "uncounted"
    <3>1. t = [b EXCEPT !.crev = p, !.rest.echo = TRUE]
      BY <1>1, <1>2, <1>6, <1>7, <2>1 DEF SessionWritten
    <3>2. w = [turn |-> r.turn, origin |-> r.origin, count |-> r.count, echo |-> TRUE]
      BY <1>1, <1>3, <1>5, <2>1 DEF RestWritten
    <3>3. PICK y : y = [r EXCEPT !.echo = TRUE] OBVIOUS
    <3>4. y = [turn |-> r.turn, origin |-> r.origin, count |-> r.count, echo |-> TRUE]
      BY ONLY <1>12, <3>3
    <3>5. t = [b EXCEPT !.crev = p, !.rest = w]
      <4>1. y = w BY ONLY <3>2, <3>4
      <4> QED BY ONLY <1>10, <1>11, <3>1, <3>3, <4>1
    <3>6. m = s.mode /\ x = p BY <1>8, <1>9, <2>1
    <3> QED BY ONLY <1>10, <3>5, <3>6
  <2>2. CASE v = "counted"
    <3>1. t = [b EXCEPT !.crev = p, !.rest.count = n, !.rest.echo = n < Circuit]
      BY <1>1, <1>2, <1>4, <1>6, <1>7, <2>2 DEF SessionWritten
    <3>2. w = [turn |-> r.turn, origin |-> r.origin, count |-> n, echo |-> n < Circuit]
      BY <1>1, <1>3, <1>4, <1>5, <2>2 DEF RestWritten
    <3>3. PICK y : y = [r EXCEPT !.count = n, !.echo = n < Circuit] OBVIOUS
    <3>4. y = [turn |-> r.turn, origin |-> r.origin, count |-> n, echo |-> n < Circuit]
      BY ONLY <1>12, <3>3
    <3>5. t = [b EXCEPT !.crev = p, !.rest = w]
      <4>1. y = w BY ONLY <3>2, <3>4
      <4>2. PICK z : z = [b EXCEPT !.crev = p] OBVIOUS
      <4>3. z = [rev |-> s.rev + 1, mode |-> s.mode, auth |-> s.auth, crev |-> p,
                 decision |-> s.decision, proposal |-> s.proposal, rest |-> r]
        BY ONLY <1>10, <4>2
      <4>4. t = [z EXCEPT !.rest.count = n, !.rest.echo = n < Circuit]
        BY ONLY <3>1, <4>2
      <4>5. z.rest = r BY ONLY <4>3
      <4>6. t = [z EXCEPT !.rest = y] BY ONLY <3>3, <4>3, <4>4, <4>5
      <4> QED BY ONLY <4>1, <4>2, <4>6
    <3>6. m = s.mode /\ x = p BY <1>8, <1>9, <2>2
    <3> QED BY ONLY <1>10, <3>5, <3>6
  <2>3. CASE v \notin {"counted", "uncounted"}
    <3>1. t = [b EXCEPT !.crev = q, !.mode = IF v = "audit" THEN "complete" ELSE b.mode,
                        !.rest.count = 0, !.rest.echo = FALSE]
      BY <1>1, <1>2, <1>6, <1>7, <1>10, <2>3 DEF SessionWritten
    <3>2. w = [turn |-> r.turn, origin |-> r.origin, count |-> 0, echo |-> FALSE]
      BY <1>1, <1>3, <1>5, <2>3 DEF RestWritten
    <3>3. PICK y : y = [r EXCEPT !.count = 0, !.echo = FALSE] OBVIOUS
    <3>4. y = [turn |-> r.turn, origin |-> r.origin, count |-> 0, echo |-> FALSE]
      BY ONLY <1>12, <3>3
    <3>5. t = [b EXCEPT !.crev = q, !.mode = m, !.rest = w]
      <4>1. y = w BY ONLY <3>2, <3>4
      <4>2. m = IF v = "audit" THEN "complete" ELSE b.mode BY <1>8, <1>11
      <4>3. PICK z : z = [b EXCEPT !.crev = q, !.mode = m] OBVIOUS
      <4>4. z = [rev |-> s.rev + 1, mode |-> m, auth |-> s.auth, crev |-> q,
                 decision |-> s.decision, proposal |-> s.proposal, rest |-> r]
        BY ONLY <1>10, <4>3
      <4>5. t = [z EXCEPT !.rest.count = 0, !.rest.echo = FALSE]
        BY ONLY <3>1, <4>2, <4>3
      <4>6. z.rest = r BY ONLY <4>4
      <4>7. t = [z EXCEPT !.rest = y] BY ONLY <3>3, <4>4, <4>5, <4>6
      <4> QED BY ONLY <4>1, <4>3, <4>7
    <3>6. x = q BY <1>9, <2>3
    <3> QED BY ONLY <1>10, <3>5, <3>6
  <2> QED BY <2>1, <2>2, <2>3
<1>14. /\ t.mode = m /\ t.auth = s.auth /\ t.rest = w /\ t.decision = s.decision
       /\ t.proposal = s.proposal
  BY ONLY <1>13
<1>15. SessionWritten(h) =
         [rev |-> h.snap.session.rev + 1,
          mode |-> IF h.verdict = "audit" THEN "complete" ELSE h.snap.session.mode,
          auth |-> h.snap.session.auth,
          crev |-> IF h.verdict \in {"counted", "uncounted"} THEN h.snap.chain.rev
                   ELSE ChainWritten(h).rev,
          decision |-> h.snap.session.decision,
          proposal |-> h.snap.session.proposal, rest |-> RestWritten(h)]
  BY ONLY <1>1, <1>5, <1>6, <1>7, <1>8, <1>9, <1>13
<1> QED BY <1>1, <1>5, <1>6, <1>8, <1>14, <1>15

LEMMA NextChainIs ==
    ASSUME NEW chain \in Reg!ChainStates, NEW form, Len(published) \in Nat,
           Len(published) < MaxRecords
    PROVE  /\ NextChain(chain, form) \in Reg!ChainStates
           /\ Reg!ChainValid(NextChain(chain, form))
           /\ NextChain(chain, form).status
                = (IF form = "audit" THEN "complete" ELSE "active")
           /\ NextChain(chain, form).rev = chain.rev + 1
           /\ NextChain(chain, form).record = Len(published) + 1
           /\ NextChain(chain, form).root = chain.root
           /\ NextChain(chain, form).succ = chain.succ
           /\ ~NextChain(chain, form).evidence
<1>1. PICK g : g = [chain.tag EXCEPT !.title = chain.tag.title /\ chain.record = 0]
  OBVIOUS
<1>2. PICK st : st = IF form = "audit" THEN "complete" ELSE "active" OBVIOUS
<1>3. PICK n, v : n = Len(published) + 1 /\ v = chain.rev + 1 OBVIOUS
<1>4. PICK t : t = NextChain(chain, form) OBVIOUS
<1>5. chain = [status |-> chain.status, root |-> chain.root, rev |-> chain.rev,
               record |-> chain.record, succ |-> chain.succ,
               evidence |-> chain.evidence, tag |-> chain.tag]
  BY DEF Reg!ChainStates
<1>6. t = [chain EXCEPT !.rev = v, !.record = n, !.evidence = FALSE, !.status = st,
                        !.tag = g]
  <2>1. t = [chain EXCEPT !.rev = v, !.record = n, !.evidence = FALSE, !.status = st,
                          !.tag.title = chain.tag.title /\ chain.record = 0]
    BY <1>2, <1>3, <1>4, <1>5 DEF NextChain
  <2>2. PICK z : z = [chain EXCEPT !.rev = v, !.record = n, !.evidence = FALSE,
                                   !.status = st]
    OBVIOUS
  <2>3. z = [status |-> st, root |-> chain.root, rev |-> v, record |-> n,
             succ |-> chain.succ, evidence |-> FALSE, tag |-> chain.tag]
    BY ONLY <1>5, <2>2
  <2>4. t = [z EXCEPT !.tag.title = chain.tag.title /\ chain.record = 0]
    BY ONLY <2>1, <2>2
  <2>5. z.tag = chain.tag BY ONLY <2>3
  <2>6. t = [z EXCEPT !.tag = g] BY ONLY <1>1, <2>3, <2>4, <2>5
  <2> QED BY ONLY <2>2, <2>6
<1>7. t = [status |-> st, root |-> chain.root, rev |-> v, record |-> n,
           succ |-> chain.succ, evidence |-> FALSE, tag |-> g]
  BY ONLY <1>5, <1>6
<1>8. /\ t.status = st /\ t.rev = v /\ t.record = n /\ t.root = chain.root
      /\ t.succ = chain.succ /\ ~t.evidence
  BY ONLY <1>7
<1>9. g \in Tags
  <2>1. chain.tag \in Tags BY DEF Reg!ChainStates
  <2>2. PICK y : y = (chain.tag.title /\ chain.record = 0) OBVIOUS
  <2>3. g = [chain.tag EXCEPT !.title = y] /\ y \in BOOLEAN BY <1>1, <2>2
  <2> QED BY ONLY <2>1, <2>3 DEF Tags
<1>10. n \in 1..MaxRecords /\ v \in Nat
  BY <1>3, LifecycleAssumption DEF Reg!ChainStates
<1>11. st \in {"active", "complete"} BY <1>2
<1>12. t \in Reg!ChainStates
  BY <1>7, <1>9, <1>10, <1>11 DEF Reg!ChainStates
<1>13. Reg!ChainValid(t) BY <1>8 DEF Reg!ChainValid
<1> QED BY <1>2, <1>3, <1>4, <1>8, <1>12, <1>13

\* Only a gated session is let through or has a record accepted.
LEMMA VerdictGated ==
    ASSUME HookInv, NEW k \in Sessions, hook[k].pc = "publish"
    PROVE  /\ hook[k] \in PublishHooks /\ VerdictFits(hook[k])
           /\ SnapFits(hook[k].snap, sessions[k], chains)
           /\ hook[k].verdict \notin {"counted", "uncounted"} =>
                /\ hook[k].snap.session.mode \in {"tracked", "awaiting"}
                /\ hook[k].snap.session.auth \in Auths
                /\ hook[k].snap.chain \in Reg!ChainStates
                /\ Level(hook[k].snap)
           /\ hook[k].verdict \in RecordForms =>
                /\ hook[k].snap.session.mode = "tracked"
                /\ hook[k].pred = hook[k].snap.chain.record
<1>1. hook[k].pc \in StopSteps BY DEF StopSteps
<1>2. StopFits(hook[k], sessions[k], chains) BY <1>1, StopHook
<1>3. /\ hook[k] \in PublishHooks /\ VerdictFits(hook[k])
      /\ SnapFits(hook[k].snap, sessions[k], chains)
  BY <1>2 DEF StopFits, RefreshHooks
<1>4. hook[k].verdict \in Verdicts BY <1>3 DEF PublishHooks
<1>5. hook[k].verdict \notin {"counted", "uncounted"}
        => /\ hook[k].snap.session.mode \in {"tracked", "awaiting"}
           /\ Level(hook[k].snap)
  BY <1>3, <1>4 DEF VerdictFits, Verdicts
<1>6. hook[k].verdict \in RecordForms =>
                /\ hook[k].snap.session.mode = "tracked"
                /\ hook[k].pred = hook[k].snap.chain.record
  BY <1>3 DEF VerdictFits
<1>7. hook[k].snap.session.mode \in {"tracked", "awaiting"}
        => /\ hook[k].snap.session.auth \in Auths
           /\ hook[k].snap.chain \in Reg!ChainStates
  BY <1>3, SnapFields, SessionFields DEF SnapFits, Reg!SessionValid
<1> QED BY <1>3, <1>5, <1>6, <1>7

LEMMA VerdictIsGood ==
    ASSUME HookInv, NEW k \in Sessions, hook[k].pc = "publish",
           hook[k].verdict \in RecordForms => Len(published) < MaxRecords
    PROVE  /\ GoodInput(k, SessionWritten(hook[k]), ChainWritten(hook[k]))
           /\ SessionWritten(hook[k]).rest.turn = hook[k].snap.session.rest.turn
           /\ SessionWritten(hook[k]).auth = hook[k].snap.session.auth
<1> PICK h : h = hook[k] OBVIOUS
<1> PICK s : s = h.snap.session OBVIOUS
<1> PICK t : t = SessionWritten(h) OBVIOUS
<1> PICK c : c = ChainWritten(h) OBVIOUS
<1>1. s \in Reg!SessionStates /\ Reg!SessionValid(s)
  <2>1. hook[k].pc \in StopSteps BY DEF StopSteps
  <2> QED BY <2>1, StopHook
<1>2. h.verdict \in Verdicts BY VerdictGated DEF PublishHooks
<1>3. c \in Reg!ChainStates \cup {Reg!NoChain} /\ Reg!ChainValid(c)
  <2>1. CASE h.verdict \in {"counted", "uncounted"}
    <3>1. c = Reg!NoChain BY <2>1, ChainWrittenIs
    <3> QED BY <3>1, NoChainIsGood
  <2>2. CASE h.verdict \in RecordForms
    <3>1. c = NextChain(h.snap.chain, h.verdict)
      BY <2>2, ChainWrittenIs
    <3>2. h.snap.chain \in Reg!ChainStates BY <2>2, VerdictGated DEF RecordForms
    <3>3. Len(published) \in Nat BY DEF HookInv
    <3> QED BY <2>2, <3>1, <3>2, <3>3, NextChainIs
  <2>3. CASE h.verdict \notin {"counted", "uncounted"} \cup RecordForms
    <3>1. c = h.snap.chain BY <2>3, ChainWrittenIs
    <3>2. h.snap.chain \in Reg!ChainStates BY <2>3, VerdictGated
    <3> QED BY <3>1, <3>2, VerdictGated DEF SnapFits
  <2> QED BY <2>1, <2>2, <2>3
<1>4. c.rev \in Nat BY <1>3 DEF Reg!ChainStates, Reg!NoChain
<1>5. h.snap.chain.rev \in Nat /\ (s.auth = NoAuth => h.snap.chain = Reg!NoChain)
  BY VerdictGated, SnapFields DEF SnapFits
<1> PICK m : m = IF h.verdict = "audit" THEN "complete" ELSE s.mode OBVIOUS
<1> PICK n : n = IF h.verdict \in {"counted", "uncounted"} THEN h.snap.chain.rev ELSE c.rev
  OBVIOUS
<1> PICK r : r = RestWritten(h) OBVIOUS
<1>6. t = [rev |-> s.rev + 1, mode |-> m, auth |-> s.auth, crev |-> n,
           decision |-> s.decision, proposal |-> s.proposal, rest |-> r]
  BY <1>1, SessionWrittenIs
<1>7. r \in Rest /\ r.turn = s.rest.turn BY <1>1, RestWrittenIs
<1>8. h.verdict = "audit" => s.mode = "tracked" /\ s.auth # NoAuth
  <2>1. h.verdict = "audit" => h.verdict \in RecordForms BY DEF RecordForms
  <2> QED BY <1>1, <2>1, VerdictGated DEF Reg!SessionValid
<1>9. s.auth = NoAuth => n = 0
  <2>1. s.auth = NoAuth => h.verdict \in {"counted", "uncounted"}
    BY VerdictGated, LifecycleAssumption
  <2> QED BY <1>5, <2>1 DEF Reg!NoChain
<1>10. m \in Reg!Modes /\ n \in Nat /\ s.rev + 1 \in Nat
  BY <1>1, <1>4, <1>5, SessionFields DEF Reg!Modes
<1>11. t \in Reg!SessionStates
  BY <1>1, <1>6, <1>7, <1>10 DEF Reg!SessionStates
<1>12. Reg!SessionValid(t)
  BY <1>1, <1>6, <1>8, <1>9 DEF Reg!SessionValid
<1> QED BY <1>3, <1>6, <1>7, <1>11, <1>12 DEF GoodInput

LEMMA RestartFits ==
    ASSUME HookInv, NEW k \in Sessions, hook[k].pc = "publish"
    PROVE  HookFits(Restarted(k, hook[k]), sessions[k], chains, turns[k], Len(published))
<1> PICK h : h = hook[k] OBVIOUS
<1> PICK snap : snap = Snapshot(k) OBVIOUS
<1> PICK again : again = [h EXCEPT !.snap = snap, !.retry = FALSE] OBVIOUS
<1>1. h \in PublishHooks /\ h.pc = "publish" BY VerdictGated
<1>2. SnapFits(snap, sessions[k], chains) /\ snap.session = sessions[k]
  BY SnapshotFits DEF HookInv
<1>3. again \in PublishHooks /\ again.snap = snap /\ ~again.retry /\ again.pc = "publish"
  BY <1>1, <1>2 DEF PublishHooks, SnapFits
<1>4. CASE ~h.retry \/ (~PeerAdvanced(snap) /\ snap.session.auth = NoAuth)
  <2>1. Restarted(k, h) = Idle("unrecorded") BY <1>4 DEF Restarted
  <2>2. HookFits(Idle("unrecorded"), sessions[k], chains, turns[k], Len(published))
    BY IdleFits
  <2> QED BY <2>1, <2>2
<1>5. CASE h.retry /\ PeerAdvanced(snap)
  <2> PICK g : g = [again EXCEPT !.pc = "catchup", !.verdict = "uncounted"] OBVIOUS
  <2>1. Restarted(k, h) = g BY <1>5 DEF Restarted
  <2>2. g \in PublishHooks BY <1>3 DEF PublishHooks, Verdicts
  <2>3. g.pc = "catchup" /\ g.verdict = "uncounted" /\ ~g.retry /\ g.snap = snap
    BY <1>3 DEF PublishHooks
  <2>4. StopFits(g, sessions[k], chains) BY <1>2, <1>5, <2>2, <2>3 DEF StopFits
  <2> QED BY <2>1, <2>4 DEF HookFits
<1>6. CASE h.retry /\ ~PeerAdvanced(snap) /\ snap.session.auth # NoAuth
  <2> PICK g : g = [again EXCEPT !.verdict = "counted"] OBVIOUS
  <2>1. Restarted(k, h) = g BY <1>6 DEF Restarted
  <2>2. g \in PublishHooks BY <1>3 DEF PublishHooks, Verdicts
  <2>3. g.pc = "publish" /\ g.verdict = "counted" /\ ~g.retry /\ g.snap = snap
    BY <1>3 DEF PublishHooks
  <2>4. Level(snap)
    <3>1. snap.session.mode # "ungated" BY <1>2, <1>6 DEF SnapFits, Reg!SessionValid
    <3>2. CASE snap.session.mode = "complete"
      <4>1. sessions[k].crev = chains[sessions[k].auth].rev
        BY <1>2, <3>2 DEF HookInv, CompleteLevel
      <4>2. snap.chain = chains[sessions[k].auth] BY <1>2, <1>6, SnapshotFits DEF HookInv
      <4> QED BY <1>2, <4>1, <4>2 DEF Level
    <3>3. CASE snap.session.mode # "complete" BY <1>6, <3>1, <3>3 DEF PeerAdvanced, Level
    <3> QED BY <3>2, <3>3
  <2>5. VerdictFits(g) BY <2>3, <2>4 DEF VerdictFits, RecordForms
  <2>6. StopFits(g, sessions[k], chains) BY <1>2, <2>2, <2>3, <2>5 DEF StopFits
  <2> QED BY <2>1, <2>6 DEF HookFits
<1> QED BY <1>4, <1>5, <1>6

\* The verdict is in the registry, and its record, if it has one, is published.
VerdictMade(k) ==
    LET h == hook[k] IN
    /\ WroteLive(k, SessionWritten(h), ChainWritten(h))
    /\ IF h.verdict \in RecordForms
       THEN /\ Len(published) < MaxRecords
            /\ published' = Append(published, [auth |-> h.snap.session.auth, pred |-> h.pred,
                                               audit |-> h.verdict = "audit"])
       ELSE published' = published

\* The record that is published with an accepted message.
LEMMA PublicationIs ==
    ASSUME HookInv, NEW k \in Sessions, hook[k].pc = "publish", VerdictMade(k)
    PROVE  /\ published' \in Seq(Published) /\ Len(published') \in Nat
           /\ Len(published) <= Len(published') /\ Len(published') <= MaxRecords
<1> PICK h : h = hook[k] OBVIOUS
<1>1. CASE h.verdict \in RecordForms
  <2> PICK p : p = [auth |-> h.snap.session.auth, pred |-> h.pred,
                    audit |-> h.verdict = "audit"]
    OBVIOUS
  <2>1. h.snap.session.auth \in Auths /\ h.pred = h.snap.chain.record
        /\ h.snap.chain \in Reg!ChainStates
    BY <1>1, VerdictGated DEF RecordForms
  <2>2. h.pred \in 0..MaxRecords BY <2>1, ChainFields
  <2>3. p \in Published BY <2>1, <2>2 DEF Published
  <2>4. published' = Append(published, p) /\ Len(published) < MaxRecords
    BY <1>1 DEF VerdictMade
  <2>5. published \in Seq(Published) /\ MaxRecords \in Nat
    BY LifecycleAssumption DEF HookInv
  <2> QED BY <2>3, <2>4, <2>5
<1>2. CASE h.verdict \notin RecordForms
  BY <1>2, LifecycleAssumption DEF VerdictMade, HookInv
<1> QED BY <1>1, <1>2

LEMMA StepPublish ==
    ASSUME HookInv, NEW k \in Sessions, StopPublish(k)
    PROVE  /\ HookInv' /\ UNCHANGED turns
           /\ UNCHANGED <<chains, sessions, published>> \/ VerdictMade(k)
<1> PICK h : h = hook[k] OBVIOUS
<1> PICK s : s = SessionWritten(h) OBVIOUS
<1> PICK c : c = ChainWritten(h) OBVIOUS
<1>1. /\ h.pc = "publish" /\ (h.verdict \in RecordForms => Len(published) < MaxRecords)
      /\ UNCHANGED turns
  BY DEF StopPublish
<1>2. SnapFits(h.snap, sessions[k], chains) BY <1>1, VerdictGated
<1>3. /\ GoodInput(k, s, c) /\ s.rest.turn = h.snap.session.rest.turn
      /\ s.auth = h.snap.session.auth
  BY <1>1, VerdictIsGood
<1>4. CASE /\ Result(k, h.snap.chain.rev, s, c) = "ok" /\ Install(k, s, c)
           /\ published' = IF h.verdict \in RecordForms
                           THEN Append(published, [auth |-> s.auth, pred |-> h.pred,
                                                   audit |-> h.verdict = "audit"])
                           ELSE published
           /\ \E said \in {Said(h), "advisory"} : SetHook(k, Idle(said))
  <2>1. /\ Reg!Fresh(k, s, h.snap.chain.rev, h.snap.session.rev)
        /\ Reg!Rules(k, s, c) /\ Reg!Valid(k, s, c)
    BY <1>4, OkIsWrite DEF Result
  <2>2. IsLive(h.snap, sessions[k], chains) BY <1>2, <2>1, FreshIsLive DEF HookInv
  <2>3. WroteLive(k, s, c) /\ s.rest.turn <= turns[k]
    BY <1>3, <1>4, <2>1, <2>2, LiveTurn DEF WroteLive, MadeBy, Reg!Write, Install
  <2>4. VerdictMade(k) BY <1>1, <1>3, <1>4, <2>3 DEF VerdictMade
  <2>5. RegistryStep(k) BY <2>3 DEF RegistryStep, WroteLive
  <2>6. PICK said \in {Said(h), "advisory"} : SetHook(k, Idle(said)) BY <1>4
  <2>7. said \in {"none", "killed", "allow", "block", "policy", "unrecorded", "advisory"}
    BY DEF Said
  <2>8. HookFits(Idle(said), sessions'[k], chains', turns[k], Len(published'))
    BY <2>7, IdleFits
  <2>9. /\ published' \in Seq(Published) /\ Len(published) <= Len(published')
        /\ Len(published') <= MaxRecords
    BY <1>1, <2>4, PublicationIs
  <2>10. PICK t \in Nat : t = turns[k] BY DEF HookInv
  <2>11. turns' = [turns EXCEPT ![k] = t] BY <1>1, <2>10 DEF HookInv
  <2>12. hook' = [hook EXCEPT ![k] = Idle(said)] BY <2>6 DEF SetHook
  <2>13. t \in Nat /\ turns[k] <= t
         /\ HookFits(Idle(said), sessions'[k], chains', t, Len(published'))
    BY <2>8, <2>10
  <2>14. HookInv'
    BY ONLY HookInv, k \in Sessions, <2>5, <2>9, <2>11, <2>12, <2>13, StepKeeps
  <2> QED BY <1>1, <2>4, <2>14
<1>5. CASE Skip(k, Restarted(k, h))
  <2>1. HookFits(Restarted(k, h), sessions[k], chains, turns[k], Len(published))
    BY <1>1, RestartFits
  <2>2. HookInv' BY <1>5, <2>1, SkipKeeps
  <2> QED BY <1>5, <2>2 DEF Skip
<1>6. CASE Skip(k, Idle("advisory"))
  <2>1. HookFits(Idle("advisory"), sessions[k], chains, turns[k], Len(published))
    BY IdleFits
  <2>2. HookInv' BY <1>6, <2>1, SkipKeeps
  <2> QED BY <1>6, <2>2 DEF Skip
<1>7. \/ /\ Result(k, h.snap.chain.rev, s, c) = "ok" /\ Install(k, s, c)
         /\ published' = IF h.verdict \in RecordForms
                         THEN Append(published, [auth |-> s.auth, pred |-> h.pred,
                                                 audit |-> h.verdict = "audit"])
                         ELSE published
         /\ \E said \in {Said(h), "advisory"} : SetHook(k, Idle(said))
      \/ Skip(k, Restarted(k, h)) \/ Skip(k, Idle("advisory"))
  BY <1>1 DEF StopPublish, Skip
<1> QED BY <1>4, <1>5, <1>6, <1>7

-----------------------------------------------------------------------------
(* Commands, advisory hooks, kills and new prompts *)

\* A write beside the hooks leaves the turn marks alone, and moves its session to
\* a chain only if it held none.
Beside(k, t, c) ==
    LET s == sessions[k] IN
    /\ t.rest = s.rest
    /\ \/ /\ c = Reg!NoChain /\ t.auth = s.auth
          /\ \/ t.mode = s.mode
             \/ s.mode = "tracked" /\ t.mode = "awaiting"
             \/ t.mode = "complete" /\ Completed(Snapshot(k)) /\ t.decision = s.decision
       \/ /\ s.mode = "ungated"
          /\ \/ c = Reg!NoChain
             \/ t.auth \in Absent /\ \E r \in Roots : c = NewChain(r, k, s.rest.turn)

MadeBeside(k) == \E t, c : MadeBy(k, t, c) /\ Beside(k, t, c)

LEMMA BesideKeeps ==
    ASSUME HookInv, NEW k \in Sessions, NEW t, NEW c, GoodInput(k, t, c), Reg!Write(k, t, c),
           t.rest = sessions[k].rest, UNCHANGED <<hook, turns, published>>
    PROVE  HookInv' /\ MadeBy(k, t, c)
<1>1. MadeBy(k, t, c) /\ t.rest.turn <= turns[k] BY DEF MadeBy, HookInv
<1>2. RegistryStep(k) BY <1>1 DEF RegistryStep
<1>3. HookFits(hook[k], sessions'[k], chains', turns[k], Len(published))
  <2>1. HookFits(hook[k], sessions[k], chains, turns[k], Len(published))
        /\ Len(published) \in Nat
    BY DEF HookInv
  <2>2. Len(published) <= Len(published) BY <2>1
  <2> QED BY ONLY HookInv, k \in Sessions, <1>2, <2>1, <2>2, HooksStayFit
<1> PICK h : h = hook[k] OBVIOUS
<1>4. hook' = [hook EXCEPT ![k] = h] BY DEF HookInv
<1>5. HookInv' BY <1>2, <1>3, <1>4, QuietStepKeeps
<1> QED BY <1>1, <1>5

LEMMA StepRegisterRoot ==
    ASSUME HookInv, NEW k \in Sessions, RegisterRoot(k)
    PROVE  HookInv' /\ UNCHANGED <<hook, turns, published>> /\ MadeBeside(k)
<1> PICK s : s = sessions[k] OBVIOUS
<1>1. PICK r \in Roots, a \in Absent :
        Command(k, "register-root", Holding(s, a, 1), NewChain(r, k, s.rest.turn))
  BY DEF RegisterRoot
<1> PICK t : t = Holding(s, a, 1) OBVIOUS
<1> PICK c : c = NewChain(r, k, s.rest.turn) OBVIOUS
<1>2. s \in Reg!SessionStates /\ a \in Auths /\ s.mode = "ungated" /\ s.rest.turn \in Nat
  <2>1. s \in Reg!SessionStates BY RegistryFields DEF HookInv
  <2> QED BY <2>1, SessionFields DEF Absent, RegisterRoot, Enrolls
<1>3. /\ t \in Reg!SessionStates /\ Reg!SessionValid(t) /\ t.rest = s.rest /\ t.auth = a
  BY <1>2, HoldingIs
<1>4. c \in Reg!ChainStates /\ Reg!ChainValid(c) BY <1>2, NewChainIs
<1>5. GoodInput(k, t, c) BY <1>3, <1>4 DEF GoodInput
<1>6. Reg!Write(k, t, c) /\ UNCHANGED <<hook, turns, published>> BY <1>1 DEF Command
<1>7. HookInv' /\ MadeBy(k, t, c) BY <1>3, <1>5, <1>6, BesideKeeps
<1> QED BY <1>2, <1>3, <1>6, <1>7 DEF MadeBeside, Beside

LEMMA StepJoinCommand ==
    ASSUME HookInv, NEW k \in Sessions, Join(k)
    PROVE  HookInv' /\ UNCHANGED <<hook, turns, published>> /\ MadeBeside(k)
<1> PICK s : s = sessions[k] OBVIOUS
<1>1. PICK a \in Auths : Command(k, "join", Holding(s, a, chains[a].rev), Reg!NoChain)
  BY DEF Join
<1> PICK t : t = Holding(s, a, chains[a].rev) OBVIOUS
<1>2. s \in Reg!SessionStates /\ chains[a].rev \in Nat /\ s.mode = "ungated"
  BY RegistryFields DEF HookInv, Join, Enrolls
<1>3. t \in Reg!SessionStates /\ Reg!SessionValid(t) /\ t.rest = s.rest
  BY <1>2, HoldingIs
<1>4. GoodInput(k, t, Reg!NoChain) BY <1>3, NoChainIsGood DEF GoodInput
<1>5. Reg!Write(k, t, Reg!NoChain) /\ UNCHANGED <<hook, turns, published>>
  BY <1>1 DEF Command
<1>6. HookInv' /\ MadeBy(k, t, Reg!NoChain) BY <1>3, <1>4, <1>5, BesideKeeps
<1> QED BY <1>2, <1>3, <1>5, <1>6 DEF MadeBeside, Beside

LEMMA StepPropose ==
    ASSUME HookInv, NEW k \in Sessions, ProposeTransition(k)
    PROVE  HookInv' /\ UNCHANGED <<hook, turns, published>> /\ MadeBeside(k)
<1> PICK s : s = sessions[k] OBVIOUS
<1>1. PICK r \in Roots :
        Command(k, "propose-transition",
                [Bump(s) EXCEPT !.proposal = [root |-> r, turn |-> s.rest.turn]], Reg!NoChain)
  BY DEF ProposeTransition
<1> PICK q : q = [root |-> r, turn |-> s.rest.turn] OBVIOUS
<1> PICK t : t = [Bump(s) EXCEPT !.proposal = q] OBVIOUS
<1>2. s \in Reg!SessionStates /\ Reg!SessionValid(s) BY RegistryFields DEF HookInv
<1>3. q \in Proposals BY <1>2, SessionFields DEF Proposals
<1>4. t = [rev |-> s.rev + 1, mode |-> s.mode, auth |-> s.auth, crev |-> s.crev,
           decision |-> s.decision, proposal |-> q, rest |-> s.rest]
  BY <1>2, BumpIs
<1>5. t \in Reg!SessionStates /\ Reg!SessionValid(t)
  BY <1>2, <1>3, <1>4, SessionFields DEF Reg!SessionStates, Reg!SessionValid
<1>6. GoodInput(k, t, Reg!NoChain) BY <1>5, NoChainIsGood DEF GoodInput
<1>7. Reg!Write(k, t, Reg!NoChain) /\ UNCHANGED <<hook, turns, published>>
  BY <1>1 DEF Command
<1>8. HookInv' /\ MadeBy(k, t, Reg!NoChain) BY <1>4, <1>6, <1>7, BesideKeeps
<1> QED BY <1>4, <1>7, <1>8 DEF MadeBeside, Beside

LEMMA StepRequest ==
    ASSUME HookInv, NEW k \in Sessions, RequestDecision(k)
    PROVE  HookInv' /\ UNCHANGED <<hook, turns, published>> /\ MadeBeside(k)
<1>1. PICK s : s = sessions[k] OBVIOUS
<1>2. PICK b : b = Bump(s) OBVIOUS
<1>3. PICK t : t = [b EXCEPT !.mode = "awaiting", !.decision = s.auth] OBVIOUS
<1>4. /\ Command(k, "request-decision", t, Reg!NoChain) /\ s.mode = "tracked"
  BY <1>1, <1>2, <1>3 DEF RequestDecision
<1>5. s \in Reg!SessionStates /\ Reg!SessionValid(s) BY <1>1, RegistryFields DEF HookInv
<1>6. s.auth # NoAuth BY <1>4, <1>5 DEF Reg!SessionValid
<1>7. t = [rev |-> s.rev + 1, mode |-> "awaiting", auth |-> s.auth, crev |-> s.crev,
           decision |-> s.auth, proposal |-> s.proposal, rest |-> s.rest]
  <2>1. b = [rev |-> s.rev + 1, mode |-> s.mode, auth |-> s.auth, crev |-> s.crev,
             decision |-> s.decision, proposal |-> s.proposal, rest |-> s.rest]
    BY <1>2, <1>5, BumpIs
  <2> QED BY ONLY <1>3, <2>1
<1>8. t.rest = s.rest /\ t.auth = s.auth /\ t.mode = "awaiting" BY ONLY <1>7
<1>9. t \in Reg!SessionStates /\ Reg!SessionValid(t)
  BY ONLY <1>5, <1>6, <1>7, SessionFields DEF Reg!SessionStates, Reg!SessionValid, Reg!Modes
<1>10. GoodInput(k, t, Reg!NoChain) BY <1>9, NoChainIsGood DEF GoodInput
<1>11. Reg!Write(k, t, Reg!NoChain) /\ UNCHANGED <<hook, turns, published>>
  BY <1>4 DEF Command
<1>12. HookInv' /\ MadeBy(k, t, Reg!NoChain) BY <1>1, <1>8, <1>10, <1>11, BesideKeeps
<1>13. Beside(k, t, Reg!NoChain) BY <1>1, <1>4, <1>8 DEF Beside
<1> QED BY ONLY <1>11, <1>12, <1>13 DEF MadeBeside

LEMMA BumpBeside ==
    ASSUME HookInv, NEW k \in Sessions, Reg!Write(k, Bump(sessions[k]), Reg!NoChain),
           UNCHANGED <<hook, turns, published>>
    PROVE  HookInv' /\ MadeBeside(k)
<1> PICK s : s = sessions[k] OBVIOUS
<1> PICK t : t = Bump(s) OBVIOUS
<1>1. s \in Reg!SessionStates /\ Reg!SessionValid(s) BY RegistryFields DEF HookInv
<1>2. /\ t \in Reg!SessionStates
      /\ t = [rev |-> s.rev + 1, mode |-> s.mode, auth |-> s.auth, crev |-> s.crev,
              decision |-> s.decision, proposal |-> s.proposal, rest |-> s.rest]
  BY <1>1, BumpIs
<1>3. Reg!SessionValid(t) BY <1>1, <1>2 DEF Reg!SessionValid
<1>4. GoodInput(k, t, Reg!NoChain) BY <1>2, <1>3, NoChainIsGood DEF GoodInput
<1>5. HookInv' /\ MadeBy(k, t, Reg!NoChain) BY <1>2, <1>4, BesideKeeps
<1> QED BY <1>2, <1>5 DEF MadeBeside, Beside

LEMMA StepInspect ==
    ASSUME HookInv, NEW k \in Sessions, Inspect(k)
    PROVE  HookInv' /\ UNCHANGED <<hook, turns, published>> /\ MadeBeside(k)
<1> PICK snap : snap = Snapshot(k) OBVIOUS
<1> PICK s : s = sessions[k] OBVIOUS
<1>1. snap.session = s /\ SnapFits(snap, s, chains) BY SnapshotFits DEF HookInv
<1>2. /\ Reg!Write(k, IF s.mode = "ungated" THEN Bump(s) ELSE Reconciled(snap), Reg!NoChain)
      /\ UNCHANGED <<hook, turns, published>>
  BY <1>1 DEF Inspect, Command
<1>3. CASE s.mode = "ungated" BY <1>2, <1>3, BumpBeside
<1>4. CASE s.mode # "ungated"
  <2> PICK t : t = Reconciled(snap) OBVIOUS
  <2>1. /\ t \in Reg!SessionStates /\ Reg!SessionValid(t) /\ t.rest = s.rest
        /\ t.auth = s.auth /\ t.decision = s.decision
        /\ t.mode = IF Completed(snap) THEN "complete" ELSE s.mode
    BY <1>1, <1>4, ReconciledIs DEF SnapFits
  <2>2. GoodInput(k, t, Reg!NoChain) BY <2>1, NoChainIsGood DEF GoodInput
  <2>3. HookInv' /\ MadeBy(k, t, Reg!NoChain) BY <1>2, <1>4, <2>1, <2>2, BesideKeeps
  <2> QED BY <1>2, <2>1, <2>3 DEF MadeBeside, Beside
<1> QED BY <1>3, <1>4

LEMMA StepBeside ==
    ASSUME HookInv, NEW k \in Sessions, Commands(k) \/ Advisory(k)
    PROVE  HookInv' /\ UNCHANGED <<hook, turns, published>> /\ MadeBeside(k)
<1>1. CASE Advisory(k) BY <1>1, BumpBeside DEF Advisory
<1> QED BY <1>1, StepRegisterRoot, StepJoinCommand, StepPropose, StepRequest, StepInspect
        DEF Commands

LEMMA StepCrash ==
    ASSUME HookInv, NEW k \in Sessions, Crash(k)
    PROVE  HookInv' /\ UNCHANGED <<chains, sessions, turns, published>>
<1>1. HookFits(Idle("killed"), sessions[k], chains, turns[k], Len(published)) BY IdleFits
<1>2. HookInv' BY <1>1, SkipKeeps DEF Crash
<1> QED BY <1>2 DEF Crash, Skip

\* A prompt starts with a turn that no write has seen, or with one of the host.
LEMMA StartKeeps ==
    ASSUME HookInv, NEW k \in Sessions, NEW e, NEW t \in Nat, StartPrompt(k, e),
           turns' = [turns EXCEPT ![k] = t], turns[k] <= t,
           ~e.host => turns[k] < t, EventFits(e, t, Len(published))
    PROVE  HookInv' /\ UNCHANGED <<chains, sessions, published>>
<1> PICK snap : snap = Snapshot(k) OBVIOUS
<1> PICK first : first = IF NeedsReconcile(snap) THEN "reconcile" ELSE AfterReconcile(snap, e)
  OBVIOUS
<1> PICK h : h = Goto([pc |-> "idle", event |-> e, snap |-> snap], first, snap) OBVIOUS
<1>1. hook' = [hook EXCEPT ![k] = h] /\ UNCHANGED <<chains, sessions, published>>
  BY DEF StartPrompt, SetHook
<1>2. SnapFits(snap, sessions[k], chains) /\ snap.session = sessions[k]
  BY SnapshotFits DEF HookInv
<1>3. ~e.host => Unseen(snap, e)
  <2>1. sessions[k].rest.turn \in Nat /\ sessions[k].rest.turn <= turns[k] /\ turns[k] \in Nat
    BY RegistryFields, SessionFields DEF HookInv
  <2> QED BY <1>2, <2>1 DEF Unseen, EventFits
<1>4. GoodStep(first, snap, e, sessions[k], chains)
  <2>1. CASE NeedsReconcile(snap)
    BY <1>3, <2>1 DEF GoodStep, StepFits, PromptSteps, Early, Late
  <2>2. CASE ~NeedsReconcile(snap) BY <1>3, <2>2, AfterReconcileIsGood
  <2> QED BY <2>1, <2>2
<1>5. HookFits(h, sessions[k], chains, t, Len(published)) BY <1>2, <1>4, GotoFits
<1>6. HookFits(h, sessions'[k], chains', t, Len(published')) BY <1>1, <1>5
<1>7. RegistryStep(k) BY <1>1 DEF RegistryStep
<1>8. /\ published' \in Seq(Published) /\ Len(published) <= Len(published')
      /\ Len(published') <= MaxRecords
  BY <1>1 DEF HookInv
<1>9. HookInv' BY <1>1, <1>6, <1>7, <1>8, StepKeeps
<1> QED BY <1>1, <1>9

LEMMA StepUserPrompt ==
    ASSUME HookInv, NEW k \in Sessions, UserPrompt(k)
    PROVE  HookInv' /\ UNCHANGED <<chains, sessions, published>>
<1> PICK t : t = turns[k] + 1 OBVIOUS
<1>1. turns' = [turns EXCEPT ![k] = t] /\ t \in Nat /\ t > 0 /\ turns[k] < t /\ turns'[k] = t
  BY DEF UserPrompt, HookInv
<1>2. \E e : StartPrompt(k, e) /\ EventFits(e, t, Len(published))
  <2>1. PICK say \in Prompts[k] :
         \/ /\ say \in {"yes", "no", "plain"}
            /\ StartPrompt(k, [say |-> say, arg |-> 0, turn |-> t, host |-> FALSE])
         \/ /\ say = "echo"
            /\ StartPrompt(k, [say |-> IF hook[k].said = "block" THEN "echo" ELSE "stray",
                               arg |-> 0, turn |-> t, host |-> FALSE])
         \/ /\ say = "track"
            /\ \E r \in Roots :
                 StartPrompt(k, [say |-> say, arg |-> r, turn |-> t, host |-> FALSE])
         \/ /\ say = "continue"
            /\ \E d \in DOMAIN published :
                 StartPrompt(k, [say |-> say, arg |-> d, turn |-> t, host |-> FALSE])
    BY <1>1 DEF UserPrompt
  <2>2. CASE /\ say \in {"yes", "no", "plain"}
             /\ StartPrompt(k, [say |-> say, arg |-> 0, turn |-> t, host |-> FALSE])
    <3> PICK e : e = [say |-> say, arg |-> 0, turn |-> t, host |-> FALSE] OBVIOUS
    <3>1. EventFits(e, t, Len(published)) BY <1>1, <2>2 DEF EventFits, Events, Words
    <3> QED BY <2>2, <3>1
  <2>3. CASE \E w \in {"echo", "stray"} :
               StartPrompt(k, [say |-> w, arg |-> 0, turn |-> t, host |-> FALSE])
    <3>1. PICK w \in {"echo", "stray"} :
            StartPrompt(k, [say |-> w, arg |-> 0, turn |-> t, host |-> FALSE])
      BY <2>3
    <3> PICK e : e = [say |-> w, arg |-> 0, turn |-> t, host |-> FALSE] OBVIOUS
    <3>2. EventFits(e, t, Len(published)) BY <1>1 DEF EventFits, Events, Words
    <3> QED BY <3>1, <3>2
  <2>4. CASE \E r \in Roots :
               StartPrompt(k, [say |-> "track", arg |-> r, turn |-> t, host |-> FALSE])
    <3>1. PICK r \in Roots :
            StartPrompt(k, [say |-> "track", arg |-> r, turn |-> t, host |-> FALSE])
      BY <2>4
    <3> PICK e : e = [say |-> "track", arg |-> r, turn |-> t, host |-> FALSE] OBVIOUS
    <3>2. EventFits(e, t, Len(published)) BY <1>1 DEF EventFits, Events, Words
    <3> QED BY <3>1, <3>2
  <2>5. CASE \E d \in DOMAIN published :
               StartPrompt(k, [say |-> "continue", arg |-> d, turn |-> t, host |-> FALSE])
    <3>1. PICK d \in DOMAIN published :
            StartPrompt(k, [say |-> "continue", arg |-> d, turn |-> t, host |-> FALSE])
      BY <2>5
    <3> PICK e : e = [say |-> "continue", arg |-> d, turn |-> t, host |-> FALSE] OBVIOUS
    <3>2. d \in 1..Len(published) BY DEF HookInv
    <3>3. EventFits(e, t, Len(published)) BY <1>1, <3>2 DEF EventFits, Events, Words
    <3> QED BY <3>1, <3>3
  <2>6. \/ /\ say \in {"yes", "no", "plain"}
           /\ StartPrompt(k, [say |-> say, arg |-> 0, turn |-> t, host |-> FALSE])
        \/ \E w \in {"echo", "stray"} :
               StartPrompt(k, [say |-> w, arg |-> 0, turn |-> t, host |-> FALSE])
        \/ \E r \in Roots :
               StartPrompt(k, [say |-> "track", arg |-> r, turn |-> t, host |-> FALSE])
        \/ \E d \in DOMAIN published :
               StartPrompt(k, [say |-> "continue", arg |-> d, turn |-> t, host |-> FALSE])
    BY <2>1
  <2> QED BY <2>2, <2>3, <2>4, <2>5, <2>6
<1>3. PICK e : StartPrompt(k, e) /\ EventFits(e, t, Len(published)) BY <1>2
<1>4. turns[k] <= t BY <1>1 DEF HookInv
<1> QED BY <1>1, <1>3, <1>4, StartKeeps

LEMMA StepHostPrompt ==
    ASSUME HookInv, NEW k \in Sessions, HostPrompt(k)
    PROVE  HookInv' /\ UNCHANGED <<chains, sessions, published>>
<1> PICK e : e = [say |-> "task", arg |-> 0, turn |-> 0, host |-> TRUE] OBVIOUS
<1> PICK t \in Nat : t = turns[k] BY DEF HookInv
<1>1. StartPrompt(k, e) /\ UNCHANGED turns BY DEF HostPrompt
<1>2. turns' = [turns EXCEPT ![k] = t] BY <1>1 DEF HookInv
<1>3. EventFits(e, t, Len(published)) BY DEF EventFits, Events, Words
<1>4. turns[k] <= t /\ e.host BY DEF HookInv
<1> QED BY ONLY HookInv, k \in Sessions, t \in Nat, <1>1, <1>2, <1>3, <1>4, StartKeeps

-----------------------------------------------------------------------------
(* A step of the system: one session acts, and what it writes is known from *)
(* the step its hook stands at                                             *)

Acts(k) ==
    \/ UserPrompt(k) \/ HostPrompt(k) \/ Stop(k)
    \/ PromptStep(k) \/ StopStep(k) \/ Commands(k)
    \/ Advisory(k) \/ Crash(k)

\* What session k writes in a step, by where its hook stands.
StepWrote(k) ==
    LET h == hook[k]   s == h.snap.session IN
    \/ /\ h.pc \in {"reconcile", "refresh", "catchup"} /\ s.mode # "ungated"
       /\ WroteLive(k, Reconciled(h.snap), Reg!NoChain)
    \/ h.pc \in {"echo", "clear"} /\ WroteLive(k, EchoSpent(s), Reg!NoChain)
    \/ h.pc = "reenter" /\ WroteLive(k, Reentered(s, h.event), Reg!NoChain)
    \/ h.pc = "observe" /\ TurnWritten(k)
    \/ h.pc = "mark" /\ WroteLive(k, Marked(s, h.event), Reg!NoChain)
    \/ h.pc = "answer" /\ WroteLive(k, Answered(s, h.event), Reg!NoChain)
    \/ h.pc = "track" /\ Enrolled(k)
    \/ h.pc \in {"join", "continue"} /\ Held(k)

\* What a step of session k does: nothing to the registry, a write of its hook,
\* the verdict of its stop hook, or a write beside the hooks.
Deed(k) ==
    \/ UNCHANGED <<chains, sessions, published>>
    \/ StepWrote(k) /\ UNCHANGED <<turns, published>>
    \/ hook[k].pc = "publish" /\ VerdictMade(k) /\ UNCHANGED turns
    \/ MadeBeside(k) /\ UNCHANGED <<hook, turns, published>>

LEMMA PromptDeed ==
    ASSUME HookInv, NEW k \in Sessions, PromptStep(k)
    PROVE  HookInv' /\ Deed(k)
<1>1. CASE PromptReconcile(k)
  <2>1. hook[k].pc = "reconcile" /\ hook[k].pc \in PromptSteps
    BY <1>1 DEF PromptReconcile, PromptSteps
  <2>2. hook[k].snap.session.mode # "ungated"
    BY <2>1, PromptHook DEF PromptFits, StepFits, NeedsReconcile
  <2> QED BY <1>1, <2>1, <2>2, StepReconcile DEF Deed, StepWrote
<1>2. CASE PromptEcho(k) BY <1>2, StepEcho DEF Deed, StepWrote, PromptEcho
<1>3. CASE PromptReenter(k) BY <1>3, StepReenter DEF Deed, StepWrote, PromptReenter
<1>4. CASE PromptObserve(k) BY <1>4, StepObserve DEF Deed, StepWrote, PromptObserve
<1>5. CASE PromptMark(k) BY <1>5, StepMark DEF Deed, StepWrote, PromptMark
<1>6. CASE PromptClear(k) BY <1>6, StepClear DEF Deed, StepWrote, PromptClear
<1>7. CASE PromptAnswer(k) BY <1>7, StepAnswer DEF Deed, StepWrote, PromptAnswer
<1>8. CASE PromptTrack(k) BY <1>8, StepTrack DEF Deed, StepWrote, PromptTrack
<1>9. CASE PromptJoin(k) BY <1>9, StepJoin DEF Deed, StepWrote, PromptJoin
<1>10. CASE PromptContinue(k) BY <1>10, StepContinue DEF Deed, StepWrote, PromptContinue
<1> QED BY <1>1, <1>2, <1>3, <1>4, <1>5, <1>6, <1>7, <1>8, <1>9, <1>10 DEF PromptStep

LEMMA StopDeed ==
    ASSUME HookInv, NEW k \in Sessions, StopStep(k)
    PROVE  HookInv' /\ Deed(k)
<1>1. CASE StopPublish(k) BY <1>1, StepPublish DEF Deed, StopPublish
<1>2. CASE StopRefresh(k) \/ StopCatchUp(k)
  <2>1. hook[k].pc \in {"refresh", "catchup"} /\ hook[k].pc \in StopSteps
    BY <1>2 DEF StopRefresh, StopCatchUp, StopSteps
  <2>2. hook[k].snap.session.mode # "ungated"
    BY <2>1, StopHook DEF StopFits, PeerAdvanced
  <2> QED BY <1>2, <2>1, <2>2, StepRefresh, StepCatchUp DEF Deed, StepWrote
<1> QED BY <1>1, <1>2 DEF StopStep

LEMMA ActKeeps ==
    ASSUME HookInv, NEW k \in Sessions, Acts(k)
    PROVE  HookInv' /\ Deed(k)
BY PromptDeed, StopDeed, StepBeside, StepStop, StepCrash, StepUserPrompt, StepHostPrompt
   DEF Acts, Deed

\* A session moves no hook but its own.
LEMMA OwnHook ==
    ASSUME HookInv, NEW k \in Sessions, Acts(k), NEW j \in Sessions \ {k}
    PROVE  hook'[j] = hook[j]
<1>1. \/ UNCHANGED hook
      \/ \E h : SetHook(k, h)
  <2>1. CASE PromptStep(k)
    <3>1. \/ \E h : Skip(k, h)
          \/ \E rev, s, c, done, undone : Attempt(k, rev, s, c, done, undone)
      BY <2>1 DEF PromptStep, PromptReconcile, Reconcile, PromptEcho, PromptReenter,
                  PromptObserve, PromptMark, PromptClear, PromptAnswer, PromptTrack,
                  PromptJoin, PromptContinue, PromptHold
    <3> QED BY <3>1 DEF Skip, Attempt
  <2>2. CASE StopStep(k)
    BY <2>2 DEF StopStep, StopRefresh, StopPublish, StopCatchUp, Reconcile, Attempt
  <2>3. CASE Commands(k) \/ Advisory(k)
    BY <2>3 DEF Commands, RegisterRoot, Join, ProposeTransition, RequestDecision, Inspect,
                Command, Advisory
  <2>4. CASE UserPrompt(k) \/ HostPrompt(k)
    BY <2>4 DEF UserPrompt, HostPrompt, StartPrompt
  <2>5. CASE Stop(k) \/ Crash(k) BY <2>5 DEF Stop, Crash, Skip
  <2> QED BY <2>1, <2>2, <2>3, <2>4, <2>5 DEF Acts
<1> QED BY <1>1 DEF SetHook, HookInv

LEMMA InitHookInv == Init => HookInv
<1> SUFFICES ASSUME Init PROVE HookInv OBVIOUS
<1>1. Proved!Init
  BY SameValues DEF Init, Reg!Init, Proved!Init, Reg!NewSession, Proved!NewSession
<1>2. RegInv BY <1>1, SameInvariant, RegistryAssumed, Proved!InitInv
<1>3. \A k \in Sessions : sessions[k] = Reg!NewSession BY DEF Init, Reg!Init
<1>4. CompleteLevel BY <1>3 DEF CompleteLevel, Reg!NewSession
<1>5. \A k \in Sessions :
        /\ HookFits(hook[k], sessions[k], chains, turns[k], Len(published))
        /\ sessions[k].rest.turn <= turns[k]
  <2> SUFFICES ASSUME NEW k \in Sessions
               PROVE  /\ HookFits(hook[k], sessions[k], chains, turns[k], Len(published))
                      /\ sessions[k].rest.turn <= turns[k]
    OBVIOUS
  <2>1. hook[k] = Idle("none") /\ turns[k] = 0 BY DEF Init
  <2>2. sessions[k].rest.turn = 0 BY <1>3 DEF Reg!NewSession, Rest0
  <2> QED BY <2>1, <2>2, IdleFits
<1> QED BY <1>2, <1>4, <1>5, LifecycleAssumption DEF Init, HookInv

LEMMA HookInvStep == HookInv /\ [Next]_vars => HookInv'
<1> SUFFICES ASSUME HookInv, [Next]_vars PROVE HookInv' OBVIOUS
<1>1. CASE Next
  <2>1. PICK k \in Sessions : Acts(k) BY <1>1 DEF Next, Acts
  <2> QED BY <2>1, ActKeeps
<1>2. CASE UNCHANGED vars
  <2>1. RegInv' BY <1>2 DEF vars, HookInv, RegInv, Reg!TypeOK, Reg!EnvelopeHeld,
                            Reg!FinishedReleases, Reg!ChainAt
  <2> QED BY <1>2, <2>1 DEF vars, HookInv, CompleteLevel
<1> QED BY <1>1, <1>2

LEMMA HookInvAlways == Spec => []HookInv
BY InitHookInv, HookInvStep, PTL DEF Spec

-----------------------------------------------------------------------------
(* What follows for the system *)

\* Whatever hooks do, and however they are interleaved, killed or fail, the
\* registry holds what its constructors accept, a running hook stands at a step
\* it knows, and no more records than the bound are published.
THEOREM LifecycleTypeCorrect == Spec => []TypeOK
<1>1. HookInv => TypeOK
  <2> SUFFICES ASSUME HookInv PROVE TypeOK OBVIOUS
  <2>1. Reg!TypeOK /\ turns \in [Sessions -> Nat] BY DEF HookInv, RegInv
  <2>2. published \in Seq([auth : Auths, pred : 0..MaxRecords, audit : BOOLEAN])
    BY DEF HookInv, Published
  <2>3. ASSUME NEW k \in Sessions PROVE HookTypeOK(hook[k])
    <3>1. HookFits(hook[k], sessions[k], chains, turns[k], Len(published)) BY DEF HookInv
    <3>2. CASE hook[k] \in IdleHooks BY <3>2 DEF IdleHooks, HookTypeOK
    <3>3. CASE PromptFits(hook[k], sessions[k], chains, turns[k], Len(published))
      BY <3>3 DEF PromptFits, PromptHooks, HookTypeOK
    <3>4. CASE StopFits(hook[k], sessions[k], chains)
      BY <3>4 DEF StopFits, RefreshHooks, PublishHooks, HookTypeOK, StopSteps
    <3> QED BY <3>1, <3>2, <3>3, <3>4 DEF HookFits
  <2> QED BY <2>1, <2>2, <2>3 DEF TypeOK
<1> QED BY <1>1, HookInvAlways, PTL

\* What a step of a session did to the registry, as one write.
LEMMA DeedIsWrite ==
    ASSUME NEW k \in Sessions, Deed(k)
    PROVE  UNCHANGED <<chains, sessions>> \/ \E s, c : MadeBy(k, s, c)
<1>1. CASE StepWrote(k) BY <1>1 DEF StepWrote, WroteLive, TurnWritten, Enrolled, Held
<1>2. CASE VerdictMade(k) BY <1>2 DEF VerdictMade, WroteLive
<1>3. CASE MadeBeside(k) BY <1>3 DEF MadeBeside
<1> QED BY <1>1, <1>2, <1>3 DEF Deed

\* The hooks and commands implement the registry they share: seen from the file,
\* every step of theirs is one compare-and-swap by one session of a value its
\* constructors accept, or nothing.
THEOREM HooksImplementRegistry == Spec => Reg!Spec
<1>1. Init => Reg!Init BY DEF Init
<1>2. HookInv /\ [Next]_vars => [Reg!Next]_(Reg!vars)
  <2> SUFFICES ASSUME HookInv, [Next]_vars PROVE [Reg!Next]_(Reg!vars) OBVIOUS
  <2>1. CASE Next
    <3>1. PICK k \in Sessions : Acts(k) BY <2>1 DEF Next, Acts
    <3>2. Deed(k) BY <3>1, ActKeeps
    <3>3. CASE UNCHANGED <<chains, sessions>> BY <3>3 DEF Reg!vars
    <3>4. CASE \E s, c : MadeBy(k, s, c) BY <3>4, WriteIsRegistryStep
    <3> QED BY <3>2, <3>3, <3>4, DeedIsWrite
  <2>2. CASE UNCHANGED vars BY <2>2 DEF vars, Reg!vars
  <2> QED BY <2>1, <2>2
<1> QED BY <1>1, <1>2, HookInvAlways, PTL DEF Spec, Reg!Spec

\* The file is one the next reader accepts, and finished work releases its
\* sessions, whatever the hooks do.
THEOREM HooksKeepTheEnvelope == Spec => [](Reg!EnvelopeHeld /\ Reg!FinishedReleases)
<1>1. HookInv => Reg!EnvelopeHeld /\ Reg!FinishedReleases BY DEF HookInv, RegInv
<1> QED BY <1>1, HookInvAlways, PTL

-----------------------------------------------------------------------------
(* What a step does to the turn marks of the session that takes it *)

LEMMA SnapOfHook ==
    ASSUME HookInv, NEW k \in Sessions, hook[k].pc \in PromptSteps \cup StopSteps
    PROVE  SnapFits(hook[k].snap, sessions[k], chains)
BY PromptHook, StopHook DEF PromptFits, StopFits

LEMMA OwnWrite ==
    ASSUME HookInv, NEW k \in Sessions, NEW t, NEW c, WroteLive(k, t, c),
           hook[k].pc \in PromptSteps \cup StopSteps
    PROVE  /\ hook[k].snap.session = sessions[k] /\ hook[k].snap.chain = Reg!Current(k)
           /\ sessions[k].auth # NoAuth => hook[k].snap.chain = chains[sessions[k].auth]
           /\ sessions'[k] = t
           /\ sessions[k] \in Reg!SessionStates /\ Reg!SessionValid(sessions[k])
<1>1. IsLive(hook[k].snap, sessions[k], chains) /\ MadeBy(k, t, c) BY DEF WroteLive
<1>2. SnapFits(hook[k].snap, sessions[k], chains) BY SnapOfHook
<1>3. hook[k].snap.chain = Reg!Current(k)
  BY <1>1, <1>2 DEF IsLive, SnapFits, Reg!Current, Reg!ChainAt
<1>4. sessions'[k] = t BY <1>1, SessionsAfterWrite DEF HookInv
<1> QED BY <1>1, <1>3, <1>4, RegistryFields DEF IsLive, HookInv

RestGoesOn(p, q, k) ==
    \/ q.rest.count = p.rest.count /\ q.rest.turn = p.rest.turn
    \/ q.rest.turn > p.rest.turn /\ q.rest.count = 0
    \/ p.rest.count = 0 /\ q.rest.count = 0
    \/ p.rest.count < Circuit /\ q.rest.count = 0
    \/ /\ hook[k].pc = "publish" /\ hook[k].verdict = "counted"
       /\ q.rest.count = CountAfter(p) /\ hook[k].snap.session = p
       /\ hook[k].snap.chain = Reg!Current(k)

LEMMA RestAfterTurn ==
    ASSUME HookInv, NEW k \in Sessions, hook[k].pc = "observe", TurnWritten(k)
    PROVE  RestGoesOn(sessions[k], sessions'[k], k)
<1> PICK e : e = hook[k].event OBVIOUS
<1> PICK s : s = sessions[k] OBVIOUS
<1>1. hook[k].pc \in PromptSteps BY DEF PromptSteps
<1>2. \E t, c : WroteLive(k, t, c) BY DEF TurnWritten
<1>3. hook[k].snap.session = s /\ s \in Reg!SessionStates /\ Reg!SessionValid(s)
  BY <1>1, <1>2, OwnWrite
<1>4. /\ e.turn \in Nat /\ (~e.host => s.rest.turn < e.turn \/ s.rest.turn = e.turn)
  BY <1>1, <1>3, PromptHook
     DEF PromptFits, StepFits, EventFits, Events, Unseen, Seen
<1>5. CASE e.host /\ WroteLive(k, HostObserved(s), Reg!NoChain)
  <2>1. sessions'[k] = HostObserved(s) BY <1>1, <1>5, OwnWrite
  <2> QED BY <1>3, <2>1, HostObservedIs, SessionFields DEF RestGoesOn
<1>6. CASE ~e.host /\ s.rest.turn # e.turn /\ WroteLive(k, Observed(s, e), Reg!NoChain)
  <2>1. sessions'[k] = Observed(s, e) BY <1>1, <1>6, OwnWrite
  <2>2. Observed(s, e).rest.turn = e.turn /\ Observed(s, e).rest.count = 0
    BY <1>3, <1>4, ObservedIs
  <2>3. s.rest.turn < e.turn BY ONLY <1>4, <1>6
  <2>4. s.rest.turn \in Nat /\ e.turn \in Nat BY <1>3, <1>4, SessionFields
  <2>5. e.turn > s.rest.turn BY ONLY <2>3, <2>4
  <2>6. sessions'[k].rest.turn > s.rest.turn /\ sessions'[k].rest.count = 0
    BY ONLY <2>1, <2>2, <2>5
  <2> QED BY <2>6 DEF RestGoesOn
<1>7. CASE /\ ~e.host /\ s.rest.turn # e.turn
           /\ \E a \in Absent : WroteLive(k, Rerooted(s, a, e),
                                          SuccessorChain(k, hook[k].snap, e))
  <2>1. PICK a \in Auths : sessions'[k] = Rerooted(s, a, e)
    BY <1>1, <1>7, OwnWrite DEF Absent
  <2> QED BY <1>3, <1>4, <1>7, <2>1, RerootedIs DEF RestGoesOn
<1> QED BY <1>3, <1>5, <1>6, <1>7 DEF TurnWritten

LEMMA RestAfterHook ==
    ASSUME HookInv, NEW k \in Sessions, StepWrote(k)
    PROVE  RestGoesOn(sessions[k], sessions'[k], k)
<1> PICK h : h = hook[k] OBVIOUS
<1> PICK s : s = sessions[k] OBVIOUS
<1>1. h.pc \in PromptSteps \cup StopSteps BY DEF StepWrote, PromptSteps, StopSteps
<1>2. \E t, c : WroteLive(k, t, c) BY DEF StepWrote, TurnWritten, Enrolled, Held
<1>3. h.snap.session = s /\ s \in Reg!SessionStates /\ Reg!SessionValid(s)
  BY <1>1, <1>2, OwnWrite
<1>4. h.snap \in Snapshots BY <1>1, SnapOfHook DEF SnapFits
<1>5. CASE s.mode # "ungated" /\ WroteLive(k, Reconciled(h.snap), Reg!NoChain)
  <2>1. sessions'[k] = Reconciled(h.snap) BY <1>1, <1>5, OwnWrite
  <2>2. sessions'[k].rest = s.rest BY <1>3, <1>4, <1>5, <2>1, ReconciledIs
  <2> QED BY <2>2 DEF RestGoesOn
<1>6. CASE WroteLive(k, EchoSpent(s), Reg!NoChain)
  <2>1. sessions'[k] = EchoSpent(s) BY <1>1, <1>6, OwnWrite
  <2> QED BY <1>3, <2>1, EchoSpentIs, SessionFields DEF RestGoesOn
<1>7. CASE h.pc = "reenter" /\ WroteLive(k, Reentered(s, h.event), Reg!NoChain)
  <2>1. sessions'[k] = Reentered(s, h.event) BY <1>1, <1>7, OwnWrite
  <2>2. h.event.turn \in Nat /\ s.rest.turn < h.event.turn
    BY <1>3, <1>7, PromptHook
       DEF PromptSteps, PromptFits, StepFits, EventFits, Events, Unseen, Early
  <2>3. Reentered(s, h.event).rest.turn = h.event.turn /\ Reentered(s, h.event).rest.count = 0
    BY <1>3, <2>2, ReenteredIs
  <2>4. s.rest.turn \in Nat BY <1>3, SessionFields
  <2>5. h.event.turn > s.rest.turn BY ONLY <2>2, <2>4
  <2>6. sessions'[k].rest.turn > s.rest.turn /\ sessions'[k].rest.count = 0
    BY ONLY <2>1, <2>3, <2>5
  <2> QED BY <2>6 DEF RestGoesOn
<1>8. CASE h.pc = "observe" /\ TurnWritten(k) BY <1>8, RestAfterTurn
<1>9. CASE WroteLive(k, Marked(s, h.event), Reg!NoChain)
  <2>1. sessions'[k] = Marked(s, h.event) BY <1>1, <1>9, OwnWrite
  <2>2. Marked(s, h.event).rest = [s.rest EXCEPT !.origin = Origin(h.event)]
    BY <1>3, BumpIs DEF Marked
  <2> QED BY <1>3, <2>1, <2>2, SessionFields DEF RestGoesOn, Rest
<1>10. CASE h.pc = "answer" /\ WroteLive(k, Answered(s, h.event), Reg!NoChain)
  <2>1. sessions'[k] = Answered(s, h.event) BY <1>1, <1>10, OwnWrite
  <2>2. s.rest.count = 0 /\ h.event.turn \in Nat
    BY <1>3, <1>10, PromptHook
       DEF PromptSteps, PromptFits, StepFits, EventFits, Events, Seen, Late
  <2>3. Answered(s, h.event).rest.count = 0 BY <1>3, <2>2, AnsweredIs
  <2>4. s.rest.count = 0 /\ sessions'[k].rest.count = 0 BY ONLY <2>1, <2>2, <2>3
  <2> QED BY <2>4 DEF RestGoesOn
<1>11. CASE \E a \in Auths, rev \in Nat : \E c : WroteLive(k, Holding(s, a, rev), c)
  <2>1. PICK a \in Auths, rev \in Nat : sessions'[k] = Holding(s, a, rev)
    BY <1>1, <1>11, OwnWrite
  <2> QED BY <1>3, <2>1, HoldingIs DEF RestGoesOn
<1>12. Enrolled(k) \/ Held(k) =>
         \E a \in Auths, rev \in Nat : \E c : WroteLive(k, Holding(s, a, rev), c)
  BY <1>3, RegistryFields DEF Enrolled, Held, Absent, HookInv
<1> QED BY <1>3, <1>5, <1>6, <1>7, <1>8, <1>9, <1>10, <1>11, <1>12 DEF StepWrote

LEMMA RestAfterVerdict ==
    ASSUME HookInv, NEW k \in Sessions, hook[k].pc = "publish", VerdictMade(k)
    PROVE  RestGoesOn(sessions[k], sessions'[k], k)
<1> PICK h : h = hook[k] OBVIOUS
<1> PICK s : s = sessions[k] OBVIOUS
<1>1. h.pc \in StopSteps BY DEF StopSteps
<1>2. /\ h.snap.session = s /\ h.snap.chain = Reg!Current(k)
      /\ sessions'[k] = SessionWritten(h) /\ s \in Reg!SessionStates
  BY <1>1, OwnWrite DEF VerdictMade
<1>3. sessions'[k].rest = RestWritten(h) BY <1>2, SessionWrittenIs
<1>4. VerdictFits(h) BY VerdictGated
<1> QED BY <1>2, <1>3, <1>4, RestWrittenIs DEF RestGoesOn, VerdictFits

\* The count of corrections and the turn of a session go on by rule, in the step
\* of any session.
LEMMA RestAfterDeed ==
    ASSUME HookInv, NEW k \in Sessions, Deed(k), NEW j \in Sessions
    PROVE  RestGoesOn(sessions[j], sessions'[j], j)
<1>1. CASE UNCHANGED sessions BY <1>1 DEF RestGoesOn
<1>2. CASE j # k /\ \E t, c : MadeBy(k, t, c)
  <2>1. sessions'[j].rest = sessions[j].rest
    BY <1>2, SessionsAfterWrite DEF HookInv, MovedTo
  <2> QED BY <2>1 DEF RestGoesOn
<1>3. CASE j = k /\ StepWrote(k) BY <1>3, RestAfterHook
<1>4. CASE j = k /\ hook[k].pc = "publish" /\ VerdictMade(k) BY <1>4, RestAfterVerdict
<1>5. CASE j = k /\ MadeBeside(k)
  <2>1. sessions'[k].rest = sessions[k].rest
    BY <1>5, SessionsAfterWrite DEF MadeBeside, Beside, HookInv
  <2> QED BY <1>5, <2>1 DEF RestGoesOn
<1> QED BY <1>1, <1>2, <1>3, <1>4, <1>5, DeedIsWrite DEF Deed

LEMMA NextDeed ==
    ASSUME HookInv, Next
    PROVE  \E k \in Sessions : Acts(k) /\ Deed(k) /\ HookInv'
<1>1. PICK k \in Sessions : Acts(k) BY DEF Next, Acts
<1> QED BY <1>1, ActKeeps

\* Nothing but a newly recorded user turn resets an armed circuit: no wait line,
\* record, decision, command, host turn or peer, in whatever order they come.
THEOREM ArmedCircuitsHold == Spec => CircuitHolds
<1> DEFINE Held3 == \A k \in Sessions :
        Armed(sessions[k]) /\ ~Armed(sessions'[k])
            => sessions'[k].rest.turn > sessions[k].rest.turn
<1>1. HookInv /\ [Next]_vars => [Held3]_vars
  <2> SUFFICES ASSUME HookInv, Next, NEW j \in Sessions,
                      Armed(sessions[j]), ~Armed(sessions'[j])
               PROVE  sessions'[j].rest.turn > sessions[j].rest.turn
    BY DEF Held3
  <2>1. PICK k \in Sessions : Deed(k) BY NextDeed
  <2>2. RestGoesOn(sessions[j], sessions'[j], j) BY <2>1, RestAfterDeed
  <2> QED BY <2>2 DEF RestGoesOn, Armed, Circuit, CountAfter
<1> QED BY <1>1, HookInvAlways, PTL DEF Spec, CircuitHolds

\* A correction is counted only by the verdict of a Stop: against a session level
\* with its chain unless the storage failed to bring it there; where a peer
\* overtook it, only by the refusal that arms the circuit.
THEOREM OvertakenCountsOnlyToArm == Spec => OvertakenCountsToArm
<1> DEFINE Counted == \A k \in Sessions :
        CountRose(k) =>
            /\ hook[k].pc = "publish"
            /\ Overtaken(k) => Armed(sessions'[k])
            /\ \/ sessions[k].crev = Reg!Current(k).rev
               \/ StorageFails /\ Overtaken(k)
<1>1. HookInv /\ [Next]_vars => [Counted]_vars
  <2> SUFFICES ASSUME HookInv, Next, NEW j \in Sessions, CountRose(j)
               PROVE  /\ hook[j].pc = "publish"
                      /\ Overtaken(j) => Armed(sessions'[j])
                      /\ \/ sessions[j].crev = Reg!Current(j).rev
                         \/ StorageFails /\ Overtaken(j)
    BY DEF Counted
  <2>1. PICK k \in Sessions : Deed(k) BY NextDeed
  <2>2. RestGoesOn(sessions[j], sessions'[j], j) BY <2>1, RestAfterDeed
  <2>3. sessions[j].rest.count \in 0..3 BY RegistryFields, SessionFields DEF HookInv
  <2>4. /\ hook[j].pc = "publish" /\ hook[j].verdict = "counted"
        /\ sessions'[j].rest.count = CountAfter(sessions[j])
        /\ hook[j].snap.session = sessions[j] /\ hook[j].snap.chain = Reg!Current(j)
    BY <2>2, <2>3 DEF CountRose, RestGoesOn
  <2>5. sessions[j].rest.count < Circuit
    BY <2>3, <2>4 DEF CountRose, CountAfter, Circuit
  <2>6. VerdictFits(hook[j]) BY <2>4, VerdictGated
  <2>7. ~(sessions[j].rest.count >= Circuit) BY <2>3, <2>5 DEF Circuit
  <2>8. /\ Overtaken(j) => CountAfter(sessions[j]) = Circuit
        /\ ~Overtaken(j) => sessions[j].crev = Reg!Current(j).rev
    BY <2>4, <2>6, <2>7 DEF VerdictFits, Level, Overtaken
  <2>9. Overtaken(j) /\ ~StorageFails => sessions[j].crev = Reg!Current(j).rev
    <3>1. IsLive(hook[j].snap, sessions[j], chains) BY <2>4 DEF IsLive, Reg!Current, Reg!ChainAt
    <3> QED BY <2>4, <3>1, StopHook DEF StopFits, StopSteps, Overtaken, Level
  <2> QED BY <2>4, <2>8, <2>9 DEF Armed
<1> QED BY <1>1, HookInvAlways, PTL DEF Spec, OvertakenCountsToArm

-----------------------------------------------------------------------------
(* Questions, enrolment and re-rooting *)

LEMMA AwaitingBound ==
    ASSUME RegInv, NEW k \in Sessions, sessions[k].mode = "awaiting"
    PROVE  /\ sessions[k].auth \in Auths /\ sessions[k].auth # NoAuth
           /\ sessions[k].decision = sessions[k].auth
           /\ Reg!Current(k) = chains[sessions[k].auth]
           /\ chains[sessions[k].auth] # Reg!NoChain
<1> PICK s : s = sessions[k] OBVIOUS
<1>1. /\ Reg!SessionValid(s) /\ Reg!HoldsCurrentChain(chains, s)
      /\ s.auth # NoAuth => /\ s.auth \in Auths
                            /\ chains[s.auth].status \in {"active", "complete"}
  BY RegistryFields
<1>2. s.auth # NoAuth /\ s.decision # NoAuth BY <1>1 DEF Reg!SessionValid
<1>3. s.decision = s.auth BY <1>1, <1>2 DEF Reg!HoldsCurrentChain
<1> QED BY <1>1, <1>2, <1>3 DEF Reg!Current, Reg!ChainAt, Reg!NoChain

\* A question is never carried over to a chain its session re-roots to.
LEMMA AwaitingStays ==
    ASSUME HookInv, NEW k \in Sessions, hook[k].pc = "observe", TurnWritten(k),
           sessions[k].mode = "awaiting"
    PROVE  sessions'[k].mode = "awaiting"
<1> PICK e : e = hook[k].event OBVIOUS
<1> PICK s : s = sessions[k] OBVIOUS
<1>1. hook[k].pc \in PromptSteps BY DEF PromptSteps
<1>2. \E t, c : WroteLive(k, t, c) BY DEF TurnWritten
<1>3. hook[k].snap.session = s /\ s \in Reg!SessionStates /\ Reg!SessionValid(s)
  BY <1>1, <1>2, OwnWrite
<1>4. e.turn \in Nat BY <1>1, PromptHook DEF PromptFits, EventFits, Events
<1>5. CASE WroteLive(k, HostObserved(s), Reg!NoChain)
  BY <1>1, <1>3, <1>5, OwnWrite, HostObservedIs
<1>6. CASE WroteLive(k, Observed(s, e), Reg!NoChain)
  <2>1. sessions'[k] = Observed(s, e) BY <1>1, <1>6, OwnWrite
  <2>2. Observed(s, e).mode = s.mode BY <1>3, <1>4, ObservedIs
  <2> QED BY <2>1, <2>2
<1>7. ASSUME NEW a \in Absent, NEW c, WroteLive(k, Rerooted(s, a, e), c) PROVE FALSE
  <2> PICK t : t = Rerooted(s, a, e) OBVIOUS
  <2>1. a \in Auths /\ chains[a] = Reg!NoChain BY DEF Absent
  <2>2. t.auth = a /\ t.decision = s.decision BY <1>3, <1>4, <2>1, RerootedIs
  <2>3. s.decision = s.auth /\ s.auth # NoAuth /\ chains[s.auth] # Reg!NoChain
    BY AwaitingBound DEF HookInv
  <2>4. MadeBy(k, t, c) BY <1>7 DEF WroteLive
  <2>5. RegInv' /\ sessions'[k] = t
    BY <2>4, WriteKeepsRegistry, SessionsAfterWrite DEF HookInv
  <2>6. Reg!HoldsCurrentChain(chains', sessions'[k])
    BY <2>5 DEF RegInv, Reg!EnvelopeHeld, Reg!Envelope
  <2>7. t.auth # NoAuth BY <2>1, <2>2, LifecycleAssumption
  <2>8. t.decision = t.auth BY <2>2, <2>3, <2>5, <2>6, <2>7 DEF Reg!HoldsCurrentChain
  <2> QED BY <2>1, <2>2, <2>3, <2>8
<1> QED BY <1>3, <1>5, <1>6, <1>7 DEF TurnWritten

LEMMA QuestionAfterHook ==
    ASSUME HookInv, NEW k \in Sessions, StepWrote(k), sessions[k].mode = "awaiting",
           sessions'[k].mode # "awaiting"
    PROVE  QuestionKept(k)
<1> PICK h : h = hook[k] OBVIOUS
<1> PICK s : s = sessions[k] OBVIOUS
<1>1. h.pc \in PromptSteps \cup StopSteps BY DEF StepWrote, PromptSteps, StopSteps
<1>2. \E t, c : WroteLive(k, t, c) BY DEF StepWrote, TurnWritten, Enrolled, Held
<1>3. /\ h.snap.session = s /\ s \in Reg!SessionStates /\ Reg!SessionValid(s)
      /\ h.snap.chain = Reg!Current(k)
  BY <1>1, <1>2, OwnWrite
<1>4. h.snap \in Snapshots BY <1>1, SnapOfHook DEF SnapFits
<1>5. CASE s.mode # "ungated" /\ WroteLive(k, Reconciled(h.snap), Reg!NoChain)
  <2> PICK t : t = Reconciled(h.snap) OBVIOUS
  <2>1. sessions'[k] = t BY <1>1, <1>5, OwnWrite
  <2>2. /\ t.mode = IF Completed(h.snap) THEN "complete" ELSE s.mode
        /\ t.auth = s.auth /\ t.decision = s.decision
    BY <1>3, <1>4, <1>5, ReconciledIs
  <2>3. t.mode = "complete" /\ Completed(h.snap) BY <2>1, <2>2
  <2>4. chains[t.auth].status = "complete" /\ t.decision = t.auth
    BY <1>3, <2>2, <2>3, AwaitingBound DEF HookInv, Completed
  <2> QED BY <2>1, <2>3, <2>4 DEF QuestionKept
<1>6. CASE WroteLive(k, EchoSpent(s), Reg!NoChain)
  BY <1>1, <1>3, <1>6, OwnWrite, EchoSpentIs
<1>7. CASE h.pc = "reenter"
  <2>1. s.mode = "complete" BY <1>3, <1>7, PromptHook DEF PromptSteps, PromptFits, StepFits
  <2> QED BY <2>1
<1>8. CASE h.pc = "observe" /\ TurnWritten(k) BY <1>8, AwaitingStays
<1>9. CASE WroteLive(k, Marked(s, h.event), Reg!NoChain)
  <2>1. sessions'[k] = Marked(s, h.event) BY <1>1, <1>9, OwnWrite
  <2>2. Marked(s, h.event).mode = s.mode BY <1>3, BumpIs DEF Marked
  <2> QED BY <2>1, <2>2
<1>10. CASE h.pc = "answer"
  <2>1. h.event.say \in {"yes", "no"} /\ ~h.event.host
    BY <1>10, PromptHook DEF PromptSteps, PromptFits, StepFits
  <2> QED BY <1>10, <2>1 DEF QuestionKept
<1>11. CASE h.pc \in {"track", "join", "continue"}
  <2>1. s.mode = "ungated"
    BY <1>3, <1>11, PromptHook DEF PromptSteps, PromptFits, StepFits
  <2> QED BY <2>1
<1> QED BY <1>3, <1>5, <1>6, <1>7, <1>8, <1>9, <1>10, <1>11 DEF StepWrote

\* A session leaves the mode in which it awaits a decision when its user's own
\* yes or no is recorded or the whole work was completed, whatever peers, Stops,
\* refreshes and killed hooks do in between.
THEOREM OpenQuestionsStay == Spec => QuestionsStayOpen
<1> DEFINE Kept == \A k \in Sessions : QuestionKept(k)
<1>1. HookInv /\ [Next]_vars => [Kept]_vars
  <2> SUFFICES ASSUME HookInv, Next, NEW j \in Sessions,
                      sessions[j].mode = "awaiting", sessions'[j].mode # "awaiting"
               PROVE  QuestionKept(j)
    BY DEF Kept, QuestionKept
  <2>1. PICK k \in Sessions : Deed(k) BY NextDeed
  <2>2. CASE UNCHANGED sessions BY <2>2
  <2>3. CASE j # k /\ \E t, c : MadeBy(k, t, c)
    BY <2>3, SessionsAfterWrite DEF HookInv, MovedTo
  <2>4. CASE j = k /\ StepWrote(k) BY <2>4, QuestionAfterHook
  <2>5. CASE j = k /\ hook[k].pc = "publish" /\ VerdictMade(k)
    <3> PICK h : h = hook[k] OBVIOUS
    <3>1. h.pc \in StopSteps BY <2>5 DEF StopSteps
    <3>2. /\ h.snap.session = sessions[k] /\ sessions'[k] = SessionWritten(h)
          /\ sessions[k] \in Reg!SessionStates
      BY <2>5, <3>1, OwnWrite DEF VerdictMade
    <3>3. h.verdict = "audit" => sessions[k].mode = "tracked"
      BY <2>5, <3>2, VerdictGated DEF RecordForms
    <3> QED BY <2>5, <3>2, <3>3, SessionWrittenIs
  <2>6. CASE j = k /\ MadeBeside(k)
    <3>1. PICK t, c : MadeBy(k, t, c) /\ Beside(k, t, c) BY <2>6 DEF MadeBeside
    <3>2. sessions'[k] = t BY <3>1, SessionsAfterWrite DEF HookInv
    <3>3. /\ t.mode = "complete" /\ Completed(Snapshot(k))
          /\ t.decision = sessions[k].decision /\ t.auth = sessions[k].auth
      BY <2>6, <3>1, <3>2 DEF Beside
    <3>4. Reg!Current(k).status = "complete" BY <3>3 DEF Completed, Snapshot
    <3> QED BY <2>6, <3>2, <3>3, <3>4, AwaitingBound DEF HookInv, QuestionKept
  <2> QED BY <2>1, <2>2, <2>3, <2>4, <2>5, <2>6, DeedIsWrite DEF Deed
<1> QED BY <1>1, HookInvAlways, PTL DEF Spec, QuestionsStayOpen

\* A session that writes no chain and stays on its own leaves all chains alone.
LEMMA ChainsUntouched ==
    ASSUME RegInv, NEW k \in Sessions, NEW t, MadeBy(k, t, Reg!NoChain),
           t.auth = sessions[k].auth
    PROVE  chains' = chains
<1>1. ~Reg!Supersedes(k, t, Reg!NoChain) BY DEF Reg!Supersedes
<1>2. chains = [a \in Auths |-> chains[a]] BY RegistryFields
<1> QED BY <1>1, <1>2 DEF MadeBy, Reg!Write, Reg!NewChains

LEMMA HostStepInert ==
    ASSUME HookInv, NEW k \in Sessions, hook[k].pc \in PromptSteps, hook[k].event.host,
           StepWrote(k)
    PROVE  HostTurnInert(k)
<1> PICK h : h = hook[k] OBVIOUS
<1> PICK s : s = sessions[k] OBVIOUS
<1>1. h.pc \in {"reconcile", "observe", "mark"} BY PromptHook DEF PromptFits, StepFits
<1>2. \E t, c : WroteLive(k, t, c) BY DEF StepWrote, TurnWritten, Enrolled, Held
<1>3. /\ h.snap.session = s /\ s \in Reg!SessionStates /\ Reg!SessionValid(s)
      /\ s.rest = [turn |-> s.rest.turn, origin |-> s.rest.origin,
                   count |-> s.rest.count, echo |-> s.rest.echo]
  <2>1. h.snap.session = s /\ s \in Reg!SessionStates /\ Reg!SessionValid(s)
    BY <1>2, OwnWrite
  <2> QED BY <2>1, SessionFields DEF Rest
<1>4. h.snap \in Snapshots BY SnapOfHook DEF SnapFits
<1>5. ASSUME NEW t, WroteLive(k, t, Reg!NoChain), t.auth = s.auth, t.proposal = s.proposal,
             t.decision = s.decision, t.mode = s.mode \/ t.mode = "complete",
             t.rest = s.rest \/ t.rest = [s.rest EXCEPT !.origin = "host"]
      PROVE  HostTurnInert(k)
  <2>1. sessions'[k] = t BY <1>5, OwnWrite
  <2>2. chains' = chains BY <1>5, ChainsUntouched DEF WroteLive, HookInv
  <2>3. [t.rest EXCEPT !.origin = s.rest.origin] = s.rest BY <1>3, <1>5
  <2> QED BY <1>5, <2>1, <2>2, <2>3 DEF HostTurnInert
<1>6. CASE s.mode # "ungated" /\ WroteLive(k, Reconciled(h.snap), Reg!NoChain)
  <2> PICK t : t = Reconciled(h.snap) OBVIOUS
  <2>1. /\ t.mode = IF Completed(h.snap) THEN "complete" ELSE s.mode
        /\ t.auth = s.auth /\ t.decision = s.decision /\ t.proposal = s.proposal
        /\ t.rest = s.rest
    BY <1>3, <1>4, <1>6, ReconciledIs
  <2>2. t.mode = s.mode \/ t.mode = "complete" BY <2>1
  <2> QED BY <1>5, <1>6, <2>1, <2>2
<1>7. CASE WroteLive(k, HostObserved(s), Reg!NoChain)
  <2> PICK t : t = HostObserved(s) OBVIOUS
  <2>1. /\ t.mode = s.mode /\ t.auth = s.auth /\ t.decision = s.decision
        /\ t.proposal = s.proposal /\ t.rest = [s.rest EXCEPT !.origin = "host"]
    BY <1>3, HostObservedIs
  <2> QED BY <1>5, <1>7, <2>1
<1>8. CASE WroteLive(k, Marked(s, h.event), Reg!NoChain)
  <2> PICK t : t = Marked(s, h.event) OBVIOUS
  <2>1. /\ t.mode = s.mode /\ t.auth = s.auth /\ t.decision = s.decision
        /\ t.proposal = s.proposal /\ t.rest = [s.rest EXCEPT !.origin = "host"]
    BY <1>3, BumpIs DEF Marked, Origin
  <2> QED BY <1>5, <1>8, <2>1
<1> QED BY <1>1, <1>3, <1>6, <1>7, <1>8 DEF StepWrote, TurnWritten

\* A prompt the host started is not the user speaking, at any step and whatever
\* was written in between: it only leaves its origin and takes note of peers.
THEOREM HostTurnsInert == Spec => HostTurnsAreInert
<1> DEFINE Inert == \A k \in Sessions : HostTurnInert(k)
<1>1. HookInv /\ [Next]_vars => [Inert]_vars
  <2> SUFFICES ASSUME HookInv, Next, NEW j \in Sessions, HookMoved(j),
                      hook[j].pc \in PromptSteps, hook[j].event.host
               PROVE  HostTurnInert(j)
    BY DEF Inert, HostTurnInert
  <2>1. PICK k \in Sessions : Acts(k) /\ Deed(k) BY NextDeed
  <2>2. k = j BY <2>1, OwnHook DEF HookMoved
  <2>3. CASE UNCHANGED <<chains, sessions>>
    <3>1. sessions[j].rest = [sessions[j].rest EXCEPT !.origin = sessions[j].rest.origin]
      BY RegistryFields, SessionFields DEF HookInv, Rest
    <3> QED BY <2>3, <3>1 DEF HostTurnInert
  <2>4. CASE StepWrote(k) BY <2>2, <2>4, HostStepInert
  <2>5. ~(hook[k].pc = "publish") BY <2>2 DEF PromptSteps
  <2>6. ~UNCHANGED hook BY DEF HookMoved
  <2> QED BY <2>1, <2>3, <2>4, <2>5, <2>6 DEF Deed
<1> QED BY <1>1, HookInvAlways, PTL DEF Spec, HostTurnsAreInert

\* A chain that a hook's write creates is the chain it wrote.
LEMMA CreatedIs ==
    ASSUME RegInv, NEW k, NEW t, NEW c, MadeBy(k, t, c), NEW a \in Auths, Created(a)
    PROVE  a = t.auth /\ chains'[a] = c /\ c # Reg!NoChain
<1>1. chains[a] = Reg!NoChain /\ chains'[a] # chains[a] BY DEF Created
<1>2. chains[a].status # "active" BY <1>1 DEF Reg!NoChain
<1> QED BY <1>1, <1>2, ChainsAfterWrite DEF Replaced, Rewritten

LEMMA GrantIsOwn ==
    ASSUME HookInv, NEW k \in Sessions, StepWrote(k), NEW a \in Auths, Created(a)
    PROVE  chains'[a].tag.grant = <<k, hook[k].event.turn>>
<1> PICK h : h = hook[k] OBVIOUS
<1> PICK e : e = h.event OBVIOUS
<1>1. \A t, c : WroteLive(k, t, c) => chains'[a] = c /\ c # Reg!NoChain
  BY CreatedIs DEF WroteLive, HookInv
<1>2. CASE h.pc = "observe" /\ TurnWritten(k)
  <2>1. hook[k].pc \in PromptSteps BY <1>2 DEF PromptSteps
  <2>2. h.snap \in Snapshots /\ e.turn \in Nat
    BY <2>1, PromptHook DEF PromptFits, SnapFits, EventFits, Events
  <2>3. Approves(h.snap.session, e) /\ h.snap.chain.record # 0
        /\ chains'[a] = SuccessorChain(k, h.snap, e)
    BY <1>1, <1>2 DEF TurnWritten
  <2> QED BY <2>2, <2>3, SuccessorChainIs DEF Approves
<1>3. CASE h.pc = "track" /\ Enrolled(k)
  <2>1. hook[k].pc \in PromptSteps BY <1>3 DEF PromptSteps
  <2>2. Seen(h.snap, e) BY <1>3, <2>1, PromptHook DEF PromptFits, StepFits, Late
  <2>3. chains'[a] = NewChain(e.arg, k, h.snap.session.rest.turn)
    BY <1>1, <1>3 DEF Enrolled
  <2> QED BY <2>2, <2>3 DEF Seen, NewChain
<1> QED BY <1>1, <1>2, <1>3 DEF StepWrote, Held

\* The chain a session holds is there, so a verdict creates none.
LEMMA VerdictCreatesNone ==
    ASSUME HookInv, NEW k \in Sessions, hook[k].pc = "publish", VerdictMade(k),
           NEW a \in Auths
    PROVE  ~Created(a)
<1> SUFFICES ASSUME Created(a) PROVE FALSE OBVIOUS
<1> PICK h : h = hook[k] OBVIOUS
<1>1. h.pc \in StopSteps BY DEF StopSteps
<1>2. WroteLive(k, SessionWritten(h), ChainWritten(h)) BY DEF VerdictMade
<1>3. h.snap.session = sessions[k] BY <1>1, <1>2, OwnWrite
<1>4. SessionWritten(h).auth = sessions[k].auth
  BY <1>3, VerdictIsGood DEF VerdictMade
<1>5. a = sessions[k].auth BY <1>2, <1>4, CreatedIs DEF WroteLive, HookInv
<1>6. a # NoAuth BY LifecycleAssumption
<1>7. chains[a].status \in {"active", "complete"} BY <1>5, <1>6, RegistryFields DEF HookInv
<1> QED BY <1>7 DEF Created, Reg!NoChain

\* A chain a prompt creates is authorized by that prompt's own turn, never by an
\* earlier one that happened to be recorded.
THEOREM PromptsGrantOwnTurn == Spec => PromptsGrantTheirOwnTurn
<1> DEFINE Own == \A k \in Sessions, a \in Auths :
        HookMoved(k) /\ Created(a) => chains'[a].tag.grant = <<k, hook[k].event.turn>>
<1>1. HookInv /\ [Next]_vars => [Own]_vars
  <2> SUFFICES ASSUME HookInv, Next, NEW j \in Sessions, NEW a \in Auths, HookMoved(j),
                      Created(a)
               PROVE  chains'[a].tag.grant = <<j, hook[j].event.turn>>
    BY DEF Own
  <2>1. PICK k \in Sessions : Acts(k) /\ Deed(k) BY NextDeed
  <2>2. k = j BY <2>1, OwnHook DEF HookMoved
  <2>3. ~UNCHANGED chains /\ ~UNCHANGED hook BY DEF HookMoved, Created
  <2> QED BY <2>1, <2>2, <2>3, GrantIsOwn, VerdictCreatesNone DEF Deed
<1> QED BY <1>1, HookInvAlways, PTL DEF Spec, PromptsGrantTheirOwnTurn

-----------------------------------------------------------------------------
(* Who supersedes a chain *)

LEMMA SupersedesChange ==
    ASSUME RegInv, NEW k, NEW t, NEW c, MadeBy(k, t, c), NEW a \in Auths, Superseding(a)
    PROVE  /\ Replaced(k, t, a) /\ c # Reg!NoChain
           /\ sessions[k].auth = a /\ t.auth # a /\ a # NoAuth
           /\ chains'[t.auth] = c
<1>1. chains'[a].status = "superseded" /\ chains[a].status = "active" BY DEF Superseding
<1>2. ~Rewritten(t, c, a) BY <1>1 DEF Rewritten
<1>3. Replaced(k, t, a) /\ Reg!Supersedes(k, t, c)
  BY <1>1, <1>2, ChainsAfterWrite
<1>4. c # Reg!NoChain
  BY <1>3 DEF MadeBy, Reg!Write, Reg!Rules, Reg!Admitted, Reg!TransitionAllowed
<1>5. a # NoAuth BY LifecycleAssumption
<1>6. chains'[t.auth] = c
  <2>1. t.auth \in Auths /\ t.auth # a /\ chains[t.auth] = Reg!NoChain
    BY <1>3 DEF Replaced
  <2>2. ~Replaced(k, t, t.auth) BY <2>1 DEF Replaced
  <2> QED BY <1>4, <2>1, <2>2, ChainsAfterWrite DEF Rewritten
<1> QED BY <1>3, <1>4, <1>5, <1>6 DEF Replaced

\* Only the prompt hook that records an approval re-roots.
LEMMA RerootIsApproved ==
    ASSUME HookInv, NEW k \in Sessions, Deed(k), NEW a \in Auths, Superseding(a)
    PROVE  /\ hook[k].pc = "observe" /\ TurnWritten(k)
           /\ ~hook[k].event.host /\ sessions[k].rest.turn # hook[k].event.turn
           /\ Approves(sessions[k], hook[k].event)
           /\ sessions[k].auth = a
           /\ hook[k].snap.session = sessions[k] /\ hook[k].snap.chain = chains[a]
           /\ hook[k].snap.chain.record # 0
           /\ \E b \in Absent :
                /\ WroteLive(k, Rerooted(sessions[k], b, hook[k].event),
                             SuccessorChain(k, hook[k].snap, hook[k].event))
                /\ b # a /\ chains'[a].succ = b
                /\ chains'[b] = SuccessorChain(k, hook[k].snap, hook[k].event)
<1> PICK h : h = hook[k] OBVIOUS
<1> PICK s : s = sessions[k] OBVIOUS
<1>1. \A t, c : MadeBy(k, t, c) =>
        /\ c # Reg!NoChain /\ s.auth = a /\ t.auth # a /\ a # NoAuth
        /\ chains'[t.auth] = c /\ chains'[a].succ = t.auth
  BY SupersedesChange DEF HookInv, Replaced
<1>2. ~UNCHANGED chains BY DEF Superseding
<1>3. s \in Reg!SessionStates /\ Reg!SessionValid(s) BY RegistryFields DEF HookInv
<1>4. ~(hook[k].pc = "publish" /\ VerdictMade(k))
  <2> SUFFICES ASSUME hook[k].pc = "publish", VerdictMade(k) PROVE FALSE OBVIOUS
  <2>1. h.pc \in StopSteps BY DEF StopSteps
  <2>2. WroteLive(k, SessionWritten(h), ChainWritten(h)) BY DEF VerdictMade
  <2>3. SessionWritten(h).auth = s.auth
    BY <2>1, <2>2, OwnWrite, VerdictIsGood DEF VerdictMade
  <2> QED BY <1>1, <2>2, <2>3 DEF WroteLive
<1>5. ~MadeBeside(k)
  <2> SUFFICES ASSUME NEW t, NEW c, MadeBy(k, t, c), Beside(k, t, c) PROVE FALSE
    BY DEF MadeBeside
  <2>1. s.mode = "ungated" BY <1>1 DEF Beside
  <2> QED BY <1>1, <1>3, <2>1 DEF Reg!SessionValid
<1>6. StepWrote(k) BY <1>2, <1>4, <1>5 DEF Deed
<1>7. ~(h.pc = "track" /\ Enrolled(k))
  <2> SUFFICES ASSUME h.pc = "track", Enrolled(k) PROVE FALSE OBVIOUS
  <2>1. h.pc \in PromptSteps BY DEF PromptSteps
  <2>2. PICK t, c : WroteLive(k, t, c) BY DEF Enrolled
  <2>3. s.mode = "ungated" BY <2>1, <2>2, OwnWrite, PromptHook DEF PromptFits, StepFits
  <2> QED BY <1>1, <1>3, <2>2, <2>3 DEF WroteLive, Reg!SessionValid
<1>8. h.pc = "observe" /\ TurnWritten(k)
  BY <1>1, <1>6, <1>7 DEF StepWrote, WroteLive, Held
<1>9. h.pc \in PromptSteps BY <1>8 DEF PromptSteps
<1>10. PICK b \in Absent :
         /\ ~h.event.host /\ h.snap.session.rest.turn # h.event.turn
         /\ Approves(h.snap.session, h.event) /\ h.snap.chain.record # 0
         /\ WroteLive(k, Rerooted(h.snap.session, b, h.event),
                      SuccessorChain(k, h.snap, h.event))
  BY <1>1, <1>8 DEF TurnWritten, WroteLive
<1>11. h.snap.session = s /\ (s.auth # NoAuth => h.snap.chain = chains[s.auth])
  BY <1>9, <1>10, OwnWrite
<1>12. h.event.turn \in Nat /\ b \in Auths
  BY <1>9, PromptHook DEF PromptFits, EventFits, Events, Absent
<1>13. Rerooted(s, b, h.event).auth = b BY <1>3, <1>12, RerootedIs
<1>14. /\ b # a /\ chains'[a].succ = b /\ s.auth = a /\ a # NoAuth
       /\ chains'[b] = SuccessorChain(k, h.snap, h.event)
  BY <1>1, <1>10, <1>11, <1>13 DEF WroteLive
<1> QED BY <1>8, <1>10, <1>11, <1>14

\* Work changes its root only by the yes of its user to a proposal of the session
\* that holds it, in the next turn that gets recorded, and keeps its record.
THEOREM RerootingIsApproved == Spec => RerootedByApproval
<1> DEFINE Approved == \A a \in Auths : Superseding(a) =>
        \E k \in Sessions :
            LET s == sessions[k]   c == chains'[chains'[a].succ] IN
            /\ s.auth = a /\ s.proposal # NoProposal
            /\ hook[k].pc = "observe" /\ hook[k].event.say = "yes"
            /\ s.proposal.turn = s.rest.turn /\ hook[k].event.turn > s.rest.turn
            /\ c.root = s.proposal.root /\ c.record = chains[a].record
<1>1. HookInv /\ [Next]_vars => [Approved]_vars
  <2> SUFFICES ASSUME HookInv, Next, NEW a \in Auths, Superseding(a)
               PROVE  \E k \in Sessions :
                        LET s == sessions[k]   c == chains'[chains'[a].succ] IN
                        /\ s.auth = a /\ s.proposal # NoProposal
                        /\ hook[k].pc = "observe" /\ hook[k].event.say = "yes"
                        /\ s.proposal.turn = s.rest.turn
                        /\ hook[k].event.turn > s.rest.turn
                        /\ c.root = s.proposal.root /\ c.record = chains[a].record
    BY DEF Approved
  <2>1. PICK k \in Sessions : Deed(k) BY NextDeed
  <2> PICK h : h = hook[k] OBVIOUS
  <2> PICK s : s = sessions[k] OBVIOUS
  <2>2. /\ h.pc = "observe" /\ ~h.event.host /\ s.rest.turn # h.event.turn
        /\ Approves(s, h.event) /\ s.auth = a
        /\ h.snap.session = s /\ h.snap.chain = chains[a] /\ h.snap.chain.record # 0
        /\ chains'[chains'[a].succ] = SuccessorChain(k, h.snap, h.event)
    BY <2>1, RerootIsApproved
  <2>3. h.pc \in PromptSteps BY <2>2 DEF PromptSteps
  <2>4. /\ h.snap \in Snapshots /\ h.event.turn \in Nat
        /\ Unseen(h.snap, h.event) \/ Seen(h.snap, h.event)
    BY <2>2, <2>3, PromptHook DEF PromptFits, StepFits, SnapFits, EventFits, Events
  <2>5. s.rest.turn < h.event.turn BY <2>2, <2>4 DEF Unseen, Seen
  <2>6. /\ SuccessorChain(k, h.snap, h.event).root = s.proposal.root
        /\ SuccessorChain(k, h.snap, h.event).record = chains[a].record
    BY <2>2, <2>4, SuccessorChainIs DEF Approves
  <2>7. s.rest.turn \in Nat BY RegistryFields, SessionFields DEF HookInv
  <2> QED BY <2>2, <2>4, <2>5, <2>6, <2>7 DEF Approves, Adjacent
<1> QED BY <1>1, HookInvAlways, PTL DEF Spec, RerootedByApproval

-----------------------------------------------------------------------------
(* What a step does to the history of chains and records *)

\* A write without a chain changes none: only a successor supersedes.
LEMMA NoChainWrite ==
    ASSUME RegInv, NEW k \in Sessions, NEW t, MadeBy(k, t, Reg!NoChain)
    PROVE  chains' = chains
<1>1. ~Reg!Supersedes(k, t, Reg!NoChain)
  BY DEF MadeBy, Reg!Write, Reg!Rules, Reg!Admitted, Reg!TransitionAllowed
<1>2. chains = [a \in Auths |-> chains[a]] BY RegistryFields
<1> QED BY <1>1, <1>2 DEF MadeBy, Reg!Write, Reg!NewChains

\* A session that stays on its chain, or had none, writes that chain alone.
LEMMA OneChainWrite ==
    ASSUME RegInv, NEW k \in Sessions, NEW t, NEW c, MadeBy(k, t, c), c # Reg!NoChain,
           sessions[k].auth \in {NoAuth, t.auth}
    PROVE  /\ t.auth \in Auths /\ chains'[t.auth] = c
           /\ \A x \in Auths \ {t.auth} : chains'[x] = chains[x]
           /\ chains[t.auth] # Reg!NoChain => chains[t.auth].status = "active"
<1>1. t.auth \in Auths
  <2>1. t.auth # NoAuth
    BY DEF MadeBy, Reg!Write, Reg!Rules, Reg!Admitted, Reg!ChainWriteAllowed
  <2> QED BY <2>1 DEF MadeBy, GoodInput, Reg!SessionStates
<1>2. \A x \in Auths : ~Replaced(k, t, x)
  BY LifecycleAssumption DEF Replaced
<1>3. Rewritten(t, c, t.auth) BY <1>1, <1>2, ChainsAfterWrite
<1>4. ASSUME NEW x \in Auths \ {t.auth} PROVE chains'[x] = chains[x]
  BY <1>2, <1>4, ChainsAfterWrite DEF Rewritten
<1> QED BY <1>1, <1>3, <1>4 DEF Rewritten

\* A chain without a record is opened.
Opened(b) ==
    /\ chains[b] = Reg!NoChain
    /\ chains'[b].record = 0 /\ ~chains'[b].evidence
    /\ \A x \in Auths \ {b} : chains'[x] = chains[x]
    /\ published' = published

\* Chain a gives way to chain b, which starts at its record.
RerootedTo(a, b) ==
    /\ a # b /\ chains[b] = Reg!NoChain
    /\ chains[a].status = "active" /\ chains[a].record # 0
    /\ chains'[a].status = "superseded" /\ chains'[a].record = chains[a].record
    /\ chains'[b].status = "active" /\ chains'[b].record = chains[a].record
    /\ chains'[b].evidence
    /\ \A x \in Auths \ {a, b} : chains'[x] = chains[x]
    /\ published' = published

\* Chain a gets its next record.
RecordAdded(a, form) ==
    /\ chains[a].status = "active"
    /\ chains'[a].record = Len(published) + 1 /\ ~chains'[a].evidence
    /\ chains'[a].status = (IF form = "audit" THEN "complete" ELSE "active")
    /\ \A x \in Auths \ {a} : chains'[x] = chains[x]
    /\ published' = Append(published, [auth |-> a, pred |-> chains[a].record,
                                       audit |-> form = "audit"])

HistoryMoves ==
    \/ UNCHANGED <<chains, published>>
    \/ \E b \in Auths : Opened(b)
    \/ \E a, b \in Auths : RerootedTo(a, b)
    \/ \E a \in Auths, form \in RecordForms : RecordAdded(a, form)

LEMMA OpeningMoves ==
    ASSUME RegInv, NEW k \in Sessions, NEW t, NEW c, MadeBy(k, t, c),
           sessions[k].mode = "ungated", c = Reg!NoChain \/ t.auth \in Absent,
           c = Reg!NoChain \/ (c.record = 0 /\ ~c.evidence), UNCHANGED published
    PROVE  HistoryMoves
<1>1. CASE c = Reg!NoChain BY <1>1, NoChainWrite DEF HistoryMoves
<1>2. CASE c # Reg!NoChain
  <2>1. sessions[k].auth = NoAuth BY RegistryFields DEF Reg!SessionValid
  <2>2. /\ t.auth \in Auths /\ chains'[t.auth] = c
        /\ \A x \in Auths \ {t.auth} : chains'[x] = chains[x]
    BY <1>2, <2>1, OneChainWrite
  <2>3. chains[t.auth] = Reg!NoChain BY <1>2 DEF Absent
  <2> QED BY <1>2, <2>2, <2>3 DEF HistoryMoves, Opened
<1> QED BY <1>1, <1>2

LEMMA HookMovesHistory ==
    ASSUME HookInv, NEW k \in Sessions, StepWrote(k), UNCHANGED published,
           \A a \in Auths : ~Superseding(a)
    PROVE  HistoryMoves
<1> PICK h : h = hook[k] OBVIOUS
<1> PICK s : s = sessions[k] OBVIOUS
<1>1. h.pc \in PromptSteps \cup StopSteps BY DEF StepWrote, PromptSteps, StopSteps
<1>2. \E t, c : WroteLive(k, t, c) BY DEF StepWrote, TurnWritten, Enrolled, Held
<1>3. /\ h.snap.session = s /\ s \in Reg!SessionStates
      /\ s.auth # NoAuth => h.snap.chain = chains[s.auth]
  BY <1>1, <1>2, OwnWrite
<1>4. CASE \E t : WroteLive(k, t, Reg!NoChain)
  <2>1. PICK t : MadeBy(k, t, Reg!NoChain) BY <1>4 DEF WroteLive
  <2> QED BY <2>1, NoChainWrite DEF HookInv, HistoryMoves
<1>5. CASE h.pc = "track" /\ Enrolled(k)
  <2>1. s.mode = "ungated"
    BY <1>3, <1>5, PromptHook DEF PromptSteps, PromptFits, StepFits
  <2>2. PICK a \in Absent :
          WroteLive(k, Holding(s, a, 1), NewChain(h.event.arg, k, s.rest.turn))
    BY <1>3, <1>5 DEF Enrolled
  <2> PICK t : t = Holding(s, a, 1) OBVIOUS
  <2> PICK c : c = NewChain(h.event.arg, k, s.rest.turn) OBVIOUS
  <2>3. t.auth = a BY <1>3, HoldingIs DEF Absent
  <2>4. c.record = 0 /\ ~c.evidence BY DEF NewChain
  <2> QED BY <2>1, <2>2, <2>3, <2>4, OpeningMoves DEF WroteLive, HookInv
<1>6. CASE h.pc = "observe" /\ TurnWritten(k)
           /\ ~\E t : WroteLive(k, t, Reg!NoChain)
  <2> PICK e : e = h.event OBVIOUS
  <2>1. PICK b \in Absent : /\ WroteLive(k, Rerooted(s, b, e), SuccessorChain(k, h.snap, e))
                            /\ Approves(s, e)
    BY <1>3, <1>6 DEF TurnWritten
  <2> PICK t : t = Rerooted(s, b, e) OBVIOUS
  <2> PICK c : c = SuccessorChain(k, h.snap, e) OBVIOUS
  <2>2. MadeBy(k, t, c) /\ b \in Auths /\ chains[b] = Reg!NoChain
    BY <2>1 DEF WroteLive, Absent
  <2>3. e.turn \in Nat
    BY <1>6, PromptHook DEF PromptSteps, PromptFits, EventFits, Events
  <2>4. t.auth = b
    BY <1>3, <2>2, <2>3, RegistryFields, RerootedIs DEF HookInv
  <2>5. c # Reg!NoChain BY DEF SuccessorChain, NewChain, Reg!NoChain
  <2>6. s.auth # NoAuth
    <3>1. h.snap.session.auth = NoAuth => h.snap.chain = Reg!NoChain
      BY <1>1, SnapOfHook DEF SnapFits
    <3>2. h.snap.chain.record # 0
      BY <1>6 DEF TurnWritten
    <3> QED BY <1>3, <3>1, <3>2 DEF Reg!NoChain
  <2>7. s.auth \in Auths /\ chains[s.auth].status \in {"active", "complete"}
    BY <2>6, RegistryFields DEF HookInv
  <2>8. s.auth # b BY <2>2, <2>7 DEF Reg!NoChain
  <2>9. Reg!Supersedes(k, t, c)
    BY <2>4, <2>5, <2>6, <2>7, <2>8
       DEF Reg!Supersedes, Reg!Current, Reg!ChainAt, Reg!Reentry, Reg!NoChain
  <2>10. chains'[s.auth] = Reg!SupersededBy(chains[s.auth], b)
    BY <2>2, <2>4, <2>7, <2>9 DEF MadeBy, Reg!Write, Reg!NewChains
  <2>11. Superseding(s.auth)
    <3>1. chains[s.auth].status = "active"
      BY <2>2, <2>6, <2>9
         DEF MadeBy, Reg!Write, Reg!Rules, Reg!Admitted, Reg!TransitionAllowed,
             Reg!Current, Reg!ChainAt
    <3>2. chains[s.auth] \in Reg!ChainStates BY <2>6, RegistryFields DEF HookInv
    <3> QED BY <2>10, <3>1, <3>2 DEF Superseding, Reg!SupersededBy, Reg!ChainStates
  <2> QED BY <2>7, <2>11
<1> QED BY <1>3, <1>4, <1>5, <1>6 DEF StepWrote, Held, TurnWritten

\* An approved transition writes the two chains it names and no record.
LEMMA RerootMovesHistory ==
    ASSUME HookInv, NEW k \in Sessions, Deed(k), NEW a \in Auths, Superseding(a)
    PROVE  HistoryMoves
<1> PICK e : e = hook[k].event OBVIOUS
<1> PICK snap : snap = hook[k].snap OBVIOUS
<1>1. /\ hook[k].pc = "observe" /\ Approves(sessions[k], e) /\ sessions[k].auth = a
      /\ snap.session = sessions[k] /\ snap.chain = chains[a] /\ snap.chain.record # 0
  BY RerootIsApproved
<1>2. PICK b \in Absent : /\ WroteLive(k, Rerooted(sessions[k], b, e), SuccessorChain(k, snap, e))
                          /\ b # a /\ chains'[b] = SuccessorChain(k, snap, e)
  BY RerootIsApproved
<1> PICK t : t = Rerooted(sessions[k], b, e) OBVIOUS
<1> PICK c : c = SuccessorChain(k, snap, e) OBVIOUS
<1>3. MadeBy(k, t, c) /\ b \in Auths /\ chains[b] = Reg!NoChain
  BY <1>2 DEF WroteLive, Absent
<1>4. hook[k].pc \in PromptSteps BY <1>1 DEF PromptSteps
<1>5. e.turn \in Nat /\ snap \in Snapshots
  BY <1>4, PromptHook DEF PromptFits, SnapFits, EventFits, Events
<1>6. t.auth = b
  BY <1>3, <1>5, RegistryFields, RerootedIs DEF HookInv
<1>7. c.status = "active" /\ c.record = chains[a].record /\ c.evidence
  BY <1>1, <1>5, SuccessorChainIs DEF Approves
<1>8. Replaced(k, t, a) BY <1>3, SupersedesChange DEF HookInv
<1>9. ASSUME NEW x \in Auths \ {a, b} PROVE chains'[x] = chains[x]
  BY <1>1, <1>3, <1>6, <1>9, ChainsAfterWrite DEF Replaced, Rewritten, HookInv
<1>10. published' = published BY <1>1 DEF Deed
<1>11. RerootedTo(a, b)
  BY <1>1, <1>2, <1>3, <1>7, <1>8, <1>9, <1>10 DEF RerootedTo, Replaced
<1> QED BY <1>3, <1>11 DEF HistoryMoves

\* A verdict writes its session's chain back as it was, or its next record.
LEMMA VerdictMovesHistory ==
    ASSUME HookInv, NEW k \in Sessions, hook[k].pc = "publish", VerdictMade(k)
    PROVE  HistoryMoves
<1> PICK h : h = hook[k] OBVIOUS
<1> PICK t : t = SessionWritten(h) OBVIOUS
<1> PICK c : c = ChainWritten(h) OBVIOUS
<1>1. hook[k].pc \in StopSteps BY DEF StopSteps
<1>2. WroteLive(k, t, c) BY DEF VerdictMade
<1>3. h.snap.session = sessions[k]
      /\ (sessions[k].auth # NoAuth => h.snap.chain = chains[sessions[k].auth])
  BY <1>1, <1>2, OwnWrite
<1>4. t.auth = sessions[k].auth BY <1>3, VerdictIsGood DEF VerdictMade
<1>5. h.verdict \in Verdicts BY VerdictGated DEF PublishHooks
<1>6. CASE h.verdict \in {"counted", "uncounted"}
  <2>1. c = Reg!NoChain BY <1>6, ChainWrittenIs
  <2>2. chains' = chains BY <1>2, <2>1, NoChainWrite DEF WroteLive, HookInv
  <2>3. published' = published BY <1>6 DEF VerdictMade, RecordForms
  <2> QED BY <2>2, <2>3 DEF HistoryMoves
<1>7. ASSUME h.verdict \notin {"counted", "uncounted"}
      PROVE  /\ t.auth \in Auths /\ h.snap.chain = chains[t.auth]
             /\ h.snap.chain \in Reg!ChainStates
  <2>1. h.snap.session.auth \in Auths /\ h.snap.chain \in Reg!ChainStates
    BY <1>7, VerdictGated
  <2> QED BY <1>3, <1>4, <2>1, LifecycleAssumption
<1>8. ASSUME h.verdict \notin {"counted", "uncounted"}, c # Reg!NoChain
      PROVE  /\ chains'[t.auth] = c
             /\ \A x \in Auths \ {t.auth} : chains'[x] = chains[x]
             /\ chains[t.auth].status = "active"
  <2>1. chains[t.auth] # Reg!NoChain
    BY <1>7, <1>8 DEF Reg!ChainStates, Reg!NoChain
  <2> QED BY <1>2, <1>4, <1>8, <2>1, OneChainWrite DEF WroteLive, HookInv
<1>9. CASE h.verdict \in RecordForms
  <2>1. h.verdict \notin {"counted", "uncounted"} BY <1>9 DEF RecordForms
  <2>2. Len(published) \in Nat /\ Len(published) < MaxRecords
    BY <1>9 DEF VerdictMade, HookInv
  <2>3. c = NextChain(h.snap.chain, h.verdict)
    BY <1>9, ChainWrittenIs
  <2>4. /\ c \in Reg!ChainStates /\ c.record = Len(published) + 1 /\ ~c.evidence
        /\ c.status = (IF h.verdict = "audit" THEN "complete" ELSE "active")
    BY <1>7, <2>1, <2>2, <2>3, NextChainIs
  <2>5. c # Reg!NoChain BY <2>2, <2>4 DEF Reg!NoChain
  <2>6. published' = Append(published, [auth |-> t.auth, pred |-> chains[t.auth].record,
                                        audit |-> h.verdict = "audit"])
    BY <1>3, <1>4, <1>7, <1>9, <2>1, VerdictGated DEF VerdictMade
  <2>7. RecordAdded(t.auth, h.verdict)
    BY <1>8, <2>1, <2>4, <2>5, <2>6 DEF RecordAdded
  <2> QED BY <1>7, <1>9, <2>1, <2>7 DEF HistoryMoves
<1>10. CASE h.verdict \notin {"counted", "uncounted"} \cup RecordForms
  <2>1. c = chains[t.auth] BY <1>7, <1>10, ChainWrittenIs
  <2>2. c # Reg!NoChain BY <1>7, <1>10, <2>1 DEF Reg!ChainStates, Reg!NoChain
  <2>3. chains = [x \in Auths |-> chains[x]] /\ chains' = [x \in Auths |-> chains'[x]]
    <3>1. RegInv' BY <1>2, WriteKeepsRegistry DEF WroteLive, HookInv
    <3> QED BY <3>1, RegistryFields DEF HookInv, RegInv, Reg!TypeOK
  <2>4. \A x \in Auths : chains'[x] = chains[x] BY <1>7, <1>8, <1>10, <2>1, <2>2
  <2>5. chains' = chains BY <2>3, <2>4
  <2>6. published' = published BY <1>10 DEF VerdictMade
  <2> QED BY <2>5, <2>6 DEF HistoryMoves
<1> QED BY <1>6, <1>9, <1>10

\* Every step moves the history of the work as one of these moves, or not at all.
LEMMA DeedMovesHistory ==
    ASSUME HookInv, NEW k \in Sessions, Deed(k)
    PROVE  HistoryMoves
<1>1. CASE \E a \in Auths : Superseding(a) BY <1>1, RerootMovesHistory
<1>2. CASE ~\E a \in Auths : Superseding(a)
  <2>1. CASE StepWrote(k) /\ UNCHANGED published BY <1>2, <2>1, HookMovesHistory
  <2>2. CASE hook[k].pc = "publish" /\ VerdictMade(k) BY <2>2, VerdictMovesHistory
  <2>3. CASE MadeBeside(k) /\ UNCHANGED published
    <3>1. PICK t, c : MadeBy(k, t, c) /\ Beside(k, t, c) BY <2>3 DEF MadeBeside
    <3>2. CASE c = Reg!NoChain
      BY <2>3, <3>1, <3>2, NoChainWrite DEF HookInv, HistoryMoves
    <3>3. CASE c # Reg!NoChain
      <4>1. sessions[k].mode = "ungated" /\ t.auth \in Absent
        BY <3>1, <3>3 DEF Beside
      <4>2. c.record = 0 /\ ~c.evidence BY <3>1, <3>3 DEF Beside, NewChain
      <4> QED BY <2>3, <3>1, <4>1, <4>2, OpeningMoves DEF HookInv
    <3> QED BY <3>2, <3>3
  <2> QED BY <2>1, <2>2, <2>3 DEF Deed, HistoryMoves
<1> QED BY <1>1, <1>2

-----------------------------------------------------------------------------
(* One history *)

\* A chain is as new as the last record it published, and is frozen by an audit.
RecordsKnown ==
    /\ \A a \in Auths : chains[a].record \in 0..Len(published)
    /\ \A j \in DOMAIN published :
         /\ chains[published[j].auth].record >= j
         /\ published[j].pred < j
         /\ published[j].audit => chains[published[j].auth].status = "complete"

Ongoing(a) == chains[a].status \in {"active", "complete"} /\ chains[a].record # 0

\* A record is current in at most one chain that was not superseded, and nothing
\* follows it yet; that of an active chain is no audit.
RecordsOpen ==
    \A a \in Auths : Ongoing(a) =>
        /\ \A b \in Auths : Ongoing(b) /\ chains[b].record = chains[a].record => b = a
        /\ \A j \in DOMAIN published : published[j].pred # chains[a].record
        /\ chains[a].status = "active" => ~published[chains[a].record].audit

LineageInv == RecordsKnown /\ RecordsOpen /\ LineageNeverForks /\ EvidenceMarksTransition

LEMMA PublishedFields ==
    ASSUME HookInv
    PROVE  /\ Len(published) \in Nat /\ DOMAIN published = 1..Len(published)
           /\ \A j \in DOMAIN published :
                published[j].auth \in Auths /\ published[j].pred \in Nat
<1>1. published \in Seq(Published) BY DEF HookInv
<1>2. Len(published) \in Nat /\ DOMAIN published = 1..Len(published) BY ONLY <1>1
<1>3. ASSUME NEW j \in DOMAIN published
      PROVE  published[j].auth \in Auths /\ published[j].pred \in Nat
  <2>1. published[j] \in Published BY ONLY <1>1, <1>3
  <2>2. MaxRecords \in Nat BY LifecycleAssumption
  <2> QED BY ONLY <2>1, <2>2 DEF Published
<1> QED BY <1>2, <1>3

\* No record was published on a chain that is not there.
LEMMA AbsentHasNoRecord ==
    ASSUME HookInv, RecordsKnown, NEW b \in Auths, chains[b] = Reg!NoChain
    PROVE  \A j \in DOMAIN published : published[j].auth # b
BY PublishedFields DEF RecordsKnown, Reg!NoChain

LEMMA LineageOpened ==
    ASSUME HookInv, LineageInv, NEW b \in Auths, Opened(b)
    PROVE  LineageInv'
<1>1. published' = published /\ chains'[b].record = 0 /\ ~chains'[b].evidence
      /\ \A x \in Auths \ {b} : chains'[x] = chains[x]
  BY DEF Opened
<1>2. \A j \in DOMAIN published : published[j].auth \in Auths \ {b}
  BY PublishedFields, AbsentHasNoRecord DEF Opened, LineageInv
<1>3. RecordsKnown'
  BY <1>1, <1>2, PublishedFields DEF LineageInv, RecordsKnown
<1>4. RecordsOpen' BY <1>1 DEF LineageInv, RecordsOpen, Ongoing
<1>5. LineageNeverForks' BY <1>1 DEF LineageInv, LineageNeverForks
<1>6. EvidenceMarksTransition' BY <1>1 DEF LineageInv, EvidenceMarksTransition
<1> QED BY <1>3, <1>4, <1>5, <1>6 DEF LineageInv

LEMMA LineageRerooted ==
    ASSUME HookInv, LineageInv, NEW a \in Auths, NEW b \in Auths, RerootedTo(a, b)
    PROVE  LineageInv'
<1> PICK n : n = chains[a].record OBVIOUS
<1>1. /\ published' = published /\ a # b /\ n # 0
      /\ chains[a].status = "active" /\ chains'[a].status = "superseded"
      /\ chains'[a].record = n /\ chains'[b].record = n
      /\ chains'[b].status = "active" /\ chains'[b].evidence
      /\ \A x \in Auths \ {a, b} : chains'[x] = chains[x]
  BY DEF RerootedTo
<1>2. \A j \in DOMAIN published : published[j].auth \in Auths \ {b}
  BY PublishedFields, AbsentHasNoRecord DEF RerootedTo, LineageInv
<1>3. n \in DOMAIN published /\ Ongoing(a)
  BY <1>1, PublishedFields DEF LineageInv, RecordsKnown, Ongoing
<1>4. RecordsKnown'
  <2>1. \A x \in Auths : chains'[x].record \in 0..Len(published)
    BY <1>1 DEF LineageInv, RecordsKnown
  <2>2. ASSUME NEW j \in DOMAIN published
        PROVE  /\ chains'[published[j].auth].record >= j
               /\ published[j].pred < j
               /\ published[j].audit => chains'[published[j].auth].status = "complete"
    BY <1>1, <1>2 DEF LineageInv, RecordsKnown
  <2> QED BY <1>1, <2>1, <2>2 DEF RecordsKnown
<1>5. RecordsOpen'
  <2>1. ASSUME NEW x \in Auths, Ongoing(x)' PROVE
          /\ \A y \in Auths : Ongoing(y)' /\ chains'[y].record = chains'[x].record => y = x
          /\ \A j \in DOMAIN published : published[j].pred # chains'[x].record
          /\ chains'[x].status = "active" => ~published[chains'[x].record].audit
    <3>1. x # a BY <1>1, <2>1 DEF Ongoing
    <3>2. CASE x = b BY <1>1, <1>3, <3>2 DEF LineageInv, RecordsOpen, Ongoing
    <3>3. CASE x # b BY <1>1, <1>3, <2>1, <3>1, <3>3 DEF LineageInv, RecordsOpen, Ongoing
    <3> QED BY <3>2, <3>3
  <2> QED BY <1>1, <2>1 DEF RecordsOpen
<1>6. LineageNeverForks' BY <1>1 DEF LineageInv, LineageNeverForks
<1>7. EvidenceMarksTransition'
  BY <1>1, <1>2, <1>3 DEF LineageInv, EvidenceMarksTransition
<1> QED BY <1>4, <1>5, <1>6, <1>7 DEF LineageInv

LEMMA LineageAdded ==
    ASSUME HookInv, LineageInv, NEW a \in Auths, NEW form \in RecordForms,
           RecordAdded(a, form)
    PROVE  LineageInv'
<1> PICK n : n = Len(published) + 1 OBVIOUS
<1> PICK p : p = chains[a].record OBVIOUS
<1>1. /\ chains[a].status = "active"
      /\ chains'[a].record = n /\ ~chains'[a].evidence
      /\ chains'[a].status = (IF form = "audit" THEN "complete" ELSE "active")
      /\ \A x \in Auths \ {a} : chains'[x] = chains[x]
      /\ published' = Append(published, [auth |-> a, pred |-> p, audit |-> form = "audit"])
  BY DEF RecordAdded
<1>2. /\ Len(published) \in Nat /\ DOMAIN published = 1..Len(published)
      /\ published \in Seq(Published)
  BY PublishedFields DEF HookInv
<1>3. /\ DOMAIN published' = 1..n /\ Len(published') = n /\ n \in Nat
      /\ published'[n] = [auth |-> a, pred |-> p, audit |-> form = "audit"]
      /\ \A j \in 1..Len(published) : published'[j] = published[j]
  BY <1>1, <1>2
<1>4. published'[n].auth = a /\ published'[n].pred = p
      /\ (published'[n].audit <=> form = "audit")
  <2>1. PICK r : r = published'[n] OBVIOUS
  <2>2. r = [auth |-> a, pred |-> p, audit |-> form = "audit"] BY <1>3, <2>1
  <2>3. r.auth = a /\ r.pred = p BY ONLY <2>2
  <2>4. r.audit = (form = "audit") BY ONLY <2>2
  <2> QED BY ONLY <2>1, <2>3, <2>4
<1>5. /\ p \in 0..Len(published) /\ \A x \in Auths : chains[x].record \in 0..Len(published)
      /\ p # 0 => Ongoing(a)
  BY <1>1 DEF LineageInv, RecordsKnown, Ongoing
<1>6. \A j \in 1..n : j \in 1..Len(published) \/ j = n BY <1>2
<1>7. \A j \in 1..Len(published) :
        /\ published[j].auth \in Auths /\ chains[published[j].auth].record >= j
        /\ published[j].pred \in Nat /\ published[j].pred < j
        /\ published[j].audit => chains[published[j].auth].status = "complete"
  BY <1>2, PublishedFields DEF LineageInv, RecordsKnown
<1>8. RecordsKnown'
  <2>1. \A x \in Auths : chains'[x].record \in 0..n BY <1>1, <1>2, <1>5
  <2>2. ASSUME NEW j \in 1..Len(published)
        PROVE  /\ chains'[published[j].auth].record >= j
               /\ published[j].audit => chains'[published[j].auth].status = "complete"
    BY <1>1, <1>2, <1>7
  <2>3. form = "audit" => chains'[a].status = "complete" BY <1>1
  <2> QED BY <1>1, <1>2, <1>3, <1>4, <1>5, <1>6, <1>7, <2>1, <2>2, <2>3 DEF RecordsKnown
<1>9. RecordsOpen'
  <2>1. ASSUME NEW x \in Auths, Ongoing(x)' PROVE
          /\ \A y \in Auths : Ongoing(y)' /\ chains'[y].record = chains'[x].record => y = x
          /\ \A j \in 1..n : published'[j].pred # chains'[x].record
          /\ chains'[x].status = "active" => ~published'[chains'[x].record].audit
    <3>1. CASE x = a
      <4>1. \A y \in Auths \ {a} : chains'[y].record # n BY <1>1, <1>2, <1>5
      <4>2. \A j \in 1..n : published'[j].pred # n BY <1>2, <1>3, <1>4, <1>5, <1>6, <1>7
      <4> QED BY <1>1, <1>4, <3>1, <4>1, <4>2
    <3>2. CASE x # a
      <4>1. chains'[x] = chains[x] /\ Ongoing(x) /\ chains[x].record \in 1..Len(published)
        BY <1>1, <1>2, <1>5, <2>1, <3>2 DEF Ongoing
      <4>2. \A y \in Auths : Ongoing(y)' /\ chains'[y].record = chains[x].record => y = x
        BY <1>1, <1>2, <4>1 DEF LineageInv, RecordsOpen, Ongoing
      <4>3. p # chains[x].record
        BY <1>5, <3>2, <4>1 DEF LineageInv, RecordsOpen
      <4>4. \A j \in 1..n : published'[j].pred # chains[x].record
        BY <1>2, <1>3, <1>4, <1>6, <4>1, <4>3 DEF LineageInv, RecordsOpen
      <4> QED BY <1>3, <4>1, <4>2, <4>4 DEF LineageInv, RecordsOpen
    <3> QED BY <3>1, <3>2
  <2> QED BY <1>3, <2>1 DEF RecordsOpen
<1>10. LineageNeverForks'
  <2>1. ASSUME NEW i \in 1..n, NEW j \in 1..n, i < j PROVE
          /\ published'[i].pred = published'[j].pred
               => published'[j].pred = 0 /\ published'[i].auth # published'[j].auth
          /\ published'[j].pred < j
          /\ published'[i].audit => published'[j].auth # published'[i].auth
                                    /\ published'[j].pred # i
    <3>1. i \in 1..Len(published) BY <1>2, <2>1
    <3>2. CASE j \in 1..Len(published)
      BY <1>2, <1>3, <2>1, <3>1, <3>2 DEF LineageInv, LineageNeverForks
    <3>3. CASE j = n
      <4>1. published[i].pred = p => p = 0 /\ published[i].auth # a
        <5>1. p # 0 => published[i].pred # p
          BY <1>2, <1>5, <3>1 DEF LineageInv, RecordsOpen
        <5>2. p = 0 => published[i].auth # a
          <6>1. chains[published[i].auth].record >= i /\ i >= 1 BY <1>7, <3>1
          <6>2. p = chains[a].record OBVIOUS
          <6>3. published[i].auth = a => p >= i BY ONLY <6>1, <6>2
          <6>4. p \in Nat /\ i \in Nat BY <1>2, <1>5, <3>1
          <6> QED BY ONLY <6>1, <6>3, <6>4
        <5> QED BY <5>1, <5>2
      <4>2. published[i].audit => a # published[i].auth /\ p # i
        BY <1>1, <1>5, <1>7, <3>1 DEF LineageInv, RecordsOpen
      <4> QED BY <1>2, <1>3, <1>4, <1>5, <3>1, <3>3, <4>1, <4>2
    <3> QED BY <1>6, <3>2, <3>3
  <2> QED BY <1>3, <2>1 DEF LineageNeverForks
<1>11. EvidenceMarksTransition'
  <2>1. ASSUME NEW x \in Auths, chains'[x].status = "active"
        PROVE  chains'[x].evidence
                 <=> chains'[x].record # 0 /\ published'[chains'[x].record].auth # x
    <3>1. CASE x = a BY <1>1, <1>4, <3>1
    <3>2. CASE x # a
      <4>1. chains'[x] = chains[x] /\ chains[x].record \in 0..Len(published)
        BY <1>1, <1>5, <3>2
      <4>2. chains[x].record # 0
              => published'[chains[x].record] = published[chains[x].record]
        BY <1>2, <1>3, <4>1
      <4> QED BY <2>1, <4>1, <4>2 DEF LineageInv, EvidenceMarksTransition
    <3> QED BY <3>1, <3>2
  <2> QED BY <2>1 DEF EvidenceMarksTransition
<1> QED BY <1>8, <1>9, <1>10, <1>11 DEF LineageInv

LEMMA InitLineage == Init => LineageInv
<1> SUFFICES ASSUME Init PROVE LineageInv OBVIOUS
<1>1. /\ published = <<>> /\ \A a \in Auths : chains[a] = Reg!NoChain
  BY DEF Init, Reg!Init
<1>2. \A a \in Auths : chains[a].record = 0 /\ chains[a].status # "active"
  BY <1>1 DEF Reg!NoChain
<1>3. DOMAIN published = {} /\ Len(published) = 0 BY <1>1
<1> QED BY <1>2, <1>3 DEF LineageInv, RecordsKnown, RecordsOpen, Ongoing,
                          LineageNeverForks, EvidenceMarksTransition

LEMMA LineageAlways == Spec => []LineageInv
<1>1. HookInv /\ LineageInv /\ [Next]_vars => LineageInv'
  <2> SUFFICES ASSUME HookInv, LineageInv, [Next]_vars PROVE LineageInv' OBVIOUS
  <2>1. CASE UNCHANGED <<chains, published>>
    BY <2>1 DEF LineageInv, RecordsKnown, RecordsOpen, Ongoing, LineageNeverForks,
                EvidenceMarksTransition
  <2>2. CASE Next
    <3>1. HistoryMoves BY <2>2, NextDeed, DeedMovesHistory
    <3> QED BY <2>1, <3>1, LineageOpened, LineageRerooted, LineageAdded DEF HistoryMoves
  <2> QED BY <2>1, <2>2 DEF vars
<1> QED BY <1>1, InitLineage, HookInvAlways, PTL DEF Spec

\* However many sessions work on it and whatever becomes of their hooks, the work
\* has one history: no record is followed twice, nothing follows an audit.
THEOREM LineageIsOne == Spec => []LineageNeverForks
<1>1. LineageInv => LineageNeverForks BY DEF LineageInv
<1> QED BY <1>1, LineageAlways, PTL

\* An active chain holds transition evidence from the approval of its root until
\* its first own record, and at no other time.
THEOREM EvidenceIsSpentOnce == Spec => []EvidenceMarksTransition
<1>1. LineageInv => EvidenceMarksTransition BY DEF LineageInv
<1> QED BY <1>1, LineageAlways, PTL

-----------------------------------------------------------------------------
(* Writes that are not refused *)

LEMMA UndisturbedIsLive ==
    ASSUME HookInv, NEW k \in Sessions, hook[k].pc \in PromptSteps \cup StopSteps,
           Undisturbed(k)
    PROVE  IsLive(hook[k].snap, sessions[k], chains)
<1> PICK snap : snap = hook[k].snap OBVIOUS
<1>1. SnapFits(snap, sessions[k], chains) BY SnapOfHook
<1>2. snap.session = sessions[k] BY <1>1 DEF Undisturbed, SnapFits
<1>3. sessions[k].auth # NoAuth => Reg!Current(k) = chains[sessions[k].auth]
  BY DEF Reg!Current, Reg!ChainAt
<1>4. Reg!Current(k).rev = snap.chain.rev BY DEF Undisturbed
<1> QED BY <1>1, <1>2, <1>3, <1>4 DEF SnapFits, IsLive

\* A session that needs no reconciling is level with its chain.
LEMMA ReconciledIsLevel ==
    ASSUME NEW snap, Reg!SessionValid(snap.session),
           snap.chain = Reg!NoChain <=> snap.session.auth = NoAuth,
           ~NeedsReconcile(snap)
    PROVE  Level(snap)
           /\ (snap.chain.status = "complete" => snap.session.mode = "complete")
BY DEF NeedsReconcile, Completed, Level, Reg!SessionValid, Reg!NoChain

LEMMA TurnIsRecorded ==
    ASSUME HookInv, NEW k \in Sessions, PromptObserve(k), ~StorageFails, Undisturbed(k),
           ~hook[k].event.host, ~Approves(hook[k].snap.session, hook[k].event)
    PROVE  sessions'[k].rest.turn = hook[k].event.turn
<1> PICK snap : snap = hook[k].snap OBVIOUS
<1> PICK s : s = snap.session OBVIOUS
<1> PICK e : e = hook[k].event OBVIOUS
<1>1. hook[k].pc = "observe" /\ hook[k].pc \in PromptSteps
  BY DEF PromptObserve, PromptSteps
<1>2. /\ SnapFits(snap, sessions[k], chains) /\ e.turn \in Nat
      /\ s \in Reg!SessionStates /\ Reg!SessionValid(s)
      /\ IsLive(snap, sessions[k], chains)
      /\ ~NeedsReconcile(snap)
  BY <1>1, PromptHook, UndisturbedIsLive DEF PromptFits, EventFits, Events
<1>3. s = sessions[k] /\ (s.auth # NoAuth => snap.chain = chains[s.auth])
  BY <1>2 DEF IsLive
<1>4. Level(snap) /\ (snap.chain.status = "complete" => s.mode = "complete")
  BY <1>2, ReconciledIsLevel DEF SnapFits
<1>5. Known(k)
  <2>1. Snapshot(k).session = s /\ Snapshot(k).chain = Reg!Current(k) BY <1>3 DEF Snapshot
  <2> QED BY <1>4, <2>1 DEF Known, Undisturbed, Level
<1> PICK t : t = Observed(s, e) OBVIOUS
<1>6. /\ Reg!SessionValid(t) /\ t.rev = s.rev + 1 /\ t.auth = s.auth /\ t.crev = s.crev
      /\ t.mode = s.mode /\ t.decision = s.decision /\ t.rest.turn = e.turn
  BY <1>2, ObservedIs
<1>7. Reg!HoldsCurrentChain(chains, t)
  <2>1. Reg!HoldsCurrentChain(chains, s) BY <1>3, RegistryFields DEF HookInv
  <2> QED BY <1>6, <2>1 DEF Reg!HoldsCurrentChain
<1>8. Reg!Rules(k, t, Reg!NoChain) /\ Reg!Valid(k, t, Reg!NoChain)
  <2>1. RegInv BY DEF HookInv
  <2>2. t.rev = sessions[k].rev + 1 /\ t.auth = sessions[k].auth BY <1>3, <1>6
  <2>3. t.auth # NoAuth => /\ t.crev = chains[t.auth].rev
                           /\ chains[t.auth].status = "complete" => t.mode = "complete"
    BY <1>3, <1>4, <1>6 DEF Level
  <2> QED BY <1>6, <1>7, <2>1, <2>2, <2>3, QuietWriteSucceeds
<1>9. Result(k, snap.chain.rev, t, Reg!NoChain) = "ok"
  <2>1. Reg!Fresh(k, t, snap.chain.rev, s.rev) BY <1>2, <1>3, <1>6, LiveIsFresh
  <2> QED BY <1>8, <2>1, OkIsWrite DEF Result
<1>10. CASE s.rest.turn = e.turn /\ UNCHANGED sessions BY <1>3, <1>10
<1>11. CASE \E done, undone : Attempt(k, snap.chain.rev, t, Reg!NoChain, done, undone)
  <2>1. sessions' = Reg!NewSessions(k, t, Reg!NoChain)
    BY <1>9, <1>11 DEF Attempt, Install
  <2>2. sessions'[k] = t BY <2>1 DEF Reg!NewSessions
  <2> QED BY <1>6, <2>2
<1> QED BY <1>5, <1>10, <1>11 DEF PromptObserve, Skip

\* A user's turn is recorded, in whatever state the session was found, when nothing
\* comes between and the storage works (_user_prompt_steps).
THEOREM UserTurnsRecorded == Spec => UserTurnsAreRecorded
<1> DEFINE A == \A k \in Sessions :
                  ~StorageFails /\ hook'[k] # Idle("killed") /\ Undisturbed(k)
                    => UserTurnRecorded(k)
<1>1. HookInv /\ [Next]_vars => [A]_vars
  <2> SUFFICES ASSUME HookInv, Next, NEW k \in Sessions, ~StorageFails,
                      hook'[k] # Idle("killed"), Undisturbed(k), hook'[k] # hook[k],
                      hook[k].pc = "observe", ~hook[k].event.host,
                      ~Approves(hook[k].snap.session, hook[k].event)
               PROVE  sessions'[k].rest.turn = hook[k].event.turn
    BY DEF UserTurnRecorded, HookMoved
  <2>1. PICK j \in Sessions : Acts(j) BY DEF Next, Acts
  <2>2. j = k BY <2>1, OwnHook
  <2>3. PromptObserve(k)
    <3>1. ~Crash(k) BY DEF Crash, Skip, SetHook, HookInv
    <3>2. ~StopStep(k) /\ ~Stop(k) /\ ~UserPrompt(k) /\ ~HostPrompt(k)
      BY DEF StopStep, StopRefresh, StopPublish, StopCatchUp, Stop, UserPrompt, HostPrompt,
             StartPrompt
    <3>3. ~Commands(k) /\ ~Advisory(k)
      BY DEF Commands, RegisterRoot, Join, ProposeTransition, RequestDecision, Inspect,
             Command, Advisory
    <3> QED
      BY <2>1, <2>2, <3>1, <3>2, <3>3
      DEF Acts, PromptStep, PromptReconcile, PromptEcho, PromptReenter, PromptMark,
          PromptClear, PromptAnswer, PromptTrack, PromptJoin, PromptContinue
  <2> QED BY <2>3, TurnIsRecorded
<1> QED BY <1>1, HookInvAlways, PTL DEF Spec, UserTurnsAreRecorded

\* A session that publishes on the chain it holds, or clears its circuit there, is
\* never refused.
LEMMA ChainWriteSucceeds ==
    ASSUME RegInv, NEW k \in Sessions, NEW a, a = sessions[k].auth, a # NoAuth,
           NEW s, s.rev = sessions[k].rev + 1, s.auth = a, s.mode # "ungated",
           s.decision # NoAuth => s.decision = a,
           NEW c, c.status \in {"active", "complete"}, s.crev = c.rev,
           s.mode = "complete" <=> c.status = "complete",
           chains[a].status = "active", c.root = chains[a].root, c.succ = chains[a].succ,
           Reg!EvidenceKept(chains[a], c), c = chains[a] \/ c.rev = chains[a].rev + 1
    PROVE  Reg!Rules(k, s, c) /\ Reg!Valid(k, s, c)
<1>1. /\ a \in Auths /\ Reg!Current(k) = chains[a] /\ chains[a].rev \in Nat
      /\ c # Reg!NoChain /\ chains[a] # Reg!NoChain
  BY RegistryFields DEF Reg!Current, Reg!ChainAt, Reg!NoChain
<1>2. ~Reg!Supersedes(k, s, c) BY DEF Reg!Supersedes
<1> PICK ch : ch = Reg!NewChains(k, s, c) OBVIOUS
<1>3. ch[a] = c /\ \A b \in Auths \ {a} : ch[b] = chains[b]
  BY <1>1, <1>2 DEF Reg!NewChains
<1>4. Reg!Admitted(k, s, c)
  BY <1>1, <1>2, <1>3
     DEF Reg!Admitted, Reg!SessionAdvances, Reg!ChainWriteAllowed, Reg!StaysTracked,
         Reg!TransitionAllowed, Reg!JoinAllowed
<1>5. Reg!Reconciled(k, s, c) /\ Reg!CompletionReleases(k, s, c)
  BY <1>3 DEF Reg!Reconciled, Reg!CompletionReleases
<1> PICK se : se = Reg!NewSessions(k, s, c) OBVIOUS
<1>6. se[k] = s /\ \A j \in Sessions \ {k} : se[j] = sessions[j]
  BY <1>2 DEF Reg!NewSessions
<1>7. ASSUME NEW j \in Sessions PROVE Reg!HoldsCurrentChain(ch, se[j])
  <2>1. CASE j = k
    <3>1. c.rev \in Nat BY <1>1
    <3> QED BY <1>3, <1>6, <2>1, <3>1 DEF Reg!HoldsCurrentChain
  <2>2. CASE j # k
    <3> PICK p : p = sessions[j] OBVIOUS
    <3>1. se[j] = p /\ Reg!HoldsCurrentChain(chains, p) /\ p.auth \in Auths \cup {NoAuth}
          /\ p.crev \in Nat
      BY <1>6, <2>2, RegistryFields, SessionFields
    <3>2. CASE p.auth = a
      BY <1>1, <1>3, <3>1, <3>2 DEF Reg!HoldsCurrentChain
    <3>3. CASE p.auth # a BY <1>3, <3>1, <3>3 DEF Reg!HoldsCurrentChain
    <3> QED BY <3>2, <3>3
  <2> QED BY <2>1, <2>2
<1>8. /\ Reg!SuccessorsKnown(chains) /\ Reg!ActiveRootsUnique(chains)
      /\ Reg!SuccessorsAcyclic(chains)
  BY DEF RegInv, Reg!EnvelopeHeld, Reg!Envelope
<1>9. \A b \in Auths :
        /\ ch[b].succ = chains[b].succ /\ ch[b].root = chains[b].root
        /\ ch[b].status = "superseded" <=> chains[b].status = "superseded"
        /\ ch[b].status = "absent" <=> chains[b].status = "absent"
        /\ ch[b].status = "active" => chains[b].status = "active"
  BY <1>1, <1>3
<1>10. Reg!SuccessorsKnown(ch) BY <1>8, <1>9 DEF Reg!SuccessorsKnown
<1>11. Reg!ActiveRootsUnique(ch) BY <1>8, <1>9 DEF Reg!ActiveRootsUnique
<1>12. Reg!SuccessorsAcyclic(ch) BY <1>8, <1>9 DEF Reg!SuccessorsAcyclic
<1>13. Reg!Valid(k, s, c) BY <1>7, <1>10, <1>11, <1>12 DEF Reg!Valid, Reg!Envelope
<1> QED BY <1>4, <1>5, <1>13 DEF Reg!Rules

\* A verdict published from live state is not refused, except that of an armed
\* circuit on a chain that a peer completed.
LEMMA VerdictSucceeds ==
    ASSUME HookInv, RecordsKnown, NEW k \in Sessions, hook[k].pc = "publish", ~StorageFails,
           hook[k].verdict \in RecordForms => Len(published) < MaxRecords,
           IsLive(hook[k].snap, sessions[k], chains),
           ~(Armed(sessions[k]) /\ Completed(Snapshot(k)))
    PROVE  LET t == SessionWritten(hook[k])   c == ChainWritten(hook[k]) IN
           Reg!Rules(k, t, c) /\ Reg!Valid(k, t, c)
<1> PICK h : h = hook[k] OBVIOUS
<1> PICK snap : snap = h.snap OBVIOUS
<1> PICK s : s = snap.session OBVIOUS
<1> PICK chain : chain = snap.chain OBVIOUS
<1> PICK t : t = SessionWritten(h) OBVIOUS
<1> PICK c : c = ChainWritten(h) OBVIOUS
<1>1. /\ h \in PublishHooks /\ VerdictFits(h) /\ SnapFits(snap, sessions[k], chains)
      /\ h.verdict \notin {"counted", "uncounted"} =>
           s.mode \in {"tracked", "awaiting"} /\ s.auth \in Auths /\ Level(snap)
      /\ h.verdict \in RecordForms => s.mode = "tracked"
  BY VerdictGated
<1>2. /\ s = sessions[k] /\ s \in Reg!SessionStates /\ Reg!SessionValid(s)
      /\ s.auth # NoAuth => chain = chains[s.auth]
      /\ Reg!HoldsCurrentChain(chains, s) /\ s.rest.count \in 0..3 /\ s.crev \in Nat
      /\ chain \in Reg!ChainStates \cup {Reg!NoChain}
      /\ (chain = Reg!NoChain <=> s.auth = NoAuth)
  BY <1>1, RegistryFields, SessionFields DEF IsLive, HookInv, SnapFits, Snapshots
<1>3. Level(snap) /\ s.auth # NoAuth => (chain.status = "complete" => s.mode = "complete")
  <2>1. s.auth # NoAuth /\ chains[s.auth].status = "complete"
          => s.mode = "complete" \/ s.crev < chains[s.auth].rev
    BY <1>2 DEF HookInv, RegInv, Reg!FinishedReleases, Reg!ChainAt
  <2> QED BY <1>2, <2>1 DEF Level
<1> PICK r : r = RestWritten(h) OBVIOUS
<1> PICK v : v = IF h.verdict \in {"counted", "uncounted"} THEN chain.rev ELSE c.rev OBVIOUS
<1> PICK m : m = IF h.verdict = "audit" THEN "complete" ELSE s.mode OBVIOUS
<1>4. t = [rev |-> s.rev + 1, mode |-> m, auth |-> s.auth, crev |-> v,
           decision |-> s.decision, proposal |-> s.proposal, rest |-> r]
  BY <1>2, SessionWrittenIs
<1>5. Reg!SessionValid(t)
  BY VerdictIsGood DEF GoodInput
<1>6. CASE h.verdict \in {"counted", "uncounted"}
  <2>1. c = Reg!NoChain BY <1>6, ChainWrittenIs
  <2>2. m = s.mode /\ v = chain.rev BY <1>6
  <2>3. s.auth # NoAuth /\ chain.status = "complete" => s.mode = "complete"
    <3>1. CASE Level(snap) BY <1>3, <3>1
    <3>2. CASE ~Level(snap)
      <4>1. h.verdict = "counted" /\ s.rest.count >= Circuit
        <5>1. h.verdict = "uncounted" \/ (h.retry /\ h.behind) => Level(snap)
          BY StopHook DEF StopFits, StopSteps
        <5> QED BY <1>1, <1>6, <3>2, <5>1 DEF VerdictFits
      <4>2. Armed(sessions[k]) BY <1>2, <4>1 DEF Armed, Circuit
      <4>3. ~Completed(Snapshot(k)) BY <4>2
      <4>4. s.auth # NoAuth => Snapshot(k).session = s /\ Snapshot(k).chain = chain
        BY <1>2, SnapshotFits DEF HookInv
      <4> QED BY <4>3, <4>4 DEF Completed
    <3> QED BY <3>1, <3>2
  <2>4. s.auth # NoAuth => chains[s.auth].rev \in Nat BY <1>2, RegistryFields DEF HookInv
  <2>5. Reg!HoldsCurrentChain(chains, t)
    BY <1>2, <1>4, <2>2, <2>4 DEF Reg!HoldsCurrentChain
  <2>6. RegInv BY DEF HookInv
  <2>7. t.rev = sessions[k].rev + 1 /\ t.auth = sessions[k].auth BY <1>2, <1>4
  <2>8. t.auth # NoAuth => /\ t.crev = chains[t.auth].rev
                           /\ chains[t.auth].status = "complete" => t.mode = "complete"
    BY <1>2, <1>4, <2>2, <2>3
  <2>9. Reg!Rules(k, t, Reg!NoChain) /\ Reg!Valid(k, t, Reg!NoChain)
    BY <1>5, <2>5, <2>6, <2>7, <2>8, QuietWriteSucceeds
  <2> QED BY <2>1, <2>9
<1>7. CASE h.verdict \notin {"counted", "uncounted"}
  <2> PICK a : a = s.auth OBVIOUS
  <2>1. /\ a \in Auths /\ a # NoAuth /\ s.mode \in {"tracked", "awaiting"} /\ v = c.rev
        /\ chain = chains[a] /\ chain \in Reg!ChainStates
    BY <1>1, <1>2, <1>7, LifecycleAssumption
  <2>2. chain.status = "active" /\ (s.decision # NoAuth => s.decision = a)
    BY <1>1, <1>2, <1>3, <1>7, <2>1 DEF Reg!HoldsCurrentChain
  <2>3. /\ c.status = (IF h.verdict = "audit" THEN "complete" ELSE "active")
        /\ c.root = chain.root /\ c.succ = chain.succ /\ Reg!EvidenceKept(chain, c)
        /\ c = chain \/ c.rev = chain.rev + 1
    <3>1. CASE h.verdict \in RecordForms
      <4>1. Len(published) \in Nat /\ Len(published) < MaxRecords
            /\ chain.record \in 0..Len(published)
        BY <2>1, <3>1, PublishedFields DEF RecordsKnown
      <4>2. c = NextChain(chain, h.verdict) BY <3>1, ChainWrittenIs
      <4>3. /\ c.status = (IF h.verdict = "audit" THEN "complete" ELSE "active")
            /\ c.rev = chain.rev + 1 /\ c.record = Len(published) + 1
            /\ c.root = chain.root /\ c.succ = chain.succ /\ ~c.evidence
            /\ c \in Reg!ChainStates
        BY ONLY <2>1, <4>1, <4>2, NextChainIs
      <4>4. chain.evidence \in BOOLEAN /\ c.evidence \in BOOLEAN BY <2>1, <4>3, ChainFields
      <4>5. c.record # chain.record BY <4>1, <4>3
      <4> QED BY <4>3, <4>4, <4>5 DEF Reg!EvidenceKept
    <3>2. CASE h.verdict \notin RecordForms
      <4>1. c = chain BY <1>7, <3>2, ChainWrittenIs
      <4> QED BY <2>2, <3>2, <4>1 DEF Reg!EvidenceKept, RecordForms
    <3> QED BY <3>1, <3>2
  <2>4. /\ t.rev = sessions[k].rev + 1 /\ t.auth = a /\ t.mode # "ungated"
        /\ t.decision # NoAuth => t.decision = a
        /\ t.crev = c.rev /\ (t.mode = "complete" <=> c.status = "complete")
    BY <1>2, <1>4, <2>1, <2>2, <2>3
  <2>5. RegInv /\ a = sessions[k].auth BY <1>2 DEF HookInv
  <2>6. c.status \in {"active", "complete"} BY <2>3
  <2> QED BY <2>1, <2>2, <2>3, <2>4, <2>5, <2>6, ChainWriteSucceeds
<1> QED BY <1>6, <1>7

\* The registry refuses what a Stop writes only from an armed circuit on a chain that
\* a peer completed, unless the storage fails (stop_action, _reserve_correction).
THEOREM StopsJudged == Spec => StopsAreJudged
<1> DEFINE A == \A k \in Sessions :
                  HookMoved(k) /\ hook'[k] = Idle("advisory") /\ ~StorageFails =>
                      Armed(sessions[k]) /\ Completed(Snapshot(k))
<1>1. HookInv /\ LineageInv /\ [Next]_vars => [A]_vars
  <2> SUFFICES ASSUME HookInv, RecordsKnown, Next, NEW k \in Sessions, ~StorageFails,
                      hook'[k] = Idle("advisory"), hook'[k] # hook[k], hook[k].pc # "idle",
                      ~(Armed(sessions[k]) /\ Completed(Snapshot(k)))
               PROVE  FALSE
    BY DEF HookMoved, LineageInv
  <2> PICK h : h = hook[k] OBVIOUS
  <2>1. PICK j \in Sessions : Acts(j) BY DEF Next, Acts
  <2>2. j = k BY <2>1, OwnHook
  <2>3. \A g : SetHook(k, g) => g = Idle("advisory") BY DEF SetHook, HookInv
  <2>4. CASE StopPublish(k)
    <3> PICK t : t = SessionWritten(h) OBVIOUS
    <3> PICK c : c = ChainWritten(h) OBVIOUS
    <3> PICK result : result = Result(k, h.snap.chain.rev, t, c) OBVIOUS
    <3>1. /\ h.pc = "publish" /\ (h.verdict \in RecordForms => Len(published) < MaxRecords)
          /\ \/ result = "ok" /\ SetHook(k, Idle(Said(h)))
             \/ result = "stale" /\ SetHook(k, Restarted(k, h))
             \/ result = "refused"
      BY <2>4 DEF StopPublish
    <3>2. Said(h) # "advisory" BY DEF Said
    <3>3. Idle(Said(h)) # Idle("advisory") BY <3>2 DEF Idle
    <3>4. Restarted(k, h) # Idle("advisory")
      <4>1. h \in PublishHooks BY <3>1, VerdictGated
      <4> QED BY <3>1, <4>1 DEF Restarted, Idle, PublishHooks
    <3>5. result = "refused" BY <2>3, <3>1, <3>3, <3>4
    <3>6. Reg!Fresh(k, t, h.snap.chain.rev, h.snap.session.rev)
          /\ ~(Reg!Rules(k, t, c) /\ Reg!Valid(k, t, c))
      BY <3>5, RefusedOutcome DEF Result
    <3>7. IsLive(h.snap, sessions[k], chains)
      BY <3>1, <3>6, VerdictGated, FreshIsLive DEF HookInv
    <3> QED BY <3>1, <3>6, <3>7, VerdictSucceeds
  <2>5. CASE StopRefresh(k) \/ StopCatchUp(k)
    <3>1. \A snap : Judged(h, snap) # Idle("advisory") BY DEF Judged, Idle
    <3>2. h.pc = "catchup" => h \in PublishHooks
      BY StopHook DEF StopFits, StopSteps, RefreshHooks
    <3>3. h.pc = "catchup" => \A snap : [h EXCEPT !.pc = "publish", !.snap = snap].pc = "publish"
      BY <3>2 DEF PublishHooks
    <3>4. Idle("advisory").pc = "idle" /\ Idle("allow") # Idle("advisory") BY DEF Idle
    <3> QED
      BY <2>3, <2>5, <3>1, <3>3, <3>4 DEF StopRefresh, StopCatchUp, Reconcile, Attempt
  <2>6. CASE PromptStep(k)
    <3>1. \E g : SetHook(k, g) /\ (g = Idle("none") \/ \E pc, snap : g = Goto(h, pc, snap))
      BY <2>6 DEF PromptStep, PromptReconcile, Reconcile, PromptEcho, PromptReenter,
                  PromptObserve, PromptMark, PromptClear, PromptAnswer, PromptTrack,
                  PromptJoin, PromptContinue, PromptHold, Attempt, Skip
    <3>2. h.pc \in PromptSteps
      BY <2>6 DEF PromptStep, PromptReconcile, PromptEcho, PromptReenter, PromptObserve,
                  PromptMark, PromptClear, PromptAnswer, PromptTrack, PromptJoin,
                  PromptContinue, PromptSteps
    <3>3. h = [pc |-> h.pc, event |-> h.event, snap |-> h.snap] BY <3>2, PromptHook
    <3>4. \A pc, snap : Goto(h, pc, snap) # Idle("advisory")
      BY <3>3 DEF Goto, Idle
    <3>5. Idle("none") # Idle("advisory") BY DEF Idle
    <3> QED BY <2>3, <3>1, <3>4, <3>5
  <2>7. ~Crash(k)
    <3>1. Idle("killed") # Idle("advisory") BY DEF Idle
    <3> QED BY <2>3, <3>1 DEF Crash, Skip
  <2>8. ~Stop(k) /\ ~UserPrompt(k) /\ ~HostPrompt(k)
    BY DEF Stop, UserPrompt, HostPrompt, StartPrompt
  <2>9. ~Commands(k) /\ ~Advisory(k)
    BY DEF Commands, RegisterRoot, Join, ProposeTransition, RequestDecision, Inspect,
           Command, Advisory
  <2> QED BY <2>1, <2>2, <2>4, <2>5, <2>6, <2>7, <2>8, <2>9 DEF Acts, StopStep
<1> QED BY <1>1, HookInvAlways, LineageAlways, PTL DEF Spec, StopsAreJudged
=============================================================================
