----------------------------- MODULE Lifecycle -----------------------------
(***************************************************************************)
(* The sessions of one repository and the hooks that serve them: the       *)
(* prompt hook, which records a turn and never decides against it, the     *)
(* stop hook, which judges the end of a turn, and the control commands the *)
(* agent runs in between.  Every write is a compare-and-swap of Registry.  *)
(*                                                                         *)
(* A hook is a process: it reads one snapshot and then makes one write per *)
(* step from what it read, while the hooks of other sessions, and advisory *)
(* hooks of its own, write in between.  A step that only computes is part  *)
(* of the write before it.  A control command is one step: it reads and    *)
(* writes at once or is refused as stale, which changes nothing.           *)
(***************************************************************************)
EXTENDS Naturals, Sequences, FiniteSets

CONSTANTS
    Sessions, Auths, Roots,
    Turns,          \* bound: user turns the host delivers, per session
    MaxRecords,     \* bound: records that are ever published
    Prompts,        \* what each session is told, by its user or the host
    Agents,         \* what its agent does: commands it runs, endings of a turn
    StorageFails,   \* whether a write may fail for a reason of the storage
    Crashes,        \* whether the host may kill a hook
    Advises,        \* whether advisory hooks write beside the others
    NoAuth, NoRoot, NoTag, NoProposal

Words == {"track", "continue", "yes", "no", "plain", "echo", "task"}
CommandNames == {"register-root", "join", "propose-transition", "request-decision", "inspect"}
RecordForms == {"continuation", "audit"}
Forms == {"wait", "reply", "decision", "pointer", "other"} \cup RecordForms

ASSUME LifecycleAssumption ==
    /\ Turns \in [Sessions -> Nat] /\ MaxRecords \in Nat
    /\ Prompts \in [Sessions -> SUBSET Words]
    /\ Agents \in [Sessions -> SUBSET (Forms \cup CommandNames)]
    /\ StorageFails \in BOOLEAN /\ Crashes \in BOOLEAN /\ Advises \in BOOLEAN
    /\ NoAuth \notin Auths /\ NoRoot \notin Roots

VARIABLES
    chains, sessions,   \* the registry file
    hook,               \* per session: the running prompt or stop hook
    turns,              \* per session: the user turns the host delivered
    published           \* the records that chains accepted, in order

vars == <<chains, sessions, hook, turns, published>>

-----------------------------------------------------------------------------
(* What the registry keeps of a session and of a chain for the hooks. *)

Circuit == 3   \* a count of three stands for three and more

\* turn: the user turn last recorded, 0 for none; echo: whether the text of the
\* last block is awaited back from the host.
Rest == [turn : Nat, origin : {"none", "user", "host"},
         count : 0..Circuit, echo : BOOLEAN]
Rest0 == [turn |-> 0, origin |-> "none", count |-> 0, echo |-> FALSE]

\* A finished task is left on a new turn, with nothing of the old one.
Reentries == {p \in Rest \X Rest : /\ p[2].turn \notin {0, p[1].turn}
                                   /\ p[2].count = 0
                                   /\ ~p[2].echo}

\* The user turn that authorized a chain, and whether its title is known.
Tags == [grant : Sessions \X Nat, title : BOOLEAN]

\* The proposed root and the user turn it was proposed in.
Proposals == [root : Roots, turn : Nat]

Reg == INSTANCE Registry WITH Records <- 1..MaxRecords, NoRecord <- 0,
                              Revisions <- Nat, ChainRevisions <- Nat

NewChain(root, k, turn) ==
    [status |-> "active", root |-> root, rev |-> 1, record |-> 0, succ |-> NoAuth,
     evidence |-> FALSE, tag |-> [grant |-> <<k, turn>>, title |-> TRUE]]

Absent == {a \in Auths : chains[a] = Reg!NoChain}
Owners(root) == {a \in Auths : chains[a].status = "active" /\ chains[a].root = root}

-----------------------------------------------------------------------------
(* A hook's snapshot, and a write made from it. *)

Snapshot(k) == [session |-> sessions[k], chain |-> Reg!Current(k)]

\* What the storage returns for a write of session s and chain c.
Written(k, s, c) ==
    [session |-> s,
     chain |-> IF s.auth = NoAuth THEN Reg!NoChain ELSE Reg!NewChains(k, s, c)[s.auth]]

Bump(s) == [s EXCEPT !.rev = @ + 1]

Idle(said) == [pc |-> "idle", said |-> said]

SetHook(k, h) == hook' = [hook EXCEPT ![k] = h]

Result(k, chainRev, s, c) ==
    Reg!Outcome(k, s, c, chainRev, hook[k].snap.session.rev)

Install(k, s, c) ==
    chains' = Reg!NewChains(k, s, c) /\ sessions' = Reg!NewSessions(k, s, c)

\* One best-effort step: the write is made and the hook goes on as done, or it
\* is not and the hook goes on as undone. A storage that fails after it replaced
\* the file has made the write and reports that it has not.
Attempt(k, chainRev, s, c, done, undone) ==
    LET result == Result(k, chainRev, s, c) IN
    /\ UNCHANGED <<turns, published>>
    /\ \/ /\ result = "ok"
          /\ Install(k, s, c)
          /\ SetHook(k, done) \/ (StorageFails /\ SetHook(k, undone))
       \/ /\ StorageFails \/ result # "ok"
          /\ UNCHANGED <<chains, sessions>>
          /\ SetHook(k, undone)

\* A step that writes nothing.
Skip(k, h) == SetHook(k, h) /\ UNCHANGED <<chains, sessions, turns, published>>

-----------------------------------------------------------------------------
(* Reconciling a session with a chain that peers moved. *)

Completed(snap) == snap.chain.status = "complete" /\ snap.session.mode # "complete"

\* mutant of NeedsReconcile: only a finished chain reconciles the prompt hook
NeedsRelease(snap) == snap.session.mode # "ungated" /\ Completed(snap)

NeedsReconcile(snap) ==
    /\ snap.session.mode # "ungated"
    /\ Completed(snap) \/ snap.session.crev # snap.chain.rev

PeerAdvanced(snap) ==
    /\ snap.session.mode \notin {"ungated", "complete"}
    /\ snap.session.crev # snap.chain.rev

\* mutant of Reconciled: the session of a finished chain stays gated
ReconciledGated(snap) == [Bump(snap.session) EXCEPT !.crev = snap.chain.rev]

Reconciled(snap) ==
    [Bump(snap.session) EXCEPT
        !.crev = snap.chain.rev,
        !.mode = IF Completed(snap) THEN "complete" ELSE @]

Reconcile(k, done, undone) ==
    LET snap == hook[k].snap IN
    Attempt(k, snap.chain.rev, Reconciled(snap), Reg!NoChain, done, undone)

-----------------------------------------------------------------------------
(* The prompt hook. A prompt is [say, arg, turn, host]: what it says, the    *)
(* root or record it names, its turn reference, and whether the host began  *)
(* the turn. "echo" is the text of the last block handed back by the host,  *)
(* "stray" the same for a block the registry has no trace of.               *)

PromptSteps == {"reconcile", "echo", "reenter", "observe", "mark", "clear",
                "answer", "track", "join", "continue"}

Origin(e) == IF e.host THEN "host" ELSE "user"

Goto(h, pc, snap) ==
    IF pc = "idle" THEN Idle("none") ELSE [h EXCEPT !.pc = pc, !.snap = snap]

\* Which step comes next, by what the hook has read.
AfterEcho(snap, e) ==
    IF snap.session.mode # "complete" THEN "observe"
    ELSE IF ~e.host THEN "reenter"
    ELSE IF snap.session.rest.origin # "host" THEN "mark" ELSE "idle"

EchoMatches(snap, e) ==
    e.say = "echo" /\ snap.session.rest.echo /\ snap.session.rest.count > 0

AfterReconcile(snap, e) ==
    IF EchoMatches(snap, e) THEN "echo" ELSE AfterEcho(snap, e)

AfterAnswer(snap, e) ==
    IF snap.session.mode = "ungated" /\ e.say \in {"track", "continue"}
    THEN e.say ELSE "idle"

AfterClear(snap, e) ==
    IF snap.session.decision # NoAuth /\ e.say \in {"yes", "no"}
    THEN "answer" ELSE AfterAnswer(snap, e)

AfterObserve(snap, e) ==
    IF e.host THEN "idle"
    ELSE IF snap.session.rest.echo THEN "clear" ELSE AfterClear(snap, e)

\* A turn that could not be recorded enrolls nothing.
Unobserved(snap, e) ==
    IF snap.session.rest.origin # Origin(e) THEN "mark" ELSE "idle"

StartPrompt(k, e) ==
    LET snap == Snapshot(k)
        first == IF NeedsReconcile(snap) THEN "reconcile" ELSE AfterReconcile(snap, e)
    IN /\ hook[k].pc = "idle"
       /\ SetHook(k, Goto([pc |-> "idle", event |-> e, snap |-> snap], first, snap))
       /\ UNCHANGED <<chains, sessions, published>>

\* The host delivers what the user says, or hands back the last block.
UserPrompt(k) ==
    /\ turns[k] < Turns[k]
    /\ turns' = [turns EXCEPT ![k] = @ + 1]
    /\ \E say \in Prompts[k] :
         \/ /\ say \in {"yes", "no", "plain"}
            /\ StartPrompt(k, [say |-> say, arg |-> 0, turn |-> turns'[k], host |-> FALSE])
         \/ /\ say = "echo" /\ hook[k].pc = "idle" /\ hook[k].said \in {"block", "unrecorded"}
            /\ StartPrompt(k, [say |-> IF hook[k].said = "block" THEN "echo" ELSE "stray",
                               arg |-> 0, turn |-> turns'[k], host |-> FALSE])
         \/ /\ say = "track"
            /\ \E r \in Roots :
                 StartPrompt(k, [say |-> say, arg |-> r, turn |-> turns'[k], host |-> FALSE])
         \/ /\ say = "continue"
            /\ \E d \in DOMAIN published :
                 StartPrompt(k, [say |-> say, arg |-> d, turn |-> turns'[k], host |-> FALSE])

\* A task notification or a peer's message.
HostPrompt(k) ==
    /\ "task" \in Prompts[k] /\ turns[k] > 0
    /\ StartPrompt(k, [say |-> "task", arg |-> 0, turn |-> 0, host |-> TRUE])
    /\ UNCHANGED turns

PromptReconcile(k) ==
    LET h == hook[k]   e == h.event
        after(snap) == Goto(h, AfterReconcile(snap, e), snap)
    IN /\ h.pc = "reconcile"
       /\ Reconcile(k, after(Written(k, Reconciled(h.snap), Reg!NoChain)), after(h.snap))

\* The host handed the block back: spent, and not a turn.
PromptEcho(k) ==
    LET h == hook[k]   s == h.snap.session IN
    /\ h.pc = "echo"
    /\ Attempt(k, h.snap.chain.rev, [Bump(s) EXCEPT !.rest.echo = FALSE], Reg!NoChain,
               Idle("none"), Goto(h, AfterEcho(h.snap, h.event), h.snap))

\* A user turn after a completed task: a session as if new, but for its revision.
Reentered(s, e) ==
    [Reg!NewSession EXCEPT !.rev = s.rev + 1, !.rest.turn = e.turn]

PromptReenter(k) ==
    LET h == hook[k]   s == Reentered(h.snap.session, h.event) IN
    /\ h.pc = "reenter"
    /\ Attempt(k, h.snap.chain.rev, s, Reg!NoChain,
               Goto(h, "observe", Written(k, s, Reg!NoChain)), Idle("none"))

\* The revisions the hook read are live, and the session is level with its chain.
Known(k) ==
    LET snap == hook[k].snap   live == Snapshot(k) IN
    /\ live.session.rev = snap.session.rev
    /\ live.chain.rev = snap.chain.rev
    /\ live.session.crev = live.chain.rev

\* mutant of Adjacent: a proposal stays approvable in every later turn
AdjacentEver(s) == s.proposal # NoProposal /\ s.proposal.turn # 0

\* The proposal was made in the turn that is still the last one recorded.
Adjacent(s) ==
    s.proposal # NoProposal /\ s.proposal.turn = s.rest.turn /\ s.proposal.turn # 0

Approves(s, e) == Adjacent(s) /\ e.say = "yes"

\* mutant of Observed: any user turn takes the question back
ObservedReleases(s, e) ==
    [Bump(s) EXCEPT
        !.rest = [turn |-> e.turn, origin |-> "user", count |-> 0, echo |-> @.echo],
        !.mode = IF @ = "awaiting" THEN "tracked" ELSE @,
        !.decision = IF s.mode = "awaiting" THEN NoAuth ELSE @]

Observed(s, e) ==
    [Bump(s) EXCEPT
        !.rest = [turn |-> e.turn, origin |-> "user", count |-> 0, echo |-> @.echo],
        !.proposal = IF Adjacent(s) /\ e.say = "no" THEN NoProposal ELSE @]

\* mutant of HostObserved: a turn of the host ends the adjacency of a proposal
HostRevokes(s) == [Bump(s) EXCEPT !.rest.origin = "host", !.proposal = NoProposal]

\* A turn of the host leaves its mark and nothing else.
HostObserved(s) == [Bump(s) EXCEPT !.rest.origin = "host"]

\* mutant of SuccessorChain: the grant is the turn of the proposal
SuccessorOfProposal(k, snap, e) ==
    [NewChain(snap.session.proposal.root, k, snap.session.proposal.turn) EXCEPT
        !.record = snap.chain.record, !.evidence = TRUE, !.tag.title = FALSE]

\* The approved chain starts at the record of the old one; the first record
\* published on it closes the evidence.
SuccessorChain(k, snap, e) ==
    [NewChain(snap.session.proposal.root, k, e.turn) EXCEPT
        !.record = snap.chain.record, !.evidence = TRUE, !.tag.title = FALSE]

Rerooted(s, a, e) ==
    [Observed(s, e) EXCEPT
        !.mode = "tracked", !.auth = a, !.crev = 1, !.proposal = NoProposal]

PromptObserve(k) ==
    LET h == hook[k]   e == h.event   s == h.snap.session   chain == h.snap.chain
        after(snap) == Goto(h, AfterObserve(snap, e), snap)
        lost == Goto(h, Unobserved(h.snap, e), h.snap)
        record(t, c) == Attempt(k, chain.rev, t, c, after(Written(k, t, c)), lost)
    IN
    /\ h.pc = "observe"
    /\ \/ ~Known(k) /\ Skip(k, lost)
       \/ /\ Known(k)
          /\ IF e.host THEN s.rest.origin = "host" ELSE s.rest.turn = e.turn
          /\ Skip(k, after(h.snap))
       \/ /\ Known(k) /\ e.host /\ s.rest.origin # "host"
          /\ record(HostObserved(s), Reg!NoChain)
       \/ /\ Known(k) /\ ~e.host /\ s.rest.turn # e.turn /\ ~Approves(s, e)
          /\ record(Observed(s, e), Reg!NoChain)
       \/ /\ Known(k) /\ ~e.host /\ s.rest.turn # e.turn /\ Approves(s, e)
          /\ IF chain.record = 0 \/ chain.evidence
             THEN Skip(k, lost)
             ELSE \E a \in Absent : record(Rerooted(s, a, e), SuccessorChain(k, h.snap, e))

PromptMark(k) ==
    LET h == hook[k] IN
    /\ h.pc = "mark"
    /\ Attempt(k, h.snap.chain.rev,
               [Bump(h.snap.session) EXCEPT !.rest.origin = Origin(h.event)], Reg!NoChain,
               Idle("none"), Idle("none"))

PromptClear(k) ==
    LET h == hook[k]
        s == [Bump(h.snap.session) EXCEPT !.rest.echo = FALSE]
        after(snap) == Goto(h, AfterClear(snap, h.event), snap)
    IN /\ h.pc = "clear"
       /\ Attempt(k, h.snap.chain.rev, s, Reg!NoChain,
                  after(Written(k, s, Reg!NoChain)), after(h.snap))

Answered(s, e) ==
    [Bump(s) EXCEPT
        !.mode = IF @ = "awaiting" THEN "tracked" ELSE @,
        !.decision = IF s.mode = "awaiting" THEN NoAuth ELSE @,
        !.rest.count = 0, !.rest.turn = e.turn]

PromptAnswer(k) ==
    LET h == hook[k]
        s == Answered(h.snap.session, h.event)
        after(snap) == Goto(h, AfterAnswer(snap, h.event), snap)
    IN /\ h.pc = "answer"
       /\ Attempt(k, h.snap.chain.rev, s, Reg!NoChain,
                  after(Written(k, s, Reg!NoChain)), after(h.snap))

\* A session with a recorded turn that holds no chain may take one.
Enrolls(s) == s.mode = "ungated" /\ s.rest.turn # 0

Holding(s, a, rev) == [Bump(s) EXCEPT !.mode = "tracked", !.auth = a, !.crev = rev]

PromptTrack(k) ==
    LET h == hook[k]   e == h.event   s == h.snap.session IN
    /\ h.pc = "track"
    /\ \/ ~(Known(k) /\ Enrolls(s)) /\ Skip(k, Idle("none"))
       \/ Known(k) /\ Enrolls(s) /\ Owners(e.arg) # {} /\ Skip(k, Goto(h, "join", h.snap))
       \/ /\ Known(k) /\ Enrolls(s) /\ Owners(e.arg) = {}
          /\ \E a \in Absent :
               Attempt(k, 0, Holding(s, a, 1), NewChain(e.arg, k, s.rest.turn),
                       Idle("none"), Goto(h, "join", h.snap))

\* Take hold of chain a, which the hook has just read.
PromptHold(k, a) ==
    Attempt(k, chains[a].rev, Holding(hook[k].snap.session, a, chains[a].rev), Reg!NoChain,
            Idle("none"), Idle("none"))

\* The declared root has an owner: the session joins it.
PromptJoin(k) ==
    LET h == hook[k] IN
    /\ h.pc = "join"
    /\ \/ Owners(h.event.arg) = {} /\ Skip(k, Idle("none"))
       \/ \E a \in Owners(h.event.arg) : PromptHold(k, a)

\* The record the prompt points at must be the current one of its own chain.
Resumable(d) ==
    LET chain == chains[published[d].auth] IN
    ~published[d].audit /\ chain.status = "active" /\ chain.record = d

PromptContinue(k) ==
    LET h == hook[k]   d == h.event.arg IN
    /\ h.pc = "continue"
    /\ \/ ~Resumable(d) /\ Skip(k, Idle("none"))
       \/ Resumable(d) /\ PromptHold(k, published[d].auth)

PromptStep(k) ==
    \/ PromptReconcile(k) \/ PromptEcho(k) \/ PromptReenter(k) \/ PromptObserve(k)
    \/ PromptMark(k) \/ PromptClear(k) \/ PromptAnswer(k)
    \/ PromptTrack(k) \/ PromptJoin(k) \/ PromptContinue(k)

-----------------------------------------------------------------------------
(* The stop hook. A turn ends on a message: a wait or reply line, the       *)
(* rendered decision, a record that continues or completes chain auth after *)
(* record pred, a link to a record that does not qualify ("pointer"), or    *)
(* anything else.                                                          *)

StopSteps == {"refresh", "publish", "catchup"}

Released(s) == s.mode \in {"ungated", "complete"}

\* mutant of Accepted: the predecessor of a record is not compared
AcceptedAfterAny(snap, m) ==
    LET s == snap.session IN
    /\ s.crev = snap.chain.rev
    /\ \/ s.mode = "awaiting" /\ m.form = "decision"
       \/ /\ s.mode = "tracked"
          /\ \/ m.form = "wait"
             \/ m.form = "reply" /\ s.rest.origin # "host"
             \/ m.form \in RecordForms /\ m.auth = s.auth

Accepted(snap, m) ==
    LET s == snap.session IN
    /\ s.crev = snap.chain.rev
    /\ \/ s.mode = "awaiting" /\ m.form = "decision"
       \/ /\ s.mode = "tracked"
          /\ \/ m.form = "wait"
             \/ m.form = "reply" /\ s.rest.origin # "host"
             \/ m.form \in RecordForms /\ m.auth = s.auth /\ m.pred = snap.chain.record

\* mutant of CountAfter: the count has no cap
CountUncapped(s) == s.rest.count + 1

CountAfter(s) == IF s.rest.count < Circuit THEN s.rest.count + 1 ELSE Circuit

\* Refusing this message arms the circuit. A link is looked into only for a
\* tracked session, before anything else, and refused without a count.
Arms(snap, m) ==
    /\ CountAfter(snap.session) = Circuit
    /\ ~(m.form = "pointer" /\ snap.session.mode = "tracked")

\* mutants of Verdict: the circuit is asked after the message, a peer's
\* publication is counted
VerdictBeforeCircuit(snap, m, behind) ==
    IF Accepted(snap, m) THEN m.form
    ELSE IF behind /\ ~Arms(snap, m) THEN "uncounted" ELSE "counted"
VerdictOfPeers(snap, m, behind) ==
    IF snap.session.rest.count < Circuit /\ Accepted(snap, m) THEN m.form ELSE "counted"

\* The verdict to publish: the form that was accepted, or a block. What an
\* overtaken session has refused is not counted, unless it arms the circuit:
\* the answer is then a failure of policy, which nothing replaces.
Verdict(snap, m, behind) ==
    IF snap.session.rest.count >= Circuit THEN "counted"
    ELSE IF Accepted(snap, m) THEN m.form
    ELSE IF behind /\ ~Arms(snap, m) THEN "uncounted" ELSE "counted"

Judged(h, snap) ==
    IF Released(snap.session) /\ snap.session.rest.count < Circuit THEN Idle("allow")
    ELSE LET verdict == Verdict(snap, h.event, h.behind) IN
         [pc |-> "publish", snap |-> snap, behind |-> h.behind, retry |-> TRUE,
          verdict |-> verdict, pred |-> IF verdict \in RecordForms THEN h.event.pred ELSE 0]

Messages(k) ==
    [form : Agents[k] \cap (Forms \ RecordForms), auth : {NoAuth}, pred : {0}]
    \cup (IF Len(published) < MaxRecords
          THEN [form : Agents[k] \cap RecordForms, auth : Auths \ Absent, pred : 0..Len(published)]
          ELSE {})

Stop(k) ==
    /\ hook[k].pc = "idle" /\ turns[k] > 0
    /\ \E m \in Messages(k) :
         LET snap == Snapshot(k)
             behind == PeerAdvanced(snap) /\ snap.session.rest.count < Circuit
             h == [pc |-> "refresh", snap |-> snap, behind |-> behind, event |-> m]
         IN Skip(k, IF behind THEN h ELSE Judged(h, snap))

StopRefresh(k) ==
    LET h == hook[k] IN
    /\ h.pc = "refresh"
    /\ Reconcile(k, Judged(h, Written(k, Reconciled(h.snap), Reg!NoChain)),
                    Judged(h, h.snap))

\* mutant of NextChain: a record leaves the transition evidence open
NextChainOpen(chain, form) ==
    [chain EXCEPT !.rev = @ + 1, !.record = Len(published) + 1,
                  !.evidence = @ /\ form # "audit",
                  !.status = IF form = "audit" THEN "complete" ELSE "active",
                  !.tag.title = @ /\ chain.record = 0]

\* The chain after an accepted record: only a first record keeps the title.
NextChain(chain, form) ==
    [chain EXCEPT !.rev = @ + 1, !.record = Len(published) + 1, !.evidence = FALSE,
                  !.status = IF form = "audit" THEN "complete" ELSE "active",
                  !.tag.title = @ /\ chain.record = 0]

ChainWritten(h) ==
    CASE h.verdict \in {"counted", "uncounted"} -> Reg!NoChain
      [] h.verdict \in RecordForms -> NextChain(h.snap.chain, h.verdict)
      [] OTHER -> h.snap.chain

SessionWritten(h) ==
    LET s == h.snap.session IN
    CASE h.verdict = "uncounted" ->
           [Bump(s) EXCEPT !.crev = h.snap.chain.rev, !.rest.echo = TRUE]
      [] h.verdict = "counted" ->
           [Bump(s) EXCEPT !.crev = h.snap.chain.rev, !.rest.count = CountAfter(s),
                           !.rest.echo = CountAfter(s) < Circuit]
      [] OTHER ->
           [Bump(s) EXCEPT !.crev = ChainWritten(h).rev,
                           !.mode = IF h.verdict = "audit" THEN "complete" ELSE @,
                           !.rest.count = 0, !.rest.echo = FALSE]

Said(h) ==
    CASE h.verdict = "uncounted" -> "block"
      [] h.verdict = "counted" ->
           IF CountAfter(h.snap.session) < Circuit THEN "block" ELSE "policy"
      [] OTHER -> "allow"

\* A stale write is tried once more, from the live state: not this session's
\* mistake if a peer's publication is what it missed, else one of its own.
Restarted(k, h) ==
    LET snap == Snapshot(k)
        again == [h EXCEPT !.snap = snap, !.retry = FALSE]
    IN IF ~h.retry THEN Idle("unrecorded")
       ELSE IF PeerAdvanced(snap) THEN [again EXCEPT !.pc = "catchup", !.verdict = "uncounted"]
       ELSE IF snap.session.auth # NoAuth THEN [again EXCEPT !.verdict = "counted"]
       ELSE Idle("unrecorded")

StopPublish(k) ==
    LET h == hook[k]   s == SessionWritten(h)   c == ChainWritten(h)
        result == Result(k, h.snap.chain.rev, s, c)
    IN
    /\ h.pc = "publish"
    /\ h.verdict \in RecordForms => Len(published) < MaxRecords
    /\ UNCHANGED turns
    /\ \/ /\ result = "ok"
          /\ Install(k, s, c)
          /\ published' = IF h.verdict \in RecordForms
                          THEN Append(published, [auth |-> s.auth, pred |-> h.pred,
                                                  audit |-> h.verdict = "audit"])
                          ELSE published
          /\ SetHook(k, Idle(Said(h))) \/ (StorageFails /\ SetHook(k, Idle("advisory")))
       \/ /\ result = "stale"
          /\ SetHook(k, Restarted(k, h))
          /\ UNCHANGED <<chains, sessions, published>>
       \/ /\ result = "refused" \/ StorageFails
          /\ SetHook(k, Idle("advisory"))
          /\ UNCHANGED <<chains, sessions, published>>

StopCatchUp(k) ==
    LET h == hook[k]
        after(snap) == IF snap.session.mode = "complete" THEN Idle("allow")
                       ELSE [h EXCEPT !.pc = "publish", !.snap = snap]
    IN /\ h.pc = "catchup"
       /\ Reconcile(k, after(Written(k, Reconciled(h.snap), Reg!NoChain)), after(h.snap))

StopStep(k) == StopRefresh(k) \/ StopPublish(k) \/ StopCatchUp(k)

-----------------------------------------------------------------------------
(* Control commands, run by the agent between the hooks. *)

Command(k, name, s, c) ==
    /\ hook[k].pc = "idle" /\ name \in Agents[k]
    /\ Reg!Write(k, s, c)
    /\ UNCHANGED <<hook, turns, published>>

RegisterRoot(k) ==
    LET s == sessions[k] IN
    /\ Enrolls(s)
    /\ \E r \in Roots, a \in Absent :
         Owners(r) = {} /\ Command(k, "register-root", Holding(s, a, 1),
                                      NewChain(r, k, s.rest.turn))

\* join, and resume, which joins the chain whose current record it is given
Join(k) ==
    LET s == sessions[k] IN
    /\ Enrolls(s)
    /\ \E a \in Auths :
         /\ chains[a].status = "active"
         /\ Command(k, "join", Holding(s, a, chains[a].rev), Reg!NoChain)

\* A pending proposal can only be made again, in a later turn.
ProposeTransition(k) ==
    LET s == sessions[k]   chain == Reg!Current(k) IN
    /\ chain.status = "active" /\ s.crev = chain.rev /\ chain.record # 0
    /\ s.decision = NoAuth
    /\ \E r \in Roots :
         /\ s.proposal # NoProposal => s.proposal.root = r
         /\ Command(k, "propose-transition",
                    [Bump(s) EXCEPT !.proposal = [root |-> r, turn |-> s.rest.turn]],
                    Reg!NoChain)

RequestDecision(k) ==
    LET s == sessions[k]   chain == Reg!Current(k) IN
    /\ chain.status = "active" /\ s.crev = chain.rev /\ s.mode = "tracked"
    /\ Command(k, "request-decision",
               [Bump(s) EXCEPT !.mode = "awaiting", !.decision = s.auth], Reg!NoChain)

\* inspect first spends its credential, and reconciles the session to do so
Inspect(k) ==
    LET snap == Snapshot(k) IN
    /\ turns[k] > 0
    /\ Command(k, "inspect", IF snap.session.mode = "ungated" THEN Bump(snap.session)
                             ELSE Reconciled(snap), Reg!NoChain)

Commands(k) ==
    \/ RegisterRoot(k) \/ Join(k) \/ ProposeTransition(k) \/ RequestDecision(k)
    \/ Inspect(k)

-----------------------------------------------------------------------------
(* What happens beside a session's own hooks. *)

\* The hooks of parallel tool calls: the notices they record (an undeclared
\* write, context pressure, unfinished work, the one-off choice) are abstracted
\* to the revision they take. (The tree digest a prompt hook records is one more
\* revision, which that hook has then read: it is left out.)
Advisory(k) ==
    /\ Advises /\ turns[k] > 0
    /\ Reg!Write(k, Bump(sessions[k]), Reg!NoChain)
    /\ UNCHANGED <<hook, turns, published>>

\* The host kills a hook, at its timeout or with the session's process.
Crash(k) == Crashes /\ hook[k].pc # "idle" /\ Skip(k, Idle("killed"))

Init ==
    /\ Reg!Init
    /\ hook = [k \in Sessions |-> Idle("none")]
    /\ turns = [k \in Sessions |-> 0]
    /\ published = <<>>

Next ==
    \E k \in Sessions :
        \/ UserPrompt(k) \/ HostPrompt(k) \/ Stop(k)
        \/ PromptStep(k) \/ StopStep(k) \/ Commands(k)
        \/ Advisory(k) \/ Crash(k)

Spec == Init /\ [][Next]_vars

-----------------------------------------------------------------------------
(* Properties *)

Snapshots == [session : Reg!SessionStates, chain : Reg!ChainStates \cup {Reg!NoChain}]

HookTypeOK(h) ==
    \/ h.pc = "idle" /\ h.said \in {"none", "killed", "allow", "block", "policy", "unrecorded", "advisory"}
    \/ h.pc \in PromptSteps /\ h.snap \in Snapshots
    \/ h.pc \in StopSteps /\ h.snap \in Snapshots /\ h.behind \in BOOLEAN

\* The registry holds what its constructors accept, and a hook is idle or at a
\* step it knows with a snapshot of that kind.
TypeOK ==
    /\ Reg!TypeOK
    /\ \A k \in Sessions : HookTypeOK(hook[k])
    /\ turns \in [Sessions -> Nat]
    /\ published \in Seq([auth : Auths, pred : 0..MaxRecords, audit : BOOLEAN])

\* However sessions, worktrees and hooks interleave, the work has one history:
\* no two accepted records follow the same record, a chain has one first record,
\* and nothing follows an audit (evaluate_stop: "The predecessor is not the
\* chain's current record", under compare-and-swap).
LineageNeverForks ==
    \A i, j \in DOMAIN published : i < j =>
        /\ published[i].pred = published[j].pred
             => published[j].pred = 0 /\ published[i].auth # published[j].auth
        /\ published[j].pred < j
        /\ published[i].audit => published[j].auth # published[i].auth /\ published[j].pred # i

\* A chain holds transition evidence exactly while its current record was
\* published under the chain it replaced: the approval is spent by the first
\* record published under the new authority, and by nothing else.
EvidenceMarksTransition ==
    \A a \in Auths :
        LET c == chains[a] IN
        c.status = "active" =>
            (c.evidence <=> c.record # 0 /\ published[c.record].auth # a)

Armed(s) == s.rest.count = Circuit

\* An armed circuit is reset by a newly recorded user turn and by nothing else:
\* no wait line, record, decision, control command, host turn or peer resets it.
CircuitHolds ==
    [][\A k \in Sessions :
        Armed(sessions[k]) /\ ~Armed(sessions'[k])
            => sessions'[k].rest.turn > sessions[k].rest.turn]_vars

HookMoved(k) == hook'[k] # hook[k] /\ hook[k].pc # "idle"

HostTurnInert(k) ==
    LET s == sessions[k]   t == sessions'[k] IN
    HookMoved(k) /\ hook[k].pc \in PromptSteps /\ hook[k].event.host =>
        /\ t.auth = s.auth /\ t.proposal = s.proposal /\ t.decision = s.decision
        /\ [t.rest EXCEPT !.origin = s.rest.origin] = s.rest
        /\ t.mode = s.mode \/ t.mode = "complete"
        /\ chains' = chains

\* A prompt the host started is not the user speaking: it answers no question,
\* keeps a proposal adjacent, resets no circuit, spends no correction, enrolls
\* nothing and reenters no completed session. At most it records its origin and
\* what peers did to the chain.
HostTurnsAreInert == [][\A k \in Sessions : HostTurnInert(k)]_vars

QuestionKept(k) ==
    LET s == sessions[k]   t == sessions'[k] IN
    s.mode = "awaiting" /\ t.mode # "awaiting" =>
        \/ t.mode = "complete" /\ t.decision = t.auth /\ chains[t.auth].status = "complete"
        \/ hook[k].pc = "answer" /\ hook[k].event.say \in {"yes", "no"} /\ ~hook[k].event.host

\* A session that awaits a decision leaves that mode when the user's own yes or
\* no is recorded, or when a peer completed the whole work; a transition by a
\* peer, a Stop, a refresh or a killed hook leaves the question open.
QuestionsStayOpen == [][\A k \in Sessions : QuestionKept(k)]_vars

CountRose(k) == sessions'[k].rest.count > sessions[k].rest.count

\* The first verdict of a Stop that found its session overtaken by a peer.
Overtaken(k) == hook[k].pc = "publish" /\ hook[k].retry /\ hook[k].behind

\* A correction is counted only by the verdict of a Stop, against a session level
\* with its chain unless the storage failed to bring it there; and a Stop that
\* found its session overtaken counts only where the count reaches the circuit.
OvertakenCountsToArm ==
    [][\A k \in Sessions :
        CountRose(k) =>
            /\ hook[k].pc = "publish"
            /\ Overtaken(k) => Armed(sessions'[k])
            /\ \/ sessions[k].crev = Reg!Current(k).rev
               \/ StorageFails /\ Overtaken(k)]_vars

Created(a) == chains[a] = Reg!NoChain /\ chains'[a] # Reg!NoChain

\* A chain a prompt creates is authorized by that prompt's own turn, never by an
\* earlier one that happened to be recorded (_user_prompt_steps: "worse than not
\* enrolling").
PromptsGrantTheirOwnTurn ==
    [][\A k \in Sessions, a \in Auths :
        HookMoved(k) /\ Created(a) =>
            chains'[a].tag.grant = <<k, hook[k].event.turn>>]_vars

Superseding(a) == chains[a].status = "active" /\ chains'[a].status = "superseded"

\* Work changes its root only when its holder proposed that root and the user's
\* yes is the next turn that gets recorded; the new chain starts at the record
\* that was current, so no published work is lost on the way.
RerootedByApproval ==
    [][\A a \in Auths : Superseding(a) =>
        \E k \in Sessions :
            LET s == sessions[k]   c == chains'[chains'[a].succ] IN
            /\ s.auth = a /\ s.proposal # NoProposal
            /\ hook[k].pc = "observe" /\ hook[k].event.say = "yes"
            /\ s.proposal.turn = s.rest.turn /\ hook[k].event.turn > s.rest.turn
            /\ c.root = s.proposal.root /\ c.record = chains[a].record]_vars

\* Nothing was written to the session or its chain since the hook read them.
Undisturbed(k) ==
    /\ hook[k].pc # "idle"
    /\ sessions[k].rev = hook[k].snap.session.rev
    /\ Reg!Current(k).rev = hook[k].snap.chain.rev

UserTurnRecorded(k) ==
    LET h == hook[k] IN
    HookMoved(k) /\ h.pc = "observe" /\ ~h.event.host /\ ~Approves(h.snap.session, h.event)
        => sessions'[k].rest.turn = h.event.turn

\* A user's turn that approves nothing is recorded whatever state the session was
\* found in, unless another write came between, the host killed the hook or the
\* storage failed: behind its chain, released by a peer's audit, awaiting an
\* answer, with the circuit armed.
UserTurnsAreRecorded ==
    [][\A k \in Sessions :
        ~StorageFails /\ hook'[k] # Idle("killed") /\ Undisturbed(k)
            => UserTurnRecorded(k)]_vars

\* The registry refuses what a Stop writes in one case only, an armed circuit on
\* a chain that a peer completed: every other turn end is allowed, blocked or
\* stale, unless the storage fails.
StopsAreJudged ==
    [][\A k \in Sessions :
        HookMoved(k) /\ hook'[k] = Idle("advisory") /\ ~StorageFails =>
            Armed(sessions[k]) /\ Completed(Snapshot(k))]_vars

-----------------------------------------------------------------------------
(* What the code's comments and documents say of the hooks and the runs      *)
(* refute; README.md tells each story.                                      *)

\* What is refused to a session that peers overtook is not counted toward the
\* circuit (run_lifecycle_hook: "Whatever was refused was written against a
\* chain that has since moved, so it is not counted toward the circuit").
OvertakenIsNotCounted == [][\A k \in Sessions : Overtaken(k) => ~CountRose(k)]_vars

\* The user's yes or no to the question a session awaits goes on to be recorded
\* as its answer, when nothing else happens (_pending_clarification: "Accepted
\* replies, alone on the message").
AnswersAreRecorded ==
    [][\A k \in Sessions :
        /\ HookMoved(k) /\ hook[k].pc = "observe" /\ hook[k].event.say \in {"yes", "no"}
        /\ ~StorageFails /\ hook'[k] # Idle("killed") /\ Undisturbed(k)
        /\ sessions[k].mode = "awaiting"
        => hook'[k].pc \in {"clear", "answer"}]_vars
=============================================================================
