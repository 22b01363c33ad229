------------------------------ MODULE Registry ------------------------------
(***************************************************************************)
(* The lifecycle registry: the one file every hook process and control     *)
(* command of a repository shares, and the compare-and-swap that is its    *)
(* only write (LocalLifecycleStorage._compare_and_swap_key, _apply and the *)
(* validation RegistryEnvelope makes of every value it holds).             *)
(*                                                                         *)
(* A write is one atomic step here: it is made under the registry lock.    *)
(* What a caller puts in a write is not restricted to what today's callers *)
(* do: every session and chain the constructors accept is tried, so what   *)
(* is shown holds whatever the hooks and the commands ask for.             *)
(***************************************************************************)
EXTENDS Naturals, FiniteSets

CONSTANTS
    Sessions,     \* host sessions
    Auths,        \* authorization ids: the identities of chains
    Roots,        \* a locked root scope together with the scope digests
    Records,      \* identities of published records
    Revisions,    \* a session's targeted revisions, Nat or a bounded 0..n
    ChainRevisions,   \* a chain's, and a session's view of its chain's
    Tags,         \* what else a chain keeps: title, authorizing turn, its proof
    Proposals,    \* transition proposals a session may hold
    Rest,         \* what else a session keeps: turns, flags, correction count
    Rest0,        \* the rest of a session nothing was ever written for
    Reentries,    \* pairs <<old rest, new rest>> that may leave a finished task
    NoAuth, NoRoot, NoRecord, NoTag, NoProposal   \* Python's None

ASSUME RegistryAssumption ==
    /\ Revisions \subseteq Nat
    /\ ChainRevisions \subseteq Nat
    /\ NoAuth \notin Auths
    /\ NoRoot \notin Roots
    /\ NoRecord \notin Records
    /\ Rest0 \in Rest
    /\ Reentries \subseteq Rest \X Rest

VARIABLES
    chains,       \* [Auths -> Chains]: an absent chain has status "absent"
    sessions      \* [Sessions -> SessionStates]

vars == <<chains, sessions>>

-----------------------------------------------------------------------------
(* The values the constructors accept. *)

\* "ungated" stands for the two modes that gate nothing, open and one-off; the
\* registry treats them alike, and which one it is is part of the session's rest.
Modes == {"ungated", "tracked", "awaiting", "complete"}

\* A chain that the registry does not hold; its revision reads as 0.
NoChain == [status |-> "absent", root |-> NoRoot, rev |-> 0, record |-> NoRecord,
            succ |-> NoAuth, evidence |-> FALSE, tag |-> NoTag]

ChainStates ==
    [status : {"active", "complete", "superseded"}, root : Roots, rev : Nat,
     record : Records \cup {NoRecord}, succ : Auths \cup {NoAuth},
     evidence : BOOLEAN, tag : Tags]

\* Publication evidence belongs to an active chain that names a record.
ChainValid(c) == c.evidence => c.status = "active" /\ c.record # NoRecord

SessionStates ==
    [rev : Nat, mode : Modes, auth : Auths \cup {NoAuth}, crev : Nat,
     decision : Auths \cup {NoAuth}, proposal : Proposals \cup {NoProposal},
     rest : Rest]

\* An ungated session identifies no chain, a gated one does, and a session that
\* awaits a decision holds the request (decision: the chain it is bound to).
SessionValid(s) ==
    /\ s.mode = "ungated" <=> s.auth = NoAuth
    /\ s.auth = NoAuth => s.crev = 0
    /\ s.mode = "awaiting" => s.decision # NoAuth

\* What a reader gets for a session the registry has no entry for.
NewSession == [rev |-> 0, mode |-> "ungated", auth |-> NoAuth, crev |-> 0,
               decision |-> NoAuth, proposal |-> NoProposal, rest |-> Rest0]

-----------------------------------------------------------------------------
(* The envelope: what RegistryEnvelope refuses to hold, for chains ch and   *)
(* sessions se.                                                            *)

SuccessorsKnown(ch) ==
    \A a \in Auths :
        IF ch[a].status = "superseded"
        THEN ch[a].succ \in Auths \ {a} /\ ch[ch[a].succ].status # "absent"
        ELSE ch[a].succ = NoAuth

ActiveRootsUnique(ch) ==
    \A a, b \in Auths :
        ch[a].status = "active" /\ ch[b].status = "active" /\ ch[a].root = ch[b].root
            => a = b

\* Some chain of every set of chains has its successor outside the set: no
\* walk along successors comes back to a chain it passed.
SuccessorsAcyclic(ch) ==
    \A A \in SUBSET Auths : A # {} => \E a \in A : ch[a].succ \notin A

HoldsCurrentChain(ch, s) ==
    s.auth # NoAuth =>
        /\ ch[s.auth].status \in {"active", "complete"}
        /\ s.crev <= ch[s.auth].rev
        /\ s.mode = "complete" => ch[s.auth].status = "complete"
        /\ s.decision # NoAuth => s.decision = s.auth

Envelope(ch, se) ==
    /\ \A k \in Sessions : HoldsCurrentChain(ch, se[k])
    /\ SuccessorsKnown(ch)
    /\ ActiveRootsUnique(ch)
    /\ SuccessorsAcyclic(ch)

-----------------------------------------------------------------------------
(* A write: session k becomes s and, unless c is NoChain, the chain s names *)
(* becomes c.                                                              *)

ChainAt(a) == IF a = NoAuth THEN NoChain ELSE chains[a]
Current(k) == ChainAt(sessions[k].auth)

\* The chain whose revision the writer has to know: the one the session holds,
\* or the one an ungated session is about to hold.
Target(k, s) == IF sessions[k].auth # NoAuth THEN Current(k) ELSE ChainAt(s.auth)

\* The compare half: both revisions the writer read are still the live ones.
Fresh(k, s, chainRev, sessionRev) ==
    /\ Target(k, s).rev = chainRev
    /\ sessions[k].rev = sessionRev

\* mutant of Reentry: the session's own completion is not asked for
ReentryUnreleased(k, s, c) ==
    /\ Current(k).status = "complete" /\ s.mode = "ungated" /\ c = NoChain
    /\ s.decision = NoAuth /\ s.proposal = NoProposal
    /\ <<sessions[k].rest, s.rest>> \in Reentries

\* The only way out of a chain other than its successor: a completed session
\* starts a new task on a new user turn.
Reentry(k, s, c) ==
    /\ Current(k).status = "complete"
    /\ sessions[k].mode = "complete"
    /\ s.mode = "ungated"
    /\ c = NoChain
    /\ s.decision = NoAuth
    /\ s.proposal = NoProposal
    /\ <<sessions[k].rest, s.rest>> \in Reentries

StaysTracked(k, s, c) ==
    Current(k) # NoChain /\ s.mode = "ungated" => Reentry(k, s, c)

\* mutant of EvidenceKept: evidence may be dropped without a new record
EvidenceDropped(old, c) == c.evidence => old.evidence

\* Evidence that a record published under it has not yet closed.
EvidenceKept(old, c) ==
    c.evidence # old.evidence => old.evidence /\ c.record # old.record

ChainWriteAllowed(a, c) ==
    c # NoChain =>
        /\ a # NoAuth
        /\ c.status # "superseded"
        /\ IF chains[a] # NoChain
           THEN /\ chains[a].status = "active"
                /\ c.root = chains[a].root
                /\ EvidenceKept(chains[a], c)
                /\ c = chains[a] \/ c.rev = chains[a].rev + 1
           ELSE c.rev = 1 /\ c.status = "active"

\* The write leaves the chain the session holds for a successor it creates. A
\* chain that still holds evidence cannot be superseded: its constructor refuses
\* a superseded copy (ChainValid).
Supersedes(k, s, c) ==
    Current(k) # NoChain /\ sessions[k].auth # s.auth /\ ~Reentry(k, s, c)

\* mutant of TransitionAllowed: a chain is superseded with its evidence open
TransitionUnpublished(k, s, c) ==
    Supersedes(k, s, c) =>
        Current(k).status = "active" /\ c # NoChain /\ chains[s.auth] = NoChain

TransitionAllowed(k, s, c) ==
    Supersedes(k, s, c) =>
        /\ Current(k).status = "active"
        /\ ~Current(k).evidence
        /\ c # NoChain
        /\ chains[s.auth] = NoChain

SupersededBy(old, a) ==
    [old EXCEPT !.status = "superseded", !.rev = @ + 1, !.succ = a]

NewChains(k, s, c) ==
    [a \in Auths |->
        IF Supersedes(k, s, c) /\ a = sessions[k].auth
        THEN SupersededBy(chains[a], s.auth)
        ELSE IF c # NoChain /\ a = s.auth THEN c
        ELSE chains[a]]

\* mutants of Moved: the peer keeps its revision, its question stays bound to the
\* old chain, its question is dropped
MovedUnrevised(peer, a, rev) ==
    [peer EXCEPT !.auth = a, !.crev = rev, !.proposal = NoProposal,
                 !.decision = IF @ = NoAuth THEN NoAuth ELSE a]
MovedUnbound(peer, a, rev) ==
    [peer EXCEPT !.auth = a, !.crev = rev, !.rev = @ + 1, !.proposal = NoProposal]
MovedAnswered(peer, a, rev) ==
    [peer EXCEPT !.auth = a, !.crev = rev, !.rev = @ + 1, !.proposal = NoProposal,
                 !.mode = IF @ = "awaiting" THEN "tracked" ELSE @, !.decision = NoAuth]

\* A peer moves to the successor chain and keeps its mode and its question,
\* which is bound to the chain it now holds; only its own proposal goes.
Moved(peer, a, rev) ==
    [peer EXCEPT !.auth = a, !.crev = rev, !.rev = @ + 1, !.proposal = NoProposal,
                 !.decision = IF @ = NoAuth THEN NoAuth ELSE a]

NewSessions(k, s, c) ==
    [j \in Sessions |->
        IF j = k THEN s
        ELSE IF Supersedes(k, s, c) /\ sessions[j].auth = sessions[k].auth
        THEN Moved(sessions[j], s.auth, c.rev)
        ELSE sessions[j]]

\* The chain the session is left with can be held, and joined if it is new to
\* the session.
JoinAllowed(k, s, c) ==
    s.auth # NoAuth =>
        /\ NewChains(k, s, c)[s.auth].status \in {"active", "complete"}
        /\ Current(k) = NoChain => NewChains(k, s, c)[s.auth].status = "active"

Reconciled(k, s, c) == s.auth # NoAuth => s.crev = NewChains(k, s, c)[s.auth].rev

\* mutant of CompletionReleases: an audit may leave its session gated
CompletionKept(k, s, c) == s \in SessionStates

CompletionReleases(k, s, c) ==
    s.auth # NoAuth /\ NewChains(k, s, c)[s.auth].status = "complete"
        => s.mode = "complete"

SessionAdvances(k, rev) == rev = sessions[k].rev + 1

\* What _apply refuses before it looks at the revision the session claims.
Admitted(k, s, c) ==
    /\ SessionAdvances(k, s.rev)
    /\ ChainWriteAllowed(s.auth, c)
    /\ StaysTracked(k, s, c)
    /\ TransitionAllowed(k, s, c)
    /\ JoinAllowed(k, s, c)

Rules(k, s, c) ==
    Admitted(k, s, c) /\ Reconciled(k, s, c) /\ CompletionReleases(k, s, c)

Valid(k, s, c) == Envelope(NewChains(k, s, c), NewSessions(k, s, c))

\* How a write ends: a stale caller reloads and may try again, a refused one
\* asked for a change the registry never accepts. Neither changes anything.
Outcome(k, s, c, chainRev, sessionRev) ==
    CASE ~Fresh(k, s, chainRev, sessionRev) -> "stale"
      [] Fresh(k, s, chainRev, sessionRev) /\ ~Admitted(k, s, c) -> "refused"
      [] Fresh(k, s, chainRev, sessionRev) /\ Admitted(k, s, c) /\ ~Reconciled(k, s, c)
            -> "stale"
      [] OTHER -> IF Rules(k, s, c) /\ Valid(k, s, c) THEN "ok" ELSE "refused"

\* The whole of a successful compare-and-swap, by a caller that read the live
\* revisions.
Write(k, s, c) ==
    /\ Rules(k, s, c)
    /\ Valid(k, s, c)
    /\ chains' = NewChains(k, s, c)
    /\ sessions' = NewSessions(k, s, c)

-----------------------------------------------------------------------------
Init ==
    /\ chains = [a \in Auths |-> NoChain]
    /\ sessions = [k \in Sessions |-> NewSession]

\* Every session and every chain a caller can put in a write. A caller names no
\* successor: only supersession sets one, and the envelope refuses any other.
SessionInputs(rev, a) ==
    {s \in [rev : {rev}, mode : Modes, auth : {a}, crev : ChainRevisions,
            decision : Auths \cup {NoAuth}, proposal : Proposals \cup {NoProposal},
            rest : Rest] : SessionValid(s)}

ChainInputs ==
    {NoChain} \cup
    {c \in [status : {"active", "complete", "superseded"}, root : Roots,
            rev : ChainRevisions, record : Records \cup {NoRecord},
            succ : {NoAuth}, evidence : BOOLEAN, tag : Tags] : ChainValid(c)}

WriteBy(k) ==
    \E rev \in Revisions, a \in Auths \cup {NoAuth} :
        /\ SessionAdvances(k, rev)
        /\ \E c \in ChainInputs :
            /\ ChainWriteAllowed(a, c)
            /\ \E s \in SessionInputs(rev, a) : Write(k, s, c)

Next == \E k \in Sessions : WriteBy(k)

Spec == Init /\ [][Next]_vars

-----------------------------------------------------------------------------
(* Properties *)

\* Every chain is absent or one the constructors accept, and so is every session.
TypeOK ==
    /\ chains \in [Auths -> ChainStates \cup {NoChain}]
    /\ \A a \in Auths : ChainValid(chains[a])
    /\ sessions \in [Sessions -> SessionStates]
    /\ \A k \in Sessions : SessionValid(sessions[k])

\* The file on disk is always one the loader accepts: every session's chain is
\* there and current, successors lead somewhere and never in a circle, and no two
\* active chains own the same root (RegistryEnvelope.__post_init__ at load).
EnvelopeHeld == Envelope(chains, sessions)

\* What only the writer answers for: its own session fits the chain it names,
\* and no other active chain has the root of the chain it writes.
OwnPartValid(k, s, c) ==
    /\ HoldsCurrentChain(NewChains(k, s, c), s)
    /\ c # NoChain =>
        \A a \in Auths \ {s.auth} :
            NewChains(k, s, c)[a].status = "active" => NewChains(k, s, c)[a].root # c.root

\* No peer can wedge a session: whatever the other sessions and chains hold,
\* their questions and their views of a chain that is being superseded included,
\* a write that keeps the rules and is right in its own part passes the
\* validation of the whole registry that every write ends with.
PeersNeverBlockAWrite ==
    \A k \in Sessions, rev \in Revisions, a \in Auths \cup {NoAuth} :
        SessionAdvances(k, rev) =>
            \A c \in ChainInputs : ChainWriteAllowed(a, c) =>
                \A s \in SessionInputs(rev, a) :
                    Rules(k, s, c) /\ OwnPartValid(k, s, c) => Valid(k, s, c)

\* A session that stands at the last revision of a finished chain is released:
\* it is complete, so no Stop asks it for a handoff of work that is over. A
\* session still gated on a finished chain is behind it, and the next hook that
\* reconciles it releases it. The envelope does not check this.
FinishedReleases ==
    \A k \in Sessions :
        LET s == sessions[k] IN
        s.auth # NoAuth /\ ChainAt(s.auth).status = "complete"
            => s.mode = "complete" \/ s.crev < ChainAt(s.auth).rev

RevisionsRise ==
    /\ \A k \in Sessions :
         sessions'[k] # sessions[k] => sessions'[k].rev = sessions[k].rev + 1
    /\ \A a \in Auths :
         chains'[a] # chains[a] => chains'[a].rev = chains[a].rev + 1

\* A revision names one value: whatever a write changes in a session or a chain,
\* its own or a peer's, raises that revision by exactly one. With the compare in
\* Fresh this is why no write can overwrite a change its caller did not read.
RevisionsNameValues == [][RevisionsRise]_vars

HistoryKept ==
    \A a \in Auths :
        chains[a] # NoChain =>
            /\ chains[a].status # "active" => chains'[a] = chains[a]
            /\ chains'[a].root = chains[a].root
            /\ chains'[a].evidence # chains[a].evidence
                => chains[a].evidence /\ chains'[a].record # chains[a].record

\* The history of a chain: a finished or superseded chain never changes again,
\* a chain keeps its root for life, and evidence that a transition published
\* nothing yet is closed only by a new record and never appears later.
ChainHistory == [][HistoryKept]_vars

LeftByRule ==
    \A k \in Sessions :
        LET s == sessions[k]   t == sessions'[k] IN
        s.auth # NoAuth /\ t.auth # s.auth =>
            \/ /\ chains[s.auth].status = "active"
               /\ chains'[s.auth].status = "superseded"
               /\ chains'[s.auth].succ = t.auth
               /\ t.crev = chains'[t.auth].rev
            \/ t.auth = NoAuth /\ s.mode = "complete" /\ chains[s.auth].status = "complete"

\* A session with a chain loses it in two ways only: the chain was superseded
\* and the session, its question kept and re-bound, holds the successor; or the
\* work was complete. Nothing a peer writes drops a session's chain or question.
ChainsAreLeftByRule == [][LeftByRule]_vars

PeersKept ==
    \E k \in Sessions : \A j \in Sessions \ {k} :
        LET s == sessions[j]   t == sessions'[j] IN
        t # s =>
            /\ s.auth # NoAuth
            /\ chains[s.auth].status # "superseded" /\ chains'[s.auth].status = "superseded"
            /\ t.mode = s.mode
            /\ t.rest = s.rest
            /\ t.decision = NoAuth <=> s.decision = NoAuth

\* A write never releases, gates or answers for another session: apart from the
\* writer, a session changes only because its chain was superseded, and then its
\* mode, its turns and whether it waits for an answer stay its own.
PeersKeepTheirState == [][PeersKept]_vars
=============================================================================
