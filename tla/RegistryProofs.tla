--------------------------- MODULE RegistryProofs ---------------------------
(***************************************************************************)
(* What the registry promises, for every set of sessions, chains, roots    *)
(* and records and for revisions without a bound. Every step is a write of *)
(* a session and perhaps a chain the constructors accept (StepIsWrite), so *)
(* each theorem looks at one write.                                        *)
(***************************************************************************)
EXTENDS Registry, TLAPS

\* A call with a well-formed session and chain that keeps the rules; with Write,
\* the only step there is.
GoodCall(k, s, c) ==
    /\ k \in Sessions
    /\ s \in SessionStates /\ SessionValid(s)
    /\ c \in ChainStates \cup {NoChain} /\ ChainValid(c)
    /\ Rules(k, s, c)

\* A caller's inputs are well-formed values (SessionState and ChainState check
\* themselves when they are built).
LEMMA InputsWellFormed ==
    /\ \A rev \in Revisions, a \in Auths \cup {NoAuth} :
        \A s \in SessionInputs(rev, a) : s \in SessionStates /\ SessionValid(s)
    /\ \A c \in ChainInputs : c \in ChainStates \cup {NoChain} /\ ChainValid(c)
<1>1. \A rev \in Revisions, a \in Auths \cup {NoAuth} :
        \A s \in SessionInputs(rev, a) : s \in SessionStates /\ SessionValid(s)
  BY RegistryAssumption DEF SessionInputs, SessionStates
<1>2. \A c \in ChainInputs : c \in ChainStates \cup {NoChain} /\ ChainValid(c)
  <2>1. ChainValid(NoChain) BY DEF ChainValid, NoChain
  <2>2. \A c \in ChainInputs \ {NoChain} : c \in ChainStates /\ ChainValid(c)
    BY RegistryAssumption DEF ChainInputs, ChainStates
  <2>3. QED BY <2>1, <2>2
<1>3. QED BY <1>1, <1>2

\* Every step of the registry is one successful compare-and-swap.
LEMMA StepIsWrite ==
    ASSUME Next
    PROVE  \E k, s, c : GoodCall(k, s, c) /\ Write(k, s, c)
<1>1. PICK k \in Sessions : WriteBy(k) BY DEF Next
<1>2. PICK rev \in Revisions, a \in Auths \cup {NoAuth}, c \in ChainInputs :
        \E s \in SessionInputs(rev, a) : Write(k, s, c)
  BY <1>1 DEF WriteBy
<1>3. PICK s \in SessionInputs(rev, a) : Write(k, s, c) BY <1>2
<1>4. GoodCall(k, s, c) BY <1>3, InputsWellFormed DEF GoodCall, Write
<1>5. QED BY <1>3, <1>4

-----------------------------------------------------------------------------
\* What a supersession needs: an active chain without open evidence, and a chain
\* the registry does not hold yet, which starts active.
LEMMA SupersedesFacts ==
    ASSUME TypeOK, NEW k, NEW s, NEW c, GoodCall(k, s, c), Supersedes(k, s, c)
    PROVE  /\ sessions[k].auth \in Auths /\ s.auth \in Auths
           /\ sessions[k].auth # s.auth
           /\ chains[sessions[k].auth].status = "active"
           /\ ~chains[sessions[k].auth].evidence
           /\ chains[s.auth] = NoChain
           /\ c \in ChainStates /\ c.status = "active" /\ c.rev = 1
<1>1. sessions[k].auth # NoAuth /\ Current(k) = chains[sessions[k].auth]
  BY DEF Supersedes, Current, ChainAt, NoChain
<1>2. sessions[k].auth \in Auths
  BY <1>1 DEF TypeOK, GoodCall, SessionStates
<1>3. c # NoChain /\ Current(k).status = "active" /\ ~Current(k).evidence
      /\ chains[s.auth] = NoChain
  BY DEF GoodCall, Rules, Admitted, TransitionAllowed
<1>4. s.auth # NoAuth /\ c.status = "active" /\ c.rev = 1
  BY <1>3 DEF GoodCall, Rules, Admitted, ChainWriteAllowed
<1>5. s.auth \in Auths BY <1>4 DEF GoodCall, SessionStates
<1>6. QED BY <1>1, <1>2, <1>3, <1>4, <1>5 DEF GoodCall, Supersedes

\* How one chain looks after a write: superseded, written, or as it was.
IsSuperseded(k, s, c, a) == Supersedes(k, s, c) /\ a = sessions[k].auth
IsWritten(k, s, c, a) == ~IsSuperseded(k, s, c, a) /\ c # NoChain /\ a = s.auth
IsMoved(k, s, c, j) == j # k /\ Supersedes(k, s, c) /\ sessions[j].auth = sessions[k].auth

LEMMA ChainAfterCall ==
    ASSUME NEW k, NEW s, NEW c, NEW a \in Auths
    PROVE  /\ IsSuperseded(k, s, c, a)
                => NewChains(k, s, c)[a] = SupersededBy(chains[a], s.auth)
           /\ IsWritten(k, s, c, a) => NewChains(k, s, c)[a] = c
           /\ ~IsSuperseded(k, s, c, a) /\ ~IsWritten(k, s, c, a)
                => NewChains(k, s, c)[a] = chains[a]
BY Zenon DEF NewChains, IsSuperseded, IsWritten

LEMMA ChainAfterWrite ==
    ASSUME NEW k, NEW s, NEW c, Write(k, s, c), NEW a \in Auths
    PROVE  /\ IsSuperseded(k, s, c, a) => chains'[a] = SupersededBy(chains[a], s.auth)
           /\ IsWritten(k, s, c, a) => chains'[a] = c
           /\ ~IsSuperseded(k, s, c, a) /\ ~IsWritten(k, s, c, a) => chains'[a] = chains[a]
<1>1. chains' = NewChains(k, s, c) BY DEF Write
<1>2. QED BY <1>1, Zenon DEF NewChains, IsSuperseded, IsWritten

\* How one session looks after a write: written, moved to a successor, untouched.
LEMMA SessionAfterCall ==
    ASSUME NEW k, NEW s, NEW c, NEW j \in Sessions
    PROVE  /\ j = k => NewSessions(k, s, c)[j] = s
           /\ IsMoved(k, s, c, j)
                => NewSessions(k, s, c)[j] = Moved(sessions[j], s.auth, c.rev)
           /\ j # k /\ ~IsMoved(k, s, c, j) => NewSessions(k, s, c)[j] = sessions[j]
BY Zenon DEF NewSessions, IsMoved

LEMMA SessionAfterWrite ==
    ASSUME NEW k, NEW s, NEW c, Write(k, s, c), NEW j \in Sessions
    PROVE  /\ j = k => sessions'[j] = s
           /\ IsMoved(k, s, c, j) => sessions'[j] = Moved(sessions[j], s.auth, c.rev)
           /\ j # k /\ ~IsMoved(k, s, c, j) => sessions'[j] = sessions[j]
<1>1. sessions' = NewSessions(k, s, c) BY DEF Write
<1>2. QED BY <1>1, Zenon DEF NewSessions, IsMoved

-----------------------------------------------------------------------------
(* Type correctness *)

\* A superseded copy of a chain without evidence is a chain.
LEMMA SupersededType ==
    ASSUME NEW p \in ChainStates, ~p.evidence, NEW a \in Auths
    PROVE  /\ SupersededBy(p, a) \in ChainStates
           /\ ChainValid(SupersededBy(p, a))
<1>1. p.rev + 1 \in Nat BY DEF ChainStates
<1>2. \A n \in Nat :
        [p EXCEPT !.status = "superseded", !.rev = n, !.succ = a] \in ChainStates
  BY DEF ChainStates
<1>3. SupersededBy(p, a).evidence = p.evidence BY DEF SupersededBy, ChainStates
<1>4. QED BY <1>1, <1>2, <1>3, Zenon DEF SupersededBy, ChainValid

\* What supersession changes in a chain, and what it leaves alone.
LEMMA SupersededFields ==
    ASSUME NEW p \in ChainStates, NEW a \in Auths
    PROVE  /\ SupersededBy(p, a).status = "superseded"
           /\ SupersededBy(p, a).rev = p.rev + 1
           /\ SupersededBy(p, a).succ = a
           /\ SupersededBy(p, a).root = p.root
           /\ SupersededBy(p, a).record = p.record
           /\ SupersededBy(p, a).evidence = p.evidence
BY DEF SupersededBy, ChainStates

\* What a move changes in a peer, and what stays its own.
LEMMA MovedFields ==
    ASSUME NEW p \in SessionStates, NEW a \in Auths, NEW n \in Nat
    PROVE  /\ Moved(p, a, n).auth = a
           /\ Moved(p, a, n).crev = n
           /\ Moved(p, a, n).rev = p.rev + 1
           /\ Moved(p, a, n).mode = p.mode
           /\ Moved(p, a, n).rest = p.rest
           /\ Moved(p, a, n).decision = IF p.decision = NoAuth THEN NoAuth ELSE a
BY DEF Moved, SessionStates

\* A moved gated session is a gated session.
LEMMA MovedType ==
    ASSUME NEW p \in SessionStates, SessionValid(p), p.auth # NoAuth,
           NEW a \in Auths, NEW n \in Nat
    PROVE  Moved(p, a, n) \in SessionStates /\ SessionValid(Moved(p, a, n))
<1>1. p.rev + 1 \in Nat BY DEF SessionStates
<1>2. \A m \in Nat, d \in Auths \cup {NoAuth}, q \in Proposals \cup {NoProposal} :
        [p EXCEPT !.auth = a, !.crev = n, !.rev = m, !.proposal = q, !.decision = d]
            \in SessionStates
  BY DEF SessionStates
<1>3. (IF p.decision = NoAuth THEN NoAuth ELSE a) \in Auths \cup {NoAuth} OBVIOUS
<1>4. NoProposal \in Proposals \cup {NoProposal} OBVIOUS
<1>5. Moved(p, a, n) \in SessionStates BY <1>1, <1>2, <1>3, <1>4, Zenon DEF Moved
<1>6. SessionValid(Moved(p, a, n))
  BY MovedFields, RegistryAssumption DEF SessionValid
<1>7. QED BY <1>5, <1>6

LEMMA InitType == Init => TypeOK
<1> SUFFICES ASSUME Init PROVE TypeOK OBVIOUS
<1>1. chains \in [Auths -> ChainStates \cup {NoChain}]
      /\ \A a \in Auths : ChainValid(chains[a])
  BY DEF Init, ChainValid, NoChain
<1>2. NewSession \in SessionStates /\ SessionValid(NewSession)
  BY RegistryAssumption DEF NewSession, SessionStates, SessionValid, Modes
<1>3. QED BY <1>1, <1>2 DEF Init, TypeOK

LEMMA WriteType ==
    ASSUME TypeOK, NEW k, NEW s, NEW c, GoodCall(k, s, c), Write(k, s, c)
    PROVE  TypeOK'
<1>1. chains' = NewChains(k, s, c) /\ sessions' = NewSessions(k, s, c)
  BY DEF Write
<1>2. chains' = [a \in Auths |-> chains'[a]] /\ sessions' = [j \in Sessions |-> sessions'[j]]
  BY <1>1 DEF NewChains, NewSessions
<1>3. \A a \in Auths : chains'[a] \in ChainStates \cup {NoChain} /\ ChainValid(chains'[a])
  <2> SUFFICES ASSUME NEW a \in Auths
               PROVE  chains'[a] \in ChainStates \cup {NoChain} /\ ChainValid(chains'[a])
    OBVIOUS
  <2>1. CASE IsSuperseded(k, s, c, a)
    <3>1. chains[a] \in ChainStates /\ chains[a].status = "active" /\ ~chains[a].evidence
      BY <2>1, SupersedesFacts DEF TypeOK, NoChain, IsSuperseded
    <3>2. chains'[a] = SupersededBy(chains[a], s.auth) BY <2>1, ChainAfterWrite
    <3>3. s.auth \in Auths BY <2>1, SupersedesFacts DEF IsSuperseded
    <3>4. QED BY <3>1, <3>2, <3>3, SupersededType
  <2>2. CASE ~IsSuperseded(k, s, c, a)
    <3>1. chains'[a] = c \/ chains'[a] = chains[a] BY <2>2, ChainAfterWrite, Zenon
    <3>2. c \in ChainStates \cup {NoChain} /\ ChainValid(c) BY DEF GoodCall
    <3>3. chains[a] \in ChainStates \cup {NoChain} /\ ChainValid(chains[a]) BY DEF TypeOK
    <3>4. QED BY <3>1, <3>2, <3>3, Zenon
  <2>3. QED BY <2>1, <2>2
<1>4. \A j \in Sessions : sessions'[j] \in SessionStates /\ SessionValid(sessions'[j])
  <2> SUFFICES ASSUME NEW j \in Sessions
               PROVE  sessions'[j] \in SessionStates /\ SessionValid(sessions'[j])
    OBVIOUS
  <2>1. CASE j = k BY <2>1, SessionAfterWrite DEF GoodCall
  <2>2. CASE IsMoved(k, s, c, j)
    <3>1. sessions[j].auth # NoAuth /\ s.auth \in Auths /\ c.rev \in Nat
      BY <2>2, SupersedesFacts, RegistryAssumption DEF ChainStates, IsMoved
    <3>2. sessions[j] \in SessionStates /\ SessionValid(sessions[j]) BY DEF TypeOK
    <3>3. sessions'[j] = Moved(sessions[j], s.auth, c.rev) BY <2>2, SessionAfterWrite
    <3>4. QED BY <3>1, <3>2, <3>3, MovedType
  <2>3. CASE j # k /\ ~IsMoved(k, s, c, j)
    BY <2>3, SessionAfterWrite DEF TypeOK
  <2>4. QED BY <2>1, <2>2, <2>3 DEF IsMoved
<1>5. chains' \in [Auths -> ChainStates \cup {NoChain}]
  BY <1>3, <1>2, Zenon
<1>6. sessions' \in [Sessions -> SessionStates]
  BY <1>4, <1>2, Zenon
<1>7. QED BY <1>3, <1>4, <1>5, <1>6 DEF TypeOK

\* Every chain and every session the registry ever holds is a value its
\* constructor accepts; in particular supersession never leaves open evidence on
\* a chain that is no longer active.
THEOREM TypeCorrect == Spec => []TypeOK
<1>1. TypeOK /\ [Next]_vars => TypeOK'
  <2> SUFFICES ASSUME TypeOK, [Next]_vars PROVE TypeOK' OBVIOUS
  <2>1. CASE Next BY <2>1, StepIsWrite, WriteType
  <2>2. CASE UNCHANGED vars BY <2>2 DEF vars, TypeOK
  <2>3. QED BY <2>1, <2>2
<1>2. QED BY <1>1, InitType, PTL DEF Spec

-----------------------------------------------------------------------------
(* The envelope and the release of finished sessions *)

IInv == TypeOK /\ EnvelopeHeld /\ FinishedReleases

LEMMA InitInv == Init => IInv
<1> SUFFICES ASSUME Init PROVE IInv OBVIOUS
<1>1. \A a \in Auths : chains[a] = NoChain BY DEF Init
<1>2. \A k \in Sessions : sessions[k].auth = NoAuth BY DEF Init, NewSession
<1>3. SuccessorsKnown(chains) BY <1>1 DEF SuccessorsKnown, NoChain
<1>4. ActiveRootsUnique(chains) BY <1>1 DEF ActiveRootsUnique, NoChain
<1>5. SuccessorsAcyclic(chains) BY <1>1, RegistryAssumption DEF SuccessorsAcyclic, NoChain
<1>6. \A k \in Sessions : HoldsCurrentChain(chains, sessions[k])
  BY <1>2 DEF HoldsCurrentChain
<1>7. EnvelopeHeld BY <1>3, <1>4, <1>5, <1>6 DEF EnvelopeHeld, Envelope
<1>8. FinishedReleases BY <1>2 DEF FinishedReleases
<1>9. QED BY <1>7, <1>8, InitType DEF IInv

\* A finished chain's session that is not released stays behind it: completing a
\* chain raises its revision past every peer's view, and the writer is released.
LEMMA WriteReleases ==
    ASSUME IInv, NEW k, NEW s, NEW c, GoodCall(k, s, c), Write(k, s, c)
    PROVE  FinishedReleases'
<1> SUFFICES ASSUME NEW j \in Sessions, sessions'[j].auth # NoAuth,
                    chains'[sessions'[j].auth].status = "complete"
             PROVE  \/ sessions'[j].mode = "complete"
                    \/ sessions'[j].crev < chains'[sessions'[j].auth].rev
  BY DEF FinishedReleases, ChainAt
<1>0. TypeOK /\ EnvelopeHeld /\ FinishedReleases BY DEF IInv
<1>1. CASE j = k
  <2>1. sessions'[j] = s BY <1>1, SessionAfterWrite
  <2>2. chains'[s.auth] = NewChains(k, s, c)[s.auth] BY DEF Write
  <2>3. QED BY <2>1, <2>2 DEF GoodCall, Rules, CompletionReleases
<1>2. CASE IsMoved(k, s, c, j)
  <2>1. sessions[j] \in SessionStates /\ s.auth \in Auths /\ c.rev \in Nat
        /\ c.status = "active" /\ s.auth # sessions[k].auth /\ c # NoChain
    BY <1>0, <1>2, SupersedesFacts DEF TypeOK, IsMoved, ChainStates, NoChain
  <2>2. sessions'[j].auth = s.auth BY <1>2, <2>1, SessionAfterWrite, MovedFields
  <2>3. IsWritten(k, s, c, s.auth) BY <2>1 DEF IsWritten, IsSuperseded
  <2>4. chains'[s.auth] = c BY <2>1, <2>3, ChainAfterWrite
  <2>5. QED BY <2>1, <2>2, <2>4
<1>3. CASE j # k /\ ~IsMoved(k, s, c, j)
  <2> DEFINE a == sessions[j].auth
  <2>1. sessions'[j] = sessions[j] BY <1>3, SessionAfterWrite
  <2>2. a \in Auths BY <1>0, <2>1 DEF TypeOK, SessionStates
  <2>3. chains[a] \in ChainStates /\ sessions[j].crev \in Nat
        /\ chains[a].status \in {"active", "complete"} /\ sessions[j].crev <= chains[a].rev
    BY <1>0, <2>1, <2>2
       DEF TypeOK, EnvelopeHeld, Envelope, HoldsCurrentChain, SessionStates, NoChain
  <2>4. CASE IsSuperseded(k, s, c, a)
    <3>1. s.auth \in Auths BY <1>0, <2>4, SupersedesFacts DEF IsSuperseded
    <3>2. chains'[a].status = "superseded"
      BY <2>2, <2>3, <2>4, <3>1, ChainAfterWrite, SupersededFields
    <3>3. QED BY <3>2, <2>1
  <2>5. CASE IsWritten(k, s, c, a)
    <3>1. chains'[a] = c /\ c \in ChainStates
      BY <2>2, <2>5, ChainAfterWrite DEF IsWritten, GoodCall
    <3>2. chains[a] # NoChain BY <2>3 DEF NoChain
    <3>3. chains[a].status = "active"
          /\ (c = chains[a] \/ c.rev = chains[a].rev + 1)
      BY <2>5, <3>2 DEF IsWritten, GoodCall, Rules, Admitted, ChainWriteAllowed
    <3>4. c.rev = chains[a].rev + 1 BY <2>1, <3>1, <3>3
    <3>5. QED BY <2>1, <2>3, <3>1, <3>4 DEF ChainStates
  <2>6. CASE ~IsSuperseded(k, s, c, a) /\ ~IsWritten(k, s, c, a)
    <3>1. chains'[a] = chains[a] BY <2>2, <2>6, ChainAfterWrite
    <3>2. QED BY <1>0, <2>1, <3>1 DEF FinishedReleases, ChainAt
  <2>7. QED BY <2>4, <2>5, <2>6
<1>4. QED BY <1>1, <1>2, <1>3

LEMMA StepInv == IInv /\ [Next]_vars => IInv'
<1> SUFFICES ASSUME IInv, [Next]_vars PROVE IInv' OBVIOUS
<1>1. CASE Next
  <2>1. PICK k, s, c : GoodCall(k, s, c) /\ Write(k, s, c) BY <1>1, StepIsWrite
  <2>2. TypeOK' BY <2>1, WriteType DEF IInv
  <2>3. EnvelopeHeld' BY <2>1 DEF Write, Valid, EnvelopeHeld
  <2>4. FinishedReleases' BY <2>1, WriteReleases
  <2>5. QED BY <2>2, <2>3, <2>4 DEF IInv
<1>2. CASE UNCHANGED vars
  BY <1>2 DEF vars, IInv, TypeOK, EnvelopeHeld, FinishedReleases, ChainAt
<1>3. QED BY <1>1, <1>2

LEMMA InvAlways == Spec => []IInv
BY InitInv, StepInv, PTL DEF Spec

\* The registry on disk is always one the next reader accepts.
THEOREM EnvelopeAlwaysHeld == Spec => []EnvelopeHeld
<1>1. IInv => EnvelopeHeld BY DEF IInv
<1>2. QED BY <1>1, InvAlways, PTL

\* A session at the last revision of finished work is released from it.
THEOREM FinishedWorkReleases == Spec => []FinishedReleases
<1>1. IInv => FinishedReleases BY DEF IInv
<1>2. QED BY <1>1, InvAlways, PTL

-----------------------------------------------------------------------------
(* No peer can wedge a session *)

\* A chain other than a superseded one is written only while it is active.
LEMMA WrittenFacts ==
    ASSUME TypeOK, NEW k, NEW s, NEW c, GoodCall(k, s, c), NEW a \in Auths,
           IsWritten(k, s, c, a)
    PROVE  /\ a = s.auth /\ c \in ChainStates /\ c.status \in {"active", "complete"}
           /\ chains[a] # NoChain =>
                /\ chains[a].status = "active"
                /\ c.root = chains[a].root
                /\ EvidenceKept(chains[a], c)
                /\ c = chains[a] \/ c.rev = chains[a].rev + 1
           /\ chains[a] = NoChain => c.rev = 1 /\ c.status = "active"
BY DEF IsWritten, GoodCall, Rules, Admitted, ChainWriteAllowed, ChainStates

LEMMA CallKeepsSuccessors ==
    ASSUME IInv, NEW k, NEW s, NEW c, GoodCall(k, s, c), c.succ = NoAuth
    PROVE  SuccessorsKnown(NewChains(k, s, c)) /\ SuccessorsAcyclic(NewChains(k, s, c))
<1> DEFINE ch == NewChains(k, s, c)
<1>0. TypeOK /\ SuccessorsKnown(chains) /\ SuccessorsAcyclic(chains)
  BY DEF IInv, EnvelopeHeld, Envelope
<1>1. ASSUME NEW a \in Auths, IsSuperseded(k, s, c, a)
      PROVE  /\ ch[a].status = "superseded" /\ ch[a].succ = s.auth
             /\ s.auth \in Auths \ {a} /\ IsWritten(k, s, c, s.auth) /\ ch[s.auth] = c
             /\ c.status = "active"
  <2>1. s.auth \in Auths /\ s.auth # a /\ c \in ChainStates /\ c.status = "active"
        /\ chains[a] \in ChainStates
    BY <1>0, <1>1, SupersedesFacts DEF IsSuperseded, TypeOK, NoChain
  <2>2. ch[a] = SupersededBy(chains[a], s.auth) BY <1>1, ChainAfterCall
  <2>3. IsWritten(k, s, c, s.auth)
    BY <1>1, <2>1 DEF IsWritten, IsSuperseded, ChainStates, NoChain
  <2>4. ch[s.auth] = c BY <2>1, <2>3, ChainAfterCall
  <2>5. QED BY <2>1, <2>2, <2>3, <2>4, SupersededFields
<1>2. ASSUME NEW a \in Auths, IsWritten(k, s, c, a)
      PROVE  ch[a] = c /\ c.status \in {"active", "complete"}
  BY <1>0, <1>2, ChainAfterCall, WrittenFacts
<1>3. ASSUME NEW a \in Auths, ~IsSuperseded(k, s, c, a), ~IsWritten(k, s, c, a)
      PROVE  ch[a] = chains[a]
  BY <1>3, ChainAfterCall
<1> HIDE DEF ch
<1>4. \A a \in Auths : chains[a].status # "absent" => ch[a].status # "absent"
  BY <1>1, <1>2, <1>3
<1>5. SuccessorsKnown(ch)
  <2> SUFFICES ASSUME NEW a \in Auths
               PROVE  IF ch[a].status = "superseded"
                      THEN ch[a].succ \in Auths \ {a} /\ ch[ch[a].succ].status # "absent"
                      ELSE ch[a].succ = NoAuth
    BY DEF SuccessorsKnown
  <2>1. CASE IsSuperseded(k, s, c, a) BY <2>1, <1>1
  <2>2. CASE IsWritten(k, s, c, a) BY <2>2, <1>2
  <2>3. CASE ~IsSuperseded(k, s, c, a) /\ ~IsWritten(k, s, c, a)
    BY <2>3, <1>0, <1>3, <1>4 DEF SuccessorsKnown
  <2>4. QED BY <2>1, <2>2, <2>3
<1>6. SuccessorsAcyclic(ch)
  <2> SUFFICES ASSUME NEW A \in SUBSET Auths, A # {}
               PROVE  \E a \in A : ch[a].succ \notin A
    BY DEF SuccessorsAcyclic
  <2>1. CASE \E a \in A : IsWritten(k, s, c, a)
    BY <2>1, <1>2, RegistryAssumption
  <2>2. CASE \A a \in A : ~IsWritten(k, s, c, a)
    <3>1. PICK a \in A : chains[a].succ \notin A BY <1>0 DEF SuccessorsAcyclic
    <3>2. CASE IsSuperseded(k, s, c, a) BY <3>2, <2>2, <1>1
    <3>3. CASE ~IsSuperseded(k, s, c, a) BY <3>1, <3>3, <2>2, <1>3
    <3>4. QED BY <3>2, <3>3
  <2>3. QED BY <2>1, <2>2
<1>7. QED BY <1>5, <1>6 DEF ch

LEMMA CallKeepsRoots ==
    ASSUME IInv, NEW k, NEW s, NEW c, GoodCall(k, s, c), OwnPartValid(k, s, c)
    PROVE  ActiveRootsUnique(NewChains(k, s, c))
<1> DEFINE ch == NewChains(k, s, c)
<1>0. TypeOK /\ ActiveRootsUnique(chains) BY DEF IInv, EnvelopeHeld, Envelope
<1> SUFFICES ASSUME NEW a \in Auths, NEW b \in Auths, ch[a].status = "active",
                    ch[b].status = "active", ch[a].root = ch[b].root
             PROVE  a = b
  BY DEF ActiveRootsUnique
<1>1. ASSUME NEW x \in Auths, ch[x].status = "active" PROVE ~IsSuperseded(k, s, c, x)
  <2> SUFFICES ASSUME IsSuperseded(k, s, c, x) PROVE FALSE OBVIOUS
  <2>1. chains[x] \in ChainStates /\ s.auth \in Auths
    BY <1>0, SupersedesFacts DEF IsSuperseded, TypeOK, NoChain
  <2>2. ch[x].status = "superseded" BY <2>1, ChainAfterCall, SupersededFields
  <2>3. QED BY <2>2, <1>1
<1>2. ASSUME NEW x \in Auths, NEW y \in Auths, IsWritten(k, s, c, x),
             ch[x].root = ch[y].root, ch[y].status = "active"
      PROVE  x = y
  <2>1. ch[x] = c /\ x = s.auth /\ c # NoChain
    BY <1>2, ChainAfterCall DEF IsWritten
  <2>2. QED BY <1>2, <2>1 DEF OwnPartValid
<1>3. CASE IsWritten(k, s, c, a) BY <1>2, <1>3
<1>4. CASE IsWritten(k, s, c, b) BY <1>2, <1>4
<1>5. CASE ~IsWritten(k, s, c, a) /\ ~IsWritten(k, s, c, b)
  <2>1. ch[a] = chains[a] /\ ch[b] = chains[b] BY <1>1, <1>5, ChainAfterCall
  <2>2. QED BY <1>0, <2>1 DEF ActiveRootsUnique
<1>6. QED BY <1>3, <1>4, <1>5

LEMMA CallKeepsHolders ==
    ASSUME IInv, NEW k, NEW s, NEW c, GoodCall(k, s, c), OwnPartValid(k, s, c),
           NEW j \in Sessions
    PROVE  HoldsCurrentChain(NewChains(k, s, c), NewSessions(k, s, c)[j])
<1> DEFINE ch == NewChains(k, s, c)
           p == sessions[j]
           t == NewSessions(k, s, c)[j]
<1>0. TypeOK /\ HoldsCurrentChain(chains, p) /\ p \in SessionStates
  BY DEF IInv, EnvelopeHeld, Envelope, TypeOK
<1>1. CASE j = k BY <1>1, SessionAfterCall DEF OwnPartValid
<1>2. CASE IsMoved(k, s, c, j)
  <2>1. /\ p.auth \in Auths /\ p.auth = sessions[k].auth /\ chains[p.auth].status = "active"
        /\ s.auth \in Auths /\ s.auth # p.auth
        /\ c \in ChainStates /\ c.status = "active" /\ c # NoChain /\ c.rev = 1
    BY <1>0, <1>2, SupersedesFacts DEF IsMoved, NoChain, ChainStates
  <2>2. IsWritten(k, s, c, s.auth) BY <2>1 DEF IsWritten, IsSuperseded
  <2>3. ch[s.auth] = c BY <2>1, <2>2, ChainAfterCall
  <2>4. t = Moved(p, s.auth, c.rev) BY <1>2, SessionAfterCall
  <2>5. /\ t.auth = s.auth /\ t.crev = c.rev /\ t.mode = p.mode
        /\ t.decision = IF p.decision = NoAuth THEN NoAuth ELSE s.auth
    BY <1>0, <2>1, <2>4, MovedFields
  <2>6. p.mode # "complete" BY <1>0, <2>1, RegistryAssumption DEF HoldsCurrentChain
  <2> HIDE DEF ch, t, p
  <2>7. QED BY <2>1, <2>3, <2>5, <2>6 DEF HoldsCurrentChain, ch, t
<1>3. CASE j # k /\ ~IsMoved(k, s, c, j)
  <2>1. t = p BY <1>3, SessionAfterCall
  <2>2. CASE p.auth = NoAuth BY <2>1, <2>2 DEF HoldsCurrentChain
  <2>3. CASE p.auth # NoAuth
    <3>1. p.auth \in Auths /\ chains[p.auth] # NoChain /\ chains[p.auth] \in ChainStates
      BY <1>0, <2>3 DEF SessionStates, HoldsCurrentChain, NoChain, TypeOK
    <3>2. ~IsSuperseded(k, s, c, p.auth) BY <1>3 DEF IsSuperseded, IsMoved
    <3>3. CASE IsWritten(k, s, c, p.auth)
      <4>1. ch[p.auth] = c BY <3>1, <3>3, ChainAfterCall
      <4>2. /\ c \in ChainStates /\ c.status \in {"active", "complete"}
            /\ chains[p.auth].status = "active"
            /\ c = chains[p.auth] \/ c.rev = chains[p.auth].rev + 1
        BY <1>0, <3>1, <3>3, WrittenFacts
      <4>3. chains[p.auth].rev <= c.rev /\ p.crev <= chains[p.auth].rev
            /\ p.mode # "complete" /\ (p.decision # NoAuth => p.decision = p.auth)
        BY <1>0, <2>3, <3>1, <4>2 DEF HoldsCurrentChain, ChainStates
      <4>4. p.crev <= c.rev BY <1>0, <3>1, <4>2, <4>3 DEF ChainStates, SessionStates
      <4>5. QED BY <2>1, <4>1, <4>2, <4>3, <4>4 DEF HoldsCurrentChain
    <3>4. CASE ~IsWritten(k, s, c, p.auth)
      <4>1. ch[p.auth] = chains[p.auth] BY <3>1, <3>2, <3>4, ChainAfterCall
      <4>2. QED BY <1>0, <2>1, <4>1 DEF HoldsCurrentChain
    <3>5. QED BY <3>3, <3>4
  <2>4. QED BY <2>2, <2>3
<1>4. QED BY <1>1, <1>2, <1>3 DEF IsMoved

\* A write that keeps the rules and is right in its own part is never refused for
\* what another session or another chain holds: no session can wedge a peer.
THEOREM NoPeerWedges == Spec => []PeersNeverBlockAWrite
<1>1. IInv => PeersNeverBlockAWrite
  <2> SUFFICES ASSUME IInv, NEW k \in Sessions, NEW rev \in Revisions,
                      NEW a \in Auths \cup {NoAuth}, NEW c \in ChainInputs,
                      NEW s \in SessionInputs(rev, a),
                      Rules(k, s, c), OwnPartValid(k, s, c)
               PROVE  Valid(k, s, c)
    BY DEF PeersNeverBlockAWrite
  <2>1. GoodCall(k, s, c) BY InputsWellFormed DEF GoodCall
  <2>2. c.succ = NoAuth BY DEF ChainInputs, NoChain
  <2>3. \A j \in Sessions : HoldsCurrentChain(NewChains(k, s, c), NewSessions(k, s, c)[j])
    BY <2>1, CallKeepsHolders
  <2>4. QED
    BY <2>1, <2>2, <2>3, CallKeepsSuccessors, CallKeepsRoots DEF Valid, Envelope
<1>2. QED BY <1>1, InvAlways, PTL

-----------------------------------------------------------------------------
(* What a step may change *)

\* The value of every chain after a write, in terms of its value before.
LEMMA ChainChange ==
    ASSUME TypeOK, NEW k, NEW s, NEW c, GoodCall(k, s, c), Write(k, s, c), NEW a \in Auths
    PROVE  \/ /\ IsSuperseded(k, s, c, a)
              /\ chains[a].status = "active" /\ chains'[a].status = "superseded"
              /\ chains'[a].rev = chains[a].rev + 1
              /\ chains'[a].succ = s.auth
              /\ chains'[a].root = chains[a].root
              /\ chains'[a].evidence = chains[a].evidence
           \/ /\ a = s.auth /\ chains'[a] = c
              /\ chains[a] # NoChain =>
                    /\ chains[a].status = "active"
                    /\ c.root = chains[a].root
                    /\ EvidenceKept(chains[a], c)
              /\ c = chains[a] \/ c.rev = chains[a].rev + 1
           \/ chains'[a] = chains[a]
<1>1. CASE IsSuperseded(k, s, c, a)
  <2>1. chains[a] \in ChainStates /\ chains[a].status = "active" /\ s.auth \in Auths
    BY <1>1, SupersedesFacts DEF IsSuperseded, TypeOK, NoChain
  <2>2. chains'[a] = SupersededBy(chains[a], s.auth) BY <1>1, ChainAfterWrite
  <2>3. QED BY <1>1, <2>1, <2>2, SupersededFields
<1>2. CASE IsWritten(k, s, c, a)
  <2>1. chains'[a] = c BY <1>2, ChainAfterWrite
  <2>2. chains[a] = NoChain => c.rev = chains[a].rev + 1
    BY <1>2, WrittenFacts DEF NoChain
  <2>3. QED BY <1>2, <2>1, <2>2, WrittenFacts
<1>3. CASE ~IsSuperseded(k, s, c, a) /\ ~IsWritten(k, s, c, a)
  BY <1>3, ChainAfterWrite
<1>4. QED BY <1>1, <1>2, <1>3

\* A peer that changes was moved to its chain's successor.
LEMMA PeerChange ==
    ASSUME TypeOK, NEW k, NEW s, NEW c, GoodCall(k, s, c), Write(k, s, c),
           NEW j \in Sessions, j # k, sessions'[j] # sessions[j]
    PROVE  /\ sessions[j].auth \in Auths
           /\ chains[sessions[j].auth].status = "active"
           /\ chains'[sessions[j].auth].status = "superseded"
           /\ chains'[sessions[j].auth].succ = s.auth
           /\ s.auth \in Auths /\ chains'[s.auth] = c /\ c.rev \in Nat
           /\ sessions'[j] = Moved(sessions[j], s.auth, c.rev)
<1>1. IsMoved(k, s, c, j) BY SessionAfterWrite
<1>2. sessions'[j] = Moved(sessions[j], s.auth, c.rev) BY <1>1, SessionAfterWrite
<1>3. /\ sessions[j].auth \in Auths /\ s.auth \in Auths /\ s.auth # sessions[j].auth
      /\ sessions[j].auth = sessions[k].auth
      /\ c.rev \in Nat /\ c # NoChain
      /\ chains[sessions[j].auth] \in ChainStates
      /\ chains[sessions[j].auth].status = "active"
  BY <1>1, SupersedesFacts DEF IsMoved, ChainStates, NoChain, TypeOK
<1>4. IsSuperseded(k, s, c, sessions[j].auth) /\ IsWritten(k, s, c, s.auth)
  BY <1>1, <1>3 DEF IsMoved, IsSuperseded, IsWritten
<1>5. chains'[sessions[j].auth] = SupersededBy(chains[sessions[j].auth], s.auth)
      /\ chains'[s.auth] = c
  BY <1>3, <1>4, ChainAfterWrite
<1>6. QED BY <1>2, <1>3, <1>5, SupersededFields

\* Every change of a session or a chain raises its revision by one, a peer moved
\* by a transition and the chain it superseded included: a caller that finds the
\* revisions it read unchanged finds the values unchanged too.
THEOREM RevisionsNameEveryValue == Spec => RevisionsNameValues
<1>1. IInv /\ [Next]_vars => [RevisionsRise]_vars
  <2> SUFFICES ASSUME IInv, Next PROVE RevisionsRise OBVIOUS
  <2>1. PICK k, s, c : GoodCall(k, s, c) /\ Write(k, s, c) BY StepIsWrite
  <2>2. TypeOK BY DEF IInv
  <2>3. \A j \in Sessions :
            sessions'[j] # sessions[j] => sessions'[j].rev = sessions[j].rev + 1
    <3> SUFFICES ASSUME NEW j \in Sessions, sessions'[j] # sessions[j]
                 PROVE  sessions'[j].rev = sessions[j].rev + 1
      OBVIOUS
    <3>1. CASE j = k
      BY <2>1, <3>1, SessionAfterWrite DEF GoodCall, Rules, Admitted, SessionAdvances
    <3>2. CASE j # k
      BY <2>1, <2>2, <3>2, PeerChange, MovedFields DEF TypeOK
    <3>3. QED BY <3>1, <3>2
  <2>4. \A a \in Auths : chains'[a] # chains[a] => chains'[a].rev = chains[a].rev + 1
    BY <2>1, <2>2, ChainChange
  <2>5. QED BY <2>3, <2>4 DEF RevisionsRise
<1>2. QED BY <1>1, InvAlways, PTL DEF Spec, RevisionsNameValues

\* Finished and superseded chains are final, a chain keeps its root for life, and
\* open evidence is closed only together with a new record.
THEOREM ChainHistoryKept == Spec => ChainHistory
<1>1. IInv /\ [Next]_vars => [HistoryKept]_vars
  <2> SUFFICES ASSUME IInv, Next PROVE HistoryKept OBVIOUS
  <2>1. PICK k, s, c : GoodCall(k, s, c) /\ Write(k, s, c) BY StepIsWrite
  <2>2. TypeOK BY DEF IInv
  <2>3. QED BY <2>1, <2>2, ChainChange DEF HistoryKept, EvidenceKept
<1>2. QED BY <1>1, InvAlways, PTL DEF Spec, ChainHistory

\* A session leaves a chain for its successor or because the work was complete.
THEOREM ChainsLeftByRule == Spec => ChainsAreLeftByRule
<1>1. IInv /\ [Next]_vars => [LeftByRule]_vars
  <2> SUFFICES ASSUME IInv, Next, NEW j \in Sessions, sessions[j].auth # NoAuth,
                      sessions'[j].auth # sessions[j].auth
               PROVE  \/ /\ chains[sessions[j].auth].status = "active"
                         /\ chains'[sessions[j].auth].status = "superseded"
                         /\ chains'[sessions[j].auth].succ = sessions'[j].auth
                         /\ sessions'[j].crev = chains'[sessions'[j].auth].rev
                      \/ /\ sessions'[j].auth = NoAuth /\ sessions[j].mode = "complete"
                         /\ chains[sessions[j].auth].status = "complete"
    BY DEF LeftByRule
  <2>1. PICK k, s, c : GoodCall(k, s, c) /\ Write(k, s, c) BY StepIsWrite
  <2>2. TypeOK /\ HoldsCurrentChain(chains, sessions[j])
    BY DEF IInv, EnvelopeHeld, Envelope
  <2>3. CASE j # k
    <3>1. sessions'[j] # sessions[j] /\ sessions[j] \in SessionStates BY <2>2 DEF TypeOK
    <3>2. QED BY <2>1, <2>2, <2>3, <3>1, PeerChange, MovedFields
  <2>4. CASE j = k
    <3>1. sessions'[j] = s BY <2>1, <2>4, SessionAfterWrite
    <3>2. sessions[k].auth \in Auths /\ Current(k) = chains[sessions[k].auth]
          /\ Current(k) # NoChain
      BY <2>2, <2>4 DEF TypeOK, SessionStates, Current, ChainAt, HoldsCurrentChain, NoChain
    <3>3. CASE Reentry(k, s, c)
      BY <2>1, <2>4, <3>1, <3>2, <3>3 DEF Reentry, GoodCall, SessionValid
    <3>4. CASE ~Reentry(k, s, c)
      <4>1. Supersedes(k, s, c) BY <2>4, <3>1, <3>2, <3>4 DEF Supersedes
      <4>2. s.auth \in Auths /\ chains[sessions[k].auth] \in ChainStates
            /\ chains[sessions[k].auth].status = "active"
        BY <2>1, <2>2, <3>2, <4>1, SupersedesFacts DEF TypeOK, NoChain
      <4>3. chains'[sessions[k].auth] = SupersededBy(chains[sessions[k].auth], s.auth)
        BY <2>1, <3>2, <4>1, ChainAfterWrite DEF IsSuperseded
      <4>4. s.crev = chains'[s.auth].rev
        BY <2>1, <4>2, RegistryAssumption DEF GoodCall, Rules, Reconciled, Write
      <4>5. QED BY <2>4, <3>1, <4>2, <4>3, <4>4, SupersededFields
    <3>5. QED BY <3>3, <3>4
  <2>5. QED BY <2>3, <2>4
<1>2. QED BY <1>1, InvAlways, PTL DEF Spec, ChainsAreLeftByRule

\* A write leaves every peer its mode, its turns and its question.
THEOREM PeersKeepTheirOwn == Spec => PeersKeepTheirState
<1>1. IInv /\ [Next]_vars => [PeersKept]_vars
  <2> SUFFICES ASSUME IInv, Next PROVE PeersKept OBVIOUS
  <2>1. PICK k, s, c : GoodCall(k, s, c) /\ Write(k, s, c) BY StepIsWrite
  <2>2. TypeOK BY DEF IInv
  <2>3. ASSUME NEW j \in Sessions \ {k}, sessions'[j] # sessions[j]
        PROVE  /\ sessions[j].auth # NoAuth
               /\ chains[sessions[j].auth].status # "superseded"
               /\ chains'[sessions[j].auth].status = "superseded"
               /\ sessions'[j].mode = sessions[j].mode
               /\ sessions'[j].rest = sessions[j].rest
               /\ sessions'[j].decision = NoAuth <=> sessions[j].decision = NoAuth
    BY <2>1, <2>2, <2>3, PeerChange, MovedFields, RegistryAssumption DEF TypeOK
  <2>4. k \in Sessions BY <2>1 DEF GoodCall
  <2>5. QED BY <2>3, <2>4 DEF PeersKept
<1>2. QED BY <1>1, InvAlways, PTL DEF Spec, PeersKeepTheirState
=============================================================================
