---------------------------- MODULE MCLifecycle ----------------------------
(* Lifecycle for TLC: two sessions, and what each does in which run. *)
EXTENDS Lifecycle, TLC

CONSTANTS s1, s2

\* What a hook will still do.  While nothing was written to its session and its
\* chain, its snapshot is what the registry holds.  Once something was, every
\* write it makes fails, and a stop hook starts over if it has not done so yet.
HookSeen(k) ==
    LET h == hook[k] IN
    IF h.pc = "idle" THEN IF "echo" \in Prompts[k] THEN h.said ELSE "idle"
    ELSE IF Undisturbed(k) THEN [h EXCEPT !.snap = 0]
    ELSE IF h.pc \in PromptSteps THEN "finishing"
    ELSE IF h.pc = "refresh" \/ (h.pc = "publish" /\ h.retry) THEN "restarting"
    ELSE "giving up"

\* Session revisions grow without bound; a hook only asks whether the one it read
\* is still live, and one that was left never comes back.
Relevant ==
    <<chains, [k \in Sessions |-> [sessions[k] EXCEPT !.rev = 0]],
      [k \in Sessions |-> HookSeen(k)], turns, published>>

Symmetric == Permutations(Auths) \cup Permutations(Roots)

Each(x, y) == s1 :> x @@ s2 :> y

\* Peers: s1 ends its turns badly, waits or publishes while s2 publishes and completes.
PeersTurns == Each(2, 1)
PeersPrompts == Each({"track", "continue", "echo"}, {"track"})
PeersAgents ==
    Each({"wait", "pointer", "other", "continuation"}, {"continuation", "audit"})

\* Transition: s1 re-roots the work it shares with s2, which asks a question,
\* publishes and completes; the host interrupts s1.
TransitionTurns == Each(3, 1)
TransitionPrompts == Each({"yes", "no", "plain", "task"}, {"no"})
TransitionAgents ==
    Each({"register-root", "propose-transition", "request-decision"},
         {"join", "inspect", "request-decision", "decision", "continuation", "audit"})

\* One session alone: it publishes, proposes and asks; its user answers.
AloneTurns == Each(3, 0)
AlonePrompts == Each({"yes", "plain"}, {})
AloneAgents ==
    Each({"register-root", "propose-transition", "request-decision", "continuation"}, {})
=============================================================================
