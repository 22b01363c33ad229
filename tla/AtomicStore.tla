---------------------------- MODULE AtomicStore ----------------------------
(***************************************************************************)
(* What the storage promises its callers, and all that Registry assumes of *)
(* it: a write happens at one moment or never, on top of every write       *)
(* before it, and the caller is not told a falsehood about it.             *)
(***************************************************************************)
EXTENDS Naturals, Sequences

CONSTANTS
    Procs,   \* callers, each of which makes one write
    Dirs,    \* state directories; one that was replaced does not come back
    Durable  \* whether an acknowledged write survives a power loss

VARIABLES
    log,     \* per directory: whose writes its registry holds, oldest first
    answer   \* what each caller was told; "none" for nothing yet

vars == <<log, answer>>

\* "unchanged" is an answer that excludes a write (stale, lock timeout); after
\* "unknown" (a failure, a killed process) the write may have been made or not.
Answers == {"none", "ok", "unchanged", "unknown"}

Made(p, d) == \E i \in DOMAIN log[d] : log[d][i] = p

Init ==
    /\ log = [d \in Dirs |-> <<>>]
    /\ answer = [p \in Procs |-> "none"]

Commit(p, d) ==
    /\ answer[p] = "none"
    /\ \A e \in Dirs : ~Made(p, e)
    /\ log' = [log EXCEPT ![d] = Append(@, p)]
    /\ UNCHANGED answer

Tell(p, a) ==
    /\ answer[p] = "none" /\ a # "none"
    /\ a = "ok" => \E d \in Dirs : Made(p, d)
    /\ a = "unchanged" => \A d \in Dirs : ~Made(p, d)
    /\ answer' = [answer EXCEPT ![p] = a]
    /\ UNCHANGED log

\* A power loss undoes the latest writes, none of them acknowledged if the store
\* is durable, and leaves the callers of the time with no answer to rely on.
Forget ==
    /\ \A d \in Dirs :
         /\ Len(log'[d]) <= Len(log[d])
         /\ log'[d] = SubSeq(log[d], 1, Len(log'[d]))
         /\ Durable => \A i \in Len(log'[d]) + 1 .. Len(log[d]) : answer[log[d][i]] # "ok"
    /\ \A p \in Procs :
         answer'[p] = answer[p] \/ (answer[p] = "none" /\ answer'[p] = "unknown")

Next ==
    \/ \E p \in Procs, d \in Dirs : Commit(p, d)
    \/ \E p \in Procs, a \in Answers : Tell(p, a)
    \/ Forget

Spec == Init /\ [][Next]_vars
=============================================================================
