------------------------------- MODULE Runner -------------------------------
(***************************************************************************)
(* The runner a managed command starts: it hands a hook to the runner of   *)
(* the session's checkout, or serves it with the package beside it, and    *)
(* owes the host one answer whatever the runtime does.                     *)
(*                                                                         *)
(* Runners run within one process, each inside the one that handed to it,  *)
(* and what a runner prints is captured by the one around it.  An output   *)
(* is what it amounts to: nothing, one JSON object, or anything else.      *)
(***************************************************************************)
EXTENDS Naturals, Sequences

CONSTANTS own, other, None

Runners == {own, other}

Recognised == {"gated", "quiet"}

\* event: what the arguments say, "none" if this is no hook invocation; target:
\* whom each runner's reading of the payload names; older: the other checkout
\* pins a runner of another release
Calls ==
    [event : Recognised \cup {"unknown", "none"}, readable : BOOLEAN,
     target : {t \in [Runners -> Runners \cup {None}] : \A r \in Runners : t[r] # r},
     older : BOOLEAN]

\* long: more than a capture holds; junk: neither silence nor one JSON object
Outputs == {"nothing", "object", "junk", "long"}

Results == {"zero", "status", "raised"}

ASSUME RunnerAssumption ==
    own # other /\ None \notin Runners \cup [text : Outputs, exit : Results]

VARIABLES
    call,      \* the invocation
    stack,     \* the runners that are running, the outermost first
    marker,    \* AHK_RUNNER_HANDOFF is set
    stdin,     \* "whole" until somebody read it and did not put it back
    package,   \* whose package sys.modules holds
    served,    \* the dispatches so far
    host       \* what the host got: [text, exit], None while nothing was said

vars == <<call, stack, marker, stdin, package, served, host>>

Frame(r) == [runner |-> r, at |-> "start", out |-> "nothing", result |-> "zero"]

Top == stack[Len(stack)]

SetTop(f) == stack' = [stack EXCEPT ![Len(stack)] = f]

Running(at) == host = None /\ Top.at = at

-----------------------------------------------------------------------------
(* Serving with one's own package. *)

\* The payload of a hook names the runner of another checkout.
Elsewhere == call.event # "none" /\ call.readable /\ call.target[Top.runner] # None

\* mutant of HandsOff: the second runner looks again
HandsOffAgain == Elsewhere

\* One hop: a runner that was handed a hook serves it.
HandsOff == Elsewhere /\ ~marker

ServeSelf ==
    /\ Running("start") /\ ~HandsOff
    /\ ~(Top.runner = other /\ call.older)
    /\ SetTop([Top EXCEPT !.at = "import"])
    /\ UNCHANGED <<call, marker, stdin, package, served, host>>

\* A module that is loaded already is not looked for again.
Imported == IF package = None THEN Top.runner ELSE package

Import ==
    /\ Running("import")
    /\ package' = Imported
    /\ \/ SetTop([Top EXCEPT !.at = "dispatch"])
       \/ \E noise \in {"nothing", "junk"} :
            SetTop([Top EXCEPT !.at = "finish", !.out = noise, !.result = "import"])
    /\ UNCHANGED <<call, marker, stdin, served, host>>

Dispatch ==
    /\ Running("dispatch")
    /\ \E out \in Outputs, result \in Results :
         /\ SetTop([Top EXCEPT !.at = "finish", !.out = out, !.result = result])
         /\ served' = Append(served, [by |-> Top.runner, package |-> package, stdin |-> stdin,
                                     out |-> out, result |-> result])
    /\ stdin' = "read"
    /\ UNCHANGED <<call, marker, package, host>>

\* _bootstrap_hook_failure
Notice == IF call.event = "gated" THEN "object" ELSE "nothing"

\* mutant of Sound: silence is taken for an answer whatever the status
SoundIfSilent(f) == f.out \in {"nothing", "object"}

\* One response, or silence of a dispatch that went well.
Sound(f) == f.out = "object" \/ (f.out = "nothing" /\ f.result = "zero")

\* What main leaves: text on its output and its exit.
Ending(f) ==
    IF call.event \in Recognised THEN
        [text |-> IF f.result \in {"import", "raised"} \/ ~Sound(f) THEN Notice ELSE f.out,
         exit |-> "zero"]
    ELSE [text |-> f.out, exit |-> IF f.result = "import" THEN "status" ELSE f.result]

Answer(ending) ==
    /\ host' = ending
    /\ UNCHANGED <<call, stack, marker, stdin, package, served>>

Finish == Running("finish") /\ Len(stack) = 1 /\ Answer(Ending(Top))

-----------------------------------------------------------------------------
(* Handing off. *)

\* The payload is read to find the checkout, and put back.
HandOff ==
    /\ Running("start") /\ HandsOff
    /\ marker' = TRUE
    /\ stack' = Append([stack EXCEPT ![Len(stack)].at = "waiting"],
                       Frame(call.target[Top.runner]))
    /\ stdin' = "whole"
    /\ UNCHANGED <<call, package, served, host>>

\* mutant of Restored: the other package stays
RestoredLoaded == marker' = FALSE /\ stdin' = "whole" /\ UNCHANGED package

Restored == marker' = FALSE /\ package' = None /\ stdin' = "whole"

\* The handed runner ended: its answer is published if it is one, and otherwise
\* the runner that handed off serves the hook as if it had not.
Return(ending) ==
    LET rest == SubSeq(stack, 1, Len(stack) - 1) IN
    /\ Restored
    /\ IF ending.exit = "zero" /\ ending.text \in {"nothing", "object"}
       THEN stack' = rest /\ host' = ending
       ELSE stack' = [rest EXCEPT ![Len(rest)].at = "import"] /\ UNCHANGED host
    /\ UNCHANGED <<call, served>>

GiveBack == Running("finish") /\ Len(stack) > 1 /\ Return(Ending(Top))

\* A runner of another release does anything before it ends.
Older ==
    /\ Running("start") /\ Top.runner = other /\ call.older
    /\ \E out \in Outputs, result \in Results :
         /\ Return([text |-> out, exit |-> result])

-----------------------------------------------------------------------------
Init ==
    /\ call \in Calls
    /\ stack = <<Frame(own)>> /\ marker = FALSE
    /\ stdin = "whole" /\ package = None
    /\ served = <<>> /\ host = None

Stopped == host # None /\ UNCHANGED vars

Next ==
    \/ ServeSelf \/ Import \/ Dispatch \/ Finish
    \/ HandOff \/ GiveBack \/ Older
    \/ Stopped

Spec == Init /\ [][Next]_vars

-----------------------------------------------------------------------------
(* Properties *)

Last == served[Len(served)]

\* For a hook event the host knows, the host reads one JSON object or silence and
\* exit status zero, however the runtime fails. Silence never stands in for a
\* decision: a gated hook is silent only if its last dispatch ended well and said
\* nothing, or the runner of another release was.
OneAnswer ==
    host # None /\ call.event \in Recognised =>
        /\ host.exit = "zero" /\ host.text \in {"nothing", "object"}
        /\ call.event = "gated" /\ host.text = "nothing" =>
             \/ served # <<>> /\ Last.out = "nothing" /\ Last.result = "zero"
             \/ call.older /\ call.target[own] = other

\* A hook is handed on once, and two runners serve it only one after the other:
\* the second when the first gave no answer that was published.
OneHop ==
    /\ Len(stack) <= 2 /\ Len(served) <= 2
    /\ Len(served) = 2 =>
         /\ served[1].by = other /\ served[2].by = own
         /\ ~(served[1].result = "zero" /\ served[1].out \in {"nothing", "object"})

\* Falling through leaves no trace of the other runner: whoever dispatches runs
\* the package beside it, on the payload from its first byte, and the marker is in
\* the environment only while the other runs, so nothing started later inherits it.
EachServesAlone ==
    /\ \A i \in DOMAIN served : served[i].package = served[i].by /\ served[i].stdin = "whole"
    /\ marker <=> Len(stack) > 1
=============================================================================
