----------------------------- MODULE Installer -----------------------------
(***************************************************************************)
(* Installation and synchronization of a consumer repository: the plan     *)
(* build_plan makes of a release and of what is in the repository, and     *)
(* apply_plan, which writes it file by file, the state file last, and      *)
(* rolls back what it wrote when a write fails.                            *)
(*                                                                         *)
(* The user edits files at any moment, a write fails before or after it    *)
(* took effect, and the installer is killed between any two steps.  The    *)
(* comparison of a file with the plan and the write that follows are two   *)
(* steps, as in the code: an edit between them is not seen.                *)
(*                                                                         *)
(* Targets are installed as copies; what a merge into a managed block or a *)
(* JSON document keeps of the user's is not a matter of this module.       *)
(***************************************************************************)
EXTENDS Naturals, Sequences, FiniteSets

CONSTANTS
    Targets,    \* the paths artifacts are installed at
    Paths,      \* the targets in path order, each of them once
    Releases,
    Copies,     \* the texts of artifacts
    Ships,      \* per release: the text of each target it ships
    Retires,    \* per release: targets of earlier releases, to be removed
    Runs,       \* bound: runs of the installer
    Edits,      \* bound: edits by the user
    Windows,    \* whether files are replaced as on Windows
    StateFile, Absent, Edited

States == [release : Releases, owned : [Targets -> Copies \cup {Absent}]]

ASSUME InstallerAssumption ==
    /\ Paths \in Seq(Targets)
    /\ \A f \in Targets : \E i \in DOMAIN Paths : Paths[i] = f
    /\ \A i, j \in DOMAIN Paths : Paths[i] = Paths[j] => i = j
    /\ Ships \in [Releases -> UNION {[S -> Copies] : S \in SUBSET Targets}]
    /\ Retires \in [Releases -> SUBSET Targets]
    /\ \A r \in Releases : Retires[r] \cap DOMAIN Ships[r] = {}
    /\ Runs \in Nat /\ Edits \in Nat /\ Windows \in BOOLEAN
    /\ StateFile \notin Targets /\ {Absent, Edited} \cap Copies = {} /\ Absent # Edited
    /\ Absent \notin States

VARIABLES
    file,    \* what every target and the state file hold
    run,     \* the running installer, or how the last one ended
    runs,    \* runs so far
    edits    \* edits so far

vars == <<file, run, runs, edits>>

-----------------------------------------------------------------------------
(* The plan. A target holds the text of an artifact, what the user made of   *)
(* it, or nothing. The state file holds the release and, per target, the     *)
(* text that was installed.                                                  *)

Texts == Copies \cup {Absent, Edited}

Shipped(r) == DOMAIN Ships[r]

Owned == IF file[StateFile] = Absent THEN [f \in Targets |-> Absent]
         ELSE file[StateFile].owned

\* mutant of CopyConflict: a copy that is the desired one already is not accepted
CopyConflictEver(f, r) == file[f] # Owned[f]

\* A missing copy that is owned, or one that is neither the desired text nor the
\* one that was installed.
CopyConflict(f, r) ==
    IF file[f] = Absent THEN Owned[f] # Absent
    ELSE file[f] # Ships[r][f] /\ (Owned[f] = Absent \/ file[f] # Owned[f])

\* Only what the toolkit installed and nobody changed is removed.
RetiredConflict(f) == file[f] # Absent /\ file[f] # Owned[f]

\* A target of an earlier release that this one neither ships nor retires.
Omitted(f, r) == Owned[f] # Absent /\ f \notin Shipped(r) \cup Retires[r]

Conflicts(op, r) ==
    {f \in Shipped(r) : CopyConflict(f, r)} \cup {f \in Retires[r] : RetiredConflict(f)}
    \cup {f \in Targets : Omitted(f, r)}
    \cup (IF (op = "install") = (file[StateFile] = Absent) THEN {} ELSE {StateFile})

Change(f, after) == [target |-> f, before |-> file[f], after |-> after]

NextState(r) ==
    [release |-> r,
     owned |-> [f \in Targets |-> IF f \in Shipped(r) THEN Ships[r][f] ELSE Absent]]

Place(f) == CHOOSE i \in DOMAIN Paths : Paths[i] = f

\* The members of S in path order.
InOrder(S) ==
    CHOOSE fs \in [1 .. Cardinality(S) -> S] :
        \A i, j \in DOMAIN fs : i < j => Place(fs[i]) < Place(fs[j])

Removals(r) ==
    LET fs == InOrder({f \in Retires[r] : Owned[f] # Absent})
    IN  [i \in DOMAIN fs |-> Change(fs[i], Absent)]

Updates(r) ==
    LET fs == InOrder({f \in Shipped(r) : file[f] # Ships[r][f]})
    IN  [i \in DOMAIN fs |-> Change(fs[i], Ships[r][fs[i]])]

StateChange(r) ==
    IF file[StateFile] = NextState(r) THEN <<>> ELSE <<Change(StateFile, NextState(r))>>

\* mutant of Changes: the state file is written first
ChangesStateFirst(r) == StateChange(r) \o Removals(r) \o Updates(r)

Changes(r) == Removals(r) \o Updates(r) \o StateChange(r)

-----------------------------------------------------------------------------
(* A run. next: the change at hand, applied: those to roll back, failures:   *)
(* whether the rollback reported any, start: the files the plan was made of; *)
(* raced: the user edited the file at hand between its comparison and its    *)
(* write, touched: the user edited anything since the plan.                  *)

NoRun == [pc |-> "idle", said |-> "none", op |-> "install", release |-> Absent,
          plan |-> <<>>, next |-> 1, applied |-> <<>>, failures |-> FALSE,
          start |-> [f \in Targets \cup {StateFile} |-> Absent],
          raced |-> FALSE, touched |-> FALSE]

Plan(op, r) ==
    /\ run.pc = "idle" /\ runs < Runs
    /\ Conflicts(op, r) = {}
    /\ run' = [NoRun EXCEPT !.pc = "check", !.op = op, !.release = r,
                            !.plan = Changes(r), !.start = file]
    /\ runs' = runs + 1
    /\ UNCHANGED <<file, edits>>

\* The file still is what the plan was made of.
Unchanged(c) == file[c.target] = c.before

Finish(said) == run' = [run EXCEPT !.pc = "idle", !.said = said]

\* All the files are compared before the first is written.
Check ==
    /\ run.pc = "check"
    /\ IF \A i \in DOMAIN run.plan : Unchanged(run.plan[i])
       THEN run' = [run EXCEPT !.pc = "verify"]
       ELSE Finish("failed")
    /\ UNCHANGED <<file, runs, edits>>

Verify ==
    /\ run.pc = "verify"
    /\ IF run.next > Len(run.plan) THEN Finish("ok")
       ELSE run' = [run EXCEPT !.pc = IF Unchanged(run.plan[run.next]) THEN "write" ELSE "back",
                               !.raced = FALSE]
    /\ UNCHANGED <<file, runs, edits>>

\* What a failed write that is not reported as done leaves: the file as it was. On
\* Windows a replacement whose parent check fails afterwards is unlinked.
Left(c) == {file[c.target]} \cup (IF Windows /\ c.after # Absent THEN {Absent} ELSE {})

\* mutant of ToRollBack: a write that failed is never rolled back
RolledBackIfDone(c) == run.applied

\* A failed write is rolled back too if it took.
ToRollBack(c) == Append(run.applied, c)

\* Through a temporary file; a removal moves the file away first.
Write ==
    LET c == run.plan[run.next] IN
    /\ run.pc = "write"
    /\ UNCHANGED <<runs, edits>>
    /\ \/ /\ file' = [file EXCEPT ![c.target] = c.after]
          /\ run' = [run EXCEPT !.pc = "verify", !.next = @ + 1, !.applied = Append(@, c)]
       \/ /\ \E left \in Left(c) : file' = [file EXCEPT ![c.target] = left]
          /\ run' = [run EXCEPT !.pc = "back"]
       \/ /\ file' = [file EXCEPT ![c.target] = c.after]
          /\ run' = [run EXCEPT !.pc = "back", !.applied = ToRollBack(c)]

Last == run.applied[Len(run.applied)]
Pop(s) == SubSeq(s, 1, Len(s) - 1)
Undo(c) == [target |-> c.target, before |-> c.after, after |-> c.before]

\* mutant of Restorable: a rollback restores whatever it finds
RestorableEver(c) == c.target \in DOMAIN file

\* A rollback restores a file only while it holds what this run wrote.
Restorable(c) == file[c.target] = c.after

Back ==
    /\ run.pc = "back"
    /\ IF run.applied = <<>> THEN Finish("failed")
       ELSE IF Restorable(Last) THEN run' = [run EXCEPT !.pc = "restore", !.raced = FALSE]
       ELSE run' = [run EXCEPT !.applied = Pop(@), !.failures = TRUE]
    /\ UNCHANGED <<file, runs, edits>>

Restore ==
    /\ run.pc = "restore"
    /\ UNCHANGED <<runs, edits>>
    /\ \/ /\ file' = [file EXCEPT ![Last.target] = Last.before]
          /\ run' = [run EXCEPT !.pc = "back", !.applied = Pop(@)]
       \/ /\ \E left \in Left(Undo(Last)) \cup {Last.before} :
                file' = [file EXCEPT ![Last.target] = left]
          /\ run' = [run EXCEPT !.pc = "back", !.applied = Pop(@), !.failures = TRUE]

Kill ==
    /\ run.pc # "idle"
    /\ Finish("killed")
    /\ UNCHANGED <<file, runs, edits>>

AtHand ==
    CASE run.pc = "write" -> {run.plan[run.next].target}
      [] run.pc = "restore" -> {Last.target}
      [] OTHER -> {}

\* The user changes or removes a target.
Edit(f) ==
    /\ edits < Edits
    /\ \E text \in {Edited, Absent} \ {file[f]} : file' = [file EXCEPT ![f] = text]
    /\ edits' = edits + 1
    /\ run' = [run EXCEPT !.touched = TRUE, !.raced = @ \/ f \in AtHand]
    /\ UNCHANGED runs

Init ==
    /\ file = [f \in Targets \cup {StateFile} |-> Absent]
    /\ run = NoRun
    /\ runs = 0
    /\ edits = 0

Next ==
    \/ \E op \in {"install", "sync"}, r \in Releases : Plan(op, r)
    \/ Check \/ Verify \/ Write \/ Back \/ Restore \/ Kill
    \/ \E f \in Targets : Edit(f)

Spec == Init /\ [][Next]_vars

-----------------------------------------------------------------------------
(* Properties *)

\* What the user made of a file is overwritten only when the edit came between
\* the comparison and the write: neither by the plan, nor by a later write of the
\* same run, nor by a rollback (_rollback: "concurrent change preserved").
EditsAreKept ==
    [][\A f \in Targets :
        file[f] = Edited /\ file'[f] # Edited /\ edits' = edits => run.raced]_vars

\* A run that failed, reports no failure of its rollback and met no edit leaves
\* every file as the plan found it (test_installer.py: "Atomic application
\* preserves planned bytes or restores them on failure").
FailureRestores ==
    run.said = "failed" /\ ~run.failures /\ ~run.touched => file = run.start

\* The state file never claims what is not there: when it is written, every
\* target it owns holds the text it names, unless the user edited meanwhile.
StateClaimsTruth ==
    [][file'[StateFile] \notin {file[StateFile], Absent} /\ run.pc = "write" /\ ~run.touched =>
        \A f \in Targets :
            LET owned == file'[StateFile].owned[f] IN owned # Absent => file[f] = owned]_vars

\* An interrupted run can be run again: whatever was written when the installer
\* was killed, in the middle of a rollback too, a second run of the same operation
\* meets no conflict, or has nothing left to do. A run whose rollback failed is
\* left out: when the state file is not restored, the copies it claims still are.
InterruptedRunsComplete ==
    run.said \in {"killed", "failed"} /\ ~run.failures /\ ~run.touched =>
        \/ Conflicts(run.op, run.release) = {}
        \/ file[StateFile] = NextState(run.release) /\ Conflicts("sync", run.release) = {}
=============================================================================
