# A TLA+ model of the agent hand-off toolkit

The toolkit keeps a coding agent's work resumable. Hooks of the host (Claude Code,
Codex) run the toolkit at every prompt, tool call and turn end. A shared *lifecycle
registry* remembers which work (a *chain* of published hand-off records with one
locked root) each host session is on. A session on a chain may only end its turn with
a hand-off record, a wait line or a pending question; otherwise the stop hook blocks.
An installer merges the hooks and skills into user-owned files.

This directory holds TLA+ modules translated from `src/src/agent_handoff_toolkit`, the
TLC configurations that check them on small instances, and proofs TLAPS checks.
`PROJECT.json` maps every definition to the lines it stands for.

Paths below are relative to `src/src/agent_handoff_toolkit/` unless they say otherwise.

## 1. The system

### Components

| Component | State | Operations | Correct when |
|---|---|---|---|
| Registry (`lifecycle_storage.py`: `RegistryEnvelope`, `_compare_and_swap_key`, `_apply`; `lifecycle.py`: `ChainState`, `SessionState`) | chains and sessions, each with a revision, in one JSON file | load, compare-and-swap | a writer never overwrites what it did not read; chains keep their history; a transition moves every peer; no peer's state blocks a writer |
| Locked storage (`lifecycle_storage.py`) | lock file, registry file, temporary file | lock with a shared deadline, read, write-rename-fsync | a crash leaves the old or the new registry; every waiter gets the lock or times out |
| Lifecycle policy (`lifecycle.py`) | none: decides from a snapshot and a message | `evaluate_user_prompt`, `evaluate_stop`, the correction circuit | a turn end is judged against the chain as it is; three own mistakes end in a policy failure |
| Lifecycle hooks (`hook_adapters.py`) | one process per event; a snapshot, the steps left | prompt hook, stop hook, tool hooks | a user's turn is recorded; a host's turn is no user's; peers' progress is not counted against a session |
| Lifecycle commands (`lifecycle_operations.py`, `cli.py`) | single-use credential bound to a session revision | register-root, join, resume, propose-transition, request-decision, inspect, one-off | work changes its root only by the user's adjacent yes |
| Records and lineage (`records.py`, `lineage.py`) | Markdown record files | parse, validate, successor check, render tails, scaffold a successor | the records of a work form one line with the scopes its user authorized; completion leaves nothing open |
| Render guard (`cli.py`) | a record file | render over an existing target | a published record is not overwritten |
| Installer (`installer.py`, `state.py`, `manifest.py`) | user files, install state file | plan, apply, roll back | failure restores what was there, and the state file claims only what is |
| Merge operations (`operations.py`) | content of one file | merge copy, block, JSON fragment; remove | the user's own keys and elements survive every sequence of merges |
| Runner and hand-off (`src/distribution/runner.py`, `launcher.py`) | the response of one hook | import, run, respond | exactly one response, at most one hop |
| Context advisory, status line (`context_window.py`, `hook_adapters.py`) | cached context window | notices, cache replace, prune | advisory only |
| Record hooks (`hooks.py`), acceptance harness (`acceptance.py`), repository digest (`repository_state.py`), adapters, templates, skills | none of the running system | | |

### Interaction

The host starts a process per event; nothing is shared but the registry file. A hook
reads one snapshot and then makes up to six separate compare-and-swaps, each from what
it read or last wrote. Between them the hooks of other sessions in any worktree of the
repository, tool hooks of the session itself and the agent's own control commands
write too. Every write names two revisions, the session's and its chain's; a stale
one changes nothing and the step is skipped (prompt hook) or retried once (stop hook).
The host may kill a hook, deliver a task notification as a prompt, and hand the text of
a block back as the next prompt.

### What is hard

Interleaved multi-step hooks over a shared file; state rewritten in a peer's entry; a
validation of the whole file at every write, so that one session's entry can refuse
everybody's; killed hooks; writes that are made and reported as failed; a counter that
must rise only for own mistakes and fall only for the user; two pending questions that
one word answers. `PROJECT.json` lists each hazard with its line and the properties
aimed at it.

## 2. Plan

Order of the modules, the most important behaviour first:

| # | Module | What | State |
|---|---|---|---|
| 1 | `Registry`, `RegistryProofs` | the compare-and-swap and what every caller can rely on | done, proved |
| 2 | `Lifecycle` (INSTANCEs `Registry` for every write), `LifecycleProofs` | prompt and stop hooks, commands, kills, failures; implements `Registry` | done, proved |
| 3 | `AtomicStore`, `LockedStorage`, `StorageProofs` | lock, deadline, secret, temporary file, rename, fsync, crash, replaced directory; implements `AtomicStore`; liveness: every call returns | done, safety proved |
| 4 | `Installer`, `InstallerProofs` | plan, preconditions, replacement, rollback under concurrent edits, failures and kills | done for copies, proved |
| 5 | `Merge`, `MergeProofs` | three-way merges of settings and marked blocks, the moved status line, user edits in between | done, proved |
| 6 | `Records`, `RecordsProofs` | what is accepted as the next record of a work; scaffold, render and its guard | done, proved |
| 7 | `Runner`, `RunnerProofs` | one answer per hook, one hop between runners | done, proved |
| 8 | `Induction` | induction over the natural numbers, for the proofs that need it | proved |

`Lifecycle` and `Records` look at the same Stop from two sides. In `Lifecycle` a record
is the chain and the predecessor it names, and the question is what interleaved,
killed and failing hooks do to the registry. In `Records` a Stop is one step and the
question is which texts it accepts; who may stop, and when, is left to `Lifecycle`.

`LifecycleProofs` uses the lemmas of `RegistryProofs`, of which it has an instance;
`InstallerProofs`, `MergeProofs` and `RecordsProofs` use `Induction`.

## 3. The modules

### Registry

State: `chains` and `sessions`, the two maps of `RegistryEnvelope`. Absence from the
file is status `"absent"` for a chain and the default entry for a session, as
`_snapshot` reads it. One action, `WriteBy(k)`: a caller asks for any session entry and
any chain the constructors accept. `Admitted`, `Reconciled` and `CompletionReleases`
are the rules of `_apply` in its order; `Envelope` is the validation that the new
`RegistryEnvelope` makes; `Outcome` says which of stale, refused and ok a call gets.
The step is atomic because `_compare_and_swap_key` reads, decides and replaces the file
under the lock: that is `AtomicStore`, which `LockedStorage` implements (run `storage`).

Abstractions: open and one-off sessions are one mode, `"ungated"`; the registry treats
them alike. What the rules never look into is opaque: `Rest` for a session's turns,
flags and counters, `Tags` for a chain's title and authorizing turn. A published record
is an identity; publication evidence is present or not. The content checks of the
constructors are `ChainValid` and `SessionValid`.

### Lifecycle

State: `chains` and `sessions` as above, with `Rest` and `Tags` given the fields hooks
read; `hook[k]`, the running hook of session `k` with its program counter, its event and
its snapshot; `turns[k]`, the user turns delivered; `published`, a history variable with
the records chains accepted. `Reg == INSTANCE Registry` supplies every write, its rules
and its outcome, so a hook's write fails exactly where the storage refuses it.

| Action | Code |
|---|---|
| `UserPrompt`, `HostPrompt` | the host's event and the snapshot `run_lifecycle_hook` reads |
| `PromptReconcile` … `PromptContinue` | the steps of `_user_prompt` and `_user_prompt_steps`, one per write, in the code's order; `After…` operators choose the next one |
| `Stop`, `StopRefresh`, `StopPublish`, `StopCatchUp` | the stop branch: read, refresh when behind, judge, publish, retry once when stale |
| `RegisterRoot`, `Join`, `ProposeTransition`, `RequestDecision`, `Inspect` | the control commands; one step each, because a command whose credential or snapshot went stale changes nothing |
| `Advisory` | tool hooks that record a notice: a session revision and nothing the policy reads |
| `Crash` | the host kills a hook between two writes |

`Attempt` is the best-effort write of the prompt hook: with `StorageFails` it may fail
without a write, or make the write and report failure (the directory `fsync` after the
rename, `lifecycle_storage.py:1080`).

Abstractions: a record is the chain and the predecessor it names, and is otherwise
valid. The texts of messages are forms (`wait`, `reply`, `decision`, `continuation`,
`audit`, `pointer` for a link that does not qualify, `other`), of prompts the words the
classifier tells apart. What is refused to a session that a peer overtook is uncounted,
but for the refusal that brings the count to three: `_blocked_stop` answers that with a
policy failure, and `run_lifecycle_hook` replaces blocks only. A link that does not
qualify is refused before that and never counted there (`Arms`). A title is known or
not: `evaluate_stop` rebuilds the chain without it (`lifecycle.py:1565`), so `NextChain`
drops it at the second record of a chain and `SuccessorChain` has none, though *"Every
message that names the work to the user reads it from here"*
(`lifecycle_operations.py:495`); one step decides it, and no run is spent on it. The
correction count stands for "three or more" from three on. `one-off` is one more ungated
mode and so only a revision; the tree digest and the notices are revisions too. The
issue signature chooses wording only and is left out.

### AtomicStore and LockedStorage

`AtomicStore` is the promise: a write is appended to the registry of one directory at
one moment or never, the caller is not told that it was made when it was not, or the
reverse, and a power loss undoes only the latest, unacknowledged writes. A failure is an
honest "unknown". `LockedStorage` is how `LocalLifecycleStorage` keeps it. A registry is
the sequence of the writes it holds, so a lost update shows as a missing element.

State: `dir`, which directory is at the path of the state root; `disk` and `durable`,
what programs see in each directory and what a power loss leaves at least; `unsynced`,
the directories whose secret was written and not yet synced; `holder`, the owner of each `registry.lock`; `proc[p]`, the transaction of a process, its step, and
what it has read.

| Action | Code |
|---|---|
| `Start`, `Enter`, `Acquire`, `Timeout` | construction, `_guard`, `_locked`, `_lock_descriptor` with the deadline of the run |
| `CreateSecret`, `FillSecret`, `SyncSecret`, `ReadSecret` | the first transaction, which reads or creates the secret |
| `Load` | `load_snapshot` under the lock |
| `Compare`, `CreateTemp`, `Rename`, `SyncDirectory`, `Leave` | `_compare_and_swap_key` and `_publish` |
| `Kill`, `PowerLoss`, `Replace` | a killed hook, a power loss, a state directory removed and made anew |

A check of the directory's identity and the access it guards are one step. The deadline
may have passed at any poll: nothing depends on how long a wait was. Whether the
revisions a caller expects are live is a choice as soon as anything was written since
its snapshot, and certain otherwise. Each process makes one write; a hook's later writes
are those of another process with the secret already read. A file system that does not
sync directories (and Windows) gives no durability of an acknowledged write:
`DirectorySync` says which, and `AtomicStore` promises durability only with it.

### Installer

State: `file`, what each target and the state file hold; `run`, the running installer
with its plan, its position and the changes to roll back.

| Action | Code |
|---|---|
| `Plan` | `build_plan`: conflicts, removals, updates in path order, the state file last |
| `Check`, `Verify`, `Write` | `apply_plan`: all files compared, then each compared and written |
| `Back`, `Restore` | `_rollback` and `_restore`, newest change first |
| `Edit`, `Kill` | the user's editor; the end of the process between any two steps |

`InOrder` lists the targets of a plan by their `Place` in `Paths`, the order of the paths.
A comparison and the write after it are two steps, because an edit can come between. A
write fails without effect, or after its effect and reported so (`target_changed`), or,
with `Windows`, after its effect, undone by deletion and reported as none. Targets are
copies and a text is one of two artifacts' or the user's; what becomes of merged files
is the matter of `Merge`. File modes, the parsing of manifest and state, and path
containment are left out, and with them two conflicts of a plan: a source that is not what
the manifest says (`source-changed`) and a state file that knows the target under another
source, mode or spelling (`state-target-mismatch`). Both end the run before it writes.

### Merge

State: `settings`, a JSON document; `chained`, the file with the user's own status line;
`notes`, an instruction file as a sequence of lines; `installed`, the release of the
state file. A JSON value is an object, an array or a scalar; an entry of an array is its
identity and its body. The recursion of the code over a document is the function `merged`
of `Merged` over JSON pointers (`_pointer_child`): what becomes of a value is made of what
becomes of its members. A loop of the code over an array is the function `upTo` of
`Updated` over pairs of an owned entry and the release's.

| Operator or action | Code |
|---|---|
| `Merged`, `MergedValue` | `merge_json_fragment`, `_merge_owned_object`: which of the merges a value gets |
| `MergeInstall`, `InstallArray`, `AddIdentified`, `AddPositional` | `_merge_install_value` and its arrays: the first install |
| `MergeOwned`, `Removed` | `_merge_owned_value`, `_remove_owned_value`: base, current and desired |
| `OwnedArray`, `IdentityPairs`, `AdvanceIdentified` | `_merge_owned_identity_array` |
| `OwnedArray`, `PositionalPairs`, `AdvancePositional` | `_merge_owned_positional_array` |
| `ToChain`, `ChainConflict`, `MergedSettings` | `_chain_status_line` and the owned part that the status line is taken out of |
| `Blocks`, `MergedNotes` | `_managed_block_span`, `merge_managed_block` |
| `Run(r)` | `build_plan` over the three files: all are merged, or none is written |
| `Edit` | the user changes a setting, an entry, the status line or a line |

A run's files are written in one step: what happens between the writes is `Installer`'s.
Newline styles, encodings and the place of a new block in the file are left out.

What is shipped and what the user has are constants, with these assumptions:

- `FragmentAssumption`: a fragment has an array for each event and a status line of
  scalars. Where the array is merged by identities each entry has one of its own. So it is
  in `src/adapters/` and with the `array_identities` of `src/distribution/manifest.json`.
- `PlacesAssumption`: an entry without identity has the same place in every release that
  ships it. Each such array of `src/adapters/` has one entry. It is needed: these arrays
  are merged by position (`operations.py:347`), the i-th entry of the release before
  becomes the i-th of this one, so a release that shifts two or more entries gets them in
  another order, and if the user removed one of them, one that both releases have is
  overwritten with the next. `SyncIsStable` does not hold of such releases.
- `BodyAssumption`: the text of a block is none of its markers.
- `UserAssumption`: the user's settings are JSON objects, their event arrays lists.

### Records

State: `chains`, the registry's chains with their current record and the approval the
next record has to publish (`grant`); `files`, what each path holds; `writing`, the
render of a session between its look at the target and its write; `published`, a history
variable with the accepted records. A text is the parsed record itself and stands for
its digest.

| Operator or action | Code |
|---|---|
| `Above`, `Propagates`, `Tree`, `Consistent`, `MatchesType`, `WellScoped` | `_validate_scopes` |
| `Linked`, `Lineages`, `WellEvidenced`, `Valid` | the checks of schema version 2 |
| `Retained`, `Consequent`, `Succeeds` | `validate_successor` |
| `Scaffolds`, `Scaffold` | `render_successor`: what it refuses and what it copies |
| `AcceptedFirst`, `Trusts`, `AcceptedNext`, `NextChain` | `evaluate_stop`, `_evaluate_initial_record` |
| `Register`, `Approve` | `register_root`; the user's approval in `observe_user_turn` |
| `Protected`, `RenderLook`, `RenderWrite` | the guard of `render` and the write after it |
| `Stop` | a Stop that offers the record at a path |

What an author may write is `Pages`: a list of scopes from `Shapes` with any progress,
any identifier, authorization, evidence and transition. A rendered file is a `Draft`
until somebody reads it, and then any of these; that keeps the state space small and
loses no behaviour, because nothing looks at a draft before. A draft offered at Stop
follows a record that can be read or nothing.

A Stop reads the record it is offered and publishes it in one step: what comes between is
the matter of `Lifecycle`, where the write fails if a peer published, and nothing is said
of a file that is edited in that window. A path is equal or not; the code compares the
basename of a stored path in this checkout, and the two agree as long as there is one
checkout.

Left out: sections, word limits, the Markdown form, timestamps, records of schema
version 1, the search for a predecessor in a sibling checkout, and a guard that fails
open when the registry cannot be read. A render that starts after the last record the
bound allows is left out too; it could destroy a record but publish nothing.

### Runner

State: `stack`, the runners that run within one another, each with its step and its
output; `marker`, `stdin`, `package`, what they share: the environment variable, the
payload and `sys.modules`; `served`, a history variable with the dispatches; `host`, the
answer.

| Action | Code |
|---|---|
| `ServeSelf`, `Import`, `Dispatch` | `main` of one runner: the import and the run of the package |
| `Finish`, `Ending`, `Notice` | the end of `main`, `_bootstrap_hook_failure` for the notice of a gated event |
| `HandOff` | `_session_runner`, `_hand_off` up to the run of the other runner |
| `GiveBack`, `Return`, `Restored` | the rest of `_hand_off`, its `finally` included |
| `Older` | a runner of another release, of which nothing is assumed |

An output is what it amounts to: nothing, one JSON object, anything else, or more than a
capture holds. How git metadata names the checkout of a session is an input (`target`).
A runner of another release leaves the payload read and the package loaded or not:
`Restored` undoes both.

### MC modules

`MCRegistry` and `MCLifecycle` give the constants small values. Two things they rely on:

- *Symmetry.* Chains and roots (and, for `Registry`, sessions and records) are
  interchangeable: no definition names one. In `Lifecycle` records are numbers, ordered
  by publication, and sessions have different scenarios, so neither is permuted.
- *Views.* A session revision grows without bound and is only ever compared for
  equality with the one before it, so `WithoutSessionRevisions` drops it. In `Relevant`
  a hook whose snapshot is live is kept whole, except for the snapshot, which is then
  the registry's state. A hook whose snapshot is stale stays stale (a revision never
  comes back), so all its writes fail: it is kept as *finishing* (prompt hook),
  *restarting* (a stop hook that will read again) or *giving up*. What a turn said last
  matters only for the echo of a block.

Deadlock checking is off where turns, records, edits or (in `MCRegistry`) chain
revisions are bounded, so that the system really stops. `runner` has it on: an
invocation ends, with an answer.

## 4. The runs

### Passing

`registry` (`MCRegistry.cfg`): two sessions, chains, roots and records; chain revisions
up to 2. Two revisions are enough for the life of a chain in two steps: created, then
published, completed or superseded, with a successor that has one revision left; two
sessions give a writer and a peer. `Revisions` 0..8 is a bound on session writes no
behaviour of that size needs. Callers are unrestricted.

`peers` (`MCPeers.cfg`): two sessions of one root, one after the other tracking it or
continuing its record; one ends its turns with a wait line, a link that does not qualify,
junk or a record, the other publishes and completes. Two user turns for the first, one for the second, two records;
hooks are killed anywhere and advisory writes come anywhere. Enough for three counted
blocks (they need no turn), an echo, a fork attempt, an audit under a running hook and a
reentry after it.

`transition` (`MCTransition.cfg`): one session registers, proposes a new root, asks a
question; a second joins, asks, publishes, completes; the host interrupts; every write
may fail before or after it was made. Three turns for the first (start, propose,
approve), two records (before and after), two chains and two roots.

`storage` (`MCStorage.cfg`): three processes, of which one may stop for ever with the lock
in its hands, one power loss or one replaced directory, any disk operation failing. Three
are needed for a holder, a waiter and a writer between a waiter's snapshot and its write;
a second incident finds the same states as the first, with fewer processes left.

`installer` (`MCInstaller.cfg`): three runs over two releases of which the second changes
a target, keeps one, retires one and adds one; two user edits; kills and failures
anywhere. Three runs allow an install, an interrupted upgrade and its repetition, or a
step back to the first release; two edits hit a file before and during a rollback.

`merge` (`MCMerge.cfg`): three releases, installed in any order over three documents the
user may begin with, and two user edits. The second release changes, drops and adds
entries, the third ships less, so each outcome of a three-way merge occurs: taken over,
advanced, removed, left to the user, refused. Two edits put the user's content on both
sides of an entry or break a block and mend it. `Keys` holds every member a fragment has
and `Depth` the two levels they nest, so neither cuts a merge short.

`records` (`MCRecords.cfg`): three works, of which two have a root of the same name and
one has three levels; seven lists of scopes (authorized ones, one with a scope added,
dropped, swapped, moved, redefined); three published records, two paths, two identifiers
and two sessions that render. Three records are needed for one that takes a work over
and is followed; two paths for a predecessor and the record after it, and to write over
either; three levels for work that is left two scopes below the root.

`runner` (`MCRunner.cfg`): every invocation of two runners; nothing is bounded. More
runners would not run: the second is told not to hand on.

Every action of `Lifecycle` fires in one of its two runs. The `reply` ending is in no
scenario: it differs from `wait` only after a host turn, where it is judged as junk.

| Property | Run | Says |
|---|---|---|
| `Registry!TypeOK` | registry | every value is one a constructor accepts |
| `PeersNeverBlockAWrite` | registry | a write that is right in its own part passes the validation of the whole file |
| `FinishedReleases` | registry | a session level with a finished chain is complete |
| `RevisionsNameValues` | registry | every change, a peer's entry included, raises its revision by one |
| `ChainHistory` | registry | finished and superseded chains are frozen, a root is for life, evidence closes only with a record |
| `ChainsAreLeftByRule` | registry | a chain is left for its successor or after completion |
| `PeersKeepTheirState` | registry | a write changes a peer only by moving it, its mode and question kept |
| `Lifecycle!TypeOK` | peers | types, hook states, the capped count |
| `LineageNeverForks` | peers | no two accepted records follow the same one, nothing follows an audit |
| `CircuitHolds` | peers | only a newly recorded user turn disarms the circuit |
| `OvertakenCountsToArm` | peers | a block counts only against a session level with its chain, and against one a peer overtook only as the third |
| `UserTurnsAreRecorded` | peers | no state of session and chain makes the step that records a user's turn fail; about the steps before it the property says nothing |
| `StopsAreJudged` | peers | the registry refuses a Stop's write in one case only: an armed circuit on a chain that a peer completed |
| `EvidenceMarksTransition` | transition | a chain holds evidence exactly until its first own record |
| `HostTurnsAreInert` | transition | a host's prompt answers, approves, enrolls and resets nothing |
| `QuestionsStayOpen` | transition | a question is closed by the user's word or by completion |
| `PromptsGrantTheirOwnTurn` | transition | a chain a prompt creates is authorized by that prompt's turn |
| `RerootedByApproval` | transition | work is re-rooted only by its holder's proposal and the yes of the next recorded turn |
| `LockedStorage!TypeOK` | storage | types; a secret in use is a whole one |
| `OneSecret` | storage | a registry never gets a second secret, under which its sessions would be strangers |
| `SnapshotsAreOfHome` | storage | a hook never decides by the empty directory that took the place of its own |
| `WritesAreAtomic` | storage | implements `AtomicStore`: no lost update, no false answer, acknowledged writes are durable |
| `EveryCallReturns` | storage | a holder that hangs with the lock stalls nobody for ever (liveness) |
| `FailureRestores` | installer | a failed run with a clean rollback leaves every file as it was |
| `InterruptedRunsComplete` | installer | a killed run can be repeated without a conflict |
| `EditsAreKept` | installer | an edit is overwritten only if it came between a comparison and the write after it |
| `StateClaimsTruth` | installer | when the state file is written, what it claims is there |
| `UserContentKept` | merge | every setting, entry and line of the user's survives every run, in its order |
| `StatusLineKept` | merge | the user's status line is in one of its two places after every run, and no chained one is replaced |
| `ManagedAsReleased` | merge | what the toolkit manages is there as released, once, or not at all |
| `SyncIsStable` | merge | a merged release merges again, without a change |
| `AuditsLeaveNothing` | records | a completed work has no scope, however deep, with anything left |
| `ScopesAreLocked` | records | every record of a work has the scopes its user authorized, unaltered and in order |
| `RecordsFormALine` | records | each record follows the last of its chain; the first takes over the end of one superseded chain, or nothing |
| `ChainsCanContinue` | records | no two checks of Stop contradict each other: an honest next record is always accepted |
| `OrdinaryScaffoldsContinue` | records | what the scaffold renders from an ordinary record is accepted |
| `CurrentRecordsKept` | records | a render destroys a current record only if that was published between its look and its write |
| `OneAnswer` | runner | the host gets silence or one object and status zero, and silence on a gated event only when it is owed |
| `OneHop` | runner | two runners serve a hook only when the first one's answer was refused |
| `EachServesAlone` | runner | a runner that serves after another finds no trace of it |

`OneSecret` and `Whole` have a price: a process killed between the creation of the secret
file and the writing of it leaves one that no later process accepts or replaces. So does a
power loss after a process that was killed between the writing and the sync: the secret is
empty, and the registry that others wrote under it in the meantime is there.
`InterruptedRunsComplete` leaves out runs whose rollback itself failed: if the state file
is the file that was not restored, the copies it claims are removed all the same, and the
next `sync` reports them missing. The documents promise best effort there.

Each property has a mutant, a plausible slip in the code (marked *mutant of* in the
modules), under which its run fails.

### Violations

Four statements of the code's comments, tests and documents that the runs refute.

- `answers`: *"Accepted replies, alone on the message"* (`hook_adapters.py:2219`). With
  a proposal and a question pending in one turn, the yes approves first; the session
  keeps its question bound to the chain it leaves, the registry refuses the write, and
  neither the turn nor the answer is recorded.
- `overtaken`: a block on a session whose chain a peer advanced *"is an uncounted
  `AHK-STOP-STALE`"* (`src/docs/agent-handoff/mechanics.md:154`); *"Whatever was refused was
  written against a chain that has since moved, so it is not counted toward the circuit"*
  (`hook_adapters.py:2531`). The code replaces the decision by the uncounted one only if it
  is a block (`hook_adapters.py:2530`). After two counted blocks the third refusal is not
  one: `_blocked_stop` returns a policy failure (`lifecycle.py:1081`). A session with two
  blocks of its own, whose peer then publishes, is counted a third time for a message
  written before it could know, and its circuit is armed. A link that does not qualify
  takes another way (`hook_adapters.py:2540`) and is not counted. What does hold is
  `OvertakenCountsToArm`.
- `installer_windows`: *"Atomic application preserves planned bytes or restores them on
  failure"* (`src/tests/test_installer.py:1166`). On Windows, a replacement after which
  the check of its parent fails deletes the target (`installer.py:1205`) and counts as
  unchanged: the rollback skips it and reports no failure. The check fails when a parent
  directory is no longer where its handle says, or cannot be asked.
- `scaffold`: *"Root immutability means each of these is exactly the predecessor's value,
  so copying them is transcription, not judgement"* (`records.py:1646`); the scaffold
  *"copies the lineage a successor never chooses"*
  (`src/docs/agent-handoff/mechanics.md:330`). Of a record that published a transition it
  copies the transition too, and refuses an author who writes `null` there; Stop then
  finds a transition nobody approved (`records.py:1329`). The successor of such a record
  has to be written without the scaffold.

Each uses the smallest scenario that shows the case: one session alone
(`answers`), the two of `peers` without kills and advisory writes (`overtaken`), two runs of
the installer, and the instance of `records`.

### Fairness

Only `storage` checks a liveness property. It assumes weak fairness of the next step of
each started process that does not hang, and nothing else: a live process is scheduled
by the operating system, and no step of it waits for anything but the lock, whose wait
ends at the deadline (`_lock_descriptor`). A process in `Hung` may stop for ever at any
step, the lock in its hands; no fairness is assumed of kills, power losses or
replacements. All other properties are safety, of specifications without fairness.

## 5. What is proved

Every property of a passing run, except the liveness of `LockedStorage`, is a theorem for all values of the constants; so are the two refinements,
`LockedStorage` of `AtomicStore` and `Lifecycle` of `Registry`. Proof modules state their
lemmas about the operators first, then the invariant and one lemma per action, then the
theorems.

### Registry

`RegistryProofs`, for any number of sessions, chains, roots, records and revisions, from
`RegistryAssumption` alone (revisions are naturals, Python's `None` is no identity, the
rest of a new session is one of the rests).

| Theorem | States |
|---|---|
| `TypeCorrect` | `Spec => []TypeOK` |
| `EnvelopeAlwaysHeld` | the file is always one the loader accepts |
| `FinishedWorkReleases` | `Spec => []FinishedReleases` |
| `NoPeerWedges` | `Spec => []PeersNeverBlockAWrite` |
| `RevisionsNameEveryValue` | `Spec => RevisionsNameValues` |
| `ChainHistoryKept` | `Spec => ChainHistory` |
| `ChainsLeftByRule` | `Spec => ChainsAreLeftByRule` |
| `PeersKeepTheirOwn` | `Spec => PeersKeepTheirState` |

The argument. `StepIsWrite` reduces a step to one `Write(k, s, c)` with well-formed
inputs. `ChainAfterWrite` and `SessionAfterWrite` say how one chain and one session look
afterwards: superseded, written or untouched; written, moved or untouched. Everything
else is by these cases. The inductive invariant is

    IInv == TypeOK /\ EnvelopeHeld /\ FinishedReleases

`FinishedReleases` is not inductive without the envelope: that a session's view never
exceeds its chain's revision is what puts a session behind as soon as its chain is
completed. `EnvelopeHeld` is preserved for its own sake, because a write that would
break it is refused; its worth lies in `NoPeerWedges`, which shows that the refusal can
only come from the writer's own part. There the work is in the moved peers (their view
is the new chain's revision, their question is re-bound) and in the acyclic successors:
the new chain has no successor and was absent, so a set closed under successors that
contains a changed chain would have to contain a chain with none.

The action properties follow from `IInv` and the same case lemmas.

### Lifecycle

`LifecycleProofs`, for any sessions, chains, roots, turns, prompts, agents and bound on
records, with or without failing storage, kills and advisory writes; from
`LifecycleAssumption` (the types of the constants; Python's `None` is no identity).

| Theorem | States |
|---|---|
| `LifecycleTypeCorrect` | `Spec => []TypeOK` |
| `HooksImplementRegistry` | `Spec => Reg!Spec`: every step of a hook, a command or a kill is a step of `Registry`, or leaves the file alone |
| `HooksKeepTheEnvelope` | the file hooks write is always one the loader accepts, and finished work has released its sessions |
| `ArmedCircuitsHold` | `Spec => CircuitHolds` |
| `OvertakenCountsOnlyToArm` | `Spec => OvertakenCountsToArm` |
| `OpenQuestionsStay` | `Spec => QuestionsStayOpen` |
| `HostTurnsInert` | `Spec => HostTurnsAreInert` |
| `PromptsGrantOwnTurn` | `Spec => PromptsGrantTheirOwnTurn` |
| `RerootingIsApproved` | `Spec => RerootedByApproval` |
| `LineageIsOne` | `Spec => []LineageNeverForks` |
| `EvidenceIsSpentOnce` | `Spec => []EvidenceMarksTransition` |
| `UserTurnsRecorded` | `Spec => UserTurnsAreRecorded` |
| `StopsJudged` | `Spec => StopsAreJudged` |

*The registry under the hooks.* `Proved` is an instance of `RegistryProofs` with natural
revisions; `SameRules` says that `Lifecycle`'s registry is the one it speaks of, so
`WriteKeepsRegistry`, `SessionsAfterWrite` and `ChainsAfterWrite` come from its lemmas.

*The invariant.* `HookInv` is the registry's invariant, that a completed session is level
with its frozen chain (`CompleteLevel`), and of each running hook:

- `SnapFits`: what it read is no newer than the registry, and as long as the revisions
  are live it is the registry's state. This is what compare-and-swap gives a hook, and it
  survives the steps of all other sessions because every change raises a revision
  (`SnapFitsLater`).
- `StepFits`: where it stands follows from what it read. A turn not yet recorded is newer
  than the recorded one; a step after the recording has it recorded and the count at zero;
  an enrolling step has an ungated session.
- `VerdictFits`, `StopFits`: a verdict is of the snapshot it was judged by; only a session
  level with its chain is counted against or lets a record through. The first verdict of an
  overtaken Stop is counted only from a count of two, and then, unless the storage failed,
  of the state the refresh left, which is level.

There is one lemma per step of a hook (`StepReconcile` ... `StepContinue`, `StepStop` ...
`StepPublish`) and per command. Each needs the fields of what it writes (`ObservedIs`,
`AnsweredIs`, `SessionWrittenIs`, ...) and that where the hook goes next fits.

*The action properties.* `NextDeed` reduces a step to a `Deed`: nothing, a write of a prompt
hook from live state, a verdict, or a write beside the hooks. A write from live state is
made of the session as it is (`OwnWrite`), so each property is a matter of what the written
entry may be: for the circuit, `RestGoesOn` lists how turn and count may move together; for
a question, `AwaitingStays` shows that a re-rooting with an open question is refused by the
envelope; for a re-rooting, only the approval in `observe` writes a chain over another.

*The history.* `HistoryMoves`: chains and published records change in three ways only, a
chain is opened without a record, gives way to a successor that starts at its record, or
gets the next record. `LineageInv` strengthens both properties by `RecordsKnown` (a chain is
as new as what it published, an audit froze it) and `RecordsOpen` (a record is current in at
most one chain that was not superseded, and nothing follows it yet). Without the latter a
fork is two steps away: two chains at one record.

*Nothing is lost.* `UserTurnsRecorded` and `StopsJudged` say that a write is *not* refused,
so that they need every rule of `_apply` and every clause of the envelope to hold of what is
written: `QuietWriteSucceeds` for a session that leaves its chain alone,
`ChainWriteSucceeds` for one that publishes on it, `ReconcileSucceeds` for one that is
behind. The exception in `StopsAreJudged` is what remains of the case analysis, in
`VerdictSucceeds`.

### Storage

`StorageProofs`, for any number of processes, power losses and replaced directories, with
and without directory sync.

| Theorem | States |
|---|---|
| `StorageTypeOK` | `Spec => []TypeOK` |
| `RegistriesHaveOneSecret` | `Spec => []OneSecret` |
| `SnapshotsStayOfHome` | `Spec => []SnapshotsAreOfHome` |
| `StorageIsAtomic` | `Spec => WritesAreAtomic` |

`Inv` says what holding the lock is worth (`Fine`): who is between the acquisition and the
release holds the lock of the directory it opened; the registry it compared is still the
registry as long as the directory is in its place; the secret it read is still the secret; a
secret file that was created and not written is its creator's alone, in a directory without
a registry. A secret that is written and not synced needs no more: a power loss may empty it,
and ends every process that read it. `Kept` says what a registry holds: each element is the write of a process that
is past its rename, and is durable once that was acknowledged. A snapshot is a prefix of its
directory's registry, because a registry only grows until a power loss, which ends every
process.

The refinement: `Rename` is the commit, `PowerLoss` the abstract loss of what was not
acknowledged, each end of a process the answer; all other steps show nothing. That no write
is lost is in `RenameCommits`: what is renamed is what was seen with the own write appended,
and under the lock what was seen is still there. Secrets are marked by strings, which
`StorageAssumption` keeps distinct from processes.

### Installer

`InstallerProofs`, for any targets, copies, releases and bounds on runs and edits.

| Theorem | States |
|---|---|
| `UserEditsAreKept` | `Spec => EditsAreKept` |
| `StateFileClaimsTruth` | `Spec => StateClaimsTruth` |
| `FailuresRestore` | `~Windows => (Spec => []FailureRestores)` |
| `InterruptedRunsCanComplete` | `~Windows => (Spec => []InterruptedRunsComplete)` |

They rest on `InstallerAssumption`: `Paths` lists each target once, a release does not
retire what it ships, no copy is the user's text. The hypothesis `~Windows` is needed: run
`installer_windows` refutes `FailureRestores` without it.

`PlansFit` is about `Changes`: from files without a conflict a plan holds every change the
release needs, once, each from what the file was, the state file last. That a set of targets
can be listed in path order is an induction over its size (`TargetsCanBeOrdered`). The
invariant then says, while no edit came in between, that the files are those of the plan's
start with its first changes made (`Done`), exactly as many as are to be rolled back
(`Applied`); `OneMoreDone` and `OneLessDone` are the steps forth and back. A comparison is
worth something until an edit comes (`Compared`, `raced`).

### Merge

`MergeProofs`, for any releases, fragments, identities, settings and edits, and any number
of edits.

| Theorem | States |
|---|---|
| `StableSyncs` | `Spec => []SyncIsStable` |
| `UserContentStays` | `Spec => UserContentKept` |
| `StatusLineStays` | `Spec => StatusLineKept` |
| `ReleasesAreManaged` | `Spec => ManagedAsReleased` |

They rest on the assumptions of `Merge` (section 3). Of `Keys` and `Depth` they need that
the members of the fragments are in `Keys` and that `Depth` is at least two.

`Inv`: the settings are an object whose event arrays are lists; the release of the state
file is one, or none; and after a merged run merging the same fragment once more leaves the
settings as they are, and the instruction file has exactly the release's block.
`SyncIsStable` alone is not inductive: it says nothing of the state before a run, which may
be anything the user made of the files.

The argument goes up the document, level by level.

- A step of a loop over an array touches only entries of the toolkit's (`StepKeeps`), brings
  the entry of its pair to where the release has it (`StepDone`, `StepPlaces`) and leaves
  the other identities alone (`StepElsewhere`). By induction over the loop
  (`LoopInduction`) the array then has the release's entries, once each where they have an
  identity, none that was dropped, and the others in their order (`OwnedArrayIs`,
  `InstallArrayIs`).
- A merge of the same fragment into such an array changes nothing (`IdentityStable`,
  `PositionalStable`, `PlacedStable`).
- Fragments nest two levels, so the function over the pointers is `Top` of `Middle` of
  `Leaf` (`MergedIs`, which also shows that the function exists, for any `Depth`). From the
  levels follow what each member of a merged document is (`MergedMembers`, `MergedArrays`)
  and that merging again gives the document itself (`MergedStable`).
- `NotesMerged` and `NotesStable` are the same for the instruction file: from a file with
  one pair of markers, or none, comes one with exactly the block of the release.
- `MergeStep` joins these for a run, with a status line that was moved out first or not;
  `InvNext` adds the edits.

### Induction

`SetInduction`: a set that holds 0, and with each number the next, holds all. It is natural
induction with a set in place of a predicate, so that the installed provers can use it; it
follows from the well-foundedness of `<`.

### Records

`RecordsProofs`, for any works, scopes, texts, paths, sessions and bound
on records.

| Theorem | States |
|---|---|
| `ScopesLocked` | `Spec => []ScopesAreLocked` |
| `OneLine` | `NothingIsNoReference => (Spec => []RecordsFormALine)` |
| `AuditsAreDone` | `Spec => []AuditsLeaveNothing` |
| `RecordsAreKept` | `DraftIsNoText => (Spec => CurrentRecordsKept)` |
| `ChainsContinue` | `Spec => []ChainsCanContinue` |
| `ScaffoldsAreAccepted` | `Spec => []OrdinaryScaffoldsContinue` |

They rest on `RecordsAssumption` (shapes are lists, and the registered ones trees with
parents before children, as `register-root` accepts them) and on `NothingAssumption` (the
value for "none" is no authorization and no transition). Two hypotheses quantify over all
texts and so cannot be assumptions TLC evaluates: `NothingIsNoReference`, that "none" is no
reference to a record, and `DraftIsNoText`, that the placeholder for a file nobody has read
is no text an author writes. Both only keep the model's own markers apart from its data. An
author may write anything.

`ScopesLocked`: the inductive invariant adds `ChainsLocked`, a chain that exists has the
registered scopes and root. A record is accepted with the digests its chain has
(`AcceptedScopes`), the digests are those of its definitions, and the chain takes them
over.

`OneLine`: the invariant adds `ChainLines`. A chain that has published has its last
record as the current one and no open approval; one that has not has no record, or the
last record of the superseded chain it takes over and the approval to do so. A
superseded chain is never active again, so the end of its line is final. `AcceptedNextIs`
is where the code's checks come in: what is accepted follows the current record and
carries exactly the open approval, because without one the HMAC that a transition would
have to match is none.

`AuditsAreDone`: the validator closes the line above a scope by climbing as many steps as
there are scopes. `ClimbIsClosed` shows that this is enough, for any number of them: a climb
that is not closed after n steps has reached more than n scopes. `HighestAboveAll` shows that
in a tree the root is in every such line: the smallest closed set of a scope is shrunk by
going up, which cannot go on for ever. So work left in any scope, however deep, is left in
the root, where an audit may not have it.

`RecordsAreKept`: the invariant adds `Watched`. Whatever record is current at the path a
render is about to write was published after the render looked there, because the guard saw
none that was current before.

`ChainsContinue` and `ScaffoldsAreAccepted` say that checks do *not* refuse. Their invariant
`RecordsCurrent` says that the current record is a valid one of its chain with no approval
open, or one of the chain it takes over with the approval open that its transition names;
`NextIsAccepted` then goes through every check of the record, of its succession and of
`evaluate_stop`.

### Runner

`RunnerProofs`, for any two runners.

| Theorem | States |
|---|---|
| `HostIsAnswered` | `Spec => []OneAnswer` |
| `HandedOnce` | `Spec => []OneHop` |
| `ServedAlone` | `Spec => []EachServesAlone` |

The inductive invariant `Inv` adds `Shape`, that the stack is one runner or the own one
below the other, and `Progress`, how far the topmost runner has come: which package is
loaded, whether the payload is whole, and which dispatches went before. A refused
answer is always of a dispatch that failed, or of none (`EndingOfFailed`): that is why
the second runner to serve cannot repeat a dispatch that went well.

### Only model-checked

- `EveryCallReturns`: liveness under fairness.
- The four violations, which are counterexamples.

No module declares a `RECURSIVE` operator: recursion is written as recursive functions,
and what such a function computes is proved by induction over numbers with `SetInduction`
(the climb of `Above`, the order of a plan, the loops and pointers of a merge).

## 6. What is not modelled, and why

- The resolution of the state root, permission and path checks, and the storage probe of
  the `doctor` command: no state of the running system.
- The size limit of the registry: entries have no modelled weight.
- Payload normalisation, shell parsing, classification of texts by pattern, rendering
  and wording: they decide which form or word an event has; the model tries them all.
- The Markdown of a record, its sections and limits, records of schema version 1: see
  `Records`.
- The cache of the context window (`context_window.py`) and the notices of tool hooks:
  what is lost, old or pruned there costs or repeats one advisory notice and decides
  nothing. Their writes to the registry are `Lifecycle`'s `Advisory`.
- The launcher of the status line, and how git metadata names a checkout: pure I/O.
- `acceptance.py` drives real hosts for release tests, `repository_state.py` is a git
  status digest, `hooks.py` prints notices: no state of the running system.
