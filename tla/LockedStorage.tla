--------------------------- MODULE LockedStorage ---------------------------
(***************************************************************************)
(* The storage under Registry: LocalLifecycleStorage with its lock file,   *)
(* its secret, and the publication of a registry by temporary file, rename *)
(* and directory sync.  A process opens the storage, reads a snapshot and  *)
(* makes one write; each of the three is a transaction under the lock.     *)
(*                                                                         *)
(* Processes are killed at any step, the machine loses power, the disk     *)
(* fails, a holder of the lock hangs, and the state directory is removed   *)
(* and made anew under the processes that opened it.                       *)
(*                                                                         *)
(* A check of the directory's identity and the access it guards are one    *)
(* step: a replacement between the two is seen by the next check, and      *)
(* what happened before that is as if it came after the access.            *)
(***************************************************************************)
EXTENDS Naturals, Sequences, FiniteSets

CONSTANTS
    Procs,          \* hook processes and commands, in any worktree
    Hung,           \* those that may stop for ever without dying
    Incidents,      \* bound: power losses and replacements of the directory
    StorageFails,   \* whether a disk operation may fail
    DirectorySync,  \* whether the file system syncs directories
    NoProc          \* nobody

Dirs == 0..Incidents

ASSUME StorageAssumption ==
    /\ Hung \subseteq Procs
    /\ {NoProc, "absent", "empty"} \cap Procs = {}
    /\ Incidents \in Nat
    /\ StorageFails \in BOOLEAN /\ DirectorySync \in BOOLEAN

VARIABLES
    dir,       \* the directory at the path of the state root
    disk,      \* per directory: its registry and its secret, as programs see them
    durable,   \* the same, as a power loss leaves them at least
    unsynced,  \* the directories whose secret was written and not synced
    holder,    \* per directory: who holds its registry.lock
    proc,      \* per process: where it is and what it knows
    losses     \* power losses so far

vars == <<dir, disk, durable, unsynced, holder, proc, losses>>

-----------------------------------------------------------------------------
(* A registry is the sequence of the writes it holds, <<>> while there is no *)
(* file. A secret is named by its creator; between the creation of its file  *)
(* and the writing of it there is an empty one, and one that was written and *)
(* not synced may be empty after a power loss.                               *)

EmptyDir == [registry |-> <<>>, secret |-> "absent"]

\* op: the transaction, pc: the step in it, home: the directory it opened, key: the
\* secret it read, made: where it created one, base: the registry of its snapshot,
\* seen: the one its write starts from, said: how it ended.
NewProc == [op |-> "open", pc |-> "new", home |-> 0, key |-> NoProc, made |-> 0,
            base |-> <<>>, seen |-> <<>>, said |-> "none"]

Running(p) == proc[p].pc \notin {"new", "end"}

\* The path still leads to the directory that was opened.
Same(p) == dir = proc[p].home

Here == disk[dir]

Set(p, r) == proc' = [proc EXCEPT ![p] = r]

\* What is left of a process is the secret it used and how it ended.
End(r, said) == [NewProc EXCEPT !.pc = "end", !.key = r.key, !.said = said]

\* The lock goes with the transaction, or with the process.
Release(p) == holder' = [holder EXCEPT ![proc[p].home] = NoProc]

\* An exception inside a transaction.
Fail(p, said) ==
    /\ Set(p, End(proc[p], said)) /\ Release(p)
    /\ UNCHANGED <<dir, disk, durable, losses, unsynced>>

Begin(r, op) == [r EXCEPT !.op = op, !.pc = "enter"]

At(p, op, pc) == proc[p].op = op /\ proc[p].pc = pc

-----------------------------------------------------------------------------
(* Entering a transaction. *)

Start(p) ==
    /\ proc[p].pc = "new"
    /\ Set(p, Begin([proc[p] EXCEPT !.home = dir], "open"))
    /\ UNCHANGED <<dir, disk, durable, holder, losses, unsynced>>

\* Once it has read the secret, a process insists on it.
Guarded(p) == Same(p) /\ (proc[p].key # NoProc => Here.secret = proc[p].key)

Enter(p) ==
    /\ proc[p].pc = "enter"
    /\ Set(p, IF Guarded(p) THEN [proc[p] EXCEPT !.pc = "wait"] ELSE End(proc[p], "failed"))
    /\ UNCHANGED <<dir, disk, durable, holder, losses, unsynced>>

\* The lock is tried before the clock is looked at.
Acquire(p) ==
    LET h == proc[p].home IN
    /\ proc[p].pc = "wait" /\ holder[h] = NoProc
    /\ UNCHANGED <<dir, disk, durable, losses, unsynced>>
    /\ IF Same(p)
       THEN /\ Set(p, [proc[p] EXCEPT !.pc = "inside"])
            /\ holder' = [holder EXCEPT ![h] = p]
       ELSE Set(p, End(proc[p], "failed")) /\ UNCHANGED holder

\* mutant of Expired: the platform's own wait, which has no deadline
NeverExpired(p) == FALSE

\* A run has one deadline for all its waits; it may have passed at any poll.
Expired(p) == proc[p].pc = "wait"

Timeout(p) ==
    /\ Expired(p) /\ holder[proc[p].home] # NoProc
    /\ Set(p, End(proc[p], "timeout"))
    /\ UNCHANGED <<dir, disk, durable, holder, losses, unsynced>>

-----------------------------------------------------------------------------
(* Opening: the secret. *)

\* mutant of SecretMissing: any absent secret is created
SecretNeeded == FALSE

\* A registry without its secret: its sessions cannot be told apart any more.
SecretMissing == Here.secret = "absent" /\ Here.registry # <<>>

CreateSecret(p) ==
    /\ At(p, "open", "inside")
    /\ IF SecretMissing THEN Fail(p, "failed")
       ELSE /\ disk' = [disk EXCEPT ![dir].secret = IF @ = "absent" THEN "empty" ELSE @]
            /\ Set(p, [proc[p] EXCEPT !.pc = IF Here.secret = "absent" THEN "fill" ELSE "key",
                                      !.made = dir])
            /\ UNCHANGED <<dir, durable, holder, losses, unsynced>>

FillSecret(p) ==
    /\ At(p, "open", "fill")
    /\ \/ /\ disk' = [disk EXCEPT ![proc[p].made].secret = p]
          /\ unsynced' = unsynced \cup {proc[p].made}
          /\ Set(p, [proc[p] EXCEPT !.pc = "seal"])
          /\ UNCHANGED <<dir, durable, holder, losses>>
       \/ StorageFails /\ Fail(p, "failed")

\* From the writing on others may read the secret, should its creator die here.
SyncSecret(p) ==
    /\ At(p, "open", "seal")
    /\ \/ /\ unsynced' = unsynced \ {proc[p].made}
          /\ Set(p, [proc[p] EXCEPT !.pc = "key"])
          /\ UNCHANGED <<dir, disk, durable, holder, losses>>
       \/ StorageFails /\ Fail(p, "failed")

\* mutant of Whole: a secret of any length is taken
AnyLength(secret) == secret # "absent"

\* A secret whose creator died before it was written is never replaced.
Whole(secret) == secret \in Procs

ReadSecret(p) ==
    /\ At(p, "open", "key")
    /\ IF Whole(Here.secret) /\ Same(p)
       THEN /\ Set(p, Begin([proc[p] EXCEPT !.key = Here.secret, !.made = 0], "load"))
            /\ Release(p)
            /\ UNCHANGED <<dir, disk, durable, losses, unsynced>>
       ELSE Fail(p, "failed")

-----------------------------------------------------------------------------
(* Reading a snapshot. *)

\* mutant of Load: the directory is not looked at again after the read
LoadUnchecked(p) ==
    /\ At(p, "load", "inside")
    /\ Set(p, Begin([proc[p] EXCEPT !.base = Here.registry], "write"))
    /\ Release(p)
    /\ UNCHANGED <<dir, disk, durable, losses, unsynced>>

Load(p) ==
    /\ At(p, "load", "inside")
    /\ IF Same(p)
       THEN /\ Set(p, Begin([proc[p] EXCEPT !.base = Here.registry], "write"))
            /\ Release(p)
            /\ UNCHANGED <<dir, disk, durable, losses, unsynced>>
       ELSE Fail(p, "failed")

-----------------------------------------------------------------------------
(* A write. *)

\* mutant of Current: the write starts from the snapshot of the hook
CurrentAsRead(p) == proc[p].base

\* The write starts from the registry as it is, not from the snapshot.
Current(p) == Here.registry

\* Whether the revisions the caller expects are the live ones: certainly, when
\* nothing was written since its snapshot.
Compare(p) ==
    /\ At(p, "write", "inside")
    /\ \/ /\ Set(p, [proc[p] EXCEPT !.pc = "create", !.seen = Current(p)])
          /\ UNCHANGED <<dir, disk, durable, holder, losses, unsynced>>
       \/ Here.registry # proc[p].base /\ Fail(p, "stale")

\* The temporary file is created through a descriptor of the directory. Its name
\* is random and nothing reads it, so what a killed writer leaves is inert.
CreateTemp(p) ==
    /\ At(p, "write", "create")
    /\ IF Same(p)
       THEN /\ Set(p, [proc[p] EXCEPT !.pc = "rename"])
            /\ UNCHANGED <<dir, disk, durable, holder, losses, unsynced>>
       ELSE Fail(p, "failed")

\* Written and synced, the file replaces the registry.
Rename(p) ==
    /\ At(p, "write", "rename")
    /\ \/ /\ Same(p)
          /\ disk' = [disk EXCEPT ![proc[p].home].registry = Append(proc[p].seen, p)]
          /\ Set(p, [proc[p] EXCEPT !.pc = "sync"])
          /\ UNCHANGED <<dir, durable, holder, losses, unsynced>>
       \/ (StorageFails \/ ~Same(p)) /\ Fail(p, "failed")

Synced(p) ==
    durable' = IF DirectorySync
               THEN [durable EXCEPT ![proc[p].home] = disk[proc[p].home]] ELSE durable

SyncDirectory(p) ==
    /\ At(p, "write", "sync")
    /\ \/ /\ Synced(p)
          /\ Set(p, [proc[p] EXCEPT !.pc = "leave"])
          /\ UNCHANGED <<dir, disk, holder, losses, unsynced>>
       \/ DirectorySync /\ StorageFails /\ Fail(p, "failed")

Leave(p) ==
    /\ At(p, "write", "leave")
    /\ Fail(p, IF Same(p) THEN "ok" ELSE "failed")

Step(p) ==
    \/ Start(p) \/ Enter(p) \/ Acquire(p) \/ Timeout(p)
    \/ CreateSecret(p) \/ FillSecret(p) \/ SyncSecret(p) \/ ReadSecret(p) \/ Load(p)
    \/ Compare(p) \/ CreateTemp(p) \/ Rename(p) \/ SyncDirectory(p) \/ Leave(p)

-----------------------------------------------------------------------------
(* What happens to processes and to the machine. *)

Released(killed) ==
    [d \in Dirs |-> IF holder[d] \in killed THEN NoProc ELSE holder[d]]

Killed(killed) ==
    [p \in Procs |-> IF p \in killed THEN End(proc[p], "killed") ELSE proc[p]]

Kill(p) ==
    /\ Running(p)
    /\ holder' = Released({p}) /\ proc' = Killed({p})
    /\ UNCHANGED <<dir, disk, durable, losses, unsynced>>

\* A secret that was not synced may lose its contents, its name, or neither.
SecretsLeft(d) ==
    {disk[d].secret, durable[d].secret} \cup {s \in {"empty"} : d \in unsynced}

\* What a power loss may leave of a directory: of what was not synced, each file
\* is as it was at some moment since, or is without its contents.
Survivors(d) ==
    {[registry |-> SubSeq(disk[d].registry, 1, n), secret |-> s] :
        n \in Len(durable[d].registry) .. Len(disk[d].registry), s \in SecretsLeft(d)}

PowerLoss ==
    /\ dir + losses < Incidents
    /\ losses' = losses + 1
    /\ disk' \in {f \in [Dirs -> UNION {Survivors(d) : d \in Dirs}] :
                     \A d \in Dirs : f[d] \in Survivors(d)}
    /\ durable' = disk' /\ unsynced' = {}
    /\ LET killed == {p \in Procs : Running(p)} IN
       holder' = Released(killed) /\ proc' = Killed(killed)
    /\ UNCHANGED dir

\* The state directory is removed and made anew.
Replace ==
    /\ dir + losses < Incidents
    /\ dir' = dir + 1
    /\ UNCHANGED <<disk, durable, unsynced, holder, proc, losses>>

Init ==
    /\ dir = 0
    /\ disk = [d \in Dirs |-> EmptyDir]
    /\ durable = disk /\ unsynced = {}
    /\ holder = [d \in Dirs |-> NoProc]
    /\ proc = [p \in Procs |-> NewProc]
    /\ losses = 0

Next ==
    \/ \E p \in Procs : Step(p) \/ Kill(p)
    \/ PowerLoss \/ Replace

\* Processes that started go on, but for those that hang.
Fairness == \A p \in Procs \ Hung : WF_vars(Running(p) /\ Step(p))

Spec == Init /\ [][Next]_vars /\ Fairness
-----------------------------------------------------------------------------
(* Properties *)

Entries == [registry : Seq(Procs), secret : {"absent", "empty"} \cup Procs]

Callers ==
    [op : {"open", "load", "write"},
     pc : {"new", "enter", "wait", "inside", "fill", "seal", "key",
           "create", "rename", "sync", "leave", "end"},
     home : Dirs, key : Procs \cup {NoProc}, made : Dirs,
     base : Seq(Procs), seen : Seq(Procs),
     said : {"none", "ok", "stale", "timeout", "failed", "killed"}]

\* Every directory and every process is in a state of its kind.
TypeOK ==
    /\ dir \in Dirs /\ losses \in 0..Incidents
    /\ disk \in [Dirs -> Entries] /\ durable \in [Dirs -> Entries]
    /\ unsynced \subseteq Dirs
    /\ holder \in [Dirs -> Procs \cup {NoProc}]
    /\ proc \in [Procs -> Callers]

Answer(p) ==
    CASE proc[p].said \in {"stale", "timeout"} -> "unchanged"
      [] proc[p].said \in {"failed", "killed"} -> "unknown"
      [] OTHER -> proc[p].said

Store == INSTANCE AtomicStore WITH log <- [d \in Dirs |-> disk[d].registry],
                                   answer <- [p \in Procs |-> Answer(p)],
                                   Durable <- DirectorySync

\* The storage is the atomic store that Registry takes it for: each write starts
\* from the registry it replaces, a caller told of a stale state or a lock
\* timeout wrote nothing, and an acknowledged write survives a power loss.
WritesAreAtomic == Store!Spec

\* A registry never gets a second secret: whoever wrote to it knew sessions by
\* the secret that is there, or the secret was lost, or its contents were, and
\* nobody opens it again.
OneSecret ==
    \A d \in Dirs : \A i \in DOMAIN disk[d].registry :
        disk[d].secret \in {"absent", "empty", proc[disk[d].registry[i]].key}

\* The snapshot a hook decides by is of the directory it opened, not of an empty
\* one that took its place (in which every session would look untracked).
SnapshotsAreOfHome ==
    \A p \in Procs :
        LET home == disk[proc[p].home].registry   base == proc[p].base IN
        Running(p) /\ proc[p].op = "write" =>
            Len(base) <= Len(home) /\ base = SubSeq(home, 1, Len(base))

\* Every call comes back, although others hang with the lock in their hands: a
\* wait ends at its deadline (_lock_descriptor: "A holder that hangs used to stall
\* every hook in every worktree").
EveryCallReturns ==
    \A p \in Procs \ Hung : Running(p) ~> proc[p].pc = "end"
=============================================================================
