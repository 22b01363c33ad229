--------------------------- MODULE StorageProofs ---------------------------
(***************************************************************************)
(* The storage keeps its promises for any number of processes, power       *)
(* losses and replacements of the directory: the invariants of             *)
(* LockedStorage, and that it implements AtomicStore.                      *)
(*                                                                         *)
(* The invariant says of each process what holding the lock of the         *)
(* directory it opened gives it: the registry it saw is still the          *)
(* registry, the secret it read is still the secret, and the one it        *)
(* creates is still empty.                                                 *)
(***************************************************************************)
EXTENDS LockedStorage, SequenceTheorems, TLAPS

\* The steps between the acquisition of the lock and its release.
Locked == {"inside", "fill", "seal", "key", "create", "rename", "sync", "leave"}

\* s is what the first writes of t left.
Prefix(s, t) == Len(s) <= Len(t) /\ s = SubSeq(t, 1, Len(s))

\* A secret file that was created and not yet written is its creator's alone,
\* in a directory that nobody wrote to.
Filling(p, r) ==
    /\ disk[r.made].secret = "empty" /\ durable[r.made].secret = "absent"
    /\ disk[r.made].registry = <<>>
    /\ \A q \in Procs : proc[q].pc = "fill" /\ proc[q].made = r.made => q = p

\* What a process with record r may rely on.
Fine(p, r) ==
    /\ r.pc \in Locked => holder[r.home] = p
    /\ r.pc # "end" => r.said = "none"
    /\ r.pc = "new" => r.key = NoProc
    /\ r.pc \notin {"new", "end"} =>
         /\ r.key # NoProc => disk[r.home].secret = r.key
         /\ r.op # "open" => r.key # NoProc
         /\ r.op = "write" => Prefix(r.base, disk[r.home].registry)
    /\ r.pc = "fill" => Filling(p, r)
    /\ r.home <= dir
    /\ r.op = "write" /\ r.pc \in {"create", "rename"} /\ r.home = dir =>
         r.seen = disk[r.home].registry
    /\ r.op = "write" /\ r.pc \in {"sync", "leave"} =>
         \E i \in DOMAIN disk[r.home].registry : disk[r.home].registry[i] = p

\* A write is in the registry of the directory its writer opened, from the rename.
Wrote(r, d) ==
    r.pc = "end" \/ (r.op = "write" /\ r.pc \in {"sync", "leave"} /\ r.home = d)

Acknowledged(r) == r.pc = "leave" \/ r.said = "ok"

\* What a directory holds, for a write w in it.
Kept(d, i, r) ==
    /\ Wrote(r, d)
    /\ DirectorySync /\ Acknowledged(r) => i <= Len(durable[d].registry)
    /\ disk[d].secret \in {"absent", "empty", r.key}

Inv ==
    /\ TypeOK
    /\ \A p \in Procs : Fine(p, proc[p])
    /\ \A d \in Dirs : durable[d].secret \in {"absent", disk[d].secret}
    /\ \A d \in Dirs : \A i \in DOMAIN disk[d].registry :
         Kept(d, i, proc[disk[d].registry[i]])

-----------------------------------------------------------------------------
(* Lemmas on the operators of the model. *)

\* The record of a process that ended (End: what outlives a call of the storage).
LEMMA EndFields ==
    ASSUME NEW r \in Callers,
           NEW said \in {"ok", "stale", "timeout", "failed", "killed"}
    PROVE  /\ End(r, said) \in Callers
           /\ End(r, said).pc = "end" /\ End(r, said).op = "open"
           /\ End(r, said).key = r.key /\ End(r, said).said = said
           /\ End(r, said).home = 0
<1>1. NewProc \in Callers
    BY StorageAssumption DEF NewProc, Callers, Dirs
<1> QED BY <1>1 DEF End, NewProc, Callers

\* The first n writes of a registry are a registry, and hold the same writes.
LEMMA FirstWrites ==
    ASSUME NEW s \in Seq(Procs), NEW n \in 0 .. Len(s)
    PROVE  /\ SubSeq(s, 1, n) \in Seq(Procs)
           /\ Len(SubSeq(s, 1, n)) = n
           /\ \A i \in 1 .. n : SubSeq(s, 1, n)[i] = s[i]
<1>1. \A i \in 1 .. n : s[i] \in Procs OBVIOUS
<1>2. 1 \in Int /\ n \in Int OBVIOUS
<1> QED BY <1>1, <1>2, SubSeqProperties

\* What a directory held first it still holds first after another write.
LEMMA AppendKeepsPrefix ==
    ASSUME NEW s \in Seq(Procs), NEW t \in Seq(Procs), NEW p \in Procs, Prefix(s, t)
    PROVE  Prefix(s, Append(t, p))
<1> DEFINE u == Append(t, p)   n == Len(s)
<1>1. u \in Seq(Procs) /\ Len(u) = Len(t) + 1 /\ n \in 0 .. Len(t) /\ n \in 0 .. Len(u)
    BY DEF Prefix
<1>2. \A i \in 1 .. n : u[i] = t[i] BY <1>1
<1> HIDE DEF u
<1>3. \A i \in 1 .. n : SubSeq(t, 1, n)[i] = SubSeq(u, 1, n)[i]
    BY <1>1, <1>2, FirstWrites
<1>4. /\ SubSeq(t, 1, n) \in Seq(Procs) /\ SubSeq(u, 1, n) \in Seq(Procs)
      /\ Len(SubSeq(t, 1, n)) = n /\ Len(SubSeq(u, 1, n)) = n
    BY <1>1, FirstWrites
<1>5. SubSeq(t, 1, n) = SubSeq(u, 1, n)
    BY <1>3, <1>4, SeqEqual
<1> QED BY <1>1, <1>5 DEF Prefix, u

-----------------------------------------------------------------------------
(* The invariant holds at first, and through every step. *)

LEMMA InitInv == Init => Inv
<1> SUFFICES ASSUME Init PROVE Inv OBVIOUS
<1>1. /\ NewProc \in Callers /\ EmptyDir \in Entries /\ 0 \in Dirs
      /\ NewProc.pc = "new" /\ NewProc.said = "none" /\ NewProc.key = NoProc
      /\ NewProc.home = 0 /\ NewProc.op = "open"
      /\ EmptyDir.registry = <<>> /\ EmptyDir.secret = "absent"
    BY StorageAssumption DEF NewProc, EmptyDir, Callers, Entries, Dirs
<1>2. TypeOK
    BY <1>1, StorageAssumption DEF Init, TypeOK, Dirs
<1>3. \A p \in Procs : Fine(p, proc[p])
    BY <1>1 DEF Init, Fine, Locked
<1>4. \A d \in Dirs : durable[d].secret = "absent" /\ disk[d].registry = <<>>
    BY <1>1 DEF Init
<1> QED BY <1>2, <1>3, <1>4 DEF Inv

\* A process moves, or ends, and leaves the directories alone.
LEMMA Move ==
    ASSUME Inv, NEW p \in Procs, NEW r \in Callers,
           proc' = [proc EXCEPT ![p] = r], UNCHANGED <<dir, disk, durable, losses>>,
           unsynced' \subseteq unsynced,
           holder' \in [Dirs -> Procs \cup {NoProc}],
           \A q \in Procs \ {p} :
               proc[q].pc \in Locked => holder'[proc[q].home] = holder[proc[q].home],
           Fine(p, r)', r.pc # "fill",
           \A d \in Dirs : \A i \in DOMAIN disk[d].registry :
               disk[d].registry[i] = p => Kept(d, i, r)
    PROVE  Inv'
<1>1. TypeOK' BY DEF Inv, TypeOK
<1>2. ASSUME NEW q \in Procs PROVE Fine(q, proc[q])'
  <2>1. CASE q = p BY <2>1 DEF Inv, TypeOK
  <2>2. CASE q # p
    <3>1. proc'[q] = proc[q] /\ Fine(q, proc[q]) BY <2>2 DEF Inv, TypeOK
    <3>2. proc[q].pc = "fill" => Filling(q, proc[q])'
        BY <3>1, <2>2 DEF Fine, Filling, Inv, TypeOK
    <3> QED BY <3>1, <3>2, <2>2 DEF Fine
  <2> QED BY <2>1, <2>2
<1>3. ASSUME NEW d \in Dirs, NEW i \in DOMAIN disk[d].registry
      PROVE  Kept(d, i, proc[disk[d].registry[i]])'
  <2> DEFINE w == disk[d].registry[i]
  <2>1. Kept(d, i, proc[w]) /\ w \in Procs BY DEF Inv, TypeOK, Entries
  <2>2. CASE w = p BY <2>1, <2>2 DEF Kept, Wrote, Inv, TypeOK
  <2>3. CASE w # p BY <2>1, <2>3 DEF Kept, Wrote, Inv, TypeOK
  <2> QED BY <2>2, <2>3
<1> QED BY <1>1, <1>2, <1>3 DEF Inv

\* A process that has not come to its rename is in no registry.
LEMMA NotYetWritten ==
    ASSUME Inv, NEW p \in Procs,
           ~(proc[p].op = "write" /\ proc[p].pc \in {"sync", "leave"}), proc[p].pc # "end",
           NEW d \in Dirs, NEW i \in DOMAIN disk[d].registry
    PROVE  disk[d].registry[i] # p
BY DEF Inv, Kept, Wrote

\* Only the holder lets go of a lock (Release: _unlock_descriptor).
LEMMA ReleaseKeepsOthers ==
    ASSUME Inv, NEW p \in Procs, proc[p].pc \in Locked, Release(p)
    PROVE  /\ holder' \in [Dirs -> Procs \cup {NoProc}]
           /\ \A q \in Procs \ {p} :
                proc[q].pc \in Locked => holder'[proc[q].home] = holder[proc[q].home]
<1>1. proc[p].home \in Dirs /\ holder[proc[p].home] = p
    BY DEF Inv, TypeOK, Callers, Fine
<1>2. \A q \in Procs : proc[q].home \in Dirs BY DEF Inv, TypeOK, Callers
<1>3. \A q \in Procs \ {p} : proc[q].pc \in Locked => proc[q].home # proc[p].home
    BY <1>1 DEF Inv, Fine
<1>4. holder' \in [Dirs -> Procs \cup {NoProc}] BY <1>1 DEF Inv, TypeOK, Release
<1> QED BY <1>1, <1>2, <1>3, <1>4 DEF Release, Inv, TypeOK

LEMMA Ends ==
    ASSUME Inv, NEW p \in Procs,
           NEW said \in {"ok", "stale", "timeout", "failed", "killed"},
           said = "ok" => proc[p].pc = "leave",
           proc' = [proc EXCEPT ![p] = End(proc[p], said)],
           UNCHANGED <<dir, disk, durable, losses, unsynced>>,
           holder' \in [Dirs -> Procs \cup {NoProc}],
           \A q \in Procs \ {p} :
               proc[q].pc \in Locked => holder'[proc[q].home] = holder[proc[q].home]
    PROVE  Inv'
<1> PICK r : r = End(proc[p], said) OBVIOUS
<1>1. /\ r \in Callers /\ r.pc = "end" /\ r.op = "open" /\ r.home = 0
      /\ r.key = proc[p].key /\ r.said = said
    BY EndFields DEF Inv, TypeOK
<1>2. Fine(p, r)' BY <1>1 DEF Fine, Locked, Inv, TypeOK, Dirs
<1>3. \A d \in Dirs : \A i \in DOMAIN disk[d].registry :
          disk[d].registry[i] = p => Kept(d, i, r)
  <2> TAKE d \in Dirs
  <2> TAKE i \in DOMAIN disk[d].registry
  <2> HAVE disk[d].registry[i] = p
  <2>1. Kept(d, i, proc[p]) BY DEF Inv
  <2> QED BY <1>1, <2>1 DEF Kept, Wrote, Acknowledged
<1> HIDE DEF Inv
<1> QED BY <1>1, <1>2, <1>3, Move

LEMMA FailInv ==
    ASSUME Inv, NEW p \in Procs,
           NEW said \in {"ok", "stale", "timeout", "failed", "killed"},
           said = "ok" => proc[p].pc = "leave", proc[p].pc \in Locked, Fail(p, said)
    PROVE  Inv'
BY Ends, ReleaseKeepsOthers DEF Fail, Set

LEMMA StartInv == ASSUME Inv, NEW p \in Procs, Start(p) PROVE Inv'
<1> PICK r : r = Begin([proc[p] EXCEPT !.home = dir], "open") OBVIOUS
<1>1. proc[p] \in Callers /\ dir \in Dirs /\ Fine(p, proc[p]) BY DEF Inv, TypeOK
<1>2. /\ r \in Callers /\ r.op = "open" /\ r.pc = "enter" /\ r.home = dir
      /\ r.key = proc[p].key /\ r.said = proc[p].said
    BY <1>1 DEF Begin, Callers
<1>3. Fine(p, r)' BY <1>1, <1>2 DEF Fine, Start, Locked, Dirs
<1>4. \A d \in Dirs : \A i \in DOMAIN disk[d].registry : disk[d].registry[i] # p
    BY NotYetWritten DEF Start
<1>5. holder' \in [Dirs -> Procs \cup {NoProc}] BY DEF Inv, TypeOK, Start
<1> QED BY <1>2, <1>3, <1>4, <1>5, Move DEF Start, Set

LEMMA EnterInv == ASSUME Inv, NEW p \in Procs, Enter(p) PROVE Inv'
<1>1. proc[p] \in Callers /\ Fine(p, proc[p]) BY DEF Inv, TypeOK
<1>2. holder' \in [Dirs -> Procs \cup {NoProc}] BY DEF Inv, TypeOK, Enter
<1>3. CASE Guarded(p)
  <2> PICK r : r = [proc[p] EXCEPT !.pc = "wait"] OBVIOUS
  <2>1. /\ r \in Callers /\ r.pc = "wait" /\ r.op = proc[p].op /\ r.home = proc[p].home
        /\ r.key = proc[p].key /\ r.said = proc[p].said /\ r.base = proc[p].base
      BY <1>1 DEF Callers
  <2>2. Fine(p, r)' BY <1>1, <2>1 DEF Fine, Enter, Locked, Prefix
  <2>3. \A d \in Dirs : \A i \in DOMAIN disk[d].registry : disk[d].registry[i] # p
      BY NotYetWritten DEF Enter
  <2>4. proc' = [proc EXCEPT ![p] = r] /\ UNCHANGED <<dir, disk, durable, holder, losses, unsynced>>
      BY <1>3 DEF Enter, Set
  <2> QED BY <1>2, <2>1, <2>2, <2>3, <2>4, Move
<1>4. CASE ~Guarded(p)
    BY <1>2, <1>4, Ends DEF Enter, Set
<1> QED BY <1>3, <1>4

LEMMA AcquireInv == ASSUME Inv, NEW p \in Procs, Acquire(p) PROVE Inv'
<1>1. proc[p] \in Callers /\ Fine(p, proc[p]) /\ proc[p].home \in Dirs
    BY DEF Inv, TypeOK, Callers
<1>2. CASE Same(p)
  <2> PICK r : r = [proc[p] EXCEPT !.pc = "inside"] OBVIOUS
  <2>1. /\ r \in Callers /\ r.pc = "inside" /\ r.op = proc[p].op /\ r.home = proc[p].home
        /\ r.key = proc[p].key /\ r.said = proc[p].said /\ r.base = proc[p].base
      BY <1>1 DEF Callers
  <2>2. holder' = [holder EXCEPT ![proc[p].home] = p] /\ holder[proc[p].home] = NoProc
      BY <1>2 DEF Acquire
  <2>3. holder' \in [Dirs -> Procs \cup {NoProc}] /\ holder'[r.home] = p
      BY <1>1, <2>1, <2>2 DEF Inv, TypeOK
  <2>4. Fine(p, r)' BY <1>1, <2>1, <2>3 DEF Fine, Acquire, Locked, Prefix
  <2>5. \A d \in Dirs : \A i \in DOMAIN disk[d].registry : disk[d].registry[i] # p
      BY NotYetWritten DEF Acquire
  <2>6. \A q \in Procs \ {p} :
          proc[q].pc \in Locked => holder'[proc[q].home] = holder[proc[q].home]
      BY <1>1, <2>2, StorageAssumption DEF Inv, TypeOK, Callers, Fine
  <2>7. proc' = [proc EXCEPT ![p] = r] /\ UNCHANGED <<dir, disk, durable, losses, unsynced>>
      BY <1>2 DEF Acquire, Set
  <2>8. \A d \in Dirs : \A i \in DOMAIN disk[d].registry :
          disk[d].registry[i] = p => Kept(d, i, r)
      BY <2>5
  <2>9. r \in Callers /\ r.pc # "fill" BY <2>1
  <2> HIDE DEF Inv
  <2> QED BY <2>3, <2>4, <2>6, <2>7, <2>8, <2>9, Move
<1>3. CASE ~Same(p)
  <2>1. holder' \in [Dirs -> Procs \cup {NoProc}] BY <1>3 DEF Inv, TypeOK, Acquire
  <2> QED BY <1>3, <2>1, Ends DEF Acquire, Set
<1> QED BY <1>2, <1>3

LEMMA TimeoutInv == ASSUME Inv, NEW p \in Procs, Timeout(p) PROVE Inv'
<1>1. holder' \in [Dirs -> Procs \cup {NoProc}] BY DEF Inv, TypeOK, Timeout
<1> QED BY <1>1, Ends DEF Timeout, Set

\* A secret file is created or written in a directory that nobody knows yet.
LEMMA SecretStep ==
    ASSUME Inv, NEW p \in Procs, NEW r \in Callers, NEW d \in Dirs,
           NEW secret \in {"empty"} \cup Procs,
           disk' = [disk EXCEPT ![d].secret = secret],
           disk[d].secret \in {"absent", "empty"}, disk[d].registry = <<>>,
           durable[d].secret = "absent",
           \A q \in Procs \ {p} : proc[q].pc = "fill" => proc[q].made # d,
           proc' = [proc EXCEPT ![p] = r], proc[p].pc \in {"inside", "fill"},
           proc[p].op = "open", UNCHANGED <<dir, durable, holder, losses>>,
           unsynced' \subseteq Dirs, Fine(p, r)',
           r.pc = "fill" => r.made = d
    PROVE  Inv'
<1>1. /\ disk' \in [Dirs -> Entries] /\ disk'[d].secret = secret
      /\ disk'[d].registry = disk[d].registry
      /\ \A e \in Dirs \ {d} : disk'[e] = disk[e]
    BY DEF Inv, TypeOK, Entries
<1>2. TypeOK' BY <1>1 DEF Inv, TypeOK
<1>3. ASSUME NEW q \in Procs PROVE Fine(q, proc[q])'
  <2>1. CASE q = p BY <2>1 DEF Inv, TypeOK
  <2>2. CASE q # p
    <3>1. proc'[q] = proc[q] /\ Fine(q, proc[q]) /\ proc[q] \in Callers
        BY <2>2 DEF Inv, TypeOK
    <3>2. proc[q].home \in Dirs /\ proc[q].made \in Dirs
          /\ proc[q].key \in Procs \cup {NoProc}
        BY <3>1 DEF Callers
    <3>3. proc[q].pc = "fill" => Filling(q, proc[q])'
      <4> SUFFICES ASSUME proc[q].pc = "fill" PROVE Filling(q, proc[q])' OBVIOUS
      <4>1. Filling(q, proc[q]) /\ proc[q].made # d BY <2>2, <3>1 DEF Fine
      <4>2. disk'[proc[q].made] = disk[proc[q].made] BY <1>1, <3>2, <4>1
      <4>3. \A u \in Procs : proc'[u].pc = "fill" /\ proc'[u].made = proc[q].made => u = q
          BY <4>1 DEF Filling, Inv, TypeOK
      <4> QED BY <3>1, <4>1, <4>2, <4>3 DEF Filling
    <3>4. proc[q].pc \notin {"new", "end"} /\ proc[q].key # NoProc => proc[q].home # d
        BY <3>1, <3>2, StorageAssumption DEF Fine
    <3>5. disk'[proc[q].home].registry = disk[proc[q].home].registry
        BY <1>1, <3>2
    <3>6. proc[q].pc \notin {"new", "end"} /\ proc[q].key # NoProc =>
            disk'[proc[q].home].secret = disk[proc[q].home].secret
        BY <1>1, <3>2, <3>4
    <3> QED BY <3>1, <3>3, <3>5, <3>6 DEF Fine
  <2> QED BY <2>1, <2>2
<1>4. \A e \in Dirs : durable'[e].secret \in {"absent", disk'[e].secret}
    BY <1>1 DEF Inv
<1>5. ASSUME NEW e \in Dirs, NEW i \in DOMAIN disk'[e].registry
      PROVE  Kept(e, i, proc[disk[e].registry[i]])'
  <2>1. e # d /\ disk'[e] = disk[e] /\ i \in DOMAIN disk[e].registry BY <1>1
  <2>2. disk[e].registry[i] \in Procs \ {p}
    <3>1. disk[e].registry[i] \in Procs BY <2>1 DEF Inv, TypeOK, Entries
    <3>2. disk[e].registry[i] # p BY <2>1, NotYetWritten
    <3> QED BY <3>1, <3>2
  <2>3. proc'[disk[e].registry[i]] = proc[disk[e].registry[i]]
      BY <2>2 DEF Inv, TypeOK
  <2> QED BY <2>1, <2>3 DEF Kept, Inv
<1> QED BY <1>2, <1>3, <1>4, <1>5 DEF Inv

LEMMA CreateSecretInv == ASSUME Inv, NEW p \in Procs, CreateSecret(p) PROVE Inv'
<1>1. /\ proc[p] \in Callers /\ Fine(p, proc[p]) /\ dir \in Dirs
      /\ proc[p].home \in Dirs /\ proc[p].op = "open" /\ proc[p].pc = "inside"
    BY DEF Inv, TypeOK, Callers, CreateSecret, At
<1>2. CASE SecretMissing
    BY <1>1, <1>2, FailInv DEF CreateSecret, Locked
<1>3. CASE Here.secret # "absent"
  <2> PICK r : r = [proc[p] EXCEPT !.pc = "key", !.made = dir] OBVIOUS
  <2>1. /\ r \in Callers /\ r.pc = "key" /\ r.op = "open" /\ r.home = proc[p].home
        /\ r.key = proc[p].key /\ r.said = proc[p].said
      BY <1>1 DEF Callers
  <2>2. disk' = disk /\ proc' = [proc EXCEPT ![p] = r] /\ UNCHANGED <<dir, durable, losses, unsynced>>
      BY <1>3 DEF CreateSecret, SecretMissing, Set, Here, Inv, TypeOK, Entries
  <2>3. holder' = holder BY <1>3 DEF CreateSecret, SecretMissing
  <2>4. Fine(p, r)' BY <1>1, <2>1, <2>2, <2>3 DEF Fine, Locked
  <2>5. \A d \in Dirs : \A i \in DOMAIN disk[d].registry :
          disk[d].registry[i] = p => Kept(d, i, r)
      BY <1>1, NotYetWritten
  <2>6. holder' \in [Dirs -> Procs \cup {NoProc}] BY <2>3 DEF Inv, TypeOK
  <2>7. r \in Callers /\ r.pc # "fill" BY <2>1
  <2> HIDE DEF Inv
  <2> QED BY <2>2, <2>3, <2>4, <2>5, <2>6, <2>7, Move
<1>4. CASE Here.secret = "absent" /\ ~SecretMissing
  <2> PICK r : r = [proc[p] EXCEPT !.pc = "fill", !.made = dir] OBVIOUS
  <2>1. /\ r \in Callers /\ r.pc = "fill" /\ r.op = "open" /\ r.home = proc[p].home
        /\ r.key = proc[p].key /\ r.said = proc[p].said /\ r.made = dir
      BY <1>1 DEF Callers
  <2>2. /\ disk' = [disk EXCEPT ![dir].secret = "empty"]
        /\ proc' = [proc EXCEPT ![p] = r] /\ UNCHANGED <<dir, durable, holder, losses, unsynced>>
      BY <1>4 DEF CreateSecret, Set, Here
  <2>3. disk[dir].secret = "absent" /\ disk[dir].registry = <<>>
      BY <1>4 DEF Here, SecretMissing
  <2>4. durable[dir].secret = "absent" BY <1>1, <2>3 DEF Inv
  <2>5. \A q \in Procs \ {p} : proc[q].pc = "fill" => proc[q].made # dir
      BY <2>3 DEF Inv, Fine, Filling
  <2>6. disk'[dir].secret = "empty" /\ disk'[dir].registry = <<>>
        /\ \A e \in Dirs \ {dir} : disk'[e] = disk[e]
      BY <1>1, <2>2, <2>3 DEF Inv, TypeOK, Entries
  <2>7. Filling(p, r)'
      BY <2>1, <2>2, <2>4, <2>5, <2>6 DEF Filling, Inv, TypeOK
  <2>8. r.key # NoProc => disk'[r.home].secret = r.key
      BY <1>1, <2>1, <2>3, <2>6, StorageAssumption DEF Fine, Callers
  <2>9. Fine(p, r)' BY <1>1, <2>1, <2>2, <2>7, <2>8 DEF Fine, Locked
  <2>10. unsynced' \subseteq Dirs BY <2>2 DEF Inv, TypeOK
  <2> HIDE DEF Inv
  <2> QED BY <1>1, <2>1, <2>2, <2>3, <2>4, <2>5, <2>9, <2>10, SecretStep
<1> QED BY <1>2, <1>3, <1>4

LEMMA FillSecretInv == ASSUME Inv, NEW p \in Procs, FillSecret(p) PROVE Inv'
<1>1. /\ proc[p] \in Callers /\ Fine(p, proc[p]) /\ proc[p].home \in Dirs
      /\ proc[p].made \in Dirs /\ proc[p].op = "open" /\ proc[p].pc = "fill"
      /\ proc[p].pc \in Locked
    BY DEF Inv, TypeOK, Callers, FillSecret, At, Locked
<1> PICK r : r = [proc[p] EXCEPT !.pc = "seal"] OBVIOUS
<1> PICK d \in Dirs : d = proc[p].made BY <1>1
<1>2. /\ r \in Callers /\ r.pc = "seal" /\ r.op = "open" /\ r.home = proc[p].home
      /\ r.key = proc[p].key /\ r.said = proc[p].said
    BY <1>1 DEF Callers
<1>3. CASE Fail(p, "failed") BY <1>1, <1>3, FailInv
<1>4. CASE ~Fail(p, "failed")
  <2>1. /\ disk' = [disk EXCEPT ![d].secret = p] /\ proc' = [proc EXCEPT ![p] = r]
        /\ UNCHANGED <<dir, durable, holder, losses>>
        /\ unsynced' = unsynced \cup {d}
      BY <1>4 DEF FillSecret, Set
  <2>2. /\ disk[d].secret = "empty" /\ disk[d].registry = <<>>
        /\ durable[d].secret = "absent"
        /\ \A q \in Procs \ {p} : proc[q].pc = "fill" => proc[q].made # d
      BY <1>1 DEF Fine, Filling
  <2>3. \A e \in Dirs \ {d} : disk'[e] = disk[e] BY <2>1 DEF Inv, TypeOK
  <2>4. r.key # NoProc => disk'[r.home].secret = r.key
      BY <1>1, <1>2, <2>2, <2>3, StorageAssumption DEF Fine, Callers
  <2>5. Fine(p, r)' BY <1>1, <1>2, <2>1, <2>4 DEF Fine, Locked
  <2>6. unsynced' \subseteq Dirs BY <2>1 DEF Inv, TypeOK
  <2> HIDE DEF Inv
  <2> QED BY <1>1, <1>2, <2>1, <2>2, <2>5, <2>6, SecretStep
<1> QED BY <1>3, <1>4

LEMMA SyncSecretInv == ASSUME Inv, NEW p \in Procs, SyncSecret(p) PROVE Inv'
<1>1. /\ proc[p] \in Callers /\ Fine(p, proc[p])
      /\ proc[p].op = "open" /\ proc[p].pc = "seal" /\ proc[p].pc \in Locked
    BY DEF Inv, TypeOK, SyncSecret, At, Locked
<1>2. CASE Fail(p, "failed") BY <1>1, <1>2, FailInv
<1>3. CASE ~Fail(p, "failed")
  <2> PICK r : r = [proc[p] EXCEPT !.pc = "key"] OBVIOUS
  <2>1. /\ r \in Callers /\ r.pc = "key" /\ r.op = "open" /\ r.home = proc[p].home
        /\ r.key = proc[p].key /\ r.said = proc[p].said
      BY <1>1 DEF Callers
  <2>2. /\ proc' = [proc EXCEPT ![p] = r] /\ UNCHANGED <<dir, disk, durable, holder, losses>>
        /\ unsynced' \subseteq unsynced
      BY <1>3 DEF SyncSecret, Set
  <2>3. Fine(p, r)' BY <1>1, <2>1, <2>2 DEF Fine, Locked
  <2>4. \A d \in Dirs : \A i \in DOMAIN disk[d].registry :
          disk[d].registry[i] = p => Kept(d, i, r)
      BY <1>1, NotYetWritten
  <2>5. holder' \in [Dirs -> Procs \cup {NoProc}] /\ r.pc # "fill"
      BY <2>1, <2>2 DEF Inv, TypeOK
  <2> HIDE DEF Inv
  <2> QED BY <2>1, <2>2, <2>3, <2>4, <2>5, Move
<1> QED BY <1>2, <1>3

LEMMA ReadSecretInv == ASSUME Inv, NEW p \in Procs, ReadSecret(p) PROVE Inv'
<1>1. /\ proc[p] \in Callers /\ Fine(p, proc[p]) /\ dir \in Dirs
      /\ proc[p].op = "open" /\ proc[p].pc = "key" /\ proc[p].pc \in Locked
    BY DEF Inv, TypeOK, ReadSecret, At, Locked
<1>2. CASE Whole(Here.secret) /\ Same(p)
  <2> PICK r : r = Begin([proc[p] EXCEPT !.key = Here.secret, !.made = 0], "load") OBVIOUS
  <2>1. Here.secret \in Procs /\ Here.secret = disk[dir].secret /\ 0 \in Dirs
      BY <1>2, StorageAssumption DEF Whole, Here, Dirs
  <2>2. /\ r \in Callers /\ r.pc = "enter" /\ r.op = "load" /\ r.home = proc[p].home
        /\ r.key = disk[dir].secret /\ r.said = proc[p].said
      BY <1>1, <2>1 DEF Begin, Callers
  <2>3. /\ proc' = [proc EXCEPT ![p] = r] /\ UNCHANGED <<dir, disk, durable, losses, unsynced>>
        /\ Release(p)
      BY <1>2 DEF ReadSecret, Set
  <2>4. r.home = dir /\ r.key \in Procs BY <1>2, <2>1, <2>2 DEF Same
  <2>5. Fine(p, r)' BY <1>1, <2>2, <2>3, <2>4, StorageAssumption DEF Fine, Locked, Dirs
  <2>6. \A d \in Dirs : \A i \in DOMAIN disk[d].registry :
          disk[d].registry[i] = p => Kept(d, i, r)
      BY <1>1, NotYetWritten
  <2>7. r \in Callers /\ r.pc # "fill" BY <2>2
  <2> HIDE DEF Inv
  <2> QED BY <1>1, <2>3, <2>5, <2>6, <2>7, ReleaseKeepsOthers, Move
<1>3. CASE ~(Whole(Here.secret) /\ Same(p))
    BY <1>1, <1>3, FailInv DEF ReadSecret
<1> QED BY <1>2, <1>3

LEMMA LoadInv == ASSUME Inv, NEW p \in Procs, Load(p) PROVE Inv'
<1>1. /\ proc[p] \in Callers /\ Fine(p, proc[p]) /\ proc[p].home \in Dirs
      /\ proc[p].op = "load" /\ proc[p].pc = "inside" /\ proc[p].pc \in Locked
    BY DEF Inv, TypeOK, Callers, Load, At, Locked
<1>2. CASE Same(p)
  <2> PICK r : r = Begin([proc[p] EXCEPT !.base = Here.registry], "write") OBVIOUS
  <2>1. Here.registry = disk[proc[p].home].registry /\ Here.registry \in Seq(Procs)
      BY <1>1, <1>2 DEF Same, Here, Inv, TypeOK, Entries
  <2>2. /\ r \in Callers /\ r.pc = "enter" /\ r.op = "write" /\ r.home = proc[p].home
        /\ r.key = proc[p].key /\ r.said = proc[p].said
        /\ r.base = disk[proc[p].home].registry
      BY <1>1, <2>1 DEF Begin, Callers
  <2>3. /\ proc' = [proc EXCEPT ![p] = r] /\ UNCHANGED <<dir, disk, durable, losses, unsynced>>
        /\ Release(p)
      BY <1>2 DEF Load, Set
  <2>4. Prefix(r.base, disk[r.home].registry)
    <3>1. \A t \in Seq(Procs) : Prefix(t, t) BY DEF Prefix
    <3> QED BY <2>1, <2>2, <3>1
  <2>5. Fine(p, r)' BY <1>1, <2>2, <2>3, <2>4 DEF Fine, Locked, Prefix
  <2>6. \A d \in Dirs : \A i \in DOMAIN disk[d].registry :
          disk[d].registry[i] = p => Kept(d, i, r)
      BY <1>1, NotYetWritten
  <2>7. r \in Callers /\ r.pc # "fill" BY <2>2
  <2> HIDE DEF Inv
  <2> QED BY <1>1, <2>3, <2>5, <2>6, <2>7, ReleaseKeepsOthers, Move
<1>3. CASE ~Same(p)
    BY <1>1, <1>3, FailInv DEF Load
<1> QED BY <1>2, <1>3

LEMMA CompareInv == ASSUME Inv, NEW p \in Procs, Compare(p) PROVE Inv'
<1>1. /\ proc[p] \in Callers /\ Fine(p, proc[p]) /\ dir \in Dirs
      /\ proc[p].op = "write" /\ proc[p].pc = "inside" /\ proc[p].pc \in Locked
    BY DEF Inv, TypeOK, Compare, At, Locked
<1> PICK r : r = [proc[p] EXCEPT !.pc = "create", !.seen = Current(p)] OBVIOUS
<1>2. CASE proc' = [proc EXCEPT ![p] = r] /\ UNCHANGED <<dir, disk, durable, holder, losses, unsynced>>
  <2>1. Current(p) = disk[dir].registry /\ Current(p) \in Seq(Procs)
      BY <1>1 DEF Current, Here, Inv, TypeOK, Entries
  <2>2. /\ r \in Callers /\ r.pc = "create" /\ r.op = "write" /\ r.home = proc[p].home
        /\ r.key = proc[p].key /\ r.said = proc[p].said /\ r.base = proc[p].base
        /\ r.seen = disk[dir].registry
      BY <1>1, <2>1 DEF Callers
  <2>3. Fine(p, r)' BY <1>1, <1>2, <2>2 DEF Fine, Locked, Prefix
  <2>4. \A d \in Dirs : \A i \in DOMAIN disk[d].registry :
          disk[d].registry[i] = p => Kept(d, i, r)
      BY <1>1, NotYetWritten
  <2>5. r \in Callers /\ r.pc # "fill" /\ holder' \in [Dirs -> Procs \cup {NoProc}]
      BY <1>2, <2>2 DEF Inv, TypeOK
  <2> HIDE DEF Inv
  <2> QED BY <1>2, <2>3, <2>4, <2>5, Move
<1>3. CASE Fail(p, "stale")
    BY <1>1, <1>3, FailInv
<1> QED BY <1>2, <1>3 DEF Compare, Set

LEMMA CreateTempInv == ASSUME Inv, NEW p \in Procs, CreateTemp(p) PROVE Inv'
<1>1. /\ proc[p] \in Callers /\ Fine(p, proc[p])
      /\ proc[p].op = "write" /\ proc[p].pc = "create" /\ proc[p].pc \in Locked
    BY DEF Inv, TypeOK, CreateTemp, At, Locked
<1>2. CASE Same(p)
  <2> PICK r : r = [proc[p] EXCEPT !.pc = "rename"] OBVIOUS
  <2>1. /\ r \in Callers /\ r.pc = "rename" /\ r.op = "write" /\ r.home = proc[p].home
        /\ r.key = proc[p].key /\ r.said = proc[p].said /\ r.base = proc[p].base
        /\ r.seen = proc[p].seen
      BY <1>1 DEF Callers
  <2>2. proc' = [proc EXCEPT ![p] = r] /\ UNCHANGED <<dir, disk, durable, holder, losses, unsynced>>
      BY <1>2 DEF CreateTemp, Set
  <2>3. Fine(p, r)' BY <1>1, <2>1, <2>2 DEF Fine, Locked, Prefix
  <2>4. \A d \in Dirs : \A i \in DOMAIN disk[d].registry :
          disk[d].registry[i] = p => Kept(d, i, r)
      BY <1>1, NotYetWritten
  <2>5. r \in Callers /\ r.pc # "fill" /\ holder' \in [Dirs -> Procs \cup {NoProc}]
      BY <2>1, <2>2 DEF Inv, TypeOK
  <2> HIDE DEF Inv
  <2> QED BY <2>2, <2>3, <2>4, <2>5, Move
<1>3. CASE ~Same(p)
    BY <1>1, <1>3, FailInv DEF CreateTemp
<1> QED BY <1>2, <1>3

LEMMA LeaveInv == ASSUME Inv, NEW p \in Procs, Leave(p) PROVE Inv'
<1>1. proc[p].pc = "leave" /\ proc[p].pc \in Locked BY DEF Leave, At, Locked
<1>2. CASE Same(p) BY <1>1, <1>2, FailInv DEF Leave
<1>3. CASE ~Same(p) BY <1>1, <1>3, FailInv DEF Leave
<1> QED BY <1>2, <1>3

LEMMA KillInv == ASSUME Inv, NEW p \in Procs, Kill(p) PROVE Inv'
<1>1. proc' = [proc EXCEPT ![p] = End(proc[p], "killed")]
    BY DEF Kill, Killed, Inv, TypeOK
<1>2. holder' \in [Dirs -> Procs \cup {NoProc}]
    BY DEF Kill, Released, Inv, TypeOK
<1>3. \A q \in Procs \ {p} :
          proc[q].pc \in Locked => holder'[proc[q].home] = holder[proc[q].home]
    BY DEF Kill, Released, Inv, TypeOK, Callers, Fine
<1> QED BY <1>1, <1>2, <1>3, Ends DEF Kill

LEMMA ReplaceInv == ASSUME Inv, Replace PROVE Inv'
<1>1. dir' = dir + 1 /\ dir' \in Dirs /\ dir \in Nat
    BY StorageAssumption DEF Replace, Inv, TypeOK, Dirs
<1>2. TypeOK' BY <1>1 DEF Replace, Inv, TypeOK
<1>3. ASSUME NEW p \in Procs PROVE Fine(p, proc[p])'
  <2>1. Fine(p, proc[p]) /\ proc[p].home \in Nat
      BY DEF Inv, TypeOK, Callers, Dirs
  <2>2. proc[p].pc = "fill" => Filling(p, proc[p])'
      BY <2>1 DEF Replace, Fine, Filling
  <2>3. proc[p].home <= dir /\ proc[p].home # dir + 1 BY <1>1, <2>1 DEF Fine
  <2> QED BY <1>1, <2>1, <2>2, <2>3 DEF Replace, Fine
<1>4. \A d \in Dirs : \A i \in DOMAIN disk[d].registry :
          Kept(d, i, proc[disk[d].registry[i]])'
    BY DEF Replace, Inv, Kept
<1> QED BY <1>2, <1>3, <1>4 DEF Replace, Inv

LEMMA RenameInv == ASSUME Inv, NEW p \in Procs, Rename(p) PROVE Inv'
<1> DEFINE home == proc[p].home
<1>1. /\ proc[p] \in Callers /\ Fine(p, proc[p]) /\ home \in Dirs
      /\ proc[p].op = "write" /\ proc[p].pc = "rename" /\ proc[p].pc \in Locked
    BY DEF Inv, TypeOK, Callers, Rename, At, Locked
<1>2. CASE Fail(p, "failed")
    BY <1>1, <1>2, FailInv
<1>3. CASE ~Fail(p, "failed")
  <2> PICK d \in Dirs : d = home BY <1>1
  <2> PICK r : r = [proc[p] EXCEPT !.pc = "sync"] OBVIOUS
  <2> PICK old : old = disk[d].registry OBVIOUS
  <2> PICK new : new = Append(old, p) OBVIOUS
  <2> HIDE DEF home
  <2>1. /\ r \in Callers /\ r.pc = "sync" /\ r.op = "write" /\ r.home = d
        /\ r.key = proc[p].key /\ r.said = "none" /\ r.base = proc[p].base
      BY <1>1 DEF Callers, Fine, home
  <2>2. /\ proc[p].seen = old /\ disk[d].secret = proc[p].key /\ proc[p].key \in Procs
        /\ holder[d] = p /\ d <= dir
      BY <1>1, <1>3 DEF Rename, Same, Fine, Callers, home
  <2>3. /\ disk' = [disk EXCEPT ![d].registry = new] /\ proc' = [proc EXCEPT ![p] = r]
        /\ UNCHANGED <<dir, durable, holder, losses, unsynced>>
      BY <1>3, <2>2 DEF Rename, Set, home
  <2>4. /\ old \in Seq(Procs) /\ new \in Seq(Procs) /\ Len(new) = Len(old) + 1
        /\ new[Len(new)] = p /\ \A i \in DOMAIN old : i \in DOMAIN new /\ new[i] = old[i]
        /\ \A i \in DOMAIN new : i \in DOMAIN old \/ i = Len(new)
      BY DEF Inv, TypeOK, Entries
  <2>5. /\ disk' \in [Dirs -> Entries] /\ disk'[d].registry = new
        /\ disk'[d].secret = disk[d].secret
        /\ \A e \in Dirs \ {d} : disk'[e] = disk[e]
        /\ \A e \in Dirs : disk'[e].secret = disk[e].secret
    <3>1. disk \in [Dirs -> Entries] /\ disk[d] \in Entries BY DEF Inv, TypeOK
    <3> PICK entry : entry = [disk[d] EXCEPT !.registry = new] OBVIOUS
    <3>2. entry \in Entries /\ entry.registry = new /\ entry.secret = disk[d].secret
        BY <2>4, <3>1 DEF Entries
    <3>3. disk' = [disk EXCEPT ![d] = entry] BY <2>3
    <3> QED BY <3>1, <3>2, <3>3
  <2>6. TypeOK' BY <2>1, <2>3, <2>5 DEF Inv, TypeOK
  <2>7. ASSUME NEW q \in Procs PROVE Fine(q, proc[q])'
    <3>1. Fine(q, proc[q]) /\ proc[q] \in Callers /\ proc[q].home \in Dirs
          /\ proc[q].made \in Dirs /\ proc[q].base \in Seq(Procs)
        BY DEF Inv, TypeOK, Callers
    <3>2. Prefix(proc[q].base, disk[proc[q].home].registry) =>
            Prefix(proc[q].base, disk'[proc[q].home].registry)
      <4>1. CASE proc[q].home = d
        <5>1. disk[proc[q].home].registry = old BY <4>1
        <5>2. disk'[proc[q].home].registry = Append(old, p) BY <2>5, <4>1
        <5> QED BY <2>4, <3>1, <5>1, <5>2, AppendKeepsPrefix
      <4>2. CASE proc[q].home # d
          BY <2>5, <3>1, <4>2
      <4> QED BY <4>1, <4>2
    <3>3. CASE q = p
      <4>1. proc'[q] = r BY <3>3, <2>3 DEF Inv, TypeOK
      <4>2. Prefix(r.base, disk'[r.home].registry)
          BY <1>1, <2>1, <3>2, <3>3 DEF Fine, home
      <4>3. Len(new) \in DOMAIN new BY <2>4
      <4>4. \E i \in DOMAIN disk'[r.home].registry : disk'[r.home].registry[i] = p
          BY <2>1, <2>4, <2>5, <4>3
      <4>5. /\ holder'[r.home] = p /\ r.home <= dir' /\ disk'[r.home].secret = r.key
            /\ r.key # NoProc
          BY <2>1, <2>2, <2>3, <2>5, StorageAssumption
      <4>6. Fine(p, r)' BY <2>1, <4>2, <4>4, <4>5 DEF Fine
      <4> QED BY <3>3, <4>1, <4>6
    <3>4. CASE q # p
      <4>1. proc'[q] = proc[q] BY <3>4, <2>3 DEF Inv, TypeOK
      <4>2. proc[q].pc \in Locked => proc[q].home # d
          BY <2>2, <3>1, <3>4 DEF Fine
      <4>3. proc[q].pc = "fill" => Filling(q, proc[q])'
        <5> SUFFICES ASSUME proc[q].pc = "fill" PROVE Filling(q, proc[q])' OBVIOUS
        <5>1. Filling(q, proc[q]) BY <3>1 DEF Fine
        <5>2. proc[q].made # d
            BY <2>2, <5>1, StorageAssumption DEF Filling
        <5>3. disk'[proc[q].made] = disk[proc[q].made] BY <2>5, <3>1, <5>2
        <5>4. \A u \in Procs : proc'[u].pc = "fill" => proc[u] = proc'[u]
            BY <2>1, <2>3 DEF Inv, TypeOK
        <5> QED BY <2>3, <4>1, <5>1, <5>3, <5>4 DEF Filling
      <4>4. disk'[proc[q].home].secret = disk[proc[q].home].secret BY <2>5, <3>1
      <4>5. proc[q].pc \in Locked => disk'[proc[q].home] = disk[proc[q].home]
          BY <2>5, <3>1, <4>2
      <4>6. proc[q].pc \in {"create", "rename", "sync", "leave"} => proc[q].pc \in Locked
          BY DEF Locked
      <4> QED BY <2>3, <3>1, <3>2, <4>1, <4>3, <4>4, <4>5, <4>6 DEF Fine
    <3> QED BY <3>3, <3>4
  <2>8. \A e \in Dirs : durable'[e].secret \in {"absent", disk'[e].secret}
      BY <2>3, <2>5 DEF Inv
  <2>9. ASSUME NEW e \in Dirs, NEW i \in DOMAIN disk'[e].registry
        PROVE  Kept(e, i, proc[disk[e].registry[i]])'
    <3>1. CASE i \in DOMAIN disk[e].registry /\ disk'[e].registry[i] = disk[e].registry[i]
      <4>1. disk[e].registry[i] \in Procs BY <3>1 DEF Inv, TypeOK, Entries
      <4>2. disk[e].registry[i] # p BY <1>1, <3>1, NotYetWritten
      <4>3. proc'[disk'[e].registry[i]] = proc[disk[e].registry[i]]
          BY <2>3, <3>1, <4>1, <4>2 DEF Inv, TypeOK
      <4>4. Kept(e, i, proc[disk[e].registry[i]]) BY <3>1 DEF Inv
      <4> QED BY <2>3, <2>5, <4>3, <4>4 DEF Kept
    <3>2. CASE e = d /\ i = Len(new)
      <4>1. disk'[e].registry[i] = p /\ proc'[p] = r
          BY <2>3, <2>4, <2>5, <3>2 DEF Inv, TypeOK
      <4> QED BY <2>1, <2>2, <2>5, <3>2, <4>1 DEF Kept, Wrote, Acknowledged
    <3> QED BY <2>4, <2>5, <3>1, <3>2
  <2> QED BY <2>6, <2>7, <2>8, <2>9 DEF Inv
<1> QED BY <1>2, <1>3

LEMMA SyncDirectoryInv == ASSUME Inv, NEW p \in Procs, SyncDirectory(p) PROVE Inv'
<1> DEFINE home == proc[p].home
<1>1. /\ proc[p] \in Callers /\ Fine(p, proc[p]) /\ home \in Dirs
      /\ proc[p].op = "write" /\ proc[p].pc = "sync" /\ proc[p].pc \in Locked
    BY DEF Inv, TypeOK, Callers, SyncDirectory, At, Locked
<1>2. CASE Fail(p, "failed")
    BY <1>1, <1>2, FailInv
<1>3. CASE ~Fail(p, "failed")
  <2> PICK d \in Dirs : d = home BY <1>1
  <2> PICK r : r = [proc[p] EXCEPT !.pc = "leave"] OBVIOUS
  <2> HIDE DEF home
  <2>1. /\ r \in Callers /\ r.pc = "leave" /\ r.op = "write" /\ r.home = d
        /\ r.key = proc[p].key /\ r.said = "none" /\ r.base = proc[p].base
      BY <1>1 DEF Callers, Fine, home
  <2>2. /\ proc' = [proc EXCEPT ![p] = r] /\ UNCHANGED <<dir, disk, holder, losses, unsynced>>
        /\ durable' = IF DirectorySync THEN [durable EXCEPT ![d] = disk[d]] ELSE durable
      BY <1>3 DEF SyncDirectory, Synced, Set, home
  <2>3. disk[d].secret = proc[p].key /\ proc[p].key \in Procs
      BY <1>1 DEF Fine, Callers, home
  <2>4. /\ durable' \in [Dirs -> Entries]
        /\ \A e \in Dirs \ {d} : durable'[e] = durable[e]
        /\ DirectorySync => durable'[d] = disk[d]
        /\ durable'[d] \in {durable[d], disk[d]}
      BY <2>2 DEF Inv, TypeOK
  <2>5. TypeOK' BY <2>1, <2>2, <2>4 DEF Inv, TypeOK
  <2>6. ASSUME NEW q \in Procs PROVE Fine(q, proc[q])'
    <3>1. Fine(q, proc[q]) /\ proc[q] \in Callers /\ proc[q].made \in Dirs
        BY DEF Inv, TypeOK, Callers
    <3>2. CASE q = p
      <4>1. proc'[q] = r BY <2>2, <3>2 DEF Inv, TypeOK
      <4> QED BY <1>1, <2>1, <2>2, <3>2, <4>1 DEF Fine, Prefix, Locked, home
    <3>3. CASE q # p
      <4>1. proc'[q] = proc[q] BY <3>3, <2>2 DEF Inv, TypeOK
      <4>2. proc[q].pc = "fill" => Filling(q, proc[q])'
        <5> SUFFICES ASSUME proc[q].pc = "fill" PROVE Filling(q, proc[q])' OBVIOUS
        <5>1. Filling(q, proc[q]) BY <3>1 DEF Fine
        <5>2. proc[q].made # d BY <2>3, <5>1, StorageAssumption DEF Filling
        <5>3. durable'[proc[q].made] = durable[proc[q].made] BY <2>4, <3>1, <5>2
        <5>4. \A u \in Procs : proc'[u].pc = "fill" => proc[u] = proc'[u]
            BY <2>1, <2>2 DEF Inv, TypeOK
        <5> QED BY <2>2, <4>1, <5>1, <5>3, <5>4 DEF Filling
      <4> QED BY <2>2, <3>1, <4>1, <4>2 DEF Fine
    <3> QED BY <3>2, <3>3
  <2>7. \A e \in Dirs : durable'[e].secret \in {"absent", disk'[e].secret}
      BY <2>2, <2>4 DEF Inv
  <2>8. ASSUME NEW e \in Dirs, NEW i \in DOMAIN disk[e].registry
        PROVE  Kept(e, i, proc[disk[e].registry[i]])'
    <3> PICK w \in Procs : w = disk[e].registry[i] BY DEF Inv, TypeOK, Entries
    <3>1. Kept(e, i, proc[w]) BY DEF Inv
    <3>2. i \in 1 .. Len(disk[e].registry) BY DEF Inv, TypeOK, Entries
    <3>3. CASE w = p
      <4>1. proc'[w] = r BY <2>2, <3>3 DEF Inv, TypeOK
      <4>2. e = d BY <1>1, <3>1, <3>3 DEF Kept, Wrote, home
      <4>3. DirectorySync => i <= Len(durable'[e].registry) BY <2>4, <3>2, <4>2
      <4> QED BY <2>1, <2>2, <3>1, <3>3, <4>1, <4>2, <4>3 DEF Kept, Wrote
    <3>4. CASE w # p
      <4>1. proc'[w] = proc[w] BY <2>2, <3>4 DEF Inv, TypeOK
      <4>2. DirectorySync /\ Acknowledged(proc[w]) => i <= Len(durable'[e].registry)
          BY <2>4, <3>1, <3>2 DEF Kept
      <4> QED BY <2>2, <3>1, <4>1, <4>2 DEF Kept
    <3> QED BY <3>3, <3>4
  <2> QED BY <2>2, <2>5, <2>6, <2>7, <2>8 DEF Inv
<1> QED BY <1>2, <1>3

\* What a power loss leaves of each directory, and of each process.
LEMMA AfterPowerLoss ==
    ASSUME Inv, PowerLoss
    PROVE  /\ disk' \in [Dirs -> Entries]
           /\ \A d \in Dirs :
                /\ Len(durable[d].registry) <= Len(disk'[d].registry)
                /\ Len(disk'[d].registry) <= Len(disk[d].registry)
                /\ disk'[d].registry = SubSeq(disk[d].registry, 1, Len(disk'[d].registry))
                /\ \A i \in DOMAIN disk'[d].registry :
                     i \in DOMAIN disk[d].registry /\ disk'[d].registry[i] = disk[d].registry[i]
                /\ disk'[d].secret \in {"absent", "empty", disk[d].secret}
           /\ proc' \in [Procs -> Callers]
           /\ \A p \in Procs :
                /\ Running(p) => /\ proc'[p].pc = "end" /\ proc'[p].said = "killed"
                                 /\ proc'[p].key = proc[p].key /\ proc'[p].op = "open"
                                 /\ proc'[p].home = 0
                /\ ~Running(p) => proc'[p] = proc[p]
<1>1. /\ disk' \in [Dirs -> UNION {Survivors(d) : d \in Dirs}]
      /\ \A d \in Dirs : disk'[d] \in Survivors(d)
    BY DEF PowerLoss
<1>2. ASSUME NEW d \in Dirs
      PROVE  /\ disk'[d] \in Entries
             /\ Len(durable[d].registry) <= Len(disk'[d].registry)
             /\ Len(disk'[d].registry) <= Len(disk[d].registry)
             /\ disk'[d].registry = SubSeq(disk[d].registry, 1, Len(disk'[d].registry))
             /\ \A i \in DOMAIN disk'[d].registry :
                  i \in DOMAIN disk[d].registry /\ disk'[d].registry[i] = disk[d].registry[i]
             /\ disk'[d].secret \in {"absent", "empty", disk[d].secret}
  <2>1. disk[d] \in Entries /\ durable[d] \in Entries BY DEF Inv, TypeOK
  <2> PICK t \in Seq(Procs) : t = disk[d].registry BY <2>1 DEF Entries
  <2>2. Len(durable[d].registry) \in Nat BY <2>1 DEF Entries
  <2> PICK n \in Len(durable[d].registry) .. Len(t), s \in SecretsLeft(d) :
        disk'[d] = [registry |-> SubSeq(t, 1, n), secret |-> s]
      BY <1>1 DEF Survivors
  <2>3. n \in 0 .. Len(t) BY <2>2
  <2>4. /\ SubSeq(t, 1, n) \in Seq(Procs) /\ Len(SubSeq(t, 1, n)) = n
        /\ \A i \in 1 .. n : SubSeq(t, 1, n)[i] = t[i]
      BY <2>3, FirstWrites
  <2>5. disk'[d].registry = SubSeq(t, 1, n) /\ disk'[d].secret = s OBVIOUS
  <2>6. s \in {"absent", "empty"} \cup Procs /\ s \in {"absent", "empty", disk[d].secret}
      BY <2>1 DEF Entries, Inv, SecretsLeft
  <2>7. disk'[d] \in Entries BY <2>4, <2>6 DEF Entries
  <2>8. \A i \in 1 .. n : i \in DOMAIN t BY <2>3
  <2>9. DOMAIN SubSeq(t, 1, n) = 1 .. n BY <2>4
  <2> QED BY <2>3, <2>4, <2>5, <2>6, <2>7, <2>8, <2>9
<1>3. \A p \in Procs : /\ Running(p) => proc'[p] = End(proc[p], "killed")
                       /\ ~Running(p) => proc'[p] = proc[p]
    BY DEF PowerLoss, Killed
<1>4. ASSUME NEW p \in Procs
      PROVE  /\ proc'[p] \in Callers
             /\ Running(p) => /\ proc'[p].pc = "end" /\ proc'[p].said = "killed"
                              /\ proc'[p].key = proc[p].key /\ proc'[p].op = "open"
                              /\ proc'[p].home = 0
             /\ ~Running(p) => proc'[p] = proc[p]
  <2>1. proc[p] \in Callers BY DEF Inv, TypeOK
  <2>2. CASE Running(p) BY <1>3, <2>1, <2>2, EndFields
  <2>3. CASE ~Running(p) BY <1>3, <2>1, <2>3
  <2> QED BY <2>2, <2>3
<1>5. \E f : proc' = [p \in Procs |-> f[p]]
  <2> DEFINE g == [p \in Procs |->
             IF p \in {q \in Procs : Running(q)} THEN End(proc[p], "killed") ELSE proc[p]]
  <2>1. proc' = g BY DEF PowerLoss, Killed
  <2>2. g = [p \in Procs |-> g[p]] OBVIOUS
  <2> QED BY <2>1, <2>2
<1>6. proc' \in [Procs -> Callers] BY <1>4, <1>5
<1>7. disk' \in [Dirs -> Entries] BY <1>1, <1>2
<1> QED BY <1>2, <1>4, <1>6, <1>7

LEMMA PowerLossInv == ASSUME Inv, PowerLoss PROVE Inv'
<1>1. /\ dir' = dir /\ durable' = disk' /\ losses' = losses + 1
      /\ dir \in Nat /\ losses \in Nat /\ dir + losses < Incidents /\ Incidents \in Nat
    BY StorageAssumption DEF PowerLoss, Inv, TypeOK, Dirs
<1>2. holder' \in [Dirs -> Procs \cup {NoProc}]
    BY DEF PowerLoss, Released, Inv, TypeOK
<1>3. TypeOK'
  <2>1. unsynced' \subseteq Dirs BY DEF PowerLoss
  <2> QED BY <1>1, <1>2, <2>1, AfterPowerLoss DEF TypeOK, Dirs
<1>4. ASSUME NEW p \in Procs PROVE Fine(p, proc[p])'
  <2>1. Fine(p, proc[p]) BY DEF Inv
  <2>2. proc'[p].pc \in {"new", "end"} BY AfterPowerLoss DEF Running
  <2>3. proc'[p].home <= dir' BY <1>1, <2>1, AfterPowerLoss DEF Fine
  <2>4. proc'[p].pc # "end" => proc'[p] = proc[p] BY AfterPowerLoss
  <2> QED BY <2>1, <2>2, <2>3, <2>4 DEF Fine, Locked
<1>5. ASSUME NEW d \in Dirs, NEW i \in DOMAIN disk'[d].registry
      PROVE  Kept(d, i, proc[disk[d].registry[i]])'
  <2>1. i \in DOMAIN disk[d].registry /\ disk'[d].registry[i] = disk[d].registry[i]
      BY AfterPowerLoss
  <2> PICK w \in Procs : w = disk[d].registry[i] BY <2>1 DEF Inv, TypeOK, Entries
  <2>2. Kept(d, i, proc[w]) BY <2>1 DEF Inv
  <2>3. proc[w].pc # "new" BY <2>2 DEF Kept, Wrote
  <2>4. proc'[w].pc = "end" /\ proc'[w].key = proc[w].key
      BY <2>3, AfterPowerLoss DEF Running
  <2>5. i <= Len(disk'[d].registry) BY <1>3 DEF TypeOK, Entries
  <2>6. disk'[d].secret \in {"absent", "empty", proc'[w].key} BY <2>2, <2>4, AfterPowerLoss DEF Kept
  <2> QED BY <1>1, <2>1, <2>4, <2>5, <2>6 DEF Kept, Wrote
<1> QED BY <1>1, <1>3, <1>4, <1>5 DEF Inv

LEMMA StepInv == Inv /\ [Next]_vars => Inv'
<1> SUFFICES ASSUME Inv, [Next]_vars PROVE Inv' OBVIOUS
<1> USE DEF Next
<1>1. ASSUME NEW p \in Procs, Step(p) PROVE Inv'
    BY <1>1, StartInv, EnterInv, AcquireInv, TimeoutInv, CreateSecretInv, FillSecretInv,
       SyncSecretInv,       ReadSecretInv, LoadInv, CompareInv, CreateTempInv, RenameInv, SyncDirectoryInv,
       LeaveInv DEF Step
<1>2. ASSUME NEW p \in Procs, Kill(p) PROVE Inv' BY <1>2, KillInv
<1>3. CASE PowerLoss BY <1>3, PowerLossInv
<1>4. CASE Replace BY <1>4, ReplaceInv
<1>5. CASE UNCHANGED vars
    BY <1>5 DEF vars, Inv, TypeOK, Fine, Filling, Kept
<1> QED BY <1>1, <1>2, <1>3, <1>4, <1>5

LEMMA StorageInv == Spec => []Inv
BY InitInv, StepInv, PTL DEF Spec

-----------------------------------------------------------------------------
(* The theorems. *)

\* Directories, lock and processes of the storage are always in a state of their
\* kind (the types of LocalLifecycleStorage).
THEOREM StorageTypeOK == Spec => []TypeOK
<1>1. Inv => TypeOK BY DEF Inv
<1> QED BY <1>1, StorageInv, PTL

\* However processes are killed, the machine loses power and the directory is
\* replaced, a registry is never served under another secret than the one its
\* writers knew their sessions by (_secret).
THEOREM RegistriesHaveOneSecret == Spec => []OneSecret
<1>1. Inv => OneSecret BY DEF Inv, Kept, OneSecret
<1> QED BY <1>1, StorageInv, PTL

\* The snapshot that a hook decides by holds the first writes of the directory it
\* opened, and nothing else, until its write is made or refused (load_snapshot).
THEOREM SnapshotsStayOfHome == Spec => []SnapshotsAreOfHome
<1>1. Inv => SnapshotsAreOfHome
    BY DEF Inv, Fine, Prefix, Running, SnapshotsAreOfHome
<1> QED BY <1>1, StorageInv, PTL

-----------------------------------------------------------------------------
(* LockedStorage implements AtomicStore: each step is a step of the abstract *)
(* store, or leaves what it shows as it was.                                 *)

\* A process that moves without a rename and without an end shows nothing.
LEMMA QuietMove ==
    ASSUME Inv, NEW p \in Procs, NEW r, proc' = [proc EXCEPT ![p] = r],
           r.said = proc[p].said, \A d \in Dirs : disk'[d].registry = disk[d].registry
    PROVE  UNCHANGED Store!vars
<1>1. \A q \in Procs : proc'[q].said = proc[q].said BY DEF Inv, TypeOK
<1>2. \A q \in Procs : Answer(q)' = Answer(q) BY <1>1 DEF Answer
<1> QED BY <1>2 DEF Store!vars

\* A process that ends tells its caller no more than the registries show.
LEMMA EndTells ==
    ASSUME Inv, NEW p \in Procs,
           NEW said \in {"ok", "stale", "timeout", "failed", "killed"},
           proc' = [proc EXCEPT ![p] = End(proc[p], said)], disk' = disk,
           proc[p].pc # "end",
           said = "ok" => At(p, "write", "leave"),
           said \in {"stale", "timeout"} => proc[p].pc \notin {"sync", "leave"}
    PROVE  Store!Next
<1> PICK a : a = Answer(p)' OBVIOUS
<1>1. /\ proc'[p].said = said
      /\ \A q \in Procs \ {p} : proc'[q] = proc[q]
    BY EndFields DEF Inv, TypeOK
<1>2. /\ said = "ok" => a = "ok"
      /\ said \in {"stale", "timeout"} => a = "unchanged"
      /\ said \in {"failed", "killed"} => a = "unknown"
    BY <1>1 DEF Answer
<1>3. Answer(p) = "none" BY DEF Answer, Inv, Fine
<1>4. \A q \in Procs \ {p} : Answer(q)' = Answer(q) BY <1>1 DEF Answer
<1>5. ASSUME a = "ok" PROVE \E d \in Dirs : \E i \in DOMAIN disk[d].registry : disk[d].registry[i] = p
  <2>1. At(p, "write", "leave") BY <1>2, <1>5
  <2>2. Fine(p, proc[p]) /\ proc[p].home \in Dirs BY DEF Inv, TypeOK, Callers
  <2> QED BY <2>1, <2>2 DEF At, Fine
<1>6. ASSUME a = "unchanged"
      PROVE  \A d \in Dirs : ~ \E i \in DOMAIN disk[d].registry : disk[d].registry[i] = p
  <2>1. proc[p].pc \notin {"sync", "leave"} BY <1>2, <1>6
  <2> QED BY <2>1, NotYetWritten
<1>7. [q \in Procs |-> Answer(q)'] = [[q \in Procs |-> Answer(q)] EXCEPT ![p] = a]
    BY <1>4
<1>8. a \in Store!Answers /\ a # "none" BY <1>2 DEF Store!Answers
<1>9. Store!Tell(p, a)
    BY <1>3, <1>5, <1>6, <1>7, <1>8 DEF Store!Tell, Store!Made
<1> QED BY <1>8, <1>9 DEF Store!Next

\* The rename is the moment of the write.
LEMMA RenameCommits ==
    ASSUME Inv, NEW p \in Procs, Rename(p), ~Fail(p, "failed")
    PROVE  Store!Next
<1>1. /\ proc[p].op = "write" /\ proc[p].pc = "rename" /\ Same(p)
      /\ proc[p].home \in Dirs /\ proc[p] \in Callers /\ Fine(p, proc[p])
    BY DEF Rename, At, Inv, TypeOK, Callers
<1> PICK d \in Dirs : d = proc[p].home BY <1>1
<1> PICK r : r = [proc[p] EXCEPT !.pc = "sync"] OBVIOUS
<1>2. /\ disk' = [disk EXCEPT ![d].registry = Append(disk[d].registry, p)]
      /\ proc' = [proc EXCEPT ![p] = r] /\ r.said = proc[p].said
    BY <1>1 DEF Rename, Set, Same, Fine, Callers
<1>3. \A e \in Dirs : ~ \E i \in DOMAIN disk[e].registry : disk[e].registry[i] = p
    BY <1>1, NotYetWritten
<1>4. Answer(p) = "none" BY <1>1 DEF Answer, Fine
<1>5. \A q \in Procs : Answer(q)' = Answer(q) BY <1>2 DEF Answer, Inv, TypeOK
<1>6. \A e \in Dirs : disk'[e].registry =
            IF e = d THEN Append(disk[d].registry, p) ELSE disk[e].registry
    BY <1>2 DEF Inv, TypeOK, Entries
<1>7. [e \in Dirs |-> disk'[e].registry] =
        [[e \in Dirs |-> disk[e].registry] EXCEPT ![d] = Append(@, p)]
    BY <1>6
<1>8. Store!Commit(p, d) BY <1>3, <1>4, <1>5, <1>7 DEF Store!Commit, Store!Made
<1> QED BY <1>8 DEF Store!Next

\* A power loss forgets the latest writes, none of them acknowledged.
LEMMA PowerLossForgets == ASSUME Inv, PowerLoss PROVE Store!Next
<1>1. ASSUME NEW d \in Dirs, DirectorySync,
             NEW i \in Len(disk'[d].registry) + 1 .. Len(disk[d].registry)
      PROVE  Answer(disk[d].registry[i]) # "ok"
  <2>1. disk[d] \in Entries /\ disk'[d] \in Entries /\ durable[d] \in Entries
      BY AfterPowerLoss DEF Inv, TypeOK
  <2>2. /\ Len(disk'[d].registry) \in Nat /\ Len(durable[d].registry) \in Nat
        /\ DOMAIN disk[d].registry = 1 .. Len(disk[d].registry)
      BY <2>1 DEF Entries
  <2>3. i \in DOMAIN disk[d].registry /\ i > Len(durable[d].registry)
      BY <2>2, AfterPowerLoss
  <2> PICK w \in Procs : w = disk[d].registry[i] BY <2>1, <2>3 DEF Entries
  <2>4. Kept(d, i, proc[w]) BY <2>3 DEF Inv
  <2>5. proc[w].said # "ok" BY <1>1, <2>2, <2>3, <2>4 DEF Kept, Acknowledged
  <2> QED BY <2>5 DEF Answer
<1>2. ASSUME NEW p \in Procs
      PROVE  Answer(p)' = Answer(p) \/ (Answer(p) = "none" /\ Answer(p)' = "unknown")
  <2>1. CASE Running(p)
    <3>1. proc'[p].said = "killed" BY <2>1, AfterPowerLoss
    <3>2. proc[p].said = "none" BY <2>1 DEF Running, Inv, Fine
    <3> QED BY <3>1, <3>2 DEF Answer
  <2>2. CASE ~Running(p)
    <3>1. proc'[p] = proc[p] BY <2>2, AfterPowerLoss
    <3> QED BY <3>1 DEF Answer
  <2> QED BY <2>1, <2>2
<1>3. \A d \in Dirs :
        /\ Len(disk'[d].registry) <= Len(disk[d].registry)
        /\ disk'[d].registry = SubSeq(disk[d].registry, 1, Len(disk'[d].registry))
    BY AfterPowerLoss
<1>4. \A d \in Dirs : \A i \in DOMAIN disk[d].registry : disk[d].registry[i] \in Procs
    BY DEF Inv, TypeOK, Entries
<1>5. \A d \in Dirs : DirectorySync =>
        \A i \in Len(disk'[d].registry) + 1 .. Len(disk[d].registry) :
          disk[d].registry[i] \in Procs /\ Answer(disk[d].registry[i]) # "ok"
  <2> SUFFICES ASSUME NEW d \in Dirs, DirectorySync,
                      NEW i \in Len(disk'[d].registry) + 1 .. Len(disk[d].registry)
               PROVE  disk[d].registry[i] \in Procs /\ Answer(disk[d].registry[i]) # "ok"
      OBVIOUS
  <2>1. i \in DOMAIN disk[d].registry
      BY AfterPowerLoss DEF Inv, TypeOK, Entries
  <2> QED BY <1>1, <1>4, <2>1
<1>6. Store!Forget BY <1>2, <1>3, <1>5 DEF Store!Forget
<1> QED BY <1>6 DEF Store!Next

LEMMA StepMaps ==
    ASSUME Inv, NEW p \in Procs, Step(p)
    PROVE  Store!Next \/ UNCHANGED Store!vars
<1>1. proc[p] \in Callers /\ dir \in Dirs /\ 0 \in Dirs
    BY StorageAssumption DEF Inv, TypeOK, Dirs
<1>2. CASE Start(p)
  <2> PICK r : r = Begin([proc[p] EXCEPT !.home = dir], "open") OBVIOUS
  <2>1. r.said = proc[p].said BY <1>1 DEF Begin, Callers
  <2>2. proc' = [proc EXCEPT ![p] = r] /\ disk' = disk BY <1>2 DEF Start, Set
  <2> QED BY <2>1, <2>2, QuietMove
<1>3. CASE Enter(p)
  <2>1. CASE Guarded(p)
    <3> PICK r : r = [proc[p] EXCEPT !.pc = "wait"] OBVIOUS
    <3>1. r.said = proc[p].said BY <1>1 DEF Callers
    <3>2. proc' = [proc EXCEPT ![p] = r] /\ disk' = disk BY <1>3, <2>1 DEF Enter, Set
    <3> QED BY <3>1, <3>2, QuietMove
  <2>2. CASE ~Guarded(p) BY <1>3, <2>2, EndTells DEF Enter, Set
  <2> QED BY <2>1, <2>2
<1>4. CASE Acquire(p)
  <2>1. CASE Same(p)
    <3> PICK r : r = [proc[p] EXCEPT !.pc = "inside"] OBVIOUS
    <3>1. r.said = proc[p].said BY <1>1 DEF Callers
    <3>2. proc' = [proc EXCEPT ![p] = r] /\ disk' = disk BY <1>4, <2>1 DEF Acquire, Set
    <3> QED BY <3>1, <3>2, QuietMove
  <2>2. CASE ~Same(p) BY <1>4, <2>2, EndTells DEF Acquire, Set
  <2> QED BY <2>1, <2>2
<1>5. CASE Timeout(p) BY <1>5, EndTells DEF Timeout, Expired, Set
<1>6. CASE CreateSecret(p)
  <2>1. CASE SecretMissing
      BY <1>6, <2>1, EndTells DEF CreateSecret, At, Fail, Set
  <2>2. CASE ~SecretMissing
    <3> PICK r : r = [proc[p] EXCEPT !.pc = IF Here.secret = "absent" THEN "fill" ELSE "key",
                                     !.made = dir] OBVIOUS
    <3>1. r.said = proc[p].said BY <1>1 DEF Callers
    <3>2. proc' = [proc EXCEPT ![p] = r] BY <1>6, <2>2 DEF CreateSecret, Set
    <3>3. \E s : disk' = [disk EXCEPT ![dir].secret = s]
        BY <1>6, <2>2 DEF CreateSecret
    <3>4. \A d \in Dirs : disk'[d].registry = disk[d].registry
        BY <3>3 DEF Inv, TypeOK, Entries
    <3> QED BY <3>1, <3>2, <3>4, QuietMove
  <2> QED BY <2>1, <2>2
<1>7. CASE FillSecret(p)
  <2> PICK r : r = [proc[p] EXCEPT !.pc = "seal"] OBVIOUS
  <2>1. CASE Fail(p, "failed") BY <1>7, <2>1, EndTells DEF FillSecret, At, Fail, Set
  <2>2. CASE ~Fail(p, "failed")
    <3>1. r.said = proc[p].said BY <1>1 DEF Callers
    <3>2. proc' = [proc EXCEPT ![p] = r] BY <1>7, <2>2 DEF FillSecret, Set
    <3>3. \E d \in Dirs : disk' = [disk EXCEPT ![d].secret = p]
        BY <1>1, <1>7, <2>2 DEF FillSecret, Callers
    <3>4. \A d \in Dirs : disk'[d].registry = disk[d].registry
        BY <3>3 DEF Inv, TypeOK, Entries
    <3> QED BY <3>1, <3>2, <3>4, QuietMove
  <2> QED BY <2>1, <2>2
<1>8. CASE ReadSecret(p)
  <2>1. CASE Whole(Here.secret) /\ Same(p)
    <3> PICK r : r = Begin([proc[p] EXCEPT !.key = Here.secret, !.made = 0], "load") OBVIOUS
    <3>1. r.said = proc[p].said BY <1>1 DEF Begin, Callers
    <3>2. proc' = [proc EXCEPT ![p] = r] /\ disk' = disk
        BY <1>8, <2>1 DEF ReadSecret, Set
    <3> QED BY <3>1, <3>2, QuietMove
  <2>2. CASE ~(Whole(Here.secret) /\ Same(p))
      BY <1>8, <2>2, EndTells DEF ReadSecret, At, Fail, Set
  <2> QED BY <2>1, <2>2
<1>9. CASE Load(p)
  <2>1. CASE Same(p)
    <3> PICK r : r = Begin([proc[p] EXCEPT !.base = Here.registry], "write") OBVIOUS
    <3>1. r.said = proc[p].said BY <1>1 DEF Begin, Callers
    <3>2. proc' = [proc EXCEPT ![p] = r] /\ disk' = disk BY <1>9, <2>1 DEF Load, Set
    <3> QED BY <3>1, <3>2, QuietMove
  <2>2. CASE ~Same(p) BY <1>9, <2>2, EndTells DEF Load, At, Fail, Set
  <2> QED BY <2>1, <2>2
<1>10. CASE Compare(p)
  <2> PICK r : r = [proc[p] EXCEPT !.pc = "create", !.seen = Current(p)] OBVIOUS
  <2>1. r.said = proc[p].said BY <1>1 DEF Callers
  <2>2. CASE proc' = [proc EXCEPT ![p] = r] /\ disk' = disk
      BY <2>1, <2>2, QuietMove
  <2>3. CASE Fail(p, "stale")
      BY <1>10, <2>3, EndTells DEF Compare, At, Fail, Set
  <2> QED BY <1>10, <2>2, <2>3 DEF Compare, Set
<1>11. CASE CreateTemp(p)
  <2>1. CASE Same(p)
    <3> PICK r : r = [proc[p] EXCEPT !.pc = "rename"] OBVIOUS
    <3>1. r.said = proc[p].said BY <1>1 DEF Callers
    <3>2. proc' = [proc EXCEPT ![p] = r] /\ disk' = disk BY <1>11, <2>1 DEF CreateTemp, Set
    <3> QED BY <3>1, <3>2, QuietMove
  <2>2. CASE ~Same(p) BY <1>11, <2>2, EndTells DEF CreateTemp, At, Fail, Set
  <2> QED BY <2>1, <2>2
<1>12. CASE Rename(p)
  <2>1. CASE Fail(p, "failed") BY <1>12, <2>1, EndTells DEF Rename, At, Fail, Set
  <2>2. CASE ~Fail(p, "failed") BY <1>12, <2>2, RenameCommits
  <2> QED BY <2>1, <2>2
<1>13. CASE SyncDirectory(p)
  <2> PICK r : r = [proc[p] EXCEPT !.pc = "leave"] OBVIOUS
  <2>1. r.said = proc[p].said BY <1>1 DEF Callers
  <2>2. CASE proc' = [proc EXCEPT ![p] = r] /\ disk' = disk
      BY <2>1, <2>2, QuietMove
  <2>3. CASE Fail(p, "failed")
      BY <1>13, <2>3, EndTells DEF SyncDirectory, At, Fail, Set
  <2> QED BY <1>13, <2>2, <2>3 DEF SyncDirectory, Set
<1>14. CASE Leave(p)
  <2> PICK said \in {"ok", "failed"} : Fail(p, said) BY <1>14 DEF Leave
  <2> QED BY <1>14, EndTells DEF Leave, At, Fail, Set
<1>15. CASE SyncSecret(p)
  <2> PICK r : r = [proc[p] EXCEPT !.pc = "key"] OBVIOUS
  <2>1. CASE Fail(p, "failed") BY <1>15, <2>1, EndTells DEF SyncSecret, At, Fail, Set
  <2>2. CASE ~Fail(p, "failed")
    <3>1. r.said = proc[p].said BY <1>1 DEF Callers
    <3>2. proc' = [proc EXCEPT ![p] = r] /\ disk' = disk
        BY <1>15, <2>2 DEF SyncSecret, Set
    <3> QED BY <3>1, <3>2, QuietMove
  <2> QED BY <2>1, <2>2
<1> QED BY <1>2, <1>3, <1>4, <1>5, <1>6, <1>7, <1>8, <1>9, <1>10, <1>11, <1>12, <1>13,
           <1>14, <1>15 DEF Step

\* The storage is the atomic store: whatever processes, disk and directory do,
\* each write is made at one moment on top of every write before it, or never,
\* and a caller is told "ok" of a write that is there, "stale" or "timeout" of one
\* that is not; a power loss undoes none that was acknowledged where directories
\* are synced (compare_and_swap, _publish, _exclusive_lock).
THEOREM StorageIsAtomic == Spec => WritesAreAtomic
<1>1. Init => Store!Init
    BY DEF Init, Store!Init, EmptyDir, NewProc, Answer
<1>2. Inv /\ [Next]_vars => [Store!Next]_(Store!vars)
  <2> SUFFICES ASSUME Inv, [Next]_vars PROVE Store!Next \/ UNCHANGED Store!vars OBVIOUS
  <2>1. ASSUME NEW p \in Procs, Step(p) PROVE Store!Next \/ UNCHANGED Store!vars
      BY <2>1, StepMaps
  <2>2. ASSUME NEW p \in Procs, Kill(p) PROVE Store!Next
    <3>1. proc' = [proc EXCEPT ![p] = End(proc[p], "killed")]
        BY <2>2 DEF Kill, Killed, Inv, TypeOK
    <3> QED BY <2>2, <3>1, EndTells DEF Kill, Running
  <2>3. CASE PowerLoss BY <2>3, PowerLossForgets
  <2>4. CASE Replace BY <2>4 DEF Replace, Store!vars, Answer
  <2>5. CASE UNCHANGED vars BY <2>5 DEF vars, Store!vars, Answer
  <2> QED BY <2>1, <2>2, <2>3, <2>4, <2>5 DEF Next
<1> QED BY <1>1, <1>2, StorageInv, PTL DEF Spec, Store!Spec, WritesAreAtomic
=============================================================================
