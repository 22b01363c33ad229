------------------------------- MODULE Merge -------------------------------
(***************************************************************************)
(* What an install or a sync makes of files the user owns too: a settings  *)
(* document, into which the release's JSON fragment is merged, the user's  *)
(* own status line, which is moved to a file of its own, and an            *)
(* instruction file that holds one marked block.                           *)
(*                                                                         *)
(* The merges are functions of the file, of what the release ships and of  *)
(* what the last release shipped, which is all the toolkit claims to own.  *)
(* The user edits the files between the runs.  The writing of the results  *)
(* is the matter of Installer.                                             *)
(***************************************************************************)
EXTENDS Naturals, SequencesExt

CONSTANTS
    Releases,
    Fragment,    \* per release: the JSON object it ships for the settings
    Body,        \* per release: the text of the marked block
    Keys, Depth, \* bounds: the members of the fragments, and how deep they nest
    Identity,    \* paths of the arrays whose managed entries have an identity
    Documents,   \* settings a user may have before the first install
    StartEdits, StopEdits,   \* entries a user may add to either array
    StatusEdits, \* status lines a user may configure
    LineEdits,   \* lines a user may add to the instruction file
    Edits        \* bound: edits by the user

VARIABLES
    settings, chained, notes,   \* the files
    installed,                  \* the release of the state file
    did,                        \* the last step, and the release it was about
    edits                       \* edits so far

vars == <<settings, chained, notes, installed, did, edits>>

-----------------------------------------------------------------------------
(* JSON values, the mark of a value that is not there, and the two outcomes  *)
(* of a merge that are no value: a conflict, and nothing left.               *)

Obj(members) == [kind |-> "object", at |-> members]
Arr(entries) == [kind |-> "array", of |-> entries]
Val(scalar)  == [kind |-> "scalar", is |-> scalar]
None     == [kind |-> "none"]
Conflict == [kind |-> "conflict"]
Gone     == [kind |-> "gone"]

Both(kind, v, w) == v.kind = kind /\ w.kind = kind

Members(v) == IF v.kind = "object" THEN DOMAIN v.at ELSE {}

Child(v, k) == IF k \in Members(v) THEN v.at[k] ELSE None

\* Where a value of a fragment is: the members that lead to it.
Pointers == SeqOf(Keys, Depth)

\* What a document has at each pointer.
At(document) ==
    LET at[p \in Pointers] == IF p = <<>> THEN document ELSE Child(at[Front(p)], Last(p))
    IN at

\* An object, with the outcomes of its merged members in their places.
Object(current, merged) ==
    IF \E k \in DOMAIN merged : merged[k] = Conflict THEN Conflict
    ELSE Obj([k \in {j \in DOMAIN current.at \cup DOMAIN merged :
                       j \in DOMAIN merged => merged[j] # Gone} |->
                IF k \in DOMAIN merged THEN merged[k] ELSE current.at[k]])

Nonempty(v) ==
    IF \/ v.kind = "object" /\ DOMAIN v.at = {}
       \/ v.kind = "array" /\ v.of = <<>>
    THEN Gone ELSE v

IsObject(v) == v = Obj([k \in Members(v) |-> v.at[k]])

IsList(entries) == entries \in Seq(Range(entries)) /\ None \notin Range(entries)

-----------------------------------------------------------------------------
(* One entry of an array: its identity, "" if a field of it is missing, and  *)
(* the rest of it.                                                           *)

Matches(list, id) == {i \in DOMAIN list : list[i].id = id}

Wellformed(entries) ==
    \A i, j \in DOMAIN entries :
        entries[i].id # "" /\ (entries[i].id = entries[j].id => i = j)

First(list, entry) == SelectInSeq(list, LAMBDA e : e = entry)

\* The entry at a place becomes new, or goes.
Put(list, i, new) == Arr(IF new = None THEN RemoveAt(list, i) ELSE ReplaceAt(list, i, new))

\* mutant of AddIdentified: an entry is known by all of it
AddIdentifiedWhole(list, new) ==
    IF Contains(list, new) THEN Arr(list) ELSE Arr(Append(list, new))

AddIdentified(list, new) ==
    LET found == Matches(list, new.id) IN
    IF found = {} THEN Arr(Append(list, new))
    ELSE IF \E i \in found : found = {i} /\ list[i] = new THEN Arr(list)
    ELSE Conflict

AddPositional(list, new) ==
    IF Contains(list, new) THEN Arr(list) ELSE Arr(Append(list, new))

\* The owned entry becomes what the release has under its identity, if anything.
AdvanceIdentified(list, old, new) ==
    LET found == Matches(list, old.id) IN
    IF \E i \in found : found = {i} /\ list[i] \in {old, new}
    THEN Put(list, CHOOSE i \in found : TRUE, new)
    ELSE Conflict

\* mutant of AdvancePositional: the first entry is taken for the owned one
AdvanceFirst(list, old, new) == IF list = <<>> THEN Conflict ELSE Put(list, 1, new)

\* Here the owned entry and the release's are a pair by their place.
AdvancePositional(list, old, new) ==
    IF old # new /\ Contains(list, old) THEN Put(list, First(list, old), new)
    ELSE IF new # None /\ Contains(list, new) THEN Arr(list)
    ELSE Conflict

\* One pair of an owned entry and the release's, either of which may be none.
Step(arr, old, new, path) ==
    IF arr = Conflict \/ (old = None /\ new = None) THEN arr
    ELSE IF old = None
         THEN IF path \in Identity THEN AddIdentified(arr.of, new) ELSE AddPositional(arr.of, new)
    ELSE IF path \in Identity THEN AdvanceIdentified(arr.of, old, new)
    ELSE AdvancePositional(arr.of, old, new)

-----------------------------------------------------------------------------
(* An array. *)

\* The array after every pair, in their order.
Updated(current, pairs, path) ==
    LET upTo[n \in 0..Len(pairs)] ==
          IF n = 0 THEN Arr(current) ELSE Step(upTo[n - 1], pairs[n][1], pairs[n][2], path)
    IN upTo[Len(pairs)]

EntryAt(list, i) == IF i \in DOMAIN list THEN list[i] ELSE None

PositionalPairs(owned, desired) ==
    [i \in DOMAIN owned \cup DOMAIN desired |-> <<EntryAt(owned, i), EntryAt(desired, i)>>]

Identified(list, id) == \E e \in Range(list) : e.id = id

Renewed(old, desired) ==
    IF Identified(desired, old.id) THEN CHOOSE e \in Range(desired) : e.id = old.id ELSE None

\* First the owned entries, then those of the release that are new.
IdentityPairs(owned, desired) ==
    [i \in DOMAIN owned |-> <<owned[i], Renewed(owned[i], desired)>>]
    \o [i \in DOMAIN desired |->
          <<None, IF Identified(owned, desired[i].id) THEN None ELSE desired[i]>>]

InstallArray(current, desired, path) ==
    IF path \in Identity /\ Identified(desired, "") THEN Conflict
    ELSE Updated(current, [i \in DOMAIN desired |-> <<None, desired[i]>>], path)

OwnedArray(current, desired, owned, path) ==
    IF path \notin Identity THEN Updated(current, PositionalPairs(owned, desired), path)
    ELSE IF Wellformed(owned) /\ Wellformed(desired)
         THEN Updated(current, IdentityPairs(owned, desired), path)
    ELSE Conflict

-----------------------------------------------------------------------------
(* A document: what becomes of a value, from what becomes of the members     *)
(* that the fragments have.                                                  *)

\* The first install: what is there already must be what is desired.
MergeInstall(current, desired, merged, path) ==
    IF Both("object", current, desired) THEN Object(current, merged)
    ELSE IF Both("array", current, desired) THEN InstallArray(current.of, desired.of, path)
    ELSE IF current = desired THEN current ELSE Conflict

\* What the release no longer ships goes, if it still is what was shipped.
Removed(current, owned, merged, path) ==
    IF Both("object", current, owned) THEN Nonempty(Object(current, merged))
    ELSE IF Both("array", current, owned)
         THEN Nonempty(OwnedArray(current.of, <<>>, owned.of, path))
    ELSE IF current = owned THEN Gone ELSE Conflict

MergeOwned(current, desired, owned, merged, path) ==
    IF Both("object", current, desired) /\ owned.kind = "object" THEN Object(current, merged)
    ELSE IF Both("array", current, desired) /\ owned.kind = "array"
         THEN OwnedArray(current.of, desired.of, owned.of, path)
    ELSE IF current \in {desired, owned} THEN desired ELSE Conflict

MergedValue(current, desired, owned, merged, path) ==
    IF current = None THEN IF owned = None THEN desired ELSE Conflict
    ELSE IF owned = None THEN MergeInstall(current, desired, merged, path)
    ELSE IF desired = None THEN Removed(current, owned, merged, path)
    ELSE MergeOwned(current, desired, owned, merged, path)

\* The document a merge makes of the user's.
Merged(current, desired, owned) ==
    LET merged[p \in Pointers] ==
          MergedValue(At(current)[p], At(desired)[p], At(owned)[p],
                      [k \in Members(At(desired)[p]) \cup Members(At(owned)[p]) |->
                         merged[Append(p, k)]], p)
    IN merged[<<>>]

-----------------------------------------------------------------------------
(* What is shipped, and what the user has. *)

ArrayAt(document, event) ==
    LET value == Child(Child(document, "hooks"), event)
    IN IF value.kind = "array" THEN value.of ELSE <<>>

ASSUME BoundsAssumption == Depth \in Nat /\ Depth > 1

ASSUME ReleasesAssumption == None \notin Releases

\* A fragment has an array for each event and a status line of scalars
\* (adapters/claude/settings.fragment.json, adapters/codex/hooks.fragment.json).
ASSUME FragmentAssumption ==
    \A r \in Releases :
        /\ IsObject(Fragment[r])
        /\ Members(Fragment[r]) \subseteq Keys \cap {"hooks", "statusLine"}
        /\ \A k \in Members(Fragment[r]) :
             IsObject(Fragment[r].at[k]) /\ Members(Fragment[r].at[k]) \subseteq Keys
        /\ \A event \in Members(Child(Fragment[r], "hooks")) :
             LET list == ArrayAt(Fragment[r], event) IN
             /\ Child(Child(Fragment[r], "hooks"), event) = Arr(list)
             /\ IsList(list)
             /\ <<"hooks", event>> \in Identity => Wellformed(list)
        /\ \A k \in Members(Child(Fragment[r], "statusLine")) :
             Child(Fragment[r], "statusLine").at[k].kind = "scalar"

\* An entry that has no identity keeps its place from release to release: each of
\* these arrays is shipped with one entry.
ASSUME PlacesAssumption ==
    \A q, r \in Releases, event \in Keys :
        LET old == ArrayAt(Fragment[q], event)
            new == ArrayAt(Fragment[r], event)
        IN <<"hooks", event>> \notin Identity =>
             \A i \in DOMAIN old, j \in DOMAIN new : old[i] = new[j] => i = j

ASSUME BodyAssumption == \A r \in Releases : Body[r] \notin {"start", "end", "text start"}

ASSUME UserAssumption ==
    /\ \A document \in Documents :
         IsObject(document) /\ \A event \in Keys : IsList(ArrayAt(document, event))
    /\ None \notin StartEdits \cup StopEdits

-----------------------------------------------------------------------------
(* The status line of the settings: there is one, so the user's is moved to  *)
(* a file from which the toolkit's relay runs it.                            *)

Without(object, k) == Obj([j \in DOMAIN object.at \ {k} |-> object.at[j]])

\* The fragment the toolkit owns in the settings.
Owned == IF installed = None THEN None ELSE Fragment[installed]

\* The user has a status line where release r puts its own.
ToChain(r) ==
    LET line == Child(settings, "statusLine") IN
    /\ None \notin {line, Child(Fragment[r], "statusLine")}
    /\ line # Child(Fragment[r], "statusLine")
    /\ Child(Owned, "statusLine") = None

\* mutant of ChainConflict: an earlier chained line makes room
ChainConflictNever(r) == ToChain(r) /\ Child(settings, "statusLine").kind # "object"

ChainConflict(r) ==
    LET line == Child(settings, "statusLine") IN
    ToChain(r) /\ (line.kind # "object" \/ chained \notin {None, line})

MergedSettings(r) ==
    LET current == IF ToChain(r) THEN Without(settings, "statusLine") ELSE settings IN
    IF ChainConflict(r) THEN Conflict
    ELSE Merged(current, Fragment[r], Owned)

-----------------------------------------------------------------------------
(* The instruction file, by its lines. A marker that shares its line with    *)
(* other text is a marker all the same.                                      *)

Start == "start"
End == "end"
Inline == "text start"

Block(r) == <<Start, Body[r], End>>

Places(lines, marks) == {i \in DOMAIN lines : lines[i] \in marks}

NoBlock(lines) == Places(lines, {Start, End, Inline}) = {}

Blocks(lines) ==
    {span \in Places(lines, {Start}) \X Places(lines, {End}) : span[1] < span[2]}

Malformed(lines) ==
    \/ Blocks(lines) = {}
    \/ \E i, j \in Places(lines, {Start, Inline}) : i # j
    \/ \E i, j \in Places(lines, {End}) : i # j

\* The merged file, or none.
MergedNotes(r) ==
    IF NoBlock(notes) THEN IF installed = None THEN {notes \o Block(r)} ELSE {}
    ELSE IF Malformed(notes) THEN {}
    ELSE LET span == CHOOSE s \in Blocks(notes) : TRUE
             block == SubSeq(notes, span[1], span[2])
         IN IF block = Block(r) THEN {notes}
            ELSE IF installed = None \/ block # Block(installed) THEN {}
            ELSE {SubSeq(notes, 1, span[1] - 1) \o Block(r)
                  \o SubSeq(notes, span[2] + 1, Len(notes))}

-----------------------------------------------------------------------------
(* The runs of the installer and the user's edits. *)

Refused(r) == MergedSettings(r) = Conflict \/ MergedNotes(r) = {}

\* mutant of NextInstalled: a sync leaves the first release in the state file
NextInstalledOnce(r) == IF installed = None THEN r ELSE installed

NextInstalled(r) == r

\* install, and sync to any release: every file merges or none is written
Run(r) ==
    /\ did' = <<IF Refused(r) THEN "refused" ELSE "merged", r>>
    /\ UNCHANGED edits
    /\ \/ Refused(r) /\ UNCHANGED <<settings, chained, notes, installed>>
       \/ /\ ~Refused(r)
          /\ settings' = MergedSettings(r)
          /\ chained' = IF ToChain(r) THEN Child(settings, "statusLine") ELSE chained
          /\ notes' \in MergedNotes(r)
          /\ installed' = NextInstalled(r)

\* The sequences one edit makes of a sequence.
Edited(s, entries) ==
    {InsertAt(s, i, e) : i \in 1..Len(s) + 1, e \in entries}
    \cup {RemoveAt(s, i) : i \in DOMAIN s}

Array(event) == ArrayAt(settings, event)

WithMember(object, k, v) == Obj([j \in DOMAIN object.at \cup {k} |->
                                   IF j = k THEN v ELSE object.at[j]])

SetArray(event, entries) ==
    settings' = WithMember(settings, "hooks",
                  WithMember(IF Child(settings, "hooks").kind = "object" THEN settings.at.hooks
                             ELSE Obj(<<>>), event, Arr(entries)))

EditSettings ==
    /\ UNCHANGED <<chained, notes>>
    /\ \/ \E entries \in Edited(Array("Start"), StartEdits) : SetArray("Start", entries)
       \/ \E entries \in Edited(Array("Stop"), StopEdits) : SetArray("Stop", entries)
       \/ \E line \in StatusEdits : settings' = WithMember(settings, "statusLine", line)
       \/ \E k \in DOMAIN settings.at : settings' = Without(settings, k)

EditNotes ==
    /\ UNCHANGED <<settings, chained>>
    /\ notes' \in Edited(notes, LineEdits)

EditChained ==
    /\ UNCHANGED <<settings, notes>>
    /\ chained' \in {None} \cup {line \in StatusEdits : line.kind = "object"}

Edit ==
    /\ edits < Edits
    /\ edits' = edits + 1
    /\ did' = <<"edited", None>>
    /\ UNCHANGED installed
    /\ EditSettings \/ EditNotes \/ EditChained

Init ==
    /\ settings \in Documents
    /\ chained = None
    /\ notes = <<"mine">>
    /\ installed = None
    /\ did = <<"edited", None>>
    /\ edits = 0

Next == Edit \/ \E r \in Releases : Run(r)

Spec == Init /\ [][Next]_vars

-----------------------------------------------------------------------------
(* Properties *)

EntriesAt(document, event) == Range(ArrayAt(document, event))

\* What a sequence has but for some entries, in its order.
Others(list, entries) ==
    LET upTo[n \in 0..Len(list)] ==
          IF n = 0 THEN <<>>
          ELSE IF list[n] \in entries THEN upTo[n - 1] ELSE Append(upTo[n - 1], list[n])
    IN upTo[Len(list)]

\* The entries of an array that neither release has.
UsersEntries(entries, event, r) ==
    Others(entries, EntriesAt(Owned, event) \cup EntriesAt(Fragment[r], event))

\* The lines of the instruction file that are in neither release's block.
UsersLines(lines, r) ==
    Others(lines, Range(Block(r))
                    \cup IF installed = None THEN {} ELSE Range(Block(installed)))

\* A merge keeps every setting, array entry and line that is not the toolkit's,
\* in its order, whatever releases follow one another and wherever the user put
\* it (merge_json_fragment: "without overwriting unowned content").
UserContentKept ==
    [][\A r \in Releases : did' = <<"merged", r>> =>
        /\ \A event \in Members(Child(settings, "hooks")) :
             UsersEntries(Array(event)', event, r) = UsersEntries(Array(event), event, r)
        /\ \A k \in Members(settings) \ {"hooks", "statusLine"} :
             Child(settings', k) = Child(settings, k)
        /\ UsersLines(notes', r) = UsersLines(notes, r)]_vars

\* The user's own status line is in the settings or in the chain file after every
\* run, and of one that is merged with the toolkit's every member that the toolkit
\* does not own is; no run replaces a line that was chained before
\* (_chain_status_line: "A consumer that already uses it keeps it").
StatusLineKept ==
    [][\A r \in Releases : did' = <<"merged", r>> =>
        LET line == Child(settings, "statusLine")
            next == Child(settings', "statusLine")
        IN /\ \/ line \in {None, next, chained'}
              \/ /\ line.kind = "object"
                 /\ \A k \in Members(line) :
                      line.at[k] \in {Child(Child(Owned, "statusLine"), k), Child(next, k)}
           /\ chained # None => chained' = chained]_vars

IdentitiesAt(document, event) == {e.id : e \in EntriesAt(document, event)}

\* After a run to release r, an identity that the release or the one before manages
\* occurs as the release has it, once, or not at all, and the instruction file
\* holds the release's block and no other.
ManagedAsReleased ==
    [][\A r \in Releases : did' = <<"merged", r>> =>
         /\ \A event \in Keys : <<"hooks", event>> \in Identity =>
              LET shipped == EntriesAt(Fragment[r], event)
                  dropped == IdentitiesAt(Owned, event) \ IdentitiesAt(Fragment[r], event)
                  found == Array(event)'
              IN /\ \A e \in shipped :
                      \E i \in DOMAIN found : found[i] = e
                         /\ \A j \in DOMAIN found : found[j].id = e.id => j = i
                 /\ \A j \in DOMAIN found : found[j].id \notin dropped
         /\ {SubSeq(notes', s[1], s[2]) : s \in Blocks(notes')} = {Block(r)}]_vars

\* A run that was not refused can be repeated: until the user edits a file, the
\* same release merges into every file as it is.
SyncIsStable ==
    did[1] = "merged" =>
        /\ MergedSettings(did[2]) = settings
        /\ MergedNotes(did[2]) = {notes}
=============================================================================
