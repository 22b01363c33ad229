------------------------------ MODULE MCMerge ------------------------------
(* Merge for TLC: what three releases ship and what the user has and edits. *)
EXTENDS Merge, TLC

CONSTANTS r1, r2, r3

Entry(id, body) == [id |-> id, body |-> body]

Fragments(starts, stops, lines) ==
    [r \in Releases |->
        Obj(("hooks" :> Obj((IF starts[r] = <<>> THEN <<>> ELSE "Start" :> Arr(starts[r]))
                            @@ (IF stops[r] = <<>> THEN <<>> ELSE "Stop" :> Arr(stops[r]))))
            @@ (IF lines[r] = "" THEN <<>>
                ELSE "statusLine" :> Obj("command" :> Val(lines[r]))))]

Each(x, y, z) == r1 :> x @@ r2 :> y @@ r3 :> z

\* r2 changes one entry of Start, drops one and adds one, and changes the one of
\* Stop; r3 ships less.
Shipped ==
    Fragments(Each(<<Entry("x", "1"), Entry("y", "1")>>, <<Entry("x", "2"), Entry("z", "1")>>,
                   <<Entry("z", "1")>>),
              Each(<<Entry("", "a")>>, <<Entry("", "b")>>, <<>>),
              Each("relay", "relay 2", ""))

Bodies == Each("one", "two", "two")
Identities == {<<"hooks", "Start">>}

Mine == Entry("", "mine")
Line == Obj("command" :> Val("mine"))

UserDocuments ==
    {Obj(<<>>),
     Obj("theme" :> Val("dark") @@ "statusLine" :> Line),
     Obj("theme" :> Val("dark")
         @@ "hooks" :> Obj("Start" :> Arr(<<Mine, Entry("x", "1")>>) @@ "Stop" :> Arr(<<Mine>>)))}

UserStarts == {Mine, Entry("x", "mine"), Entry("z", "1")}
UserStops == {Mine, Entry("", "b")}
UserLines == {"mine", Start, End, Inline}
UserStatusLines ==
    {Line, Obj("command" :> Val("relay") @@ "padding" :> Val("2")), Val("off")}
=============================================================================
