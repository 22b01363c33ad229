---------------------------- MODULE RunnerProofs ----------------------------
(***************************************************************************)
(* What the runner owes the host and the other runner, for every           *)
(* invocation.  The invariant says how far the running runner has come,    *)
(* and with it which package is loaded, what is left of the payload and    *)
(* which dispatches went before.                                           *)
(***************************************************************************)
EXTENDS Runner, TLAPS

Frames ==
    [runner : Runners, at : {"start", "waiting", "import", "dispatch", "finish"},
     out : Outputs, result : Results \cup {"import"}]

Services ==
    [by : Runners, package : Runners \cup {None}, stdin : {"whole", "read"},
     out : Outputs, result : Results]

TypeOK ==
    /\ call \in Calls
    /\ stack \in Seq(Frames) /\ served \in Seq(Services)
    /\ marker \in BOOLEAN /\ stdin \in {"whole", "read"}
    /\ package \in Runners \cup {None}

\* A dispatch that gave no answer the runner that handed off would publish.
Failed(s) == ~(s.result = "zero" /\ s.out \in {"nothing", "object"})

\* The dispatches that may go before one by runner r.
Before(r) ==
    \/ served = <<>>
    \/ r = own /\ Len(served) = 1 /\ served[1].by = other /\ Failed(served[1])

\* The dispatches when the one of frame f is the last.
After(f) ==
    /\ Len(served) \in {1, 2}
    /\ Last.by = f.runner /\ Last.out = f.out /\ Last.result = f.result
    /\ Len(served) = 2 => f.runner = own /\ served[1].by = other /\ Failed(served[1])

\* How far the runner of frame f has come.
Progress(f) ==
    \/ f.at = "start" /\ served = <<>> /\ package = None /\ stdin = "whole"
    \/ f.at = "import" /\ Before(f.runner) /\ package = None /\ stdin = "whole"
    \/ f.at = "dispatch" /\ Before(f.runner) /\ package = f.runner /\ stdin = "whole"
    \/ f.at = "finish" /\ f.result = "import" /\ Before(f.runner)
    \/ f.at = "finish" /\ f.result \in Results /\ After(f)

\* One runner, or the one that was handed the hook above the one that waits.
Shape ==
    /\ stack[1].runner = own
    /\ \/ Len(stack) = 1
       \/ Len(stack) = 2 /\ stack[2].runner = other /\ call.target[own] = other
    /\ marker <=> Len(stack) = 2

Inv ==
    /\ TypeOK /\ Shape
    /\ OneAnswer /\ OneHop /\ EachServesAlone
    /\ host = None => Progress(Top)

-----------------------------------------------------------------------------
LEMMA InitInv == Init => Inv
<1> SUFFICES ASSUME Init PROVE Inv OBVIOUS
<1>1. Frame(own) \in Frames BY DEF Frame, Frames, Outputs, Results, Runners
<1>2. /\ stack \in Seq(Frames) /\ Len(stack) = 1 /\ stack[1] = Frame(own)
      /\ served \in Seq(Services) /\ Len(served) = 0
  BY <1>1 DEF Init
<1>3. TypeOK BY <1>2 DEF Init, TypeOK
<1>4. Shape BY <1>2 DEF Init, Shape, Frame
<1>5. OneAnswer BY DEF Init, OneAnswer
<1>6. OneHop BY <1>2 DEF Init, OneHop
<1>7. EachServesAlone BY <1>2 DEF Init, EachServesAlone
<1>8. Progress(Top) BY <1>2 DEF Init, Progress, Top, Frame
<1>9. QED BY <1>3, <1>4, <1>5, <1>6, <1>7, <1>8 DEF Inv

\* A step that leaves the stack's length and the answer alone keeps the shape.
LEMMA SetTopShape ==
    ASSUME Inv, NEW f \in Frames, SetTop(f), f.runner = Top.runner, UNCHANGED <<call, marker>>
    PROVE  /\ Shape' /\ stack' \in Seq(Frames) /\ Len(stack') = Len(stack) /\ Top' = f
<1>1. stack \in Seq(Frames) /\ Len(stack) \in {1, 2} BY DEF Inv, TypeOK, Shape
<1>2. /\ stack' \in Seq(Frames) /\ Len(stack') = Len(stack) /\ stack'[Len(stack)] = f
      /\ \A i \in 1..Len(stack) : i # Len(stack) => stack'[i] = stack[i]
  BY <1>1 DEF SetTop
<1>3. QED BY <1>1, <1>2 DEF Inv, Shape, Top

LEMMA ServeSelfKeeps == ASSUME Inv, ServeSelf PROVE Inv'
<1> DEFINE f == [Top EXCEPT !.at = "import"]
<1>1. Top \in Frames /\ host = None /\ Progress(Top) /\ Top.at = "start"
  BY DEF Inv, TypeOK, Shape, Top, ServeSelf, Running
<1>2. f \in Frames /\ f.runner = Top.runner /\ f.at = "import" BY <1>1 DEF Frames
<1>3. Shape' /\ stack' \in Seq(Frames) /\ Len(stack') = Len(stack) /\ Top' = f
  BY <1>2, SetTopShape DEF ServeSelf
<1>4. Progress(f)' BY <1>1, <1>2 DEF Progress, ServeSelf, Before
<1>5. TypeOK' BY <1>3 DEF Inv, TypeOK, ServeSelf
<1>6. OneAnswer' BY <1>1 DEF OneAnswer, ServeSelf
<1>7. OneHop' BY <1>3 DEF Inv, OneHop, ServeSelf
<1>8. EachServesAlone' BY <1>3 DEF Inv, EachServesAlone, ServeSelf
<1>9. QED BY <1>3, <1>4, <1>5, <1>6, <1>7, <1>8 DEF Inv

LEMMA ImportKeeps == ASSUME Inv, Import PROVE Inv'
<1>1. Top \in Frames /\ host = None /\ Progress(Top) /\ Top.at = "import"
  BY DEF Inv, TypeOK, Shape, Top, Import, Running
<1>2. package = None /\ package' = Top.runner /\ Top.runner \in Runners /\ Before(Top.runner)
      /\ stdin = "whole"
  BY <1>1 DEF Progress, Import, Imported, Frames
<1>3. PICK f \in Frames :
        /\ SetTop(f) /\ f.runner = Top.runner
        /\ \/ f.at = "dispatch"
           \/ f.at = "finish" /\ f.result = "import"
  <2>1. CASE SetTop([Top EXCEPT !.at = "dispatch"])
    <3>1. [Top EXCEPT !.at = "dispatch"] \in Frames BY <1>1 DEF Frames
    <3>2. QED BY <2>1, <3>1, <1>1 DEF Frames
  <2>2. ASSUME NEW noise \in {"nothing", "junk"},
               SetTop([Top EXCEPT !.at = "finish", !.out = noise, !.result = "import"])
        PROVE  \E f \in Frames : /\ SetTop(f) /\ f.runner = Top.runner
                                 /\ f.at = "finish" /\ f.result = "import"
    <3>1. [Top EXCEPT !.at = "finish", !.out = noise, !.result = "import"] \in Frames
      BY <1>1 DEF Frames, Outputs
    <3>2. QED BY <2>2, <3>1, <1>1 DEF Frames
  <2>3. QED BY <2>1, <2>2 DEF Import
<1>4. Shape' /\ stack' \in Seq(Frames) /\ Len(stack') = Len(stack) /\ Top' = f
  BY <1>3, SetTopShape DEF Import
<1>5. Progress(f)' BY <1>2, <1>3 DEF Progress, Import, Before
<1>6. TypeOK' BY <1>2, <1>4 DEF Inv, TypeOK, Import
<1>7. OneAnswer' BY <1>1 DEF OneAnswer, Import
<1>8. OneHop' BY <1>4 DEF Inv, OneHop, Import
<1>9. EachServesAlone' BY <1>4 DEF Inv, EachServesAlone, Import
<1>10. QED BY <1>4, <1>5, <1>6, <1>7, <1>8, <1>9 DEF Inv

LEMMA DispatchKeeps == ASSUME Inv, Dispatch PROVE Inv'
<1>1. Top \in Frames /\ host = None /\ Progress(Top) /\ Top.at = "dispatch"
  BY DEF Inv, TypeOK, Shape, Top, Dispatch, Running
<1>2. package = Top.runner /\ Top.runner \in Runners /\ Before(Top.runner) /\ stdin = "whole"
  BY <1>1 DEF Progress, Frames
<1>3. PICK out \in Outputs, result \in Results :
        /\ SetTop([Top EXCEPT !.at = "finish", !.out = out, !.result = result])
        /\ served' = Append(served, [by |-> Top.runner, package |-> package, stdin |-> stdin,
                                     out |-> out, result |-> result])
  BY DEF Dispatch
<1>4. PICK f \in Frames : /\ SetTop(f) /\ f.runner = Top.runner /\ f.at = "finish"
                         /\ f.out = out /\ f.result = result
  <2>1. [Top EXCEPT !.at = "finish", !.out = out, !.result = result] \in Frames
    BY <1>1 DEF Frames
  <2>2. QED BY <2>1, <1>1, <1>3 DEF Frames
<1>5. Shape' /\ stack' \in Seq(Frames) /\ Len(stack') = Len(stack) /\ Top' = f
  BY <1>4, SetTopShape DEF Dispatch
<1>6. PICK s \in Services : /\ served' = Append(served, s)
                           /\ s.by = Top.runner /\ s.package = s.by /\ s.stdin = "whole"
                           /\ s.out = out /\ s.result = result
  BY <1>2, <1>3 DEF Services
<1>7. /\ served \in Seq(Services) /\ served' \in Seq(Services)
      /\ Len(served') = Len(served) + 1 /\ served'[Len(served) + 1] = s
      /\ \A i \in 1..Len(served) : served'[i] = served[i]
  BY <1>6 DEF Inv, TypeOK
<1>8. After(f)' /\ Len(served) \in {0, 1}
  <2>0. Last' = s /\ Len(served) \in Nat BY <1>7 DEF Last
  <2>1. CASE served = <<>> BY <2>0, <2>1, <1>4, <1>6, <1>7 DEF After
  <2>2. CASE Top.runner = own /\ Len(served) = 1 /\ served[1].by = other /\ Failed(served[1])
    BY <2>0, <2>2, <1>4, <1>6, <1>7 DEF After, Failed
  <2>3. QED BY <2>1, <2>2, <1>2 DEF Before
<1>9. Progress(f)' BY <1>4, <1>8 DEF Progress
<1>10. TypeOK' BY <1>5, <1>7 DEF Inv, TypeOK, Dispatch
<1>11. OneAnswer' BY <1>1 DEF OneAnswer, Dispatch
<1>12. OneHop'
  <2>1. Len(served') \in {1, 2} BY <1>7, <1>8
  <2>2. Len(served') = 2 => served'[2] = Last' BY DEF Last
  <2>3. Len(stack') <= 2 BY <1>5 DEF Inv, Shape
  <2>4. Len(served') = 2 =>
          served'[1].by = other /\ Last'.by = own /\ Failed(served'[1])
    BY <1>4, <1>8 DEF After, Failed
  <2>5. Len(served') <= 2 BY <2>1, <1>7
  <2>6. Len(served') = 2 => served'[2].by = own BY <2>2, <2>4
  <2>7. QED BY <2>3, <2>4, <2>5, <2>6 DEF OneHop, Failed
<1>13. EachServesAlone' BY <1>5, <1>6, <1>7 DEF Inv, EachServesAlone, Dispatch, TypeOK
<1>14. QED BY <1>5, <1>9, <1>10, <1>11, <1>12, <1>13 DEF Inv

-----------------------------------------------------------------------------
(* What main leaves of a frame that is at its end. *)

\* For an event the host knows it leaves silence or one object and exits with zero,
\* and it is silent on a gated event only after a dispatch that ended well.
LEMMA EndingOfKnown ==
    ASSUME NEW f \in Frames, call.event \in Recognised
    PROVE  /\ Ending(f).exit = "zero" /\ Ending(f).text \in {"nothing", "object"}
           /\ call.event = "gated" /\ Ending(f).text = "nothing" =>
                f.out = "nothing" /\ f.result = "zero"
<1>1. CASE f.result \in {"import", "raised"} \/ ~Sound(f)
  BY <1>1 DEF Ending, Notice
<1>2. CASE ~(f.result \in {"import", "raised"} \/ ~Sound(f))
  BY <1>2 DEF Ending, Sound
<1>3. QED BY <1>1, <1>2

\* An ending that is not published is of a dispatch that failed, or there was none.
LEMMA EndingOfFailed ==
    ASSUME NEW f \in Frames,
           ~(Ending(f).exit = "zero" /\ Ending(f).text \in {"nothing", "object"})
    PROVE  f.result = "import" \/ Failed(f)
<1>1. call.event \notin Recognised BY EndingOfKnown
<1>2. /\ Ending(f).text = f.out
      /\ Ending(f).exit = IF f.result = "import" THEN "status" ELSE f.result
  BY <1>1 DEF Ending
<1>3. QED BY <1>2 DEF Failed

LEMMA LongIsSome == ASSUME NEW s, Len(s) \in {1, 2} PROVE s # <<>>
OBVIOUS

\* A silent ending is justified by the dispatches.
LEMMA EndingAnswers ==
    ASSUME NEW f \in Frames, f.at = "finish", Progress(f), served \in Seq(Services),
           call.event \in Recognised,
           call.event = "gated", Ending(f).text = "nothing"
    PROVE  served # <<>> /\ Last.out = "nothing" /\ Last.result = "zero"
<1>1. f.out = "nothing" /\ f.result = "zero" BY EndingOfKnown
<1>2. After(f) BY <1>1 DEF Progress
<1>3. Len(served) \in {1, 2} BY <1>2 DEF After
<1>4. served # <<>> BY <1>3, LongIsSome
<1>5. QED BY <1>1, <1>2, <1>4 DEF After

LEMMA FinishKeeps == ASSUME Inv, Finish PROVE Inv'
<1>1. Top \in Frames /\ Progress(Top) /\ Top.at = "finish"
  BY DEF Inv, TypeOK, Shape, Top, Finish, Running
<1>2. host' = Ending(Top) /\ UNCHANGED <<call, stack, marker, stdin, package, served>>
  BY DEF Finish, Answer
<1>3. OneAnswer'
  <2>1. SUFFICES ASSUME call.event \in Recognised
                 PROVE  /\ host'.exit = "zero" /\ host'.text \in {"nothing", "object"}
                        /\ call.event = "gated" /\ host'.text = "nothing" =>
                             served # <<>> /\ Last.out = "nothing" /\ Last.result = "zero"
    BY <1>2 DEF OneAnswer, Last
  <2>2. QED BY <2>1, <1>1, <1>2, EndingOfKnown, EndingAnswers DEF Inv, TypeOK
<1>4. TypeOK' /\ Shape' /\ OneHop' /\ EachServesAlone'
  BY <1>2 DEF Inv, TypeOK, Shape, OneHop, EachServesAlone
<1>5. (host = None => Progress(Top))'
  BY <1>1, <1>2 DEF Progress, Before, After, Top, Last
<1>6. QED BY <1>3, <1>4, <1>5 DEF Inv

-----------------------------------------------------------------------------
(* Handing the hook on and back. *)

\* Replacing the entry of a sequence of one.
LEMMA ReplaceOnly ==
    ASSUME NEW S, NEW s \in Seq(S), Len(s) = 1, NEW x \in S
    PROVE  /\ [s EXCEPT ![1] = x] \in Seq(S) /\ Len([s EXCEPT ![1] = x]) = 1
           /\ [s EXCEPT ![1] = x][1] = x
<1>1. s \in [1..1 -> S] OBVIOUS
<1>2. [s EXCEPT ![1] = x] \in [1..1 -> S] /\ [s EXCEPT ![1] = x][1] = x BY <1>1
<1>3. QED BY <1>2

\* What is below the top of two.
LEMMA BelowOnly ==
    ASSUME NEW S, NEW s \in Seq(S), Len(s) = 2
    PROVE  /\ SubSeq(s, 1, 1) \in Seq(S) /\ Len(SubSeq(s, 1, 1)) = 1
           /\ SubSeq(s, 1, 1)[1] = s[1] /\ s[1] \in S
OBVIOUS

LEMMA HandOffKeeps == ASSUME Inv, HandOff PROVE Inv'
<1>1. /\ stack \in Seq(Frames) /\ Len(stack) = 1 /\ stack[1].runner = own
      /\ stack[1] \in Frames /\ stack[1].at = "start" /\ Top = stack[1]
      /\ host = None /\ Progress(Top)
  BY DEF Inv, TypeOK, Shape, Top, HandOff, HandsOff, Running
<1>2. call.target[own] = other
  <2>1. call.target \in [Runners -> Runners \cup {None}] /\ call.target[own] # own
    BY DEF Inv, TypeOK, Calls, Runners
  <2>2. call.target[own] # None BY <1>1 DEF HandOff, HandsOff, Elsewhere
  <2>3. QED BY <2>1, <2>2 DEF Runners
<1>3. Frame(other) \in Frames BY DEF Frame, Frames, Outputs, Results, Runners
<1> DEFINE first == [stack[1] EXCEPT !.at = "waiting"]
           below == [stack EXCEPT ![1] = first]
<1>4. below \in Seq(Frames) /\ Len(below) = 1 /\ below[1].runner = own
  <2>1. first \in Frames /\ first.runner = own BY <1>1 DEF Frames
  <2> HIDE DEF first
  <2>2. QED BY <1>1, <2>1, ReplaceOnly
<1>5. stack' = Append(below, Frame(other)) BY <1>1, <1>2 DEF HandOff
<1>6. /\ stack' \in Seq(Frames) /\ Len(stack') = 2 /\ stack'[1].runner = own
      /\ stack'[2] = Frame(other)
  <2> HIDE DEF below
  <2>1. QED BY <1>3, <1>4, <1>5
<1>7. served = <<>> /\ package = None BY <1>1 DEF Progress
<1>8. Shape' BY <1>2, <1>6 DEF Shape, HandOff, Frame
<1>9. Progress(Top)' BY <1>6, <1>7 DEF Progress, Top, Frame, HandOff
<1>10. TypeOK' BY <1>6 DEF Inv, TypeOK, HandOff
<1>11. OneAnswer' BY <1>1 DEF OneAnswer, HandOff
<1>12. OneHop' BY <1>6, <1>7 DEF OneHop, HandOff
<1>13. EachServesAlone' BY <1>6 DEF Inv, EachServesAlone, HandOff
<1>14. QED BY <1>8, <1>9, <1>10, <1>11, <1>12, <1>13 DEF Inv

\* A runner that hands back leaves a clean start: its answer is justified, or what
\* it dispatched failed.
LEMMA ReturnKeeps ==
    ASSUME Inv, host = None, Len(stack) = 2,
           NEW ending \in [text : Outputs, exit : Results], Return(ending),
           call.event = "gated" /\ ending.text = "nothing" =>
             \/ served # <<>> /\ Last.out = "nothing" /\ Last.result = "zero"
             \/ call.older /\ call.target[own] = other,
           ~(ending.exit = "zero" /\ ending.text \in {"nothing", "object"}) => Before(own)
    PROVE  Inv'
<1> DEFINE rest == SubSeq(stack, 1, 1)
           again == [rest[1] EXCEPT !.at = "import"]
           good == ending.exit = "zero" /\ ending.text \in {"nothing", "object"}
<1>1. /\ stack \in Seq(Frames) /\ rest \in Seq(Frames) /\ Len(rest) = 1
      /\ rest[1] = stack[1] /\ rest[1].runner = own /\ rest[1] \in Frames
  BY BelowOnly DEF Inv, TypeOK, Shape
<1>2. /\ marker' = FALSE /\ package' = None /\ stdin' = "whole"
      /\ UNCHANGED <<call, served>>
      /\ IF good THEN stack' = rest /\ host' = ending
         ELSE stack' = [rest EXCEPT ![1] = again] /\ UNCHANGED host
  BY <1>1 DEF Return, Restored
<1>3. /\ stack' \in Seq(Frames) /\ Len(stack') = 1 /\ stack'[1].runner = own
      /\ ~good => stack'[1].at = "import"
  <2> HIDE DEF rest, good
  <2>1. CASE good BY <2>1, <1>1, <1>2 DEF again
  <2>2. CASE ~good
    <3>1. again \in Frames /\ again.runner = own /\ again.at = "import"
      BY <1>1 DEF rest, Frames
    <3> HIDE DEF again
    <3>2. stack' = [rest EXCEPT ![1] = again] BY <2>2, <1>2
    <3>3. stack' \in Seq(Frames) /\ Len(stack') = 1 /\ stack'[1] = again
      BY <3>1, <3>2, <1>1, ReplaceOnly
    <3>4. QED BY <3>1, <3>3
  <2>3. QED BY <2>1, <2>2
<1>4. TypeOK' BY <1>2, <1>3 DEF Inv, TypeOK
<1>5. Shape' BY <1>2, <1>3 DEF Shape
<1>6. OneHop' BY <1>2, <1>3 DEF Inv, OneHop
<1>7. EachServesAlone' BY <1>2, <1>3 DEF Inv, EachServesAlone
<1>8. OneAnswer'
  <2>1. CASE good BY <2>1, <1>2 DEF OneAnswer, Last
  <2>2. CASE ~good BY <2>2, <1>2 DEF OneAnswer
  <2>3. QED BY <2>1, <2>2
<1>9. (host = None => Progress(Top))'
  <2>1. CASE good BY <2>1, <1>2, RunnerAssumption
  <2>2. CASE ~good BY <2>2, <1>2, <1>3 DEF Progress, Before, Top
  <2>3. QED BY <2>1, <2>2
<1>10. QED BY <1>4, <1>5, <1>6, <1>7, <1>8, <1>9 DEF Inv

LEMMA GiveBackKeeps == ASSUME Inv, GiveBack PROVE Inv'
<1> DEFINE f == Top
           ending == Ending(f)
<1>1. /\ host = None /\ Len(stack) = 2 /\ f \in Frames /\ f.runner = other
      /\ f.at = "finish" /\ Progress(f) /\ served \in Seq(Services)
  BY DEF Inv, TypeOK, Shape, Top, GiveBack, Running
<1>2. Return(ending) BY DEF GiveBack
<1> HIDE DEF f
<1>3. ending \in [text : Outputs, exit : Results]
  BY <1>1 DEF Ending, Notice, Frames, Outputs, Results
<1>4. call.event \in Recognised =>
        /\ ending.exit = "zero" /\ ending.text \in {"nothing", "object"}
        /\ call.event = "gated" /\ ending.text = "nothing" =>
             served # <<>> /\ Last.out = "nothing" /\ Last.result = "zero"
  BY <1>1, EndingOfKnown, EndingAnswers
<1>5. call.event = "gated" => call.event \in Recognised BY DEF Recognised
<1>6. ASSUME ~(ending.exit = "zero" /\ ending.text \in {"nothing", "object"})
      PROVE  Before(own)
  <2>1. f.result = "import" \/ Failed(f) BY <1>1, <1>6, EndingOfFailed
  <2>2. CASE Before(other) BY <2>2, RunnerAssumption DEF Before
  <2>3. CASE f.result \in Results /\ After(f)
    <3>1. Failed(f) BY <2>1, <2>3 DEF Results
    <3>2. Len(served) = 1 BY <2>3, <1>1, RunnerAssumption DEF After
    <3>3. Last = served[1] BY <3>2 DEF Last
    <3>4. served[1].by = other /\ Failed(served[1])
      BY <2>3, <3>1, <3>3, <1>1 DEF After, Failed
    <3>5. QED BY <3>2, <3>4 DEF Before
  <2>4. QED BY <2>2, <2>3, <1>1 DEF Progress
<1> HIDE DEF ending
<1>7. QED BY <1>1, <1>2, <1>3, <1>4, <1>5, <1>6, ReturnKeeps

LEMMA OlderKeeps == ASSUME Inv, Older PROVE Inv'
<1>1. /\ host = None /\ Top.runner = other /\ Top.at = "start" /\ call.older /\ Progress(Top)
  BY DEF Inv, Older, Running
<1>2. Len(stack) = 2 /\ call.target[own] = other
  BY <1>1, RunnerAssumption DEF Inv, Shape, Top
<1>3. PICK out \in Outputs, result \in Results : Return([text |-> out, exit |-> result])
  BY DEF Older
<1> DEFINE ending == [text |-> out, exit |-> result]
<1>4. ending \in [text : Outputs, exit : Results] /\ Return(ending) BY <1>3
<1>5. Before(own) BY <1>1 DEF Progress, Before
<1> HIDE DEF ending
<1>6. QED BY <1>1, <1>2, <1>4, <1>5, ReturnKeeps

-----------------------------------------------------------------------------
LEMMA NextKeeps == ASSUME Inv, [Next]_vars PROVE Inv'
<1>1. CASE UNCHANGED vars
  <2>1. /\ UNCHANGED <<call, stack, marker, stdin, package, served, host>>
    BY <1>1 DEF vars
  <2>2. TypeOK' /\ Shape' /\ OneAnswer' /\ OneHop' /\ EachServesAlone'
    BY <2>1 DEF Inv, TypeOK, Shape, OneAnswer, OneHop, EachServesAlone, Last
  <2>3. (host = None => Progress(Top))'
    BY <2>1 DEF Inv, Progress, Before, After, Top, Last
  <2>4. QED BY <2>2, <2>3 DEF Inv
<1>2. QED
  BY <1>1, ServeSelfKeeps, ImportKeeps, DispatchKeeps, FinishKeeps, HandOffKeeps,
     GiveBackKeeps, OlderKeeps DEF Next, Stopped

LEMMA Always == Spec => []Inv
BY InitInv, NextKeeps, PTL DEF Spec

\* Whatever fails, the host gets one answer to a hook event it knows, and silence
\* on a gated event only when its last dispatch ended well (main).
THEOREM HostIsAnswered == Spec => []OneAnswer
<1>1. Inv => OneAnswer BY DEF Inv
<1>2. QED BY Always, <1>1, PTL

\* A hook is handed on at most once, and served a second time only after the
\* other runner's answer was refused (_hand_off).
THEOREM HandedOnce == Spec => []OneHop
<1>1. Inv => OneHop BY DEF Inv
<1>2. QED BY Always, <1>1, PTL

\* Every dispatch runs the package beside its runner on the whole payload, and the
\* marker does not outlive the hand-off (_hand_off's finally).
THEOREM ServedAlone == Spec => []EachServesAlone
<1>1. Inv => EachServesAlone BY DEF Inv
<1>2. QED BY Always, <1>1, PTL
=============================================================================
