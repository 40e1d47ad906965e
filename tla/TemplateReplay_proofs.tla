----------------------- MODULE TemplateReplay_proofs -----------------------
(***************************************************************************)
(* Whatever the programs are and whatever evaluating a template yields, a  *)
(* replay keeps one open call per frame and builds a call tree.  When it   *)
(* yields a vector of events, a frame never leaves its vector.  When the   *)
(* vectors enter a component once and name what they wire to it, the       *)
(* arguments of every call are what its caller is shown assigning.         *)
(***************************************************************************)
EXTENDS TemplateReplay, SequenceTheorems, TLAPS

\* The part of the state the calls depend on.  The frames are records of
\* Evaluate's events, of which nothing is assumed: F stands for their set.
IInv ==
    /\ prog \in Programs
    /\ phase \in {"before", "inside", "after"}
    /\ calls \in Seq(Templates)
    /\ \E F : stack \in Seq(F)
    /\ FramesMatchCalls

\* Advancing the top frame keeps the frames a sequence of the same length.
LEMMA AdvancedFacts ==
    ASSUME NEW F, stack \in Seq(F), NEW i \in 1 .. Len(stack)
    PROVE  /\ \E G : Advanced \in Seq(G)
           /\ Len(Advanced) = Len(stack)
<1> DEFINE G == F \cup {Advanced[Len(stack)]}
<1>1. Advanced = [j \in 1 .. Len(stack) |-> Advanced[j]]
  BY DEF Advanced
<1>2. \A j \in 1 .. Len(stack) : Advanced[j] \in G
  BY DEF Advanced
<1>3. Advanced \in Seq(G) /\ Len(Advanced) = Len(stack)
  <2> HIDE DEF G
  <2>1. Len(stack) \in Nat
    OBVIOUS
  <2>2. Advanced \in [1 .. Len(stack) -> G]
    BY <1>1, <1>2
  <2> QED BY <2>1, <2>2
<1> QED BY <1>3

\* Pushing a frame.
LEMMA PushFacts ==
    ASSUME NEW F, NEW s \in Seq(F), NEW x
    PROVE  /\ \E G : Append(s, x) \in Seq(G)
           /\ Len(Append(s, x)) = Len(s) + 1
<1> DEFINE G == F \cup {x}
<1>1. s \in Seq(G)
  OBVIOUS
<1>2. Append(s, x) \in Seq(G) /\ Len(Append(s, x)) = Len(s) + 1
  BY <1>1
<1> QED BY <1>2

\* Dropping the last element of a sequence.
LEMMA DropFacts ==
    ASSUME NEW F, NEW s \in Seq(F), s # <<>>
    PROVE  /\ SubSeq(s, 1, Len(s) - 1) \in Seq(F)
           /\ Len(SubSeq(s, 1, Len(s) - 1)) = Len(s) - 1
<1> DEFINE n == Len(s) - 1
<1>1. Len(s) \in Nat /\ Len(s) >= 1 /\ \A i \in 1 .. Len(s) : s[i] \in F
  OBVIOUS
<1>2. 1 \in Int /\ n \in Nat /\ n \in Int /\ \A i \in 1 .. n : s[i] \in F
  BY <1>1
<1> HIDE DEF n
<1>3. SubSeq(s, 1, n) \in Seq(F) /\ Len(SubSeq(s, 1, n)) = IF 1 <= n THEN n - 1 + 1 ELSE 0
  BY <1>2, SubSeqProperties
<1>4. Len(SubSeq(s, 1, n)) = n
  BY <1>2, <1>3
<1> QED BY <1>3, <1>4 DEF n

\* The invariant holds at the start, before anything is called.
LEMMA InvInit == Init => IInv
<1> SUFFICES ASSUME Init PROVE IInv
  OBVIOUS
<1>1. stack \in Seq({})
  BY DEF Init
<1> QED BY <1>1 DEF Init, IInv, FramesMatchCalls

\* Every step keeps the invariant: frames and calls are pushed and dropped
\* together.
LEMMA InvStep == IInv /\ [Next]_vars => IInv'
<1> SUFFICES ASSUME IInv, [Next]_vars PROVE IInv'
  OBVIOUS
<1> USE ProgramsAssumption
<1>0. PICK F : stack \in Seq(F)
  BY DEF IInv
<1>1. CASE EnterMain
  <2>1. PICK x : stack' = <<x>>
    BY <1>1 DEF EnterMain
  <2>2. stack' \in Seq({x}) /\ Len(stack') = 1
    BY <2>1
  <2>3. MainOf(prog) \in Templates /\ calls' = <<MainOf(prog)>>
    BY <1>1 DEF EnterMain, IInv
  <2>4. calls' \in Seq(Templates) /\ Len(calls') = 1 /\ calls' # <<>>
    BY <2>3
  <2> QED BY <1>1, <2>2, <2>4 DEF EnterMain, IInv, FramesMatchCalls
<1>2. ASSUME HasEvent PROVE \E G : Advanced \in Seq(G) /\ Len(Advanced) = Len(stack)
  <2>1. calls # <<>>
    BY <1>2 DEF HasEvent, IInv, FramesMatchCalls
  <2>2. Len(stack) \in 1 .. Len(stack)
    BY <1>0, <2>1 DEF IInv, FramesMatchCalls
  <2> QED BY <1>0, <2>2, AdvancedFacts
<1>3. ASSUME HasEvent, stack' = Advanced, UNCHANGED <<prog, phase, calls>> PROVE IInv'
  BY <1>2, <1>3 DEF IInv, FramesMatchCalls
<1>4. CASE Replay
  <2>1. CASE ReplayStep
    BY <1>3, <2>1 DEF ReplayStep
  <2>2. CASE ReplayVariable
    BY <1>3, <2>2 DEF ReplayVariable
  <2>3. CASE ReplayWire
    BY <1>3, <2>3 DEF ReplayWire
  <2>4. CASE ReplayViolation
    BY <1>3, <2>4 DEF ReplayViolation
  <2> QED BY <1>4, <2>1, <2>2, <2>3, <2>4 DEF Replay
<1>5. CASE SkipComponent
  BY <1>3, <1>5 DEF SkipComponent
<1>6. CASE EnterComponent
  <2>1. PICK x : stack' = Append(Advanced, x)
    BY <1>6 DEF EnterComponent
  <2>2. PICK G : Advanced \in Seq(G) /\ Len(Advanced) = Len(stack)
    BY <1>2, <1>6 DEF EnterComponent
  <2>3. (\E H : stack' \in Seq(H)) /\ Len(stack') = Len(stack) + 1
    BY <2>1, <2>2, PushFacts
  <2>4. Event.template \in Templates /\ calls' = Append(calls, Event.template)
    BY <1>6 DEF EnterComponent, IInv
  <2>5. calls' \in Seq(Templates) /\ Len(calls') = Len(calls) + 1 /\ calls' # <<>>
    BY <2>4 DEF IInv
  <2> QED BY <1>6, <2>3, <2>5 DEF EnterComponent, HasEvent, IInv, FramesMatchCalls
<1>7. CASE LeaveFrame
  <2>1. calls # <<>> /\ calls \in Seq(Templates) /\ Len(stack) = Len(calls)
    BY <1>7 DEF LeaveFrame, IInv, FramesMatchCalls
  <2>2. stack # <<>>
    BY <1>0, <2>1
  <2>3. stack' \in Seq(F) /\ Len(stack') = Len(stack) - 1
    BY <1>0, <1>7, <2>2, DropFacts DEF LeaveFrame
  <2>4. calls' \in Seq(Templates) /\ Len(calls') = Len(calls) - 1
    BY <1>7, <2>1, DropFacts DEF LeaveFrame
  <2>5. calls' # <<>> <=> Len(stack) # 1
    <3>1. calls' = <<>> <=> Len(calls') = 0
      BY <2>4, EmptySeq
    <3> QED BY <2>1, <2>4, <3>1
  <2>6. phase' = "inside" <=> calls' # <<>>
    BY <1>7, <2>5 DEF LeaveFrame
  <2>7. phase' \in {"before", "inside", "after"} /\ prog' = prog
    BY <1>7 DEF LeaveFrame
  <2> QED BY <2>1, <2>3, <2>4, <2>6, <2>7 DEF IInv, FramesMatchCalls
<1>8. CASE UNCHANGED vars
  BY <1>8 DEF vars, IInv, FramesMatchCalls
<1> QED BY <1>1, <1>4, <1>5, <1>6, <1>7, <1>8 DEF Next

\* At every moment of a recording there is one open call per frame of the
\* recursion.
THEOREM FramesAndCallsAgree == Spec => []FramesMatchCalls
<1>1. IInv => FramesMatchCalls
  BY DEF IInv
<1> QED BY <1>1, InvInit, InvStep, PTL DEF Spec

\* A step of the replay opens the main call, opens a call inside it, closes
\* the innermost call, or does nothing to the calls.
LEMMA TreeStep == IInv /\ [Next]_vars => [Tree!TreeNext]_(Tree!treeVars)
<1> SUFFICES ASSUME IInv, [Next]_vars, ~ UNCHANGED <<calls, phase>>
             PROVE  Tree!TreeNext
  BY DEF Tree!treeVars
<1> USE ProgramsAssumption
<1>1. CASE EnterMain
  <2>1. MainOf(prog) \in Templates
    BY DEF IInv
  <2>2. Tree!OpenMain
    BY <1>1, <2>1 DEF EnterMain, Tree!OpenMain
  <2> QED BY <2>2 DEF Tree!TreeNext
<1>2. CASE EnterComponent
  <2>1. Event.template \in Templates
    BY <1>2 DEF EnterComponent, IInv
  <2>2. Tree!Open
    BY <1>2, <2>1 DEF EnterComponent, HasEvent, Tree!Open
  <2> QED BY <2>2 DEF Tree!TreeNext
<1>3. CASE LeaveFrame
  <2>1. calls \in Seq(Templates) /\ calls # <<>> /\ Len(stack) = Len(calls)
    BY <1>3 DEF LeaveFrame, IInv, FramesMatchCalls
  <2>2. CASE Len(calls) = 1
    <3>1. calls' = <<>>
      BY <1>3, <2>1, <2>2, DropFacts DEF LeaveFrame
    <3>2. Tree!CloseMain
      BY <1>3, <2>1, <2>2, <3>1 DEF LeaveFrame, Tree!CloseMain
    <3> QED BY <3>2 DEF Tree!TreeNext
  <2>3. CASE Len(calls) # 1
    <3>1. Len(calls) > 1
      BY <2>1, <2>3
    <3>2. Tree!Close
      BY <1>3, <2>1, <3>1 DEF LeaveFrame, Tree!Close
    <3> QED BY <3>2 DEF Tree!TreeNext
  <2> QED BY <2>2, <2>3
<1>4. CASE Replay
  BY <1>4 DEF Replay, ReplayStep, ReplayVariable, ReplayWire, ReplayViolation
<1>5. CASE SkipComponent
  BY <1>5 DEF SkipComponent
<1>6. CASE UNCHANGED vars
  BY <1>6 DEF vars
<1> QED BY <1>1, <1>2, <1>3, <1>4, <1>5, <1>6 DEF Next

\* The replay implements the call tree the rest of the session relies on, for
\* every program and whatever its evaluation yields.
THEOREM ReplayBuildsCallTree == Spec => BuildsCallTree
<1>1. Init => Tree!TreeInit
  BY DEF Init, Tree!TreeInit
<1> QED BY <1>1, InvInit, InvStep, TreeStep, PTL DEF Spec, BuildsCallTree, Tree!TreeSpec

---------------------------------------------------------------------------
\* evaluate_template returns a vector of events, whatever it is given: the one
\* fact about Evaluate that the types of the state need.
Vectors(Events) ==
    \A p \in Programs : \A t \in ParsedIn(p) : \A inputs, args :
        Evaluate(p, t, inputs, args) \in Seq(Events)

FrameOK(f, Events) ==
    /\ f = [comp |-> f.comp, pos |-> f.pos, events |-> f.events]
    /\ f.events \in Seq(Events)
    /\ f.pos \in 1 .. Len(f.events) + 1

FramesOK(Events) == \A i \in 1 .. Len(stack) : FrameOK(stack[i], Events)

\* A frame starts at the first of its events.
LEMMA NewFrameOK ==
    ASSUME NEW Events, Vectors(Events), prog \in Programs,
           NEW comp, NEW template, NEW inputs, NEW args
    PROVE  FrameOK(NewFrame(comp, template, inputs, args), Events)
<1> DEFINE f == NewFrame(comp, template, inputs, args)
<1>1. f.events \in Seq(Events)
  <2>1. CASE template \in ParsedIn(prog)
    BY <2>1 DEF NewFrame, Vectors
  <2>2. CASE template \notin ParsedIn(prog)
    BY <2>2 DEF NewFrame
  <2> QED BY <2>1, <2>2
<1>2. f = [comp |-> f.comp, pos |-> f.pos, events |-> f.events] /\ f.pos = 1
  BY DEF NewFrame
<1>3. Len(f.events) \in Nat
  BY <1>1
<1> HIDE DEF f
<1>4. FrameOK(f, Events)
  BY <1>1, <1>2, <1>3 DEF FrameOK
<1> QED BY <1>4 DEF f

\* Advancing the top frame past an event keeps it within its events.
LEMMA AdvancedOK ==
    ASSUME NEW Events, IInv, FramesOK(Events), HasEvent
    PROVE  /\ Len(Advanced) = Len(stack)
           /\ \A i \in 1 .. Len(stack) : FrameOK(Advanced[i], Events)
<1>0. PICK F : stack \in Seq(F)
  BY DEF IInv
<1> DEFINE n == Len(stack)
           f == stack[n]
<1>1. n \in 1 .. n
  BY <1>0 DEF IInv, FramesMatchCalls, HasEvent
<1>2. /\ f = [comp |-> f.comp, pos |-> f.pos, events |-> f.events]
      /\ f.events \in Seq(Events) /\ f.pos \in 1 .. Len(f.events) + 1
  BY <1>1 DEF FramesOK, FrameOK
<1>3. f.pos <= Len(f.events)
  BY DEF HasEvent, Top
<1>4. Len(Advanced) = n
  BY <1>0, <1>1, AdvancedFacts
<1>5. Advanced[n] = [comp |-> f.comp, pos |-> f.pos + 1, events |-> f.events]
  <2>1. Advanced[n] = [f EXCEPT !.pos = @ + 1]
    BY <1>0, <1>1 DEF Advanced
  <2> HIDE DEF f
  <2> QED BY <2>1, <1>2
<1>6. FrameOK(Advanced[n], Events)
  <2>1. Len(f.events) \in Nat
    BY <1>2
  <2> HIDE DEF f
  <2>2. f.pos + 1 \in 1 .. Len(f.events) + 1
    BY <1>2, <1>3, <2>1
  <2> QED BY <1>2, <1>5, <2>2 DEF FrameOK
<1>7. \A i \in 1 .. n : i # n => Advanced[i] = stack[i]
  BY <1>0 DEF Advanced
<1> QED BY <1>4, <1>6, <1>7 DEF FramesOK

LEMMA FramesInit == ASSUME NEW Events PROVE Init => FramesOK(Events)
<1> SUFFICES ASSUME Init PROVE FramesOK(Events)
  OBVIOUS
<1>1. Len(stack) = 0
  BY DEF Init
<1> QED BY <1>1 DEF FramesOK

\* Every step keeps the frames: one advances, one is pushed at its first
\* event, or one is dropped.
LEMMA FramesStep ==
    ASSUME NEW Events, Vectors(Events)
    PROVE  IInv /\ FramesOK(Events) /\ [Next]_vars => FramesOK(Events)'
<1> SUFFICES ASSUME IInv, FramesOK(Events), [Next]_vars PROVE FramesOK(Events)'
  OBVIOUS
<1>0. PICK F : stack \in Seq(F)
  BY DEF IInv
<1>1. ASSUME HasEvent, stack' = Advanced PROVE FramesOK(Events)'
  BY <1>1, AdvancedOK DEF FramesOK
<1>2. CASE EnterMain
  <2>1. PICK inputs \in MainInputs(prog) :
            stack' = <<NewFrame(<<>>, MainOf(prog), inputs, MainArgs(prog))>>
    BY <1>2 DEF EnterMain
  <2>2. FrameOK(NewFrame(<<>>, MainOf(prog), inputs, MainArgs(prog)), Events)
    BY NewFrameOK DEF IInv
  <2>3. Len(stack') = 1 /\ FrameOK(stack'[1], Events)
    BY <2>1, <2>2
  <2> QED BY <2>3 DEF FramesOK
<1>3. CASE Replay
  BY <1>1, <1>3 DEF Replay, ReplayStep, ReplayVariable, ReplayWire, ReplayViolation
<1>4. CASE SkipComponent
  BY <1>1, <1>4 DEF SkipComponent
<1>5. CASE EnterComponent
  <2>1. PICK comp, template, inputs, args :
            stack' = Append(Advanced, NewFrame(comp, template, inputs, args))
    BY <1>5 DEF EnterComponent
  <2> DEFINE x == NewFrame(comp, template, inputs, args)
  <2>2. FrameOK(x, Events)
    BY NewFrameOK DEF IInv
  <2>3. HasEvent
    BY <1>5 DEF EnterComponent
  <2>4. Len(Advanced) = Len(stack) /\ \A i \in 1 .. Len(stack) : FrameOK(Advanced[i], Events)
    BY <2>3, AdvancedOK
  <2>5. PICK G : Advanced \in Seq(G)
    <3>1. Len(stack) \in 1 .. Len(stack)
      BY <1>0, <2>3 DEF IInv, FramesMatchCalls, HasEvent
    <3> QED BY <1>0, <3>1, AdvancedFacts
  <2> HIDE DEF x
  <2>6. /\ Len(stack') = Len(stack) + 1
        /\ \A i \in 1 .. Len(stack) : stack'[i] = Advanced[i]
        /\ stack'[Len(stack) + 1] = x
    BY <2>1, <2>4, <2>5, AppendProperties DEF x
  <2>7. Len(stack) \in Nat
    BY <1>0
  <2> QED BY <2>2, <2>4, <2>6, <2>7 DEF FramesOK
<1>6. CASE LeaveFrame
  <2>1. stack # <<>>
    BY <1>0, <1>6 DEF LeaveFrame, IInv, FramesMatchCalls
  <2> DEFINE m == Len(stack) - 1
  <2>2. m \in Nat /\ \A i \in 1 .. m : stack[i] \in F
    BY <1>0, <2>1
  <2>3. stack' = SubSeq(stack, 1, m)
    BY <1>6 DEF LeaveFrame
  <2>4. Len(stack') = m
    BY <1>0, <1>6, <2>1, DropFacts DEF LeaveFrame
  <2>5. \A i \in 1 .. m : stack'[i] = stack[i]
    <3>1. \A i \in 1 .. m : i \in 1 .. Len(stack)
      BY <1>0, <2>2
    <3> QED BY <1>0, <2>2, <2>3, <3>1
  <2>6. \A i \in 1 .. m : i \in 1 .. Len(stack)
    BY <1>0, <2>2
  <2> HIDE DEF m
  <2> QED BY <2>4, <2>5, <2>6 DEF FramesOK
<1>7. CASE UNCHANGED vars
  BY <1>7 DEF vars, FramesOK
<1> QED BY <1>2, <1>3, <1>4, <1>5, <1>6, <1>7 DEF Next

\* The types of the replay: a frame has its place in the events of its
\* component or is at their end, whatever events evaluation yields.
THEOREM TypeCorrect ==
    ASSUME NEW CONSTANT Events, Vectors(Events)
    PROVE  Spec => []TypeOK
<1>1. IInv /\ FramesOK(Events) => TypeOK
  <2> SUFFICES ASSUME IInv, FramesOK(Events) PROVE TypeOK
    OBVIOUS
  <2>1. DOMAIN stack = 1 .. Len(stack)
    BY DEF IInv
  <2> QED BY <2>1 DEF IInv, FramesOK, FrameOK, TypeOK
<1>2. Init => FramesOK(Events)
  BY FramesInit
<1>3. IInv /\ FramesOK(Events) /\ [Next]_vars => FramesOK(Events)'
  BY FramesStep
<1> HIDE DEF FramesOK
<1> QED BY <1>1, <1>2, <1>3, InvInit, InvStep, PTL DEF Spec

---------------------------------------------------------------------------
\* The arguments of a call.  A record is told apart by the path of its
\* instance; the paths of the frames are told apart because a stream enters a
\* component once.  Operators on the stack s and the trace tr, so that a step is
\* a fact about two of each.

PathTo(s, k) == [i \in 1 .. k |-> s[i].comp]
CallsIn(tr) == {i \in DOMAIN tr : tr[i].op = "call"}
PathsIn(tr) == {tr[i].path : i \in CallsIn(tr)}
ShownAs(tr, path, name) ==
    {i \in DOMAIN tr : tr[i].op = "variable" /\ tr[i].path = path /\ tr[i].name = name}
ToldBefore(f, name) ==
    {q \in DOMAIN f.events :
        q < f.pos /\ f.events[q].ev = "variable" /\ f.events[q].name = name}
Staged(p, template, inputs) ==
    IF template \notin ParsedIn(p) THEN <<>>
    ELSE LET names == InputNames(p, template)
         IN  [i \in DOMAIN names |->
                [name |-> names[i],
                 value |-> IF names[i] \in DOMAIN inputs THEN inputs[names[i]] ELSE 0]]

\* The frames are of instances that were called, and so is what is recorded:
\* it is of an instance that was called, inside one that was.
FramesCalled(s, tr) == \A k \in 1 .. Len(s) : PathTo(s, k) \in PathsIn(tr)
Inside(tr) ==
    /\ \A i \in CallsIn(tr) : Len(tr[i].path) > 1 => Parent(tr[i].path) \in PathsIn(tr)
    /\ \A i \in DOMAIN tr : tr[i].op = "variable" => tr[i].path \in PathsIn(tr)

\* A call from a frame comes from an event the frame has replayed, with the
\* arguments wired to it anywhere in the stream.
EnteredFrom(p, f, c) ==
    \E q \in Entries(p, f.events) :
        /\ q < f.pos /\ f.events[q].comp = Last(c.path)
        /\ c.args = Staged(p, f.events[q].template, WiresTo(f.events, Last(c.path)))
CallsFromFrames(p, s, tr) ==
    \A k \in 1 .. Len(s), i \in CallsIn(tr) :
        Len(tr[i].path) > 1 /\ Parent(tr[i].path) = PathTo(s, k) =>
            EnteredFrom(p, s[k], tr[i])

\* The last record of a name in a frame shows the last variable event of it.
SameLast(tr, f, S, Q) ==
    \/ S = {} /\ Q = {}
    \/ \E t \in S, q \in Q :
          /\ \A j \in S : j <= t
          /\ \A j \in Q : j <= q
          /\ tr[t].bool = f.events[q].bool
          /\ tr[t].value = ShownValue(f.events[q].value, f.events[q].bool)
ShownInFrames(Parts, s, tr) ==
    \A k \in 1 .. Len(s) : \A name \in Seq(Parts) :
        SameLast(tr, s[k], ShownAs(tr, PathTo(s, k), s[k].comp \o name),
                 ToldBefore(s[k], name))

\* The calls from frames that have ended have their arguments shown.
ArgShown(tr, S, x) ==
    \/ S = {} /\ x = 0
    \/ \E t \in S : (\A j \in S : j <= t) /\ tr[t].value = ShownValue(x, tr[t].bool)
NameIn(path, sig) == Last(Parent(path)) \o Last(path) \o <<sig>>
ArgsShown(tr, c) ==
    \A n \in DOMAIN c.args :
        ArgShown(tr, ShownAs(tr, Parent(c.path), NameIn(c.path, c.args[n].name)),
                 c.args[n].value)
Settled(s, tr) ==
    \A i \in CallsIn(tr) :
        Len(tr[i].path) > 1 /\ (\A k \in 1 .. Len(s) : Parent(tr[i].path) # PathTo(s, k)) =>
            ArgsShown(tr, tr[i])

WiredOK(Parts, p, s, tr) ==
    /\ \A k \in 1 .. Len(s) : s[k].comp \in Seq(Parts)
    /\ FramesCalled(s, tr)
    /\ Inside(tr)
    /\ CallsFromFrames(p, s, tr)
    /\ ShownInFrames(Parts, s, tr)
    /\ Settled(s, tr)

\* A trace only grows; a frame only moves on, past its event.
Grows(tr, tr2) ==
    \E m, m2 \in Nat :
        /\ DOMAIN tr = 1 .. m /\ DOMAIN tr2 = 1 .. m2 /\ m <= m2
        /\ \A i \in 1 .. m : tr2[i] = tr[i]
Moves(f, f2) == f2.comp = f.comp /\ f2.events = f.events /\ f2.pos = f.pos + 1
MovesTop(s, s2) ==
    /\ Len(s) \in Nat \ {0} /\ Len(s2) = Len(s)
    /\ \A k \in 1 .. Len(s) : k # Len(s) => s2[k] = s[k]
    /\ Moves(s[Len(s)], s2[Len(s)])
    /\ s[Len(s)].pos \in DOMAIN s[Len(s)].events
    /\ \E n \in Nat : DOMAIN s[Len(s)].events = 1 .. n
EventOf(s) == s[Len(s)].events[s[Len(s)].pos]

\* Paths depend on the components only, and frames apart have paths apart.
LEMMA PathKept ==
    ASSUME NEW s, NEW s2, NEW k, \A i \in 1 .. k : s2[i].comp = s[i].comp
    PROVE  PathTo(s2, k) = PathTo(s, k)
BY DEF PathTo
LEMMA PathsApart ==
    ASSUME NEW s, NEW k \in Nat, NEW j \in Nat, k # j
    PROVE  PathTo(s, k) # PathTo(s, j)
<1>1. DOMAIN PathTo(s, k) = 1 .. k /\ DOMAIN PathTo(s, j) = 1 .. j
  BY DEF PathTo
<1>2. 1 .. k # 1 .. j
  OBVIOUS
<1> QED BY <1>1, <1>2

\* A frame that moves on keeps the paths.
LEMMA MovedPaths ==
    ASSUME NEW s, NEW s2, MovesTop(s, s2)
    PROVE  /\ \A k \in 1 .. Len(s) : s2[k].comp = s[k].comp /\ s2[k].events = s[k].events
           /\ \A k \in 1 .. Len(s) : PathTo(s2, k) = PathTo(s, k)
<1>1. \A k \in 1 .. Len(s) : s2[k].comp = s[k].comp /\ s2[k].events = s[k].events
  BY DEF MovesTop, Moves
<1>2. ASSUME NEW k \in 1 .. Len(s) PROVE PathTo(s2, k) = PathTo(s, k)
  <2>1. \A i \in 1 .. k : i \in 1 .. Len(s)
    BY DEF MovesTop
  <2> QED BY <1>1, <2>1, PathKept
<1> QED BY <1>1, <1>2

\* Records other than calls leave the calls as they are.
LEMMA SameCalls ==
    ASSUME NEW tr, NEW tr2, Grows(tr, tr2),
           \A i \in DOMAIN tr2 \ DOMAIN tr : tr2[i].op # "call"
    PROVE  /\ CallsIn(tr2) = CallsIn(tr) /\ PathsIn(tr2) = PathsIn(tr)
           /\ \A i \in CallsIn(tr) : tr2[i] = tr[i]
<1>1. PICK m, m2 \in Nat :
          /\ DOMAIN tr = 1 .. m /\ DOMAIN tr2 = 1 .. m2 /\ m <= m2
          /\ \A i \in 1 .. m : tr2[i] = tr[i]
  BY DEF Grows
<1>2. CallsIn(tr2) = CallsIn(tr)
  BY <1>1 DEF CallsIn
<1>3. \A i \in CallsIn(tr) : tr2[i] = tr[i]
  BY <1>1 DEF CallsIn
<1> QED BY <1>2, <1>3 DEF PathsIn

\* Records other than variables leave what is shown as it is.
LEMMA SameShown ==
    ASSUME NEW tr, NEW tr2, Grows(tr, tr2), NEW path, NEW name,
           \A i \in DOMAIN tr2 \ DOMAIN tr : tr2[i].op = "variable" =>
               tr2[i].path # path \/ tr2[i].name # name
    PROVE  /\ ShownAs(tr2, path, name) = ShownAs(tr, path, name)
           /\ \A i \in ShownAs(tr, path, name) : tr2[i] = tr[i]
<1>1. PICK m, m2 \in Nat :
          /\ DOMAIN tr = 1 .. m /\ DOMAIN tr2 = 1 .. m2 /\ m <= m2
          /\ \A i \in 1 .. m : tr2[i] = tr[i]
  BY DEF Grows
<1> QED BY <1>1 DEF ShownAs

\* Arguments that are shown stay shown while no variable of their caller comes.
LEMMA StayShown ==
    ASSUME NEW tr, NEW tr2, Grows(tr, tr2), NEW c, ArgsShown(tr, c),
           \A i \in DOMAIN tr2 \ DOMAIN tr : tr2[i].op = "variable" =>
               tr2[i].path # Parent(c.path)
    PROVE  ArgsShown(tr2, c)
<1> SUFFICES ASSUME NEW n \in DOMAIN c.args
             PROVE  ArgShown(tr2, ShownAs(tr2, Parent(c.path),
                                          NameIn(c.path, c.args[n].name)), c.args[n].value)
  BY DEF ArgsShown
<1> DEFINE N == NameIn(c.path, c.args[n].name)
           S == ShownAs(tr, Parent(c.path), N)
           x == c.args[n].value
<1>1. ArgShown(tr, S, x)
  BY DEF ArgsShown
<1> HIDE DEF N, x
<1>2. ShownAs(tr2, Parent(c.path), N) = S /\ \A i \in S : tr2[i] = tr[i]
  BY SameShown
<1> HIDE DEF S
<1>3. ArgShown(tr2, S, x)
  BY <1>1, <1>2 DEF ArgShown
<1> QED BY <1>2, <1>3 DEF N, x

\* A frame that moves on has replayed one event more.
LEMMA MovedTold ==
    ASSUME NEW s, NEW s2, MovesTop(s, s2), NEW name
    PROVE  /\ (EventOf(s).ev = "variable" /\ EventOf(s).name = name) =>
                  ToldBefore(s2[Len(s)], name) = ToldBefore(s[Len(s)], name) \cup {s[Len(s)].pos}
           /\ ~(EventOf(s).ev = "variable" /\ EventOf(s).name = name) =>
                  ToldBefore(s2[Len(s)], name) = ToldBefore(s[Len(s)], name)
<1> DEFINE f == s[Len(s)]
           f2 == s2[Len(s)]
<1>1. PICK n \in Nat : DOMAIN f.events = 1 .. n
  BY DEF MovesTop
<1>2. f2.events = f.events /\ f2.pos = f.pos + 1 /\ f.pos \in 1 .. n
  BY <1>1 DEF MovesTop, Moves
<1>3. EventOf(s) = f.events[f.pos]
  BY DEF EventOf
<1> HIDE DEF f, f2
<1>4. \A q \in 1 .. n : q < f2.pos <=> q < f.pos \/ q = f.pos
  BY <1>2
<1>5. ~(f.pos < f.pos)
  BY <1>2
<1>6. /\ ToldBefore(f2, name) = {q \in 1 .. n : (q < f.pos \/ q = f.pos)
                                   /\ f.events[q].ev = "variable" /\ f.events[q].name = name}
      /\ ToldBefore(f, name) = {q \in 1 .. n : q < f.pos
                                   /\ f.events[q].ev = "variable" /\ f.events[q].name = name}
  BY <1>1, <1>2, <1>4 DEF ToldBefore
<1>7. ASSUME EventOf(s).ev = "variable", EventOf(s).name = name
      PROVE  ToldBefore(f2, name) = ToldBefore(f, name) \cup {f.pos}
  BY <1>2, <1>3, <1>6, <1>7
<1>8. ASSUME ~(EventOf(s).ev = "variable" /\ EventOf(s).name = name)
      PROVE  ToldBefore(f2, name) = ToldBefore(f, name)
  BY <1>2, <1>3, <1>6, <1>8
<1> QED BY <1>7, <1>8 DEF f, f2

\* What a frame that moves on keeps while no call is recorded.
LEMMA MovedCalls ==
    ASSUME NEW Parts, NEW p, NEW s, NEW s2, NEW tr, NEW tr2, WiredOK(Parts, p, s, tr),
           MovesTop(s, s2), Grows(tr, tr2),
           \A i \in DOMAIN tr2 \ DOMAIN tr : tr2[i].op # "call"
    PROVE  /\ \A k \in 1 .. Len(s2) : s2[k].comp \in Seq(Parts)
           /\ FramesCalled(s2, tr2)
           /\ \A i \in CallsIn(tr2) : Len(tr2[i].path) > 1 => Parent(tr2[i].path) \in PathsIn(tr2)
           /\ CallsFromFrames(p, s2, tr2)
<1>1. /\ CallsIn(tr2) = CallsIn(tr) /\ PathsIn(tr2) = PathsIn(tr)
      /\ \A i \in CallsIn(tr) : tr2[i] = tr[i]
  BY SameCalls
<1>2. /\ \A k \in 1 .. Len(s) : s2[k].comp = s[k].comp /\ s2[k].events = s[k].events
      /\ \A k \in 1 .. Len(s) : PathTo(s2, k) = PathTo(s, k)
  BY MovedPaths
<1>3. Len(s2) = Len(s)
  BY DEF MovesTop
<1>4. \A k \in 1 .. Len(s2) : s2[k].comp \in Seq(Parts)
  BY <1>2, <1>3 DEF WiredOK
<1>5. FramesCalled(s2, tr2)
  BY <1>1, <1>2, <1>3 DEF WiredOK, FramesCalled
<1>6. \A i \in CallsIn(tr2) : Len(tr2[i].path) > 1 => Parent(tr2[i].path) \in PathsIn(tr2)
  BY <1>1 DEF WiredOK, Inside
<1>7. ASSUME NEW k \in 1 .. Len(s), NEW c, EnteredFrom(p, s[k], c)
      PROVE  EnteredFrom(p, s2[k], c)
  <2>1. CASE k # Len(s)
    BY <1>7, <2>1 DEF MovesTop
  <2>2. CASE k = Len(s)
    <3> DEFINE f == s[Len(s)]
               f2 == s2[Len(s)]
    <3>1. f2.events = f.events /\ f2.pos = f.pos + 1
      BY DEF MovesTop, Moves
    <3>2. f.pos \in Nat /\ \A q \in DOMAIN f.events : q \in Nat
      BY DEF MovesTop
    <3> HIDE DEF f, f2
    <3>3. \A q \in DOMAIN f.events : q < f.pos => q < f2.pos
      BY <3>1, <3>2
    <3>4. \A q \in Entries(p, f.events) : q < f.pos => q < f2.pos
      BY <3>3 DEF Entries
    <3>5. EnteredFrom(p, f, c)
      BY <1>7, <2>2 DEF f
    <3>6. EnteredFrom(p, f2, c)
      BY <3>1, <3>4, <3>5 DEF EnteredFrom
    <3> QED BY <2>2, <3>6 DEF f2
  <2> QED BY <2>1, <2>2
<1>8. CallsFromFrames(p, s2, tr2)
  BY <1>1, <1>2, <1>3, <1>7 DEF WiredOK, CallsFromFrames
<1> QED BY <1>4, <1>5, <1>6, <1>8

\* A frame moves on past an event that is no variable, without a call.
LEMMA MoveQuietly ==
    ASSUME NEW Parts, NEW p, NEW s, NEW s2, NEW tr, NEW tr2, WiredOK(Parts, p, s, tr),
           MovesTop(s, s2), Grows(tr, tr2), EventOf(s).ev # "variable",
           \A i \in DOMAIN tr2 \ DOMAIN tr : tr2[i].op # "call" /\ tr2[i].op # "variable"
    PROVE  WiredOK(Parts, p, s2, tr2)
<1>1. /\ CallsIn(tr2) = CallsIn(tr) /\ PathsIn(tr2) = PathsIn(tr)
      /\ \A i \in CallsIn(tr) : tr2[i] = tr[i]
  BY SameCalls
<1>2. /\ \A k \in 1 .. Len(s) : s2[k].comp = s[k].comp
      /\ \A k \in 1 .. Len(s) : PathTo(s2, k) = PathTo(s, k)
  BY MovedPaths
<1>3. Len(s2) = Len(s)
  BY DEF MovesTop
<1>4. Inside(tr2)
  <2>1. ASSUME NEW i \in DOMAIN tr2, tr2[i].op = "variable" PROVE tr2[i].path \in PathsIn(tr2)
    <3>1. i \in DOMAIN tr /\ tr2[i] = tr[i]
      BY <2>1 DEF Grows
    <3> QED BY <1>1, <2>1, <3>1 DEF WiredOK, Inside
  <2> QED BY <2>1, MovedCalls DEF Inside
<1>5. ShownInFrames(Parts, s2, tr2)
  <2> SUFFICES ASSUME NEW k \in 1 .. Len(s), NEW name \in Seq(Parts)
               PROVE  SameLast(tr2, s2[k], ShownAs(tr2, PathTo(s2, k), s2[k].comp \o name),
                               ToldBefore(s2[k], name))
    BY <1>3 DEF ShownInFrames
  <2> DEFINE N == s[k].comp \o name
             P == PathTo(s, k)
             S == ShownAs(tr, P, N)
             Q == ToldBefore(s[k], name)
  <2>1. SameLast(tr, s[k], S, Q)
    BY DEF WiredOK, ShownInFrames
  <2> HIDE DEF N, P
  <2>2. ShownAs(tr2, P, N) = S /\ \A i \in S : tr2[i] = tr[i]
    BY SameShown
  <2>3. ToldBefore(s2[k], name) = Q
    <3>1. CASE k = Len(s)
      BY <3>1, MovedTold
    <3>2. CASE k # Len(s)
      BY <3>2 DEF MovesTop
    <3> QED BY <3>1, <3>2
  <2>4. s2[k].events = s[k].events
    BY MovedPaths
  <2> HIDE DEF S, Q
  <2>5. SameLast(tr2, s2[k], S, Q)
    BY <2>1, <2>2, <2>4 DEF SameLast
  <2> QED BY <1>2, <2>2, <2>3, <2>5 DEF N, P
<1>6. Settled(s2, tr2)
  <2> SUFFICES ASSUME NEW i \in CallsIn(tr), Len(tr[i].path) > 1,
                      \A k \in 1 .. Len(s) : Parent(tr[i].path) # PathTo(s, k)
               PROVE  ArgsShown(tr2, tr[i])
    BY <1>1, <1>2, <1>3 DEF Settled
  <2>1. ArgsShown(tr, tr[i])
    BY DEF WiredOK, Settled
  <2> QED BY <2>1, StayShown
<1> QED BY <1>4, <1>5, <1>6, MovedCalls DEF WiredOK

\* Names that have a prefix in common are the same when their rests are.
LEMMA SameRest ==
    ASSUME NEW T, NEW a \in Seq(T), NEW b \in Seq(T), NEW c \in Seq(T), a \o b = a \o c
    PROVE  b = c
<1>1. Len(a \o b) = Len(a) + Len(b) /\ Len(a \o c) = Len(a) + Len(c)
  OBVIOUS
<1>2. Len(a) \in Nat /\ Len(b) \in Nat /\ Len(c) \in Nat
  OBVIOUS
<1>3. Len(b) = Len(c)
  BY <1>1, <1>2
<1>4. ASSUME NEW i \in 1 .. Len(b) PROVE b[i] = c[i]
  <2>1. (a \o b)[Len(a) + i] = b[i]
    BY <1>2
  <2>2. (a \o c)[Len(a) + i] = c[i]
    BY <1>2, <1>3
  <2> QED BY <2>1, <2>2
<1>5. b = [i \in 1 .. Len(b) |-> b[i]] /\ c = [i \in 1 .. Len(c) |-> c[i]]
  OBVIOUS
<1> QED BY <1>3, <1>4, <1>5

\* A frame moves on past a variable event, and its record is the last.
LEMMA MoveVariable ==
    ASSUME NEW Parts, NEW p, NEW s, NEW s2, NEW tr, NEW tr2, WiredOK(Parts, p, s, tr),
           MovesTop(s, s2), Grows(tr, tr2), NEW e, e = EventOf(s),
           e.ev = "variable", e.name \in Seq(Parts),
           NEW t \in DOMAIN tr2 \ DOMAIN tr,
           tr2[t].op = "variable", tr2[t].path = PathTo(s, Len(s)),
           tr2[t].name = s[Len(s)].comp \o e.name, tr2[t].bool = e.bool,
           tr2[t].value = ShownValue(e.value, e.bool),
           \A j \in DOMAIN tr2 : j <= t,
           \A i \in DOMAIN tr2 \ DOMAIN tr :
               tr2[i].op # "call" /\ (tr2[i].op = "variable" => i = t)
    PROVE  WiredOK(Parts, p, s2, tr2)
<1>0. Len(s) \in Nat /\ Len(s) \in 1 .. Len(s)
  BY DEF MovesTop
<1>1. /\ CallsIn(tr2) = CallsIn(tr) /\ PathsIn(tr2) = PathsIn(tr)
      /\ \A i \in CallsIn(tr) : tr2[i] = tr[i]
  BY SameCalls
<1>2. /\ \A k \in 1 .. Len(s) : s2[k].comp = s[k].comp
      /\ \A k \in 1 .. Len(s) : PathTo(s2, k) = PathTo(s, k)
  BY MovedPaths
<1>3. Len(s2) = Len(s)
  BY DEF MovesTop
<1>4. Inside(tr2)
  <2>1. ASSUME NEW i \in DOMAIN tr2, tr2[i].op = "variable" PROVE tr2[i].path \in PathsIn(tr2)
    <3>1. CASE i = t
      BY <1>0, <1>1, <3>1 DEF WiredOK, FramesCalled
    <3>2. CASE i # t
      <4>1. i \in DOMAIN tr
        BY <2>1, <3>2
      <4>2. tr2[i] = tr[i]
        BY <4>1 DEF Grows
      <4> QED BY <1>1, <2>1, <4>1, <4>2 DEF WiredOK, Inside
    <3> QED BY <3>1, <3>2
  <2> QED BY <2>1, MovedCalls DEF Inside
\* Nothing else is shown otherwise.
<1>5. ASSUME NEW path, NEW name, path # PathTo(s, Len(s)) \/ name # s[Len(s)].comp \o e.name
      PROVE  /\ ShownAs(tr2, path, name) = ShownAs(tr, path, name)
             /\ \A i \in ShownAs(tr, path, name) : tr2[i] = tr[i]
  <2>1. \A i \in DOMAIN tr2 \ DOMAIN tr : tr2[i].op = "variable" =>
            tr2[i].path # path \/ tr2[i].name # name
    BY <1>5
  <2> QED BY <2>1, SameShown
<1>6. ShownInFrames(Parts, s2, tr2)
  <2> SUFFICES ASSUME NEW k \in 1 .. Len(s), NEW name \in Seq(Parts)
               PROVE  SameLast(tr2, s2[k], ShownAs(tr2, PathTo(s2, k), s2[k].comp \o name),
                               ToldBefore(s2[k], name))
    BY <1>3 DEF ShownInFrames
  <2> DEFINE N == s[k].comp \o name
             P == PathTo(s, k)
             S == ShownAs(tr, P, N)
             Q == ToldBefore(s[k], name)
  <2>1. SameLast(tr, s[k], S, Q)
    BY DEF WiredOK, ShownInFrames
  <2>2. s2[k].events = s[k].events
    BY MovedPaths
  <2>3. CASE k = Len(s) /\ name = e.name
    <3> DEFINE q == s[k].pos
    <3>1. ToldBefore(s2[k], name) = Q \cup {q}
      <4>1. EventOf(s).ev = "variable" /\ EventOf(s).name = name
        BY <2>3
      <4>2. ToldBefore(s2[Len(s)], name)
                = ToldBefore(s[Len(s)], name) \cup {s[Len(s)].pos}
        BY <4>1, MovedTold, ZenonT(60)
      <4> QED BY <2>3, <4>2
    <3>2. ShownAs(tr2, P, N) = S \cup {t}
      <4>1. PICK m, m2 \in Nat :
                /\ DOMAIN tr = 1 .. m /\ DOMAIN tr2 = 1 .. m2 /\ m <= m2
                /\ \A i \in 1 .. m : tr2[i] = tr[i]
        BY DEF Grows
      <4>2. tr2[t].path = P /\ tr2[t].name = N
        BY <2>3
      <4> HIDE DEF P, N
      <4>3. DOMAIN tr \subseteq DOMAIN tr2
        BY <4>1
      <4>4. \A i \in DOMAIN tr2 : tr2[i].op = "variable" => i = t \/ i \in DOMAIN tr
        OBVIOUS
      <4>5. ShownAs(tr2, P, N) = {i \in DOMAIN tr : tr[i].op = "variable" /\ tr[i].path = P
                                                  /\ tr[i].name = N} \cup {t}
        BY <4>1, <4>2, <4>3, <4>4 DEF ShownAs
      <4> QED BY <4>5 DEF ShownAs
    <3>3. \A j \in Q : j <= q
      <4>1. \A j \in DOMAIN s[Len(s)].events : j \in Nat
        BY DEF MovesTop
      <4>2. q \in Nat
        BY <2>3, <4>1 DEF MovesTop
      <4>3. \A j \in Q : j \in Nat /\ j < q
        BY <2>3, <4>1 DEF ToldBefore
      <4> QED BY <4>2, <4>3
    <3>4. \A j \in S \cup {t} : j <= t
      <4>1. S \subseteq DOMAIN tr2
        BY DEF Grows, ShownAs
      <4> QED BY <4>1
    <3>5. e = s2[k].events[q] /\ q \in Nat
      <4>1. q \in DOMAIN s[k].events /\ \E n \in Nat : DOMAIN s[k].events = 1 .. n
        BY <2>3 DEF MovesTop
      <4>2. q \in Nat
        <5> HIDE DEF q
        <5> QED BY <4>1
      <4>3. e = s[k].events[q]
        BY <2>3 DEF EventOf
      <4> HIDE DEF q
      <4> QED BY <2>2, <4>2, <4>3
    <3> HIDE DEF S, Q, N, P, q
    <3>6. \A j \in Q \cup {q} : j <= q
      BY <3>3, <3>5
    <3>7. SameLast(tr2, s2[k], S \cup {t}, Q \cup {q})
      BY <3>4, <3>5, <3>6 DEF SameLast
    <3> QED BY <1>2, <3>1, <3>2, <3>7 DEF N, P
  <2>4. CASE k = Len(s) /\ name # e.name
    <3>1. N # s[Len(s)].comp \o e.name
      <4>1. s[k].comp \in Seq(Parts)
        BY DEF WiredOK
      <4>2. s[k].comp \o name = s[k].comp \o e.name => name = e.name
        BY <4>1, SameRest
      <4> QED BY <2>4, <4>2
    <3>2. ToldBefore(s2[k], name) = Q
      BY <2>4, MovedTold
    <3> HIDE DEF N, P
    <3>3. ShownAs(tr2, P, N) = S /\ \A i \in S : tr2[i] = tr[i]
      BY <1>5, <3>1
    <3> HIDE DEF S, Q
    <3>4. SameLast(tr2, s2[k], S, Q)
      BY <2>1, <2>2, <3>3 DEF SameLast
    <3> QED BY <1>2, <3>2, <3>3, <3>4 DEF N, P
  <2>5. CASE k # Len(s)
    <3>1. P # PathTo(s, Len(s))
      BY <1>0, <2>5, PathsApart
    <3>2. s2[k] = s[k]
      BY <2>5 DEF MovesTop
    <3> HIDE DEF N, P
    <3>3. ShownAs(tr2, P, N) = S /\ \A i \in S : tr2[i] = tr[i]
      BY <1>5, <3>1
    <3> HIDE DEF S
    <3>4. SameLast(tr2, s2[k], S, Q)
      BY <2>1, <3>2, <3>3 DEF SameLast
    <3> QED BY <1>2, <3>2, <3>3, <3>4 DEF N, P
  <2> QED BY <2>3, <2>4, <2>5
<1>7. Settled(s2, tr2)
  <2> SUFFICES ASSUME NEW i \in CallsIn(tr), Len(tr[i].path) > 1,
                      \A k \in 1 .. Len(s) : Parent(tr[i].path) # PathTo(s, k)
               PROVE  ArgsShown(tr2, tr[i])
    BY <1>1, <1>2, <1>3 DEF Settled
  <2>1. ArgsShown(tr, tr[i])
    BY DEF WiredOK, Settled
  <2>2. \A j \in DOMAIN tr2 \ DOMAIN tr : tr2[j].op = "variable" =>
            tr2[j].path # Parent(tr[i].path)
    BY <1>0
  <2> QED BY <2>1, <2>2, StayShown
<1> QED BY <1>4, <1>6, <1>7, MovedCalls DEF WiredOK

\* The path of a call out of a frame.
LEMMA PathOut ==
    ASSUME NEW s, NEW n \in Nat, NEW x
    PROVE  LET path == Append(PathTo(s, n), x)
           IN  Len(path) = n + 1 /\ Parent(path) = PathTo(s, n) /\ Last(path) = x
<1> DEFINE P == PathTo(s, n)
           V == {s[i].comp : i \in 1 .. n} \cup {x}
           path == Append(P, x)
<1>1. P \in [1 .. n -> V]
  BY DEF PathTo
<1> HIDE DEF V, P
<1>2. P \in Seq(V) /\ Len(P) = n
  BY <1>1
<1>3. x \in V
  BY DEF V
<1>4. path \in Seq(V) /\ Len(path) = n + 1 /\ path[n + 1] = x
      /\ \A i \in 1 .. n : path[i] = P[i]
  BY <1>2, <1>3
<1> HIDE DEF path
<1>5. Parent(path) = P
  <2>1. Parent(path) = SubSeq(path, 1, n)
    BY <1>4 DEF Parent
  <2>2. SubSeq(path, 1, n) \in Seq(V) /\ Len(SubSeq(path, 1, n)) = n
        /\ \A i \in 1 .. n : SubSeq(path, 1, n)[i] = path[i]
    <3>1. \A i \in 1 .. n : path[i] \in V
      <4>1. \A i \in 1 .. n : P[i] \in V
        BY <1>1
      <4> QED BY <1>4, <4>1
    <3>2. n \in Int /\ 1 \in Int /\ (1 <= n => n - 1 + 1 = n) /\ (~(1 <= n) => n = 0)
      OBVIOUS
    <3>3. \A i \in 1 .. n : 1 + i - 1 = i
      OBVIOUS
    <3> QED BY <3>1, <3>2, <3>3, SubSeqProperties
  <2> DEFINE u == SubSeq(path, 1, n)
  <2> HIDE DEF u
  <2>3. \A i \in 1 .. n : u[i] = P[i]
    BY <1>4, <2>2 DEF u
  <2>4. u = [i \in 1 .. n |-> u[i]] /\ P = [i \in 1 .. n |-> P[i]]
    BY <1>1, <2>2 DEF u
  <2> QED BY <2>1, <2>3, <2>4 DEF u
<1>6. Last(path) = x
  BY <1>4 DEF Last
<1> QED BY <1>4, <1>5, <1>6 DEF P, path

\* A frame is pushed for a component that was not called before, with its call.
LEMMA PushFrame ==
    ASSUME NEW Parts, NEW p, NEW s, NEW s2, NEW tr, NEW tr2, WiredOK(Parts, p, s, tr),
           Len(s) \in Nat \ {0}, Len(s2) = Len(s) + 1,
           \A k \in 1 .. Len(s) : s2[k] = s[k],
           s2[Len(s) + 1].pos = 1, s2[Len(s) + 1].comp \in Seq(Parts),
           \A q \in DOMAIN s2[Len(s) + 1].events : q \in Nat \ {0},
           Append(PathTo(s, Len(s)), s2[Len(s) + 1].comp) \notin PathsIn(tr),
           Grows(tr, tr2), NEW t \in DOMAIN tr2 \ DOMAIN tr, tr2[t].op = "call",
           tr2[t].path = Append(PathTo(s, Len(s)), s2[Len(s) + 1].comp),
           EnteredFrom(p, s[Len(s)], tr2[t]),
           \A i \in DOMAIN tr2 \ DOMAIN tr :
               tr2[i].op # "variable" /\ (tr2[i].op = "call" => i = t)
    PROVE  WiredOK(Parts, p, s2, tr2)
<1> DEFINE n == Len(s)
           path == Append(PathTo(s, n), s2[n + 1].comp)
<1>0. /\ n \in 1 .. n /\ n + 1 \in Nat /\ n + 1 \notin 1 .. n
      /\ \A k : k \in 1 .. n + 1 <=> k \in 1 .. n \/ k = n + 1
  OBVIOUS
<1>1. /\ CallsIn(tr2) = CallsIn(tr) \cup {t}
      /\ \A i \in CallsIn(tr) : tr2[i] = tr[i]
  <2>1. PICK m, m2 \in Nat :
            /\ DOMAIN tr = 1 .. m /\ DOMAIN tr2 = 1 .. m2 /\ m <= m2
            /\ \A i \in 1 .. m : tr2[i] = tr[i]
    BY DEF Grows
  <2>2. DOMAIN tr \subseteq DOMAIN tr2
    BY <2>1
  <2>3. \A i \in DOMAIN tr2 : tr2[i].op = "call" => i = t \/ i \in DOMAIN tr
    OBVIOUS
  <2> QED BY <2>1, <2>2, <2>3 DEF CallsIn
<1>2. PathsIn(tr2) = PathsIn(tr) \cup {path}
  <2>1. \A i \in CallsIn(tr) : tr2[i].path = tr[i].path
    BY <1>1
  <2>2. {tr2[i].path : i \in CallsIn(tr) \cup {t}} = {tr[i].path : i \in CallsIn(tr)} \cup {path}
    BY <2>1, ZenonT(60)
  <2> QED BY <1>1, <2>2 DEF PathsIn
<1>3. ASSUME NEW k \in 1 .. n PROVE PathTo(s2, k) = PathTo(s, k)
  <2>1. \A i \in 1 .. k : i \in 1 .. n
    OBVIOUS
  <2> QED BY <2>1, PathKept
<1>4. PathTo(s2, n + 1) = path
  <2> DEFINE P == PathTo(s, n)
             V == {s[i].comp : i \in 1 .. n} \cup {s2[n + 1].comp}
  <2>1. P \in [1 .. n -> V] /\ \A i \in 1 .. n : P[i] = s[i].comp
    BY DEF PathTo
  <2>2. s2[n + 1].comp \in V
    OBVIOUS
  <2> HIDE DEF P, V
  <2>3. P \in Seq(V) /\ Len(P) = n
    BY <2>1
  <2>4. path = Append(P, s2[n + 1].comp)
    BY DEF P
  <2>5. path \in Seq(V) /\ Len(path) = n + 1 /\ path[n + 1] = s2[n + 1].comp
        /\ \A i \in 1 .. n : path[i] = P[i]
    BY <2>2, <2>3, <2>4
  <2>6. \A i \in 1 .. n + 1 : path[i] = s2[i].comp
    BY <1>0, <2>1, <2>5
  <2>7. path = [i \in 1 .. n + 1 |-> path[i]]
    BY <2>5
  <2> QED BY <2>6, <2>7 DEF PathTo
<1>5. Len(path) = n + 1 /\ Parent(path) = PathTo(s, n) /\ Last(path) = s2[n + 1].comp
  <2> DEFINE x == s2[n + 1].comp
  <2> HIDE DEF x
  <2>1. LET u == Append(PathTo(s, n), x)
        IN  Len(u) = n + 1 /\ Parent(u) = PathTo(s, n) /\ Last(u) = x
    BY PathOut
  <2>2. path = Append(PathTo(s, n), x)
    BY DEF x
  <2> QED BY <2>1, <2>2 DEF x
<1>6. PathTo(s, n) \in PathsIn(tr)
  BY <1>0 DEF WiredOK, FramesCalled
<1>7. \A k \in 1 .. n : k # n => PathTo(s, k) # PathTo(s, n)
  BY PathsApart
<1>8. \A k \in 1 .. n + 1 : s2[k].comp \in Seq(Parts)
  BY <1>0 DEF WiredOK
<1>9. FramesCalled(s2, tr2)
  BY <1>0, <1>2, <1>3, <1>4 DEF WiredOK, FramesCalled
<1>10. Inside(tr2)
  <2>1. ASSUME NEW i \in CallsIn(tr2), Len(tr2[i].path) > 1
        PROVE  Parent(tr2[i].path) \in PathsIn(tr2)
    <3>1. CASE i \in CallsIn(tr)
      <4>1. Parent(tr[i].path) \in PathsIn(tr)
        BY <1>1, <2>1, <3>1 DEF WiredOK, Inside
      <4> QED BY <1>1, <1>2, <3>1, <4>1
    <3>2. CASE i = t
      BY <1>2, <1>5, <1>6, <3>2
    <3> QED BY <1>1, <3>1, <3>2
  <2>2. ASSUME NEW i \in DOMAIN tr2, tr2[i].op = "variable" PROVE tr2[i].path \in PathsIn(tr2)
    <3>1. i \in DOMAIN tr
      BY <2>2
    <3>2. tr2[i] = tr[i]
      BY <3>1 DEF Grows
    <3> QED BY <1>2, <2>2, <3>1, <3>2 DEF WiredOK, Inside
  <2> QED BY <2>1, <2>2 DEF Inside
<1>11. CallsFromFrames(p, s2, tr2)
  <2> SUFFICES ASSUME NEW k \in 1 .. n + 1, NEW i \in CallsIn(tr2),
                      Len(tr2[i].path) > 1, Parent(tr2[i].path) = PathTo(s2, k)
               PROVE  EnteredFrom(p, s2[k], tr2[i])
    BY DEF CallsFromFrames
  <2>1. CASE k \in 1 .. n /\ i \in CallsIn(tr)
    BY <1>1, <1>3, <2>1 DEF WiredOK, CallsFromFrames
  <2>2. CASE k \in 1 .. n /\ i = t
    <3>1. PathTo(s, k) = PathTo(s, n)
      BY <1>3, <1>5, <2>2
    <3>2. k = n
      BY <1>7, <2>2, <3>1
    <3> QED BY <1>0, <2>2, <3>2
  <2>3. CASE k = n + 1 /\ i \in CallsIn(tr)
    <3>1. Parent(tr[i].path) \in PathsIn(tr)
      BY <1>1, <2>3 DEF WiredOK, Inside
    <3> QED BY <1>1, <1>4, <2>3, <3>1
  <2>4. CASE k = n + 1 /\ i = t
    BY <1>4, <1>5, <1>6, <2>4
  <2> QED BY <1>0, <1>1, <2>1, <2>2, <2>3, <2>4
<1>12. ASSUME NEW P, NEW N
       PROVE  /\ ShownAs(tr2, P, N) = ShownAs(tr, P, N)
              /\ \A i \in ShownAs(tr, P, N) : tr2[i] = tr[i]
  BY SameShown
<1>13. ShownInFrames(Parts, s2, tr2)
  <2> SUFFICES ASSUME NEW k \in 1 .. n + 1, NEW name \in Seq(Parts)
               PROVE  SameLast(tr2, s2[k], ShownAs(tr2, PathTo(s2, k), s2[k].comp \o name),
                               ToldBefore(s2[k], name))
    BY DEF ShownInFrames
  <2>1. CASE k \in 1 .. n
    <3> DEFINE S == ShownAs(tr, PathTo(s, k), s[k].comp \o name)
               Q == ToldBefore(s[k], name)
    <3>1. SameLast(tr, s[k], S, Q)
      BY <2>1 DEF WiredOK, ShownInFrames
    <3>2. ShownAs(tr2, PathTo(s2, k), s2[k].comp \o name) = S
      BY <1>3, <1>12, <2>1
    <3>3. \A i \in S : tr2[i] = tr[i]
      BY <1>12
    <3> HIDE DEF S
    <3>4. SameLast(tr2, s[k], S, Q)
      BY <3>1, <3>3 DEF SameLast
    <3> QED BY <2>1, <3>2, <3>4
  <2>2. CASE k = n + 1
    <3> DEFINE N == s2[n + 1].comp \o name
    <3>1. ToldBefore(s2[n + 1], name) = {}
      <4>1. \A q \in DOMAIN s2[n + 1].events : ~(q < 1)
        OBVIOUS
      <4> QED BY <4>1 DEF ToldBefore
    <3> HIDE DEF N
    <3>2. ShownAs(tr, path, N) = {}
      BY DEF ShownAs, WiredOK, Inside
    <3>3. ShownAs(tr2, path, N) = {}
      BY <1>12, <3>2
    <3>4. SameLast(tr2, s2[n + 1], ShownAs(tr2, path, N), ToldBefore(s2[n + 1], name))
      BY <3>1, <3>3 DEF SameLast
    <3> QED BY <1>4, <2>2, <3>4 DEF N
  <2> QED BY <1>0, <2>1, <2>2
<1>14. Settled(s2, tr2)
  <2> SUFFICES ASSUME NEW i \in CallsIn(tr2), Len(tr2[i].path) > 1,
                      \A k \in 1 .. n + 1 : Parent(tr2[i].path) # PathTo(s2, k)
               PROVE  ArgsShown(tr2, tr2[i])
    BY DEF Settled
  <2>1. CASE i \in CallsIn(tr)
    <3>1. \A k \in 1 .. n : Parent(tr[i].path) # PathTo(s, k)
      BY <1>0, <1>1, <1>3, <2>1
    <3>2. ArgsShown(tr, tr[i])
      BY <1>1, <2>1, <3>1 DEF WiredOK, Settled
    <3> QED BY <1>1, <2>1, <3>2, StayShown
  <2>2. CASE i = t
    BY <1>0, <1>3, <1>5, <2>2
  <2> QED BY <1>1, <2>1, <2>2
<1> QED BY <1>8, <1>9, <1>10, <1>11, <1>13, <1>14 DEF WiredOK

\* The value of the last wire to an input.
LEMMA LastWire ==
    ASSUME NEW es, NEW comp, NEW sig, NEW w \in DOMAIN es, \A j \in DOMAIN es : j \in Nat,
           IsWire(es[w], comp, sig),
           \A j \in DOMAIN es : IsWire(es[j], comp, sig) => j <= w
    PROVE  sig \in DOMAIN WiresTo(es, comp) /\ WiresTo(es, comp)[sig] = es[w].value
<1> DEFINE wires == {i \in DOMAIN es : es[i].ev = "wire" /\ es[i].comp = comp}
           IsLast(i) == es[i].sig = sig /\ \A j \in wires : es[j].sig = sig => j <= i
           c == CHOOSE i \in wires : IsLast(i)
           Sigs == {es[i].sig : i \in wires}
<1>1. w \in wires /\ IsLast(w)
  BY DEF IsWire
<1>2. c \in wires /\ IsLast(c)
  BY <1>1
<1>3. w <= c /\ c <= w /\ c \in Nat /\ w \in Nat
  BY <1>1, <1>2
<1>4. c = w
  BY <1>3
<1>5. sig \in Sigs
  BY <1>1
<1>6. DOMAIN WiresTo(es, comp) = Sigs /\ WiresTo(es, comp)[sig] = es[c].value
  BY <1>5 DEF WiresTo
<1> QED BY <1>4, <1>5, <1>6

\* Without a wire, nothing is staged but 0.
LEMMA NoWire ==
    ASSUME NEW es, NEW comp, NEW sig, \A j \in DOMAIN es : ~IsWire(es[j], comp, sig)
    PROVE  sig \notin DOMAIN WiresTo(es, comp)
BY DEF WiresTo, IsWire

\* Names of three parts.
LEMMA Regrouped ==
    ASSUME NEW T, NEW a \in Seq(T), NEW b \in Seq(T), NEW c \in Seq(T)
    PROVE  a \o b \o c = a \o (b \o c)
<1> DEFINE l == a \o b \o c
           r == a \o (b \o c)
<1>1. Len(a) \in Nat /\ Len(b) \in Nat /\ Len(c) \in Nat
  OBVIOUS
<1>2. a \o b \in Seq(T) /\ b \o c \in Seq(T)
      /\ Len(a \o b) = Len(a) + Len(b) /\ Len(b \o c) = Len(b) + Len(c)
  OBVIOUS
<1>3. l \in Seq(T) /\ r \in Seq(T) /\ Len(l) = Len(a) + Len(b) + Len(c)
      /\ Len(r) = Len(a) + Len(b) + Len(c)
  BY <1>1, <1>2
<1>4. ASSUME NEW i \in 1 .. Len(a) + Len(b) + Len(c) PROVE l[i] = r[i]
  <2>1. CASE i <= Len(a)
    BY <1>1, <1>2, <2>1
  <2>2. CASE Len(a) < i /\ i <= Len(a) + Len(b)
    BY <1>1, <1>2, <2>2
  <2>3. CASE Len(a) + Len(b) < i
    BY <1>1, <1>2, <2>3
  <2> QED BY <1>1, <2>1, <2>2, <2>3
<1> HIDE DEF l, r
<1>5. l = [i \in 1 .. Len(l) |-> l[i]] /\ r = [i \in 1 .. Len(r) |-> r[i]]
  BY <1>3
<1>6. l = r
  BY <1>3, <1>4, <1>5
<1> QED BY <1>6 DEF l, r

\* When a frame has replayed all of its events, the arguments of every call it
\* made are shown: a name in the frame is a component's and an input's.
LEMMA EndedFrame ==
    ASSUME NEW Parts, NEW p, NEW tr, NEW f, NEW c, EnteredFrom(p, f, c),
           WellWired(p, f.events), NEW n \in Nat, DOMAIN f.events = 1 .. n,
           \A q \in 1 .. n : q < f.pos,
           f.comp \in Seq(Parts), Last(Parent(c.path)) = f.comp,
           \A q \in 1 .. n : f.events[q].ev = "enter" => f.events[q].comp \in Seq(Parts),
           \A template : StagedNames(p, template) \subseteq Parts,
           \A name \in Seq(Parts) :
               SameLast(tr, f, ShownAs(tr, Parent(c.path), f.comp \o name), ToldBefore(f, name))
    PROVE  ArgsShown(tr, c)
<1> DEFINE es == f.events
           comp == Last(c.path)
<1>1. PICK i \in Entries(p, es) :
          /\ es[i].comp = comp
          /\ c.args = Staged(p, es[i].template, WiresTo(es, comp))
  BY DEF EnteredFrom
<1> DEFINE template == es[i].template
           names == InputNames(p, template)
           inputs == WiresTo(es, comp)
<1> SUFFICES ASSUME NEW m \in DOMAIN c.args
             PROVE  ArgShown(tr, ShownAs(tr, Parent(c.path),
                                         NameIn(c.path, c.args[m].name)), c.args[m].value)
  BY DEF ArgsShown
<1> DEFINE sig == c.args[m].name
           x == c.args[m].value
           name == comp \o <<sig>>
           S == ShownAs(tr, Parent(c.path), f.comp \o name)
           Q == ToldBefore(f, name)
<1>2. /\ sig \in StagedNames(p, template)
      /\ x = IF sig \in DOMAIN inputs THEN inputs[sig] ELSE 0
  <2>1. template \in ParsedIn(p)
    <3>1. CASE template \notin ParsedIn(p)
      BY <1>1, <3>1 DEF Staged
    <3> QED BY <3>1
  <2>2. c.args = [j \in DOMAIN names |->
                    [name |-> names[j],
                     value |-> IF names[j] \in DOMAIN inputs THEN inputs[names[j]] ELSE 0]]
    BY <1>1, <2>1 DEF Staged
  <2> HIDE DEF names, inputs
  <2>3. m \in DOMAIN names /\ sig = names[m]
        /\ x = IF names[m] \in DOMAIN inputs THEN inputs[names[m]] ELSE 0
    BY <2>2
  <2> QED BY <2>1, <2>3 DEF StagedNames, names
<1> HIDE DEF sig, x
<1>3. comp \in Seq(Parts) /\ <<sig>> \in Seq(Parts)
  <2>1. sig \in Parts
    BY <1>2
  <2>2. i \in 1 .. n /\ es[i].ev = "enter"
    BY DEF Entries
  <2>3. es[i].comp \in Seq(Parts)
    BY <2>2
  <2> QED BY <1>1, <2>1, <2>3
<1>4. name \in Seq(Parts) /\ NameIn(c.path, sig) = f.comp \o name
  <2> HIDE DEF comp
  <2>1. name \in Seq(Parts)
    BY <1>3
  <2>2. NameIn(c.path, sig) = f.comp \o comp \o <<sig>>
    BY DEF NameIn, comp
  <2> DEFINE z == <<sig>>
  <2>3. z \in Seq(Parts)
    BY <1>3
  <2> HIDE DEF z
  <2>4. f.comp \o comp \o z = f.comp \o (comp \o z)
    <3>1. \A u, v, w \in Seq(Parts) : u \o v \o w = u \o (v \o w)
      BY Regrouped, SMTT(30)
    <3>2. f.comp \in Seq(Parts)
      OBVIOUS
    <3> QED BY <1>3, <2>3, <3>1, <3>2, Zenon
  <2> QED BY <2>1, <2>2, <2>4 DEF z
<1>5. SameLast(tr, f, S, Q)
  BY <1>4
<1>6. /\ \A q \in 1 .. n : IsWire(es[q], comp, sig) =>
             /\ q + 1 \in 1 .. n /\ Assigns(es[q + 1], comp, sig)
             /\ es[q + 1].value = es[q].value
      /\ \A q \in 1 .. n : Assigns(es[q], comp, sig) =>
             q - 1 \in 1 .. n /\ IsWire(es[q - 1], comp, sig)
  <2> HIDE DEF template
  <2>1. \A j \in StagedNames(p, es[i].template), q \in DOMAIN es :
            /\ IsWire(es[q], es[i].comp, j) =>
                   /\ q + 1 \in DOMAIN es /\ Assigns(es[q + 1], es[i].comp, j)
                   /\ es[q + 1].value = es[q].value
            /\ Assigns(es[q], es[i].comp, j) =>
                   q - 1 \in DOMAIN es /\ IsWire(es[q - 1], es[i].comp, j)
    BY DEF WellWired
  <2> HIDE DEF comp
  <2> QED BY <1>1, <1>2, <2>1 DEF template
<1>7. \A q \in 1 .. n : q \in Q <=> Assigns(es[q], comp, sig)
  BY DEF ToldBefore, Assigns
<1>8. Q \subseteq 1 .. n
  BY DEF ToldBefore
<1>9. \A j \in DOMAIN es : j \in Nat
  OBVIOUS
<1>10. ArgShown(tr, S, x)
  <2> HIDE DEF Q, S, es, comp, name, inputs
  <2>0. DOMAIN es = 1 .. n
    BY DEF es
  <2>1. CASE S = {} /\ Q = {}
    <3>1. \A j \in DOMAIN es : ~IsWire(es[j], comp, sig)
      BY <1>6, <1>7, <2>0, <2>1
    <3>2. sig \notin DOMAIN inputs
      BY <3>1, NoWire DEF inputs
    <3> QED BY <1>2, <2>1, <3>2 DEF ArgShown
  <2>2. CASE ~(S = {} /\ Q = {})
    <3>1. PICK t \in S, q \in Q :
              /\ \A j \in S : j <= t
              /\ \A j \in Q : j <= q
              /\ tr[t].bool = es[q].bool
              /\ tr[t].value = ShownValue(es[q].value, es[q].bool)
      BY <1>5, <2>2 DEF SameLast, es
    <3> DEFINE w == q - 1
    <3>2. q \in 1 .. n /\ w \in 1 .. n /\ IsWire(es[w], comp, sig)
      BY <1>6, <1>7, <1>8, <3>1
    <3>3. w + 1 = q
      BY <3>2
    <3>4. es[w].value = es[q].value
      BY <1>6, <3>2, <3>3
    <3>5. ASSUME NEW j \in 1 .. n, IsWire(es[j], comp, sig) PROVE j <= w
      <4>1. j + 1 \in Q
        BY <1>6, <1>7, <3>5
      <4> QED BY <3>1, <3>2, <4>1
    <3> HIDE DEF w
    <3>6. sig \in DOMAIN inputs /\ inputs[sig] = es[w].value
      BY <1>9, <2>0, <3>2, <3>5, LastWire DEF inputs, es
    <3>7. x = es[q].value
      BY <1>2, <3>4, <3>6
    <3> QED BY <3>1, <3>7 DEF ArgShown
  <2> QED BY <2>1, <2>2
<1> QED BY <1>4, <1>10 DEF sig, x

\* A frame at the end of its events is popped.
LEMMA PopFrame ==
    ASSUME NEW Parts, NEW p, NEW s, NEW s2, NEW tr, NEW tr2, WiredOK(Parts, p, s, tr),
           NEW n \in Nat, Len(s) = n + 1, Len(s2) = n,
           \A k \in 1 .. n : s2[k] = s[k],
           WellWired(p, s[n + 1].events), NEW m \in Nat, DOMAIN s[n + 1].events = 1 .. m,
           \A q \in 1 .. m : q < s[n + 1].pos,
           \A q \in 1 .. m : s[n + 1].events[q].ev = "enter" =>
               s[n + 1].events[q].comp \in Seq(Parts),
           \A template : StagedNames(p, template) \subseteq Parts,
           Grows(tr, tr2),
           \A i \in DOMAIN tr2 \ DOMAIN tr : tr2[i].op # "call" /\ tr2[i].op # "variable"
    PROVE  WiredOK(Parts, p, s2, tr2)
<1>0. /\ n + 1 \in 1 .. n + 1
      /\ \A k \in 1 .. n : k \in 1 .. n + 1
      /\ \A k \in 1 .. n + 1 : k \in 1 .. n \/ k = n + 1
  OBVIOUS
<1>1. /\ CallsIn(tr2) = CallsIn(tr) /\ PathsIn(tr2) = PathsIn(tr)
      /\ \A i \in CallsIn(tr) : tr2[i] = tr[i]
  BY SameCalls
<1>2. ASSUME NEW k \in 1 .. n PROVE PathTo(s2, k) = PathTo(s, k)
  <2>1. \A i \in 1 .. k : i \in 1 .. n
    OBVIOUS
  <2> QED BY <2>1, PathKept
<1>3. ASSUME NEW P, NEW N
      PROVE  /\ ShownAs(tr2, P, N) = ShownAs(tr, P, N)
             /\ \A i \in ShownAs(tr, P, N) : tr2[i] = tr[i]
  BY SameShown
<1>4. \A k \in 1 .. n : s2[k].comp \in Seq(Parts)
  BY <1>0 DEF WiredOK
<1>5. FramesCalled(s2, tr2)
  BY <1>0, <1>1, <1>2 DEF WiredOK, FramesCalled
<1>6. Inside(tr2)
  <2>1. ASSUME NEW i \in DOMAIN tr2, tr2[i].op = "variable" PROVE tr2[i].path \in PathsIn(tr2)
    <3>1. i \in DOMAIN tr
      BY <2>1
    <3>2. tr2[i] = tr[i]
      BY <3>1 DEF Grows
    <3> QED BY <1>1, <2>1, <3>1, <3>2 DEF WiredOK, Inside
  <2> QED BY <1>1, <2>1 DEF WiredOK, Inside
<1>7. CallsFromFrames(p, s2, tr2)
  BY <1>0, <1>1, <1>2 DEF WiredOK, CallsFromFrames
<1>8. ShownInFrames(Parts, s2, tr2)
  <2> SUFFICES ASSUME NEW k \in 1 .. n, NEW name \in Seq(Parts)
               PROVE  SameLast(tr2, s2[k], ShownAs(tr2, PathTo(s2, k), s2[k].comp \o name),
                               ToldBefore(s2[k], name))
    BY DEF ShownInFrames
  <2> DEFINE S == ShownAs(tr, PathTo(s, k), s[k].comp \o name)
             Q == ToldBefore(s[k], name)
  <2>1. SameLast(tr, s[k], S, Q)
    BY <1>0 DEF WiredOK, ShownInFrames
  <2>2. ShownAs(tr2, PathTo(s2, k), s2[k].comp \o name) = S
    BY <1>2, <1>3
  <2>3. \A i \in S : tr2[i] = tr[i]
    BY <1>3
  <2> HIDE DEF S
  <2>4. SameLast(tr2, s[k], S, Q)
    BY <2>1, <2>3 DEF SameLast
  <2> QED BY <2>2, <2>4
<1>9. Settled(s2, tr2)
  <2> SUFFICES ASSUME NEW i \in CallsIn(tr), Len(tr[i].path) > 1,
                      \A k \in 1 .. n : Parent(tr[i].path) # PathTo(s, k)
               PROVE  ArgsShown(tr, tr[i])
    <3> SUFFICES ASSUME NEW i \in CallsIn(tr), Len(tr[i].path) > 1,
                        \A k \in 1 .. n : Parent(tr[i].path) # PathTo(s2, k)
                 PROVE  ArgsShown(tr2, tr[i])
      BY <1>1 DEF Settled
    <3>1. ArgsShown(tr, tr[i])
      BY <1>2
    <3> QED BY <3>1, StayShown
  <2> DEFINE c == tr[i]
             f == s[n + 1]
  <2>1. CASE Parent(c.path) = PathTo(s, n + 1)
    <3>1. EnteredFrom(p, f, c)
      BY <1>0, <2>1 DEF WiredOK, CallsFromFrames
    <3>2. Last(PathTo(s, n + 1)) = f.comp
      <4>1. PathTo(s, n + 1) \in Seq({s[k].comp : k \in 1 .. n + 1})
            /\ Len(PathTo(s, n + 1)) = n + 1 /\ PathTo(s, n + 1)[n + 1] = f.comp
        BY <1>0 DEF PathTo
      <4> QED BY <4>1 DEF Last
    <3>3. \A name \in Seq(Parts) :
              SameLast(tr, f, ShownAs(tr, Parent(c.path), f.comp \o name), ToldBefore(f, name))
      BY <1>0, <2>1 DEF WiredOK, ShownInFrames
    <3>4. f.comp \in Seq(Parts)
      BY <1>0 DEF WiredOK
    <3> HIDE DEF f, c
    <3>5. Last(Parent(c.path)) = f.comp
      BY <2>1, <3>2
    <3>6. ArgsShown(tr, c)
      BY <3>1, <3>3, <3>4, <3>5, EndedFrame DEF f
    <3> QED BY <3>6 DEF c
  <2>2. CASE Parent(c.path) # PathTo(s, n + 1)
    BY <1>0, <2>2 DEF WiredOK, Settled
  <2> QED BY <2>1, <2>2
<1> QED BY <1>4, <1>5, <1>6, <1>7, <1>8, <1>9 DEF WiredOK

\* A trace grows by a record at a time.
LEMMA OneMore ==
    ASSUME NEW R, NEW tr \in Seq(R), NEW a, NEW tr2, tr2 = Append(tr, a)
    PROVE  /\ \E G : tr2 \in Seq(G)
           /\ Grows(tr, tr2)
           /\ DOMAIN tr2 \ DOMAIN tr = {Len(tr) + 1}
           /\ tr2[Len(tr) + 1] = a
           /\ \A j \in DOMAIN tr2 : j <= Len(tr) + 1
<1> DEFINE G == R \cup {a}
           m == Len(tr)
<1>1. tr \in Seq(G) /\ a \in G
  OBVIOUS
<1> HIDE DEF G
<1>2. tr2 \in Seq(G) /\ Len(tr2) = m + 1 /\ tr2[m + 1] = a /\ \A i \in 1 .. m : tr2[i] = tr[i]
  BY <1>1
<1>3. m \in Nat /\ m + 1 \in Nat /\ DOMAIN tr = 1 .. m /\ DOMAIN tr2 = 1 .. m + 1
  BY <1>2
<1> HIDE DEF m
<1>4. Grows(tr, tr2)
  <2>1. m <= m + 1
    BY <1>3
  <2> QED BY <1>2, <1>3, <2>1 DEF Grows
<1>5. DOMAIN tr2 \ DOMAIN tr = {m + 1} /\ \A j \in DOMAIN tr2 : j <= m + 1
  BY <1>3
<1> QED BY <1>2, <1>4, <1>5 DEF m
LEMMA JoinFacts ==
    ASSUME NEW T, NEW u \in Seq(T), NEW v \in Seq(T)
    PROVE  /\ u \o v \in Seq(T) /\ Len(u \o v) = Len(u) + Len(v)
           /\ \A i \in 1 .. Len(u) : (u \o v)[i] = u[i]
           /\ \A i \in 1 .. Len(v) : (u \o v)[Len(u) + i] = v[i]
<1>1. Len(u) \in Nat /\ Len(v) \in Nat
  OBVIOUS
<1>2. u \o v \in Seq(T) /\ Len(u \o v) = Len(u) + Len(v)
  OBVIOUS
<1>3. \A i \in 1 .. Len(u) : (u \o v)[i] = u[i]
  BY <1>1
<1>4. \A i \in 1 .. Len(v) : (u \o v)[Len(u) + i] = v[i]
  BY <1>1
<1> QED BY <1>2, <1>3, <1>4
LEMMA TwoMore ==
    ASSUME NEW R, NEW tr \in Seq(R), NEW a, NEW b
    PROVE  tr \o <<a, b>> = Append(Append(tr, a), b)
<1> DEFINE G == R \cup {a, b}
           m == Len(tr)
           t == Append(tr, a)
           l == tr \o <<a, b>>
           r == Append(t, b)
<1>1. tr \in Seq(G) /\ a \in G /\ b \in G /\ m \in Nat
  OBVIOUS
<1> HIDE DEF G
<1>2. t \in Seq(G) /\ Len(t) = m + 1 /\ t[m + 1] = a /\ \A i \in 1 .. m : t[i] = tr[i]
  BY <1>1
<1> HIDE DEF t
<1>3. r \in Seq(G) /\ Len(r) = m + 2 /\ r[m + 2] = b /\ \A i \in 1 .. m + 1 : r[i] = t[i]
  BY <1>1, <1>2
<1>4. l \in Seq(G) /\ Len(l) = m + 2 /\ l[m + 1] = a /\ l[m + 2] = b
      /\ \A i \in 1 .. m : l[i] = tr[i]
  <2> DEFINE z == <<a, b>>
  <2>1. z \in Seq(G) /\ Len(z) = 2 /\ z[1] = a /\ z[2] = b
    BY <1>1
  <2> HIDE DEF z
  <2>2. tr \in Seq(G) /\ z \in Seq(G)
    BY <1>1, <2>1
  <2>3. /\ tr \o z \in Seq(G) /\ Len(tr \o z) = Len(tr) + Len(z)
        /\ \A i \in 1 .. Len(tr) : (tr \o z)[i] = tr[i]
        /\ \A i \in 1 .. Len(z) : (tr \o z)[Len(tr) + i] = z[i]
    <3> DEFINE P(u, v) == /\ u \o v \in Seq(G) /\ Len(u \o v) = Len(u) + Len(v)
                          /\ \A i \in 1 .. Len(u) : (u \o v)[i] = u[i]
                          /\ \A i \in 1 .. Len(v) : (u \o v)[Len(u) + i] = v[i]
    <3>1. \A u, v \in Seq(G) : P(u, v)
      BY JoinFacts
    <3> HIDE DEF P
    <3>2. P(tr, z)
      BY <2>2, <3>1
    <3> QED BY <3>2 DEF P
  <2>4. 1 \in 1 .. Len(z) /\ 2 \in 1 .. Len(z)
    BY <2>1
  <2>5. (tr \o z)[m + 1] = z[1] /\ (tr \o z)[m + 2] = z[2]
    BY <2>3, <2>4, Zenon DEF m
  <2>6. Len(tr \o z) = m + 2
    BY <2>1, <2>3, Zenon DEF m
  <2> QED BY <2>1, <2>3, <2>5, <2>6 DEF z
<1> HIDE DEF l, r, m
<1>5. \A i \in 1 .. m + 2 : i \in 1 .. m \/ i = m + 1 \/ i = m + 2
  BY <1>1
<1>6. \A i \in 1 .. m : i \in 1 .. m + 1
  BY <1>1
<1>7. m + 1 \in 1 .. m + 1
  BY <1>1
<1>8. \A i \in 1 .. m + 2 : l[i] = r[i]
  BY <1>2, <1>3, <1>4, <1>5, <1>6, <1>7
<1>9. l = [i \in 1 .. m + 2 |-> l[i]] /\ r = [i \in 1 .. m + 2 |-> r[i]]
  BY <1>3, <1>4
<1>10. l = r
  BY <1>8, <1>9
<1> QED BY <1>10 DEF l, r

\* Names and inputs are made of the same parts.
Named(Parts, Events) ==
    /\ \A e \in Events :
          /\ e.ev = "variable" => e.name \in Seq(Parts)
          /\ e.ev = "enter" => e.comp \in Seq(Parts)
    /\ \A p \in Programs : \A template : StagedNames(p, template) \subseteq Parts

\* Every stream being replayed is one that enters a component once and names
\* what is wired to it.
StreamsAreWired == \A i \in 1 .. Len(stack) : WellWired(prog, stack[i].events)

ArgsInv(Parts) ==
    /\ \E R : trace \in Seq(R)
    /\ phase = "before" => trace = <<>>
    /\ WiredOK(Parts, prog, stack, trace)

\* The top frame moves on.
LEMMA AdvancedMoves ==
    ASSUME NEW Events, IInv, FramesOK(Events), HasEvent
    PROVE  /\ MovesTop(stack, Advanced)
           /\ Event = EventOf(stack) /\ Event \in Events
           /\ Path = PathTo(stack, Len(stack))
<1>0. PICK F : stack \in Seq(F)
  BY DEF IInv
<1> DEFINE n == Len(stack)
           f == stack[n]
<1>1. n \in 1 .. n /\ n \in Nat \ {0}
  BY <1>0 DEF IInv, FramesMatchCalls, HasEvent
<1>2. /\ f = [comp |-> f.comp, pos |-> f.pos, events |-> f.events]
      /\ f.events \in Seq(Events) /\ f.pos \in 1 .. Len(f.events) + 1
  BY <1>1 DEF FramesOK, FrameOK
<1>3. f.pos <= Len(f.events)
  BY DEF HasEvent, Top
<1>4. Len(Advanced) = n
  BY <1>0, <1>1, AdvancedFacts
<1>5. Advanced[n] = [comp |-> f.comp, pos |-> f.pos + 1, events |-> f.events]
  <2>1. Advanced[n] = [f EXCEPT !.pos = @ + 1]
    BY <1>0, <1>1 DEF Advanced
  <2> HIDE DEF f
  <2> QED BY <2>1, <1>2
<1>6. \A i \in 1 .. n : i # n => Advanced[i] = stack[i]
  BY <1>0 DEF Advanced
<1>7. Len(f.events) \in Nat /\ DOMAIN f.events = 1 .. Len(f.events)
  BY <1>2
<1>8. f.pos \in 1 .. Len(f.events)
  <2> HIDE DEF f
  <2> QED BY <1>2, <1>3, <1>7
<1>9. Moves(f, Advanced[n])
  BY <1>5 DEF Moves
<1>10. MovesTop(stack, Advanced)
  BY <1>1, <1>4, <1>6, <1>7, <1>8, <1>9 DEF MovesTop
<1>11. Event = EventOf(stack) /\ Event = f.events[f.pos]
  BY DEF Event, EventOf, Top
<1>12. Event \in Events
  <2> HIDE DEF f
  <2> QED BY <1>2, <1>8, <1>11
<1>13. Path = PathTo(stack, n)
  <2>1. DOMAIN stack = 1 .. n
    BY <1>0
  <2> QED BY <2>1 DEF Path, PathTo
<1> QED BY <1>10, <1>11, <1>12, <1>13

\* Nothing is recorded before the main template is called.
LEMMA ArgsInit == ASSUME NEW Parts PROVE Init => ArgsInv(Parts)
<1> SUFFICES ASSUME Init PROVE ArgsInv(Parts)
  OBVIOUS
<1>1. stack = <<>> /\ trace = <<>> /\ Len(stack) = 0 /\ 1 .. Len(stack) = {}
  BY DEF Init
<1>2. trace \in Seq({}) /\ CallsIn(trace) = {} /\ DOMAIN trace = {}
  BY <1>1 DEF CallsIn
<1>3. WiredOK(Parts, prog, stack, trace)
  BY <1>1, <1>2 DEF WiredOK, FramesCalled, Inside, CallsFromFrames, ShownInFrames, Settled
<1> QED BY <1>1, <1>2, <1>3 DEF ArgsInv

\* The call of the main template.
LEMMA ArgsEnterMain ==
    ASSUME NEW Events, Vectors(Events), NEW Parts, IInv, EnterMain PROVE ArgsInv(Parts)'
<1>1. PICK inputs \in MainInputs(prog) :
          /\ stack' = <<NewFrame(<<>>, MainOf(prog), inputs, MainArgs(prog))>>
          /\ trace' = <<StepRecord,
                CallRecord(<< <<>> >>, MainOf(prog), StagedArgs(MainOf(prog), inputs))>>
  BY DEF EnterMain
<1> DEFINE f == NewFrame(<<>>, MainOf(prog), inputs, MainArgs(prog))
           c == CallRecord(<< <<>> >>, MainOf(prog), StagedArgs(MainOf(prog), inputs))
<1>2. f.comp = <<>> /\ f.pos = 1
  BY DEF NewFrame
<1>3. c.op = "call" /\ c.path = << <<>> >> /\ StepRecord.op = "step"
  BY DEF CallRecord, StepRecord
<1>4. phase' = "inside" /\ prog' = prog
  BY DEF EnterMain
<1> HIDE DEF f, c
<1> DEFINE s == <<f>>
           tr == <<StepRecord, c>>
<1>5. /\ Len(s) = 1 /\ s[1] = f
      /\ DOMAIN tr = 1 .. 2 /\ tr[1] = StepRecord /\ tr[2] = c /\ tr \in Seq({StepRecord, c})
  OBVIOUS
<1> HIDE DEF s, tr
<1>6. CallsIn(tr) = {2}
  BY <1>3, <1>5 DEF CallsIn
<1>7. PathsIn(tr) = {<< <<>> >>}
  BY <1>3, <1>5, <1>6 DEF PathsIn
<1>8. PathTo(s, 1) = << <<>> >>
  <2>1. PathTo(s, 1) = [i \in 1 .. 1 |-> <<>>]
    BY <1>2, <1>5 DEF PathTo
  <2> QED BY <2>1
<1>9. ~(Len(tr[2].path) > 1)
  BY <1>3, <1>5
<1>10. \A i \in DOMAIN tr : tr[i].op # "variable"
  BY <1>3, <1>5
<1>11. \A k : k \in 1 .. Len(s) <=> k = 1
  BY <1>5
<1>12. FramesCalled(s, tr) /\ Inside(tr)
  BY <1>6, <1>7, <1>8, <1>9, <1>10, <1>11 DEF FramesCalled, Inside
<1>13. CallsFromFrames(prog, s, tr) /\ Settled(s, tr)
  BY <1>6, <1>9 DEF CallsFromFrames, Settled
<1>14. ShownInFrames(Parts, s, tr)
  <2>1. \A q \in DOMAIN f.events : ~(q < f.pos)
    <3>1. FrameOK(f, Events)
      BY NewFrameOK DEF f, IInv
    <3>2. DOMAIN f.events = 1 .. Len(f.events) /\ Len(f.events) \in Nat
      BY <3>1 DEF FrameOK
    <3> QED BY <1>2, <3>2
  <2>2. \A name : ToldBefore(f, name) = {}
    BY <2>1 DEF ToldBefore
  <2>3. \A path, name : ShownAs(tr, path, name) = {}
    BY <1>10 DEF ShownAs
  <2> QED BY <1>5, <1>11, <2>2, <2>3 DEF ShownInFrames, SameLast
<1>15. \A k \in 1 .. Len(s) : s[k].comp \in Seq(Parts)
  <2>1. <<>> \in Seq(Parts)
    OBVIOUS
  <2> QED BY <1>2, <1>5, <1>11, <2>1
<1>16. WiredOK(Parts, prog, s, tr)
  BY <1>12, <1>13, <1>14, <1>15 DEF WiredOK
<1> QED BY <1>1, <1>4, <1>5, <1>16 DEF ArgsInv, s, tr, f, c

\* An event that is neither a variable nor an entry adds at most one record, of
\* no instance's names.
LEMMA ArgsQuiet ==
    ASSUME NEW Events, NEW Parts, IInv, FramesOK(Events), ArgsInv(Parts),
           HasEvent, Event.ev # "variable", stack' = Advanced, prog' = prog, phase' = "inside",
           NEW r, r.op # "call", r.op # "variable", trace' = Append(trace, r) \/ trace' = trace
    PROVE  ArgsInv(Parts)'
<1>0. PICK R : trace \in Seq(R)
  BY DEF ArgsInv
<1>1. MovesTop(stack, Advanced) /\ Event = EventOf(stack)
  BY AdvancedMoves
<1>2. CASE trace' = Append(trace, r)
  <2> DEFINE tr2 == Append(trace, r)
  <2>1. /\ \E G : tr2 \in Seq(G)
        /\ Grows(trace, tr2)
        /\ DOMAIN tr2 \ DOMAIN trace = {Len(trace) + 1}
        /\ tr2[Len(trace) + 1] = r
    BY <1>0, OneMore
  <2> HIDE DEF tr2
  <2>2. \A i \in DOMAIN tr2 \ DOMAIN trace : tr2[i].op # "call" /\ tr2[i].op # "variable"
    BY <2>1
  <2>3. WiredOK(Parts, prog, Advanced, tr2)
    BY <1>1, <2>1, <2>2, MoveQuietly DEF ArgsInv
  <2>4. trace' = tr2
    BY <1>2 DEF tr2
  <2> QED BY <2>1, <2>3, <2>4 DEF ArgsInv
<1>3. CASE trace' = trace
  <2>1. Grows(trace, trace)
    <3>1. Len(trace) \in Nat /\ DOMAIN trace = 1 .. Len(trace) /\ Len(trace) <= Len(trace)
      BY <1>0
    <3> QED BY <3>1 DEF Grows
  <2>2. \A i \in DOMAIN trace \ DOMAIN trace : trace[i].op # "call" /\ trace[i].op # "variable"
    OBVIOUS
  <2>3. WiredOK(Parts, prog, Advanced, trace)
    BY <1>1, <2>1, <2>2, MoveQuietly DEF ArgsInv
  <2> QED BY <1>0, <1>3, <2>3 DEF ArgsInv
<1> QED BY <1>2, <1>3

\* A variable event is recorded under the name of its frame.
LEMMA ArgsVariable ==
    ASSUME NEW Events, NEW Parts, Named(Parts, Events), IInv, FramesOK(Events), ArgsInv(Parts),
           ReplayVariable
    PROVE  ArgsInv(Parts)'
<1>0. PICK R : trace \in Seq(R)
  BY DEF ArgsInv
<1>1. HasEvent /\ stack' = Advanced /\ prog' = prog /\ phase' = phase /\ phase = "inside"
      /\ Event.ev = "variable"
  BY DEF ReplayVariable, HasEvent
<1>2. /\ MovesTop(stack, Advanced)
      /\ Event = EventOf(stack) /\ Event \in Events
      /\ Path = PathTo(stack, Len(stack))
  BY <1>1, AdvancedMoves
<1> DEFINE r == VariableRecord(Top.comp \o Event.name, Event.value, Event.bool)
           tr1 == Append(trace, StepRecord)
           tr2 == Append(tr1, r)
           t == Len(trace) + 2
<1>3. trace' = tr2
  <2>1. trace' = trace \o <<StepRecord, r>>
    BY DEF ReplayVariable
  <2> HIDE DEF r
  <2>2. trace \o <<StepRecord, r>> = tr2
    <3> DEFINE P(x, y) == trace \o <<x, y>> = Append(Append(trace, x), y)
    <3>1. \A x, y : P(x, y)
      BY <1>0, TwoMore
    <3> HIDE DEF P
    <3>2. P(StepRecord, r)
      BY <3>1
    <3> QED BY <3>2, Zenon DEF P, tr2, tr1
  <2> QED BY <2>1, <2>2
<1>4. /\ r.op = "variable" /\ r.path = Path /\ r.name = Top.comp \o Event.name
      /\ r.bool = Event.bool /\ r.value = ShownValue(Event.value, Event.bool)
  BY DEF VariableRecord
<1>5. Event.name \in Seq(Parts)
  BY <1>1, <1>2 DEF Named
<1>6. StepRecord.op = "step"
  BY DEF StepRecord
<1> HIDE DEF r
<1>7. /\ \E G : tr1 \in Seq(G)
      /\ DOMAIN tr1 \ DOMAIN trace = {Len(trace) + 1}
      /\ tr1[Len(trace) + 1] = StepRecord /\ Grows(trace, tr1)
  <2> HIDE DEF tr1
  <2>1. tr1 = Append(trace, StepRecord)
    BY DEF tr1
  <2> QED BY <1>0, <2>1, OneMore
<1>8. Len(tr1) = Len(trace) + 1 /\ Len(trace) \in Nat
  BY <1>0
<1> HIDE DEF tr1
<1>9. /\ \E G : tr2 \in Seq(G)
      /\ Grows(tr1, tr2) /\ DOMAIN tr2 \ DOMAIN tr1 = {Len(tr1) + 1}
      /\ tr2[Len(tr1) + 1] = r /\ \A j \in DOMAIN tr2 : j <= Len(tr1) + 1
  <2>1. PICK G : tr1 \in Seq(G)
    BY <1>7
  <2> HIDE DEF tr2
  <2>2. tr2 = Append(tr1, r)
    BY DEF tr2
  <2> QED BY <2>1, <2>2, OneMore
<1> HIDE DEF tr2
<1>10. Len(tr1) + 1 = t
  BY <1>8
<1>11. PICK m1, m2, m3, m4 \in Nat :
          /\ DOMAIN trace = 1 .. m1 /\ DOMAIN tr1 = 1 .. m2 /\ m1 <= m2
          /\ \A i \in 1 .. m1 : tr1[i] = trace[i]
          /\ DOMAIN tr1 = 1 .. m3 /\ DOMAIN tr2 = 1 .. m4 /\ m3 <= m4
          /\ \A i \in 1 .. m3 : tr2[i] = tr1[i]
  BY <1>7, <1>9 DEF Grows
<1>12. Grows(trace, tr2)
  <2>1. m2 = m3 /\ m1 <= m4
    BY <1>11
  <2>2. \A i \in 1 .. m1 : i \in 1 .. m3
    BY <1>11, <2>1
  <2>3. \A i \in 1 .. m1 : tr2[i] = trace[i]
    BY <1>11, <2>2
  <2> QED BY <1>11, <2>1, <2>3 DEF Grows
<1>13. t \in DOMAIN tr2 \ DOMAIN trace
  BY <1>9, <1>10, <1>11
<1>14. \A i \in DOMAIN tr2 \ DOMAIN trace :
           tr2[i].op # "call" /\ (tr2[i].op = "variable" => i = t)
  <2> SUFFICES ASSUME NEW i \in DOMAIN tr2 \ DOMAIN trace
               PROVE  tr2[i].op # "call" /\ (tr2[i].op = "variable" => i = t)
    OBVIOUS
  <2>1. CASE i \in DOMAIN tr1
    <3>1. tr2[i] = tr1[i] /\ tr1[i] = StepRecord
      BY <1>7, <1>11, <2>1
    <3> QED BY <1>6, <3>1
  <2>2. CASE i \notin DOMAIN tr1
    BY <1>4, <1>9, <1>10, <2>2
  <2> QED BY <2>1, <2>2
<1>15. /\ tr2[t].op = "variable" /\ tr2[t].path = PathTo(stack, Len(stack))
       /\ tr2[t].name = stack[Len(stack)].comp \o Event.name /\ tr2[t].bool = Event.bool
       /\ tr2[t].value = ShownValue(Event.value, Event.bool)
       /\ \A j \in DOMAIN tr2 : j <= t
  BY <1>2, <1>4, <1>9, <1>10 DEF Top
<1> HIDE DEF t
<1>16. WiredOK(Parts, prog, Advanced, tr2)
  BY <1>1, <1>2, <1>5, <1>12, <1>13, <1>14, <1>15, MoveVariable DEF ArgsInv
<1> QED BY <1>1, <1>3, <1>9, <1>16 DEF ArgsInv

\* A component is entered for the first time, and its arguments are those of
\* the whole stream.
LEMMA FirstEntry ==
    ASSUME NEW Events, NEW Parts, IInv, FramesOK(Events), ArgsInv(Parts), StreamsAreWired,
           HasEvent, Event.ev = "enter", Event.template \in Called(prog)
    PROVE  /\ Top.pos \in Entries(prog, Top.events)
           /\ Append(Path, Event.comp) \notin PathsIn(trace)
           /\ TakeInputs(Top.events, Top.pos) = WiresTo(Top.events, Event.comp)
<1> DEFINE n == Len(stack)
           es == Top.events
           pos == Top.pos
<1>1. /\ MovesTop(stack, Advanced)
      /\ Path = PathTo(stack, n)
  BY AdvancedMoves
<1>2. Top = stack[n] /\ Event = es[pos]
  BY DEF Top, Event
<1>3. PICK m \in Nat : DOMAIN es = 1 .. m /\ pos \in 1 .. m
  BY <1>1, <1>2 DEF MovesTop
<1>4. n \in Nat \ {0} /\ n \in 1 .. n
  BY <1>1 DEF MovesTop
<1>5. pos \in Entries(prog, es)
  BY <1>2, <1>3 DEF Entries
<1>6. WellWired(prog, es)
  BY <1>2, <1>4 DEF StreamsAreWired
<1>7. \A j \in Entries(prog, es) : es[j].comp = Event.comp => j = pos
  BY <1>2, <1>5, <1>6 DEF WellWired
<1>8. Append(Path, Event.comp) \notin PathsIn(trace)
  <2> SUFFICES ASSUME NEW i \in CallsIn(trace), trace[i].path = Append(Path, Event.comp)
               PROVE  FALSE
    BY DEF PathsIn
  <2> DEFINE x == Event.comp
  <2> HIDE DEF x
  <2>1. LET u == Append(PathTo(stack, n), x)
        IN  Len(u) = n + 1 /\ Parent(u) = PathTo(stack, n) /\ Last(u) = x
    BY <1>4, PathOut
  <2>2. trace[i].path = Append(PathTo(stack, n), x)
    BY <1>1 DEF x
  <2>3. Len(trace[i].path) > 1 /\ Parent(trace[i].path) = PathTo(stack, n)
        /\ Last(trace[i].path) = x
    BY <1>4, <2>1, <2>2
  <2>4. EnteredFrom(prog, stack[n], trace[i])
    BY <1>4, <2>3 DEF ArgsInv, WiredOK, CallsFromFrames
  <2>5. PICK q \in Entries(prog, es) : q < pos /\ es[q].comp = x
    BY <1>2, <2>3, <2>4 DEF EnteredFrom
  <2>6. q = pos
    BY <1>7, <2>5 DEF x
  <2> QED BY <1>3, <2>5, <2>6
<1>9. TakeInputs(es, pos) = WiresTo(es, Event.comp)
  <2>1. ~\E i \in 1 .. pos - 1 : es[i].ev = "enter" /\ es[i].comp = es[pos].comp
                                 /\ es[i].template \in Called(prog)
    <3> SUFFICES ASSUME NEW i \in 1 .. pos - 1, es[i].ev = "enter", es[i].comp = es[pos].comp,
                        es[i].template \in Called(prog)
                 PROVE  FALSE
      OBVIOUS
    <3>1. i \in 1 .. m /\ i # pos
      BY <1>3
    <3>2. i \in Entries(prog, es)
      BY <1>3, <3>1 DEF Entries
    <3> QED BY <1>2, <1>7, <3>1, <3>2
  <2> QED BY <1>2, <2>1, Zenon DEF TakeInputs
<1> QED BY <1>5, <1>8, <1>9

\* An entry is a call with its arguments, and a frame.
LEMMA ArgsEnterComponent ==
    ASSUME NEW Events, Vectors(Events), NEW Parts, Named(Parts, Events),
           IInv, FramesOK(Events), ArgsInv(Parts), StreamsAreWired, EnterComponent
    PROVE  ArgsInv(Parts)'
<1>0. PICK R : trace \in Seq(R)
  BY DEF ArgsInv
<1> DEFINE depth == Len(stack)
           es == Top.events
           pos == Top.pos
           comp == Event.comp
           inputs == TakeInputs(es, pos)
           f == NewFrame(comp, Event.template, inputs, Event.args)
           c == CallRecord(Append(Path, comp), Event.template,
                           StagedArgs(Event.template, inputs))
           tr1 == Append(trace, StepRecord)
           records == Append(tr1, c)
           frames == Append(Advanced, f)
<1>1. /\ HasEvent /\ Event.ev = "enter" /\ Event.template \in Called(prog)
      /\ prog' = prog /\ phase' = phase /\ phase = "inside"
      /\ stack' = frames /\ trace' = trace \o <<StepRecord, c>>
  BY DEF EnterComponent, HasEvent
<1>2. /\ MovesTop(stack, Advanced)
      /\ Event = EventOf(stack) /\ Event \in Events /\ Path = PathTo(stack, depth)
  BY <1>1, AdvancedMoves
<1>3. /\ pos \in Entries(prog, es)
      /\ Append(Path, comp) \notin PathsIn(trace)
      /\ inputs = WiresTo(es, comp)
  BY <1>1, FirstEntry
<1>4. c.op = "call" /\ c.path = Append(Path, comp)
      /\ c.args = Staged(prog, Event.template, WiresTo(es, comp))
  <2>1. c.op = "call" /\ c.path = Append(Path, comp)
        /\ c.args = StagedArgs(Event.template, inputs)
    BY DEF CallRecord
  <2>2. StagedArgs(Event.template, inputs) = Staged(prog, Event.template, inputs)
    BY DEF StagedArgs, Staged
  <2> HIDE DEF inputs
  <2> QED BY <1>3, <2>1, <2>2
<1>5. f.comp = comp /\ f.pos = 1 /\ FrameOK(f, Events)
  <2>1. f.comp = comp /\ f.pos = 1
    BY DEF NewFrame
  <2>2. FrameOK(f, Events)
    BY NewFrameOK DEF IInv
  <2> QED BY <2>1, <2>2
<1>6. comp \in Seq(Parts)
  BY <1>1, <1>2 DEF Named
<1>7. Top = stack[depth] /\ es[pos] = Event
  BY DEF Top, Event
<1> HIDE DEF f, c, inputs, comp
<1>8. /\ Len(Advanced) = depth /\ depth \in Nat \ {0} /\ depth \in 1 .. depth
      /\ Len(frames) = depth + 1 /\ frames[depth + 1] = f /\ \A k \in 1 .. depth : frames[k] = Advanced[k]
  <2>0. PICK F : stack \in Seq(F)
    BY DEF IInv
  <2>1. depth \in Nat \ {0} /\ depth \in 1 .. depth
    BY <1>2 DEF MovesTop
  <2>2. PICK G : Advanced \in Seq(G)
    BY <2>0, <2>1, AdvancedFacts
  <2>3. Len(Advanced) = depth
    BY <1>2 DEF MovesTop
  <2> QED BY <2>1, <2>2, <2>3, AppendProperties
<1>9. /\ \E G : tr1 \in Seq(G)
      /\ DOMAIN tr1 \ DOMAIN trace = {Len(trace) + 1}
      /\ tr1[Len(trace) + 1] = StepRecord /\ Grows(trace, tr1)
  <2> HIDE DEF tr1
  <2>1. tr1 = Append(trace, StepRecord)
    BY DEF tr1
  <2> QED BY <1>0, <2>1, OneMore
<1>10. trace' = records
  <2> DEFINE P(x, y) == trace \o <<x, y>> = Append(Append(trace, x), y)
  <2>1. \A x, y : P(x, y)
    BY <1>0, TwoMore
  <2> HIDE DEF P
  <2>2. P(StepRecord, c)
    BY <2>1
  <2>3. trace \o <<StepRecord, c>> = records
    BY <2>2, Zenon DEF P, records, tr1
  <2> QED BY <1>1, <2>3
<1> HIDE DEF tr1
<1>11. /\ \E G : records \in Seq(G)
       /\ Grows(tr1, records) /\ DOMAIN records \ DOMAIN tr1 = {Len(tr1) + 1}
       /\ records[Len(tr1) + 1] = c
  <2>1. PICK G : tr1 \in Seq(G)
    BY <1>9
  <2> HIDE DEF records
  <2>2. records = Append(tr1, c)
    BY DEF records
  <2> QED BY <2>1, <2>2, OneMore
<1> HIDE DEF records, frames
<1>12. \A i \in DOMAIN tr1 \ DOMAIN trace : tr1[i].op # "call" /\ tr1[i].op # "variable"
  BY <1>9 DEF StepRecord
<1>13. WiredOK(Parts, prog, Advanced, tr1)
  <2>1. EventOf(stack).ev # "variable"
    BY <1>1, <1>2
  <2> QED BY <1>2, <1>9, <1>12, <2>1, MoveQuietly DEF ArgsInv
<1>14. PathTo(Advanced, depth) = PathTo(stack, depth)
  BY <1>2, <1>8, MovedPaths
<1>15. Append(PathTo(Advanced, depth), f.comp) \notin PathsIn(tr1)
  <2>1. PathsIn(tr1) = PathsIn(trace)
    <3>1. \A i \in DOMAIN tr1 \ DOMAIN trace : tr1[i].op # "call"
      BY <1>12
    <3> QED BY <1>9, <3>1, SameCalls
  <2> QED BY <1>2, <1>3, <1>5, <1>14, <2>1
<1>16. Last(c.path) = comp
  <2>1. LET u == Append(PathTo(stack, depth), comp)
        IN  Len(u) = depth + 1 /\ Parent(u) = PathTo(stack, depth) /\ Last(u) = comp
    BY <1>8, PathOut
  <2> QED BY <1>2, <1>4, <2>1
<1>17. EnteredFrom(prog, Advanced[depth], c)
  <2>1. Advanced[depth].events = es /\ Advanced[depth].pos = pos + 1
    BY <1>2, <1>7 DEF MovesTop, Moves
  <2>2. pos \in Nat
    BY <1>2, <1>7 DEF MovesTop
  <2>3. pos < pos + 1
    BY <2>2
  <2>4. es[pos].comp = comp
    BY <1>7 DEF comp
  <2> HIDE DEF es, pos
  <2>5. c.args = Staged(prog, es[pos].template, WiresTo(es, Last(c.path)))
    BY <1>4, <1>7, <1>16
  <2> QED BY <1>3, <1>16, <2>1, <2>3, <2>4, <2>5 DEF EnteredFrom
<1>18. \A q \in DOMAIN f.events : q \in Nat \ {0}
  BY <1>5 DEF FrameOK
<1> DEFINE last == Len(tr1) + 1
<1>19. /\ last \in DOMAIN records \ DOMAIN tr1 /\ records[last] = c
       /\ \A i \in DOMAIN records \ DOMAIN tr1 :
              records[i].op # "variable" /\ (records[i].op = "call" => i = last)
  BY <1>4, <1>11
<1> HIDE DEF last, depth
<1>20. WiredOK(Parts, prog, frames, records)
  <2> DEFINE out == Append(PathTo(Advanced, Len(Advanced)), frames[Len(Advanced) + 1].comp)
  <2>1. Len(Advanced) = depth /\ frames[depth + 1] = f
    BY <1>8
  <2>2. out = Append(PathTo(Advanced, depth), f.comp)
    BY <2>1
  <2>3. out \notin PathsIn(tr1)
    BY <1>15, <2>2
  <2>4. c.path = out
    BY <1>2, <1>4, <1>5, <1>14, <2>2 DEF depth
  <2>5. frames[Len(Advanced) + 1].pos = 1 /\ frames[Len(Advanced) + 1].comp \in Seq(Parts)
        /\ \A q \in DOMAIN frames[Len(Advanced) + 1].events : q \in Nat \ {0}
    BY <1>5, <1>6, <1>18, <2>1
  <2>6. EnteredFrom(prog, Advanced[Len(Advanced)], records[last])
    BY <1>17, <1>19, <2>1
  <2>7. records[last].op = "call" /\ records[last].path = out
    BY <1>4, <1>19, <2>4
  <2>8. last \in DOMAIN records \ DOMAIN tr1
        /\ \A i \in DOMAIN records \ DOMAIN tr1 :
               records[i].op # "variable" /\ (records[i].op = "call" => i = last)
    BY <1>19
  <2>9. /\ Len(Advanced) \in Nat \ {0} /\ Len(frames) = Len(Advanced) + 1
        /\ \A k \in 1 .. Len(Advanced) : frames[k] = Advanced[k]
    BY <1>8
  <2>10. Grows(tr1, records)
    BY <1>11
  <2> QED BY <1>13, <2>3, <2>5, <2>6, <2>7, <2>8, <2>9, <2>10, PushFrame
<1> QED BY <1>1, <1>10, <1>11, <1>20 DEF ArgsInv

\* A frame that returns has replayed its stream to the end.
LEMMA ArgsLeaveFrame ==
    ASSUME NEW Events, NEW Parts, Named(Parts, Events), IInv, FramesOK(Events),
           ArgsInv(Parts), StreamsAreWired, LeaveFrame
    PROVE  ArgsInv(Parts)'
<1>0. PICK R : trace \in Seq(R)
  BY DEF ArgsInv
<1>1. PICK F : stack \in Seq(F)
  BY DEF IInv
<1> DEFINE n == Len(stack) - 1
           f == stack[Len(stack)]
           tr2 == Append(trace, ReturnRecord)
           s2 == SubSeq(stack, 1, n)
<1>2. stack # <<>>
  BY <1>1 DEF LeaveFrame, IInv, FramesMatchCalls
<1>3. /\ stack' = s2 /\ trace' = tr2 /\ prog' = prog
      /\ phase' # "before" /\ f.pos > Len(f.events)
  BY DEF LeaveFrame, Top
<1>4. n \in Nat /\ Len(stack) = n + 1 /\ Len(stack) \in 1 .. Len(stack)
  BY <1>1, <1>2
<1>5. Len(s2) = n /\ \A k \in 1 .. n : s2[k] = stack[k]
  <2>1. Len(s2) = n
    BY <1>1, <1>2, DropFacts
  <2>2. \A k \in 1 .. n : k \in 1 .. Len(stack)
    BY <1>1, <1>4
  <2>3. \A k \in 1 .. n : stack[k] \in F
    BY <1>1, <2>2
  <2>4. \A k \in 1 .. n : s2[k] = stack[k]
    BY <1>1, <1>4, <2>2, <2>3
  <2> QED BY <2>1, <2>4
<1> HIDE DEF s2
<1>6. FrameOK(f, Events)
  BY <1>4 DEF FramesOK
<1> DEFINE m == Len(f.events)
<1>7. /\ m \in Nat /\ DOMAIN f.events = 1 .. m /\ \A q \in 1 .. m : q < f.pos
      /\ \A q \in 1 .. m : f.events[q] \in Events
  <2>1. f.events \in Seq(Events) /\ f.pos \in 1 .. m + 1
    BY <1>6 DEF FrameOK
  <2> HIDE DEF f
  <2> QED BY <1>3, <2>1
<1>8. \A q \in 1 .. m : f.events[q].ev = "enter" => f.events[q].comp \in Seq(Parts)
  BY <1>7 DEF Named
<1>9. WellWired(prog, f.events)
  BY <1>4 DEF StreamsAreWired
<1>10. \A template : StagedNames(prog, template) \subseteq Parts
  BY DEF Named, IInv
<1>11. /\ \E G : tr2 \in Seq(G)
       /\ Grows(trace, tr2) /\ DOMAIN tr2 \ DOMAIN trace = {Len(trace) + 1}
       /\ tr2[Len(trace) + 1] = ReturnRecord
  BY <1>0, OneMore
<1> HIDE DEF tr2
<1>12. \A i \in DOMAIN tr2 \ DOMAIN trace : tr2[i].op # "call" /\ tr2[i].op # "variable"
  BY <1>11 DEF ReturnRecord
<1>13. WiredOK(Parts, prog, stack, trace)
  BY DEF ArgsInv
<1>14. f = stack[n + 1]
  BY <1>4
<1> HIDE DEF n, f, m
<1>15. WiredOK(Parts, prog, s2, tr2)
  BY <1>4, <1>5, <1>7, <1>8, <1>9, <1>10, <1>11, <1>12, <1>13, <1>14, PopFrame
<1> QED BY <1>3, <1>11, <1>15 DEF ArgsInv

\* Every step keeps what is recorded in line with what has been replayed.
LEMMA ArgsStep ==
    ASSUME NEW Events, Vectors(Events), NEW Parts, Named(Parts, Events)
    PROVE  IInv /\ FramesOK(Events) /\ StreamsAreWired /\ ArgsInv(Parts) /\ [Next]_vars
           => ArgsInv(Parts)'
<1> SUFFICES ASSUME IInv, FramesOK(Events), StreamsAreWired, ArgsInv(Parts), [Next]_vars
             PROVE  ArgsInv(Parts)'
  OBVIOUS
<1>1. CASE EnterMain
  BY <1>1, ArgsEnterMain
<1>2. CASE ReplayStep
  <2>1. HasEvent /\ Event.ev # "variable" /\ stack' = Advanced /\ prog' = prog
        /\ phase' = "inside" /\ trace' = Append(trace, StepRecord)
    BY <1>2 DEF ReplayStep, HasEvent
  <2>2. StepRecord.op # "call" /\ StepRecord.op # "variable"
    BY DEF StepRecord
  <2> QED BY <2>1, <2>2, ArgsQuiet
<1>3. CASE ReplayVariable
  BY <1>3, ArgsVariable
<1>4. CASE ReplayWire
  <2>1. HasEvent /\ Event.ev # "variable" /\ stack' = Advanced /\ prog' = prog
        /\ phase' = "inside" /\ trace' = trace
    BY <1>4 DEF ReplayWire, HasEvent
  <2>2. StepRecord.op # "call" /\ StepRecord.op # "variable"
    BY DEF StepRecord
  <2> QED BY <2>1, <2>2, ArgsQuiet
<1>5. CASE ReplayViolation
  <2> DEFINE r == ViolationRecord(Event.lhs, Event.rhs)
  <2>1. HasEvent /\ Event.ev # "variable" /\ stack' = Advanced /\ prog' = prog
        /\ phase' = "inside" /\ trace' = Append(trace, r)
    BY <1>5 DEF ReplayViolation, HasEvent
  <2>2. r.op # "call" /\ r.op # "variable"
    BY DEF ViolationRecord
  <2> HIDE DEF r
  <2> QED BY <2>1, <2>2, ArgsQuiet
<1>6. CASE SkipComponent
  <2>1. HasEvent /\ Event.ev # "variable" /\ stack' = Advanced /\ prog' = prog
        /\ phase' = "inside" /\ trace' = Append(trace, StepRecord)
    BY <1>6 DEF SkipComponent, HasEvent
  <2>2. StepRecord.op # "call" /\ StepRecord.op # "variable"
    BY DEF StepRecord
  <2> QED BY <2>1, <2>2, ArgsQuiet
<1>7. CASE EnterComponent
  BY <1>7, ArgsEnterComponent
<1>8. CASE LeaveFrame
  BY <1>8, ArgsLeaveFrame
<1>9. CASE UNCHANGED vars
  BY <1>9 DEF vars, ArgsInv
<1> QED BY <1>1, <1>2, <1>3, <1>4, <1>5, <1>6, <1>7, <1>8, <1>9 DEF Next, Replay

\* When no frame is left, the arguments of every call are shown.
LEMMA ArgsAtEnd ==
    ASSUME NEW Parts PROVE IInv /\ ArgsInv(Parts) => ArgsAreWired
<1> SUFFICES ASSUME IInv, ArgsInv(Parts), phase = "after",
                    NEW c \in Recorded("call"), Len(c.path) > 1, NEW n \in DOMAIN c.args
             PROVE  LET parent == Parent(c.path)
                        Shown(sig) == {i \in DOMAIN trace :
                            /\ trace[i].op = "variable" /\ trace[i].path = parent
                            /\ trace[i].name = Last(parent) \o Last(c.path) \o <<sig>>}
                        a == c.args[n]
                    IN  IF Shown(a.name) = {} THEN a.value = 0
                        ELSE LET v == trace[CHOOSE i \in Shown(a.name) :
                                                \A j \in Shown(a.name) : j <= i]
                             IN  v.value = ShownValue(a.value, v.bool)
  BY DEF ArgsAreWired
<1> DEFINE a == c.args[n]
           S == ShownAs(trace, Parent(c.path), NameIn(c.path, a.name))
           T == {i \in DOMAIN trace :
                    /\ trace[i].op = "variable" /\ trace[i].path = Parent(c.path)
                    /\ trace[i].name = Last(Parent(c.path)) \o Last(c.path) \o <<a.name>>}
<1>1. T = S
  BY DEF ShownAs, NameIn
<1>2. Len(stack) = 0
  BY DEF IInv, FramesMatchCalls
<1>3. PICK i \in CallsIn(trace) : c = trace[i]
  BY DEF Recorded, CallsIn
<1>4. ArgsShown(trace, c)
  BY <1>2, <1>3 DEF ArgsInv, WiredOK, Settled
<1>5. ArgShown(trace, S, a.value)
  BY <1>4 DEF ArgsShown
<1>6. S \subseteq Nat
  <2>1. PICK R : trace \in Seq(R)
    BY DEF ArgsInv
  <2>2. DOMAIN trace \subseteq Nat
    BY <2>1
  <2> QED BY <2>2 DEF ShownAs
<1> HIDE DEF S, T, a
<1>7. IF S = {} THEN a.value = 0
      ELSE LET v == trace[CHOOSE j \in S : \A k \in S : k <= j]
           IN  v.value = ShownValue(a.value, v.bool)
  <2>1. CASE S = {}
    BY <1>5, <2>1 DEF ArgShown
  <2>2. CASE S # {}
    <3>1. PICK t \in S : (\A j \in S : j <= t) /\ trace[t].value = ShownValue(a.value, trace[t].bool)
      BY <1>5, <2>2 DEF ArgShown
    <3> DEFINE x == CHOOSE j \in S : \A k \in S : k <= j
    <3>2. x \in S /\ \A k \in S : k <= x
      BY <3>1
    <3> HIDE DEF x
    <3>3. x = t
      BY <1>6, <3>1, <3>2
    <3>4. trace[x].value = ShownValue(a.value, trace[x].bool)
      BY <3>1, <3>3
    <3> QED BY <2>2, <3>4 DEF x
  <2> QED BY <2>1, <2>2
<1> QED BY <1>1, <1>7, Zenon DEF T, a

\* The arguments of a call are the values its caller is later shown assigning to
\* its inputs: TakeInputs looks ahead over the whole stream (tracer.rs:1413-1430),
\* and what it finds there is what the replay shows afterwards, at any depth of
\* the recursion and wherever in the stream the wires are.
THEOREM ArgumentsAreWired ==
    ASSUME NEW CONSTANT Events, Vectors(Events),
           NEW CONSTANT Parts, Named(Parts, Events)
    PROVE  Spec /\ []StreamsAreWired => []ArgsAreWired
<1>1. Init => ArgsInv(Parts)
  BY ArgsInit
<1>2. IInv /\ FramesOK(Events) /\ StreamsAreWired /\ ArgsInv(Parts) /\ [Next]_vars
      => ArgsInv(Parts)'
  BY ArgsStep
<1>3. IInv /\ ArgsInv(Parts) => ArgsAreWired
  BY ArgsAtEnd
<1>4. Init => FramesOK(Events)
  BY FramesInit
<1>5. IInv /\ FramesOK(Events) /\ [Next]_vars => FramesOK(Events)'
  BY FramesStep
<1> HIDE DEF FramesOK, StreamsAreWired, ArgsInv
<1> QED BY <1>1, <1>2, <1>3, <1>4, <1>5, InvInit, InvStep, PTL DEF Spec
=============================================================================
