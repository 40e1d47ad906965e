--------------------------- MODULE TemplateReplay ---------------------------
(***************************************************************************)
(* tracer.rs evaluate_and_emit and the part of emit_source_trace around    *)
(* it: the main template is called, its events are replayed into the       *)
(* writer, and every ComponentEnter recurses into the evaluation of that   *)
(* component.  The recursion is a stack of frames, one step replays one    *)
(* event.  What evaluating a template yields is a parameter: Evaluator     *)
(* defines it, the control here does not depend on it.                     *)
(***************************************************************************)
EXTENDS Naturals, Sequences

CONSTANTS
    Programs,            \* the programs a run records
    Templates,           \* the names of templates
    MainInputs(_),       \* the inputs the witness may give the main template
    MainOf(_),           \* the template `component main` names
    MainArgs(_),         \* its template arguments
    Called(_),           \* templates the line scanner registered a function for
    ParsedIn(_),         \* templates the structured parser accepted
    InputNames(_, _),    \* the input_signals of a template
    Evaluate(_, _, _, _) \* evaluate_template: its events

ASSUME ProgramsAssumption ==
    \A p \in Programs :
        /\ MainOf(p) \in Called(p)
        /\ Called(p) \subseteq Templates

VARIABLES
    prog,     \* the program recorded
    phase,    \* "before", "inside" or "after" the main template's call
    stack,    \* the frames of the recursion, outermost first
    calls,    \* the calls the writer has open
    trace     \* what the writer was told, in order

vars == <<prog, phase, stack, calls, trace>>

\* A frame: its component's name, the events left to replay, and the inputs
\* its wires give to components not yet entered.
EmptyInputs == [i \in {} |-> 0]

\* Every Wire event of the stream counts, whether before or after the
\* component it goes to is entered; the last to a signal wins.
WiresTo(events, comp) ==
    LET wires == {i \in DOMAIN events : events[i].ev = "wire" /\ events[i].comp = comp}
        LastTo(sig) == CHOOSE i \in wires :
            events[i].sig = sig /\ \A j \in wires : events[j].sig = sig => j <= i
    IN  [sig \in {events[i].sig : i \in wires} |-> events[LastTo(sig)].value]

\* Mutant of TakeInputs: only the wires before the event count.
TakeInputsSoFar(events, pos) == WiresTo(SubSeq(events, 1, pos - 1), events[pos].comp)

\* The first event of a stream that enters a component takes its inputs out
\* of the map; a later entry of the same name finds none.
TakeInputs(events, pos) ==
    IF \E i \in 1 .. pos - 1 : events[i].ev = "enter" /\ events[i].comp = events[pos].comp
                               /\ events[i].template \in Called(prog)
    THEN EmptyInputs
    ELSE WiresTo(events, events[pos].comp)

NewFrame(comp, template, inputs, args) ==
    [comp |-> comp, pos |-> 1,
     events |-> IF template \in ParsedIn(prog)
                THEN Evaluate(prog, template, inputs, args) ELSE <<>>]

\* The arguments staged before a call: each input of a template whose body was
\* parsed, 0 when nothing is wired to it.
StagedArgs(template, inputs) ==
    IF template \notin ParsedIn(prog) THEN <<>>
    ELSE LET names == InputNames(prog, template)
         IN  [i \in DOMAIN names |->
                [name |-> names[i],
                 value |-> IF names[i] \in DOMAIN inputs THEN inputs[names[i]] ELSE 0]]

\* What the writer records.  The path of a record is the components of the
\* frames around it: it is implied by the calls, and kept for the properties.
Path == [i \in DOMAIN stack |-> stack[i].comp]
StepRecord == [op |-> "step"]
CallRecord(path, template, args) ==
    [op |-> "call", path |-> path, template |-> template, args |-> args]
ReturnRecord == [op |-> "return"]
\* A Bool keeps only whether the value is 0.
ShownValue(value, bool) == IF ~bool THEN value ELSE IF value = 0 THEN 0 ELSE 1
VariableRecord(name, value, bool) ==
    [op |-> "variable", path |-> Path, name |-> name,
     value |-> ShownValue(value, bool), bool |-> bool]
ViolationRecord(lhs, rhs) ==
    [op |-> "violation", path |-> Path, lhs |-> lhs, rhs |-> rhs]

Init ==
    /\ prog \in Programs
    /\ phase = "before"
    /\ stack = <<>>
    /\ calls = <<>>
    /\ trace = <<>>

\* The step on the main line, the call of the main template with its inputs
\* from the witness, and its frame.  Main's component, the prefix of the names
\* in its frame, is empty.
EnterMain ==
    /\ phase = "before"
    /\ \E inputs \in MainInputs(prog) :
          /\ stack' = <<NewFrame(<<>>, MainOf(prog), inputs, MainArgs(prog))>>
          /\ trace' = <<StepRecord,
                        CallRecord(<< <<>> >>, MainOf(prog), StagedArgs(MainOf(prog), inputs))>>
    /\ calls' = <<MainOf(prog)>>
    /\ phase' = "inside"
    /\ UNCHANGED prog

Top == stack[Len(stack)]
Event == Top.events[Top.pos]
HasEvent == phase = "inside" /\ Top.pos <= Len(Top.events)
Advanced == [stack EXCEPT ![Len(stack)].pos = @ + 1]

ReplayStep ==
    /\ HasEvent /\ Event.ev = "step"
    /\ stack' = Advanced
    /\ trace' = Append(trace, StepRecord)
    /\ UNCHANGED <<prog, phase, calls>>

\* A step and the variable, its name prefixed with the name of the frame's
\* component only (one level).
ReplayVariable ==
    /\ HasEvent /\ Event.ev = "variable"
    /\ stack' = Advanced
    /\ trace' = trace \o <<StepRecord,
                           VariableRecord(Top.comp \o Event.name, Event.value, Event.bool)>>
    /\ UNCHANGED <<prog, phase, calls>>

\* Mutant of ReplayWire: the event stays the next one.
ReplayWireAgain ==
    /\ HasEvent /\ Event.ev = "wire"
    /\ UNCHANGED vars

\* Bookkeeping only: the Variable event that follows is the visible one.
ReplayWire ==
    /\ HasEvent /\ Event.ev = "wire"
    /\ stack' = Advanced
    /\ UNCHANGED <<prog, phase, calls, trace>>

ReplayViolation ==
    /\ HasEvent /\ Event.ev = "violation"
    /\ stack' = Advanced
    /\ trace' = Append(trace, ViolationRecord(Event.lhs, Event.rhs))
    /\ UNCHANGED <<prog, phase, calls>>

\* Mutants of SkipComponent: the template is called all the same, or its frame is
\* entered without a call.
SkipComponentButCall ==
    /\ HasEvent /\ Event.ev = "enter" /\ Event.template \notin Called(prog)
    /\ stack' = Append(Advanced, NewFrame(Event.comp, Event.template, EmptyInputs, <<>>))
    /\ calls' = Append(calls, Event.template)
    /\ trace' = Append(trace, StepRecord)
    /\ UNCHANGED <<prog, phase>>
SkipComponentButEnter ==
    /\ HasEvent /\ Event.ev = "enter" /\ Event.template \notin Called(prog)
    /\ stack' = Append(Advanced, NewFrame(Event.comp, Event.template, EmptyInputs, <<>>))
    /\ trace' = Append(trace, StepRecord)
    /\ UNCHANGED <<prog, phase, calls>>

\* A component whose template has no function is stepped over.
SkipComponent ==
    /\ HasEvent /\ Event.ev = "enter" /\ Event.template \notin Called(prog)
    /\ stack' = Advanced
    /\ trace' = Append(trace, StepRecord)
    /\ UNCHANGED <<prog, phase, calls>>

\* Step on the declaration, stage the arguments, call, recurse.
EnterComponent ==
    /\ HasEvent /\ Event.ev = "enter" /\ Event.template \in Called(prog)
    /\ LET inputs == TakeInputs(Top.events, Top.pos)
       IN  /\ stack' = Append(Advanced,
                              NewFrame(Event.comp, Event.template, inputs, Event.args))
           /\ trace' = trace \o <<StepRecord,
                 CallRecord(Append(Path, Event.comp), Event.template,
                            StagedArgs(Event.template, inputs))>>
    /\ calls' = Append(calls, Event.template)
    /\ UNCHANGED <<prog, phase>>

\* Mutant of LeaveFrame: both the frame and its caller return the call.
LeaveFrameTwice ==
    /\ phase = "inside" /\ Top.pos > Len(Top.events)
    /\ stack' = SubSeq(stack, 1, Len(stack) - 1)
    /\ calls' = SubSeq(calls, 1, Len(calls) - 2)
    /\ trace' = trace \o <<ReturnRecord, ReturnRecord>>
    /\ phase' = IF Len(stack) = 1 THEN "after" ELSE "inside"
    /\ UNCHANGED prog

\* The end of a frame: return to the caller, which returns the call.
LeaveFrame ==
    /\ phase = "inside" /\ Top.pos > Len(Top.events)
    /\ stack' = SubSeq(stack, 1, Len(stack) - 1)
    /\ calls' = SubSeq(calls, 1, Len(calls) - 1)
    /\ trace' = Append(trace, ReturnRecord)
    /\ phase' = IF Len(stack) = 1 THEN "after" ELSE "inside"
    /\ UNCHANGED prog

Replay == ReplayStep \/ ReplayVariable \/ ReplayWire \/ ReplayViolation
Next == EnterMain \/ Replay \/ SkipComponent \/ EnterComponent \/ LeaveFrame

\* One thread replays the events to the end.
Spec == Init /\ [][Next]_vars /\ WF_vars(Next)

---------------------------------------------------------------------------
\* The types of the state: each frame has a place in its events or is at
\* their end.
TypeOK ==
    /\ phase \in {"before", "inside", "after"}
    /\ calls \in Seq(Templates)
    /\ \A i \in DOMAIN stack : stack[i].pos \in 1 .. Len(stack[i].events) + 1

\* The recursion and the writer agree at every moment: there is one open call
\* per frame, so every record lands in the call of the instance it is about.
FramesMatchCalls ==
    /\ Len(stack) = Len(calls)
    /\ phase = "inside" <=> calls # <<>>

\* What the writer was told of one kind.
Recorded(op) == {trace[i] : i \in {j \in DOMAIN trace : trace[j].op = op}}

\* The component a path leads to, and the path of the instance around it.
Last(path) == path[Len(path)]
Parent(path) == SubSeq(path, 1, Len(path) - 1)

\* The arguments staged for the call of a component are the values its parent
\* is later shown assigning to its inputs, 0 for an input not assigned: the
\* look-ahead over the events (tracer.rs:1413-1430) and the assignments it
\* looks ahead to agree, whatever the fold of evaluate_template knew.
ArgsAreWired ==
    phase = "after" =>
        \A c \in Recorded("call") : Len(c.path) > 1 =>
            LET parent == Parent(c.path)
                Shown(sig) == {i \in DOMAIN trace :
                    /\ trace[i].op = "variable" /\ trace[i].path = parent
                    /\ trace[i].name = Last(parent) \o Last(c.path) \o <<sig>>}
            IN  \A n \in DOMAIN c.args :
                    LET a == c.args[n] IN
                    IF Shown(a.name) = {} THEN a.value = 0
                    ELSE LET v == trace[CHOOSE i \in Shown(a.name) :
                                            \A j \in Shown(a.name) : j <= i]
                         IN  v.value = ShownValue(a.value, v.bool)

\* What evaluate_template yields for a program that declares a component once
\* (no declaration in a loop that runs twice): one entry of each component,
\* a wire right before the variable of the assignment it comes from, and no
\* other variable of that name (evaluator.rs eval_stmt, its assignments).
Entries(p, es) == {i \in DOMAIN es : es[i].ev = "enter" /\ es[i].template \in Called(p)}
StagedNames(p, template) ==
    IF template \notin ParsedIn(p) THEN {}
    ELSE {InputNames(p, template)[i] : i \in DOMAIN InputNames(p, template)}
IsWire(e, comp, sig) == e.ev = "wire" /\ e.comp = comp /\ e.sig = sig
Assigns(e, comp, sig) == e.ev = "variable" /\ e.name = comp \o <<sig>>
WellWired(p, es) ==
    \A i \in Entries(p, es) :
        LET comp == es[i].comp IN
        /\ \A j \in Entries(p, es) : es[j].comp = comp => j = i
        /\ \A sig \in StagedNames(p, es[i].template), q \in DOMAIN es :
              /\ IsWire(es[q], comp, sig) =>
                     /\ q + 1 \in DOMAIN es /\ Assigns(es[q + 1], comp, sig)
                     /\ es[q + 1].value = es[q].value
              /\ Assigns(es[q], comp, sig) =>
                     q - 1 \in DOMAIN es /\ IsWire(es[q - 1], comp, sig)

\* The calls opened and closed are those of one main call and a tree inside it,
\* whatever evaluation yields and wherever a component is skipped: what the
\* rest of the session takes the emission of a body to do.
Tree == INSTANCE CallTree
BuildsCallTree == Tree!TreeSpec

\* The replay comes to an end with the call of main returned.
Termination == <>(phase = "after")
=============================================================================
