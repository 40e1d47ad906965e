------------------------- MODULE TemplateRecording -------------------------
(***************************************************************************)
(* The replay of TemplateReplay with the events Evaluator computes, and    *)
(* what the recording of a body says of the circuit: the values and the    *)
(* violations it shows are those CircuitWitness gives the signals.         *)
(***************************************************************************)
EXTENDS TemplateReplay, CircuitWitness

CONSTANT Source(_)   \* the syntax trees of a program

\* The evaluation of a template of a program, as tracer.rs calls it.
SourceEvents(p, name, inputs, args) ==
    EvaluateTemplate(Source(p), name, inputs, args).events
SourceInputs(p, name) == InputsOf(Source(p), name)
SourceTemplates(p) == DOMAIN Source(p).templates

---------------------------------------------------------------------------
\* Conditions on a program.

RECURSIVE Reads(_), Flat(_)

\* The names an expression reads.
Reads(e) ==
    CASE e.k = "id" -> {e.name}
      [] e.k = "member" -> Reads(e.base)
      [] e.k = "index" -> Reads(e.base) \cup Reads(e.idx)
      [] e.k = "binary" -> Reads(e.l) \cup Reads(e.r)
      [] OTHER -> {}

\* The statements of a body in source order, those of its blocks in line.
Flat(body) ==
    IF body = <<>> THEN <<>>
    ELSE LET s == Head(body)
             inner == CASE s.k = "if" -> Flat(s.then) \o Flat(s.else)
                        [] s.k = "for" -> Flat(s.body)
                        [] OTHER -> <<s>>
         IN  inner \o Flat(Tail(body))

Declares(s, name) == s.k \in {"component", "compassign"} /\ s.name = name
TargetOf(lhs) == IF lhs.k # "member" THEN {} ELSE Reads(lhs.base)

\* What is wired to a component reads only inputs, parameters, and the outputs
\* of components declared before it: all the fold of evaluate_template knows.
FoldSafe(src) ==
    \A t \in DOMAIN src.templates :
        LET tmpl == src.templates[t]
            flat == Flat(tmpl.body)
            known == SeqRange(InputsOf(src, t)) \cup SeqRange(tmpl.generics)
        IN  \A s \in SeqRange(flat) : s.k = "assign" =>
                \A i \in DOMAIN flat, comp \in TargetOf(s.lhs) : Declares(flat[i], comp) =>
                    \A n \in Reads(s.rhs) \ known : \E j \in 1 .. i - 1 : Declares(flat[j], n)

\* Every component is of a template of the file: those of included files are
\* not parsed.
SelfContained(src) ==
    \A t \in DOMAIN src.templates :
        \A s \in SeqRange(Flat(src.templates[t].body)) :
            s.k \in {"component", "compassign"} => s.template \in DOMAIN src.templates

\* A name constrained to {0, 1} in one template is so in every template that
\* declares it.
BoolSafe(src) ==
    \A t \in DOMAIN src.templates :
        LET body == src.templates[t].body
        IN  {s.name : s \in {x \in SeqRange(body) : x.k = "signal"}} \cap ProgramBooleans(src)
                \subseteq BooleanSignals(body)

\* In a function, every `return` but the last statement returns a number other
\* than 0: a 0 returned from inside an `if` is taken for no return at all.
ReturnSafe(src) ==
    \A f \in DOMAIN src.functions :
        LET flat == Flat(src.functions[f].body)
        IN  \A i \in 1 .. Len(flat) - 1 :
                flat[i].k = "return" => flat[i].value.k = "int" /\ flat[i].value.n # 0

---------------------------------------------------------------------------
\* What the recording says, and what the circuit says.

Main == <<>>   \* the key of the main component: it prefixes no name
MainRun == [name |-> MainOf(prog), inputs |-> CHOOSE i \in MainInputs(prog) : TRUE]
Circuit == SingleExits(Source(prog))
Values == WitnessValues(Circuit, MainRun.name, MainRun.inputs, MainArgs(prog), <<Main>>)
Violations ==
    WitnessViolations(Circuit, MainRun.name, MainRun.inputs, MainArgs(prog), <<Main>>)

\* The circuit is all in the file and its constraints hold.
Faithful == SelfContained(Source(prog)) /\ Violations = {}

RecordedValues == {<<r.path, r.name, r.value>> : r \in Recorded("variable")}
RecordedViolations == {<<r.path, r.lhs, r.rhs>> : r \in Recorded("violation")}

\* The values recorded for every instance of every template are those of the
\* circuit, when the wiring is one the fold can evaluate, no name is Boolean in
\* only some templates, no function returns 0 from a branch, and the constraints
\* hold: what evaluate_template says
\* of the fold ("resolve to concrete integers - which is what the Circom
\* witness calculator does at runtime", evaluator.rs:1599-1601).
RecordedIsWitness ==
    /\ phase = "after" /\ Faithful
    /\ FoldSafe(Source(prog)) /\ BoolSafe(Source(prog)) /\ ReturnSafe(Source(prog))
    => RecordedValues = Values

\* The constraint_violation events of a recording are exactly the constraints
\* that do not hold in the circuit, in the instances they do not hold in.
ViolationsAreWitness ==
    /\ phase = "after" /\ SelfContained(Source(prog))
    /\ FoldSafe(Source(prog)) /\ ReturnSafe(Source(prog))
    => RecordedViolations = Violations

---------------------------------------------------------------------------
\* Three claims of the source that do not hold.

\* evaluator.rs:1597-1601 says without a condition that reads of `sub.out`
\* resolve to what the witness calculator computes.  The fold runs before the
\* body: what is wired from a local signal or from a component declared later
\* still reads 0 then.
ReadsResolveAsInWitness ==
    /\ phase = "after" /\ Faithful
    /\ BoolSafe(Source(prog)) /\ ReturnSafe(Source(prog))
    => RecordedValues = Values

\* evaluator.rs:2692 says a function's body yields the value of the first
\* `return` encountered.  A `return 0` inside an `if` is not told from a branch
\* that does not return: the statements after the `if` run, and another
\* `return` decides the value the recording shows.
FunctionsReturnFirst ==
    /\ phase = "after" /\ Faithful
    /\ FoldSafe(Source(prog)) /\ BoolSafe(Source(prog))
    => RecordedValues = Values

\* evaluator.rs:1428-1430 says `is_bool` is true when the signal is constrained
\* to {0,1}.  Boolean names are united over all templates: a signal of the same
\* name elsewhere is recorded as a Bool, and its value is lost.
BooleansAreConstrained ==
    phase = "after" /\ Faithful /\ FoldSafe(Source(prog)) /\ ReturnSafe(Source(prog)) =>
        \A r \in Recorded("variable") : r.bool => <<r.path, r.name, r.value>> \in Values
=============================================================================
