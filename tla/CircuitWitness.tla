--------------------------- MODULE CircuitWitness ---------------------------
(***************************************************************************)
(* The values the circuit itself gives its signals: what the witness       *)
(* calculator that circom generates (external to this repository) computes *)
(* and what evaluator.rs says it records.  Statements run once, in source  *)
(* order; a component's outputs are those of its template under the inputs *)
(* assigned to it so far; a function returns what its first `return` says.  *)
(* Single statements and expressions are those of Evaluator: the           *)
(* differences are when a component is evaluated and how a function ends.  *)
(***************************************************************************)
EXTENDS Evaluator

---------------------------------------------------------------------------
\* Functions with one exit.  A `return` sets a value and a flag, and whatever
\* comes after it runs only while the flag is down: the function returns what
\* the first `return` reached says, and Exec has nothing to decide about it.

Number(n) == [k |-> "int", n |-> n]
Name(x) == [k |-> "id", name |-> x]
Set(x, e) == [k |-> "assign", op |-> "=", lhs |-> Name(x), rhs |-> e]
NotDone == [k |-> "binary", op |-> "==", l |-> Name("#done"), r |-> Number(0)]

RECURSIVE SingleExit(_), Guarded(_)
Guarded(ss) ==
    IF ss = <<>> THEN <<>>
    ELSE SingleExit(Head(ss)) \o
         <<[k |-> "if", cond |-> NotDone, then |-> Guarded(Tail(ss)), else |-> <<>>]>>
SingleExit(s) ==
    CASE s.k = "return" -> <<Set("#value", s.value), Set("#done", Number(1))>>
      [] s.k = "if" -> <<[s EXCEPT !.then = Guarded(@), !.else = Guarded(@)]>>
      [] s.k = "for" ->
           <<[s EXCEPT !.cond = [k |-> "binary", op |-> "&&", l |-> NotDone, r |-> @],
                       !.body = Guarded(@)]>>
      [] OTHER -> <<s>>

SingleExitFunction(f) ==
    [f EXCEPT !.body = <<Set("#value", Number(0)), Set("#done", Number(0))>> \o Guarded(@)
                       \o <<[k |-> "return", value |-> Name("#value")]>>]
SingleExits(prog) ==
    [prog EXCEPT !.functions = [f \in DOMAIN @ |-> SingleExitFunction(@[f])]]

---------------------------------------------------------------------------
\* Templates.

RECURSIVE RunStmt(_, _, _), RunBlock(_, _, _), RunLoop(_, _, _, _), RunTemplate(_, _, _, _)

RunBlock(ss, st, ctx) ==
    IF ss = <<>> THEN st ELSE RunBlock(Tail(ss), RunStmt(Head(ss), st, ctx), ctx)

\* A component c of the state: its template, its arguments, its inputs.
Signals(c, prog) ==
    IF c.template \notin DOMAIN prog.templates THEN c.ins
    ELSE OutputValues(prog.templates[c.template].body,
                      RunTemplate(prog, c.template, c.ins, c.args).env) @@ c.ins

SetComponent(st, key, c, prog) ==
    [st EXCEPT !.comps = (key :> c) @@ @,
               !.env = Bind(@, key, CompVal(Signals(c, prog)))]

RunStmt(s, st, ctx) ==
    LET fns == ctx.prog.functions
        Declared(key) ==
            SetComponent(st, key, [template |-> s.template, ins |-> NoSignals,
                                   args |-> IntArgs(s.args, st.env, fns)], ctx.prog)
        key == IF s.k = "assign" /\ s.op # "=" THEN WireKey(s.lhs, st.env, fns) ELSE <<>>
    IN
    CASE s.k = "component" -> Declared(<<s.name>>)
      [] s.k = "compassign" -> Declared(<<s.name, EvalInt(s.idx, st.env, fns)>>)
      [] s.k = "if" ->
           RunBlock(IF EvalInt(s.cond, st.env, fns) # 0 THEN s.then ELSE s.else, st, ctx)
      [] s.k = "for" -> RunLoop(s, Quietly(s.init, st, ctx), ctx, 0)
      [] key \in DOMAIN st.comps ->
           SetComponent(EvalStmt(s, st, ctx), key,
               [st.comps[key] EXCEPT !.ins = (s.lhs.sig :> EvalInt(s.rhs, st.env, fns)) @@ @],
               ctx.prog)
      [] OTHER -> EvalStmt(s, st, ctx)

RunLoop(s, st, ctx, n) ==
    IF n = MaxIterations \/ EvalInt(s.cond, st.env, ctx.prog.functions) = 0 THEN st
    ELSE RunLoop(s, Quietly(s.update, RunBlock(s.body, st, ctx), ctx), ctx, n + 1)

RunTemplate(prog, name, inputs, args) ==
    LET tmpl == prog.templates[name]
        ctx  == [prog |-> prog, bools |-> {}]
    IN  RunBlock(tmpl.body, [env |-> Seed(tmpl, inputs, args, prog),
                             comps |-> [k \in {} |-> 0], events |-> <<>>], ctx)

\* The values of an instance and of everything below it: which frame (its
\* path), which name, which value; and its constraints that do not hold.
RECURSIVE WitnessValues(_, _, _, _, _), WitnessViolations(_, _, _, _, _)

Comp(path) == path[Len(path)]

OwnEvents(st, kind) == {e \in SeqRange(st.events) : e.ev = kind}

ValuesOf(prog, st, path) ==
    {<<path, Comp(path) \o e.name, e.value>> : e \in OwnEvents(st, "variable")}
    \cup UNION {WitnessValues(prog, st.comps[k].template, st.comps[k].ins,
                              st.comps[k].args, Append(path, k)) : k \in DOMAIN st.comps}
WitnessValues(prog, name, inputs, args, path) ==
    IF name \notin DOMAIN prog.templates THEN {}
    ELSE ValuesOf(prog, RunTemplate(prog, name, inputs, args), path)

ViolationsOf(prog, st, path) ==
    {<<path, e.lhs, e.rhs>> : e \in OwnEvents(st, "violation")}
    \cup UNION {WitnessViolations(prog, st.comps[k].template, st.comps[k].ins,
                                  st.comps[k].args, Append(path, k)) : k \in DOMAIN st.comps}
WitnessViolations(prog, name, inputs, args, path) ==
    IF name \notin DOMAIN prog.templates THEN {}
    ELSE ViolationsOf(prog, RunTemplate(prog, name, inputs, args), path)
=============================================================================
