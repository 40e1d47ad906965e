------------------------------ MODULE Evaluator ------------------------------
(***************************************************************************)
(* evaluator.rs: the evaluation of a parsed template.  evaluate_template   *)
(* runs three passes over a body: a pre-pass that finds the sub-components *)
(* and the expressions wired to them, a fold that evaluates each           *)
(* sub-component into the environment, and the event pass whose events     *)
(* tracer.rs replays.                                                      *)
(*                                                                         *)
(* Syntax trees are records with a kind k.  Names are strings; a key of    *)
(* the environment is <<name>>, or <<name, idx>> for the synthetic slot    *)
(* "arr[idx]" of a component array.  An optional integer is <<>> or <<n>>. *)
(* Left out: line numbers, the bitwise and shift operators, the width of   *)
(* i64 (values stay small) and negative array indices.                     *)
(***************************************************************************)
EXTENDS Integers, Sequences, TLC

CONSTANT MaxIterations   \* 10_000 in the code: the cap on every loop

---------------------------------------------------------------------------
\* Values.

None       == [t |-> "none"]
IntVal(n)  == [t |-> "int", n |-> n]
Unset      == [t |-> "unset"]
CompVal(s) == [t |-> "comp", sig |-> s]
ArrVal(a)  == [t |-> "array", elems |-> a]
NoSignals  == [x \in {} |-> 0]

\* Value::as_int.
AsInt(v) == CASE v.t = "int" -> <<v.n>>
              [] v.t = "unset" -> <<0>>
              [] OTHER -> <<>>
OrZero(v) == IF AsInt(v) = <<>> THEN 0 ELSE AsInt(v)[1]

Lookup(env, key) == IF key \in DOMAIN env THEN env[key] ELSE None
Bind(env, key, v) == (key :> v) @@ env
Signal(v, name) == IF v.t = "comp" /\ name \in DOMAIN v.sig
                   THEN IntVal(v.sig[name]) ELSE None

\* arr[i].signal and arr[i]: a base that is an element of a named array.
IsElement(e) == e.k = "index" /\ e.base.k = "id"

Bit(b) == IF b THEN 1 ELSE 0
Abs(n) == IF n < 0 THEN -n ELSE n

\* Rust's `/` and `%` truncate towards zero; division by zero yields 0.
Quotient(a, b) ==
    IF b = 0 THEN 0
    ELSE (IF (a < 0) = (b < 0) THEN 1 ELSE -1) * (Abs(a) \div Abs(b))

Apply(op, a, b) ==
    CASE op = "+" -> a + b
      [] op = "-" -> a - b
      [] op = "*" -> a * b
      [] op = "/" -> Quotient(a, b)
      [] op = "%" -> IF b = 0 THEN 0 ELSE a - b * Quotient(a, b)
      [] op = "<" -> Bit(a < b)
      [] op = "<=" -> Bit(a <= b)
      [] op = ">" -> Bit(a > b)
      [] op = ">=" -> Bit(a >= b)
      [] op = "==" -> Bit(a = b)
      [] op = "!=" -> Bit(a # b)
      [] op = "&&" -> Bit(a # 0 /\ b # 0)
      [] op = "||" -> Bit(a # 0 \/ b # 0)

---------------------------------------------------------------------------
\* Expressions and the functions they call.

RECURSIVE Eval(_, _, _), ExecBlock(_, _, _), Exec(_, _, _), ExecLoop(_, _, _, _)

\* execute_function_body: what the block returned, 0 when it ends without a
\* return.
Running(env) == [env |-> env, ret |-> <<>>]
Returned(out) == IF out.ret = <<>> THEN IntVal(0) ELSE out.ret[1]

\* eval_expr_with_fns: a value, or None when something is missing.
Eval(e, env, fns) ==
    LET AsIntOf(x) == AsInt(Eval(x, env, fns)) IN
    CASE e.k = "int" -> IntVal(e.n)
      [] e.k = "id"  -> Lookup(env, <<e.name>>)
      [] e.k = "member" ->
           IF IsElement(e.base)
           THEN LET i == AsIntOf(e.base.idx) IN
                IF i = <<>> THEN None
                ELSE Signal(Lookup(env, <<e.base.base.name, i[1]>>), e.sig)
           ELSE Signal(Eval(e.base, env, fns), e.sig)
      [] e.k = "index" ->
           LET base == Eval(e.base, env, fns)
               i    == AsIntOf(e.idx)
           IN  IF base.t = "array" /\ i # <<>> /\ i[1] \in 0 .. Len(base.elems) - 1
               THEN base.elems[i[1] + 1] ELSE None
      [] e.k = "ternary" ->
           LET c == AsIntOf(e.cond) IN
           IF c = <<>> THEN None
           ELSE Eval(IF c[1] # 0 THEN e.then ELSE e.else, env, fns)
      [] e.k = "unary" ->
           LET v == AsIntOf(e.arg) IN
           IF v = <<>> THEN None
           ELSE IntVal(IF e.op = "-" THEN -v[1] ELSE Bit(v[1] = 0))
      [] e.k = "binary" ->
           LET l == AsIntOf(e.l)
               r == AsIntOf(e.r)
           IN  IF l = <<>> \/ r = <<>> THEN None ELSE IntVal(Apply(e.op, l[1], r[1]))
      [] e.k = "call" ->
           IF e.name \notin DOMAIN fns THEN None
           ELSE LET f == fns[e.name]
                    n == IF Len(f.params) < Len(e.args) THEN Len(f.params) ELSE Len(e.args)
                    bound == {<<f.params[i]>> : i \in 1 .. n}
                    locals == [p \in bound |->
                                 LET i == CHOOSE j \in 1 .. n : <<f.params[j]>> = p
                                 IN  IntVal(OrZero(Eval(e.args[i], env, fns)))]
                IN  Returned(ExecBlock(f.body, Running(locals), fns))

EvalInt(e, env, fns) == OrZero(Eval(e, env, fns))

\* apply_lvalue: assign a variable, a component's signal or an array element
\* (growing the array); any other shape is ignored.
Assign(lhs, n, env, fns) ==
    LET SetSignal(key) ==
            LET old == IF key \in DOMAIN env THEN env[key] ELSE CompVal(NoSignals)
            IN  IF old.t = "comp"
                THEN Bind(env, key, CompVal((lhs.sig :> n) @@ old.sig)) ELSE env
    IN
    CASE lhs.k = "id" -> Bind(env, <<lhs.name>>, IntVal(n))
      [] lhs.k = "member" /\ lhs.base.k = "id" -> SetSignal(<<lhs.base.name>>)
      [] lhs.k = "member" /\ IsElement(lhs.base) ->
           SetSignal(<<lhs.base.base.name, EvalInt(lhs.base.idx, env, fns)>>)
      [] IsElement(lhs) ->
           LET key == <<lhs.base.name>>
               i   == EvalInt(lhs.idx, env, fns)
               old == IF key \in DOMAIN env THEN env[key] ELSE ArrVal(<<>>)
               top == IF i < Len(old.elems) THEN Len(old.elems) ELSE i + 1
           IN  IF old.t # "array" THEN env
               ELSE Bind(env, key, ArrVal([j \in 1 .. top |->
                        IF j = i + 1 THEN IntVal(n)
                        ELSE IF j <= Len(old.elems) THEN old.elems[j] ELSE IntVal(0)]))
      [] OTHER -> env

\* The statements of a block, in order, as long as none has returned.
ExecBlock(ss, out, fns) ==
    IF ss = <<>> \/ out.ret # <<>> THEN out
    ELSE ExecBlock(Tail(ss), Exec(Head(ss), out.env, fns), fns)

\* execute_function_stmt.  An `if` passes on what its branch returned unless
\* that is 0: a branch without a return also yields 0, and cannot be told
\* from one that returns 0.
Exec(s, env, fns) ==
    CASE s.k = "var" -> Running(Bind(env, <<s.name>>, IntVal(EvalInt(s.init, env, fns))))
      [] s.k = "assign" -> Running(Assign(s.lhs, EvalInt(s.rhs, env, fns), env, fns))
      [] s.k = "if" ->
           LET out == ExecBlock(IF EvalInt(s.cond, env, fns) # 0 THEN s.then ELSE s.else,
                                Running(env), fns)
           IN  IF out.ret = <<IntVal(0)>> THEN Running(out.env) ELSE out
      [] s.k = "for" -> ExecLoop(s, Exec(s.init, env, fns), fns, 0)
      [] s.k = "return" -> [env |-> env, ret |-> <<IntVal(EvalInt(s.value, env, fns))>>]
      [] OTHER -> Running(env)

ExecLoop(s, out, fns, n) ==
    IF n = MaxIterations \/ out.ret # <<>> \/ EvalInt(s.cond, out.env, fns) = 0 THEN out
    ELSE ExecLoop(s, ExecBlock(Append(s.body, s.update), out, fns), fns, n + 1)

---------------------------------------------------------------------------
\* Boolean signals: `s * (s - 1) === 0`, in either order.

RECURSIVE BooleanSignals(_)

MinusOne(x) == [k |-> "binary", op |-> "-", l |-> x, r |-> [k |-> "int", n |-> 1]]
BooleanName(e) ==
    IF e.k # "binary" \/ e.op # "*" THEN {}
    ELSE {x.name : x \in {y \in {e.l, e.r} :
                             y.k = "id" /\ {e.l, e.r} = {y, MinusOne(y)}}}

\* collect_boolean_signals: the names so constrained anywhere in a body.
BooleanSignals(ss) ==
    UNION {CASE ss[i].k = "constraint" ->
                  IF ss[i].rhs = [k |-> "int", n |-> 0] THEN BooleanName(ss[i].lhs) ELSE {}
             [] ss[i].k = "if" -> BooleanSignals(ss[i].then) \cup BooleanSignals(ss[i].else)
             [] ss[i].k = "for" -> BooleanSignals(ss[i].body)
             [] OTHER -> {} : i \in DOMAIN ss}

\* The set evaluate_template uses: it unites all templates of the program, by
\* bare signal name.
ProgramBooleans(prog) ==
    UNION {BooleanSignals(prog.templates[t].body) : t \in DOMAIN prog.templates}

---------------------------------------------------------------------------
\* Events.

StepEvent == [ev |-> "step"]
VariableEvent(name, n, bool) ==
    [ev |-> "variable", name |-> name, value |-> n, bool |-> bool]
EnterEvent(key, t, args) == [ev |-> "enter", comp |-> key, template |-> t, args |-> args]
WireEvent(key, sig, n) == [ev |-> "wire", comp |-> key, sig |-> sig, value |-> n]
ViolationEvent(l, r) == [ev |-> "violation", lhs |-> l, rhs |-> r]

\* expr_to_name_with_env: the printed name, as the sequence of its parts (an
\* index without a value, printed "?", adds none).
RECURSIVE NameOf(_, _, _)
NameOf(e, env, fns) ==
    CASE e.k = "id" -> <<e.name>>
      [] e.k = "member" -> NameOf(e.base, env, fns) \o <<e.sig>>
      [] e.k = "index" -> NameOf(e.base, env, fns) \o AsInt(Eval(e.idx, env, fns))
      [] OTHER -> <<>>

\* The component a wire `comp.signal <== e` or `arr[i].signal <== e` goes to;
\* <<>> when the left-hand side is no wire.
WireKey(lhs, env, fns) ==
    CASE lhs.k = "member" /\ lhs.base.k = "id" -> <<lhs.base.name>>
      [] lhs.k = "member" /\ IsElement(lhs.base) ->
           <<lhs.base.base.name, EvalInt(lhs.base.idx, env, fns)>>
      [] OTHER -> <<>>

\* A variable is Boolean when its last name, or the component output its
\* right-hand side reads, is a Boolean signal of some template.
IsBool(lhs, rhs, bools) ==
    \/ lhs.k = "id" /\ lhs.name \in bools
    \/ lhs.k = "member" /\ lhs.sig \in bools
    \/ rhs.k = "member" /\ rhs.sig \in bools

IntArgs(es, env, fns) == [i \in DOMAIN es |-> EvalInt(es[i], env, fns)]
SizeOfDims(dims, env, fns) == EvalInt(dims[1], env, fns)

RECURSIVE EvalStmt(_, _, _), EvalBlock(_, _, _), EvalLoop(_, _, _, _)

\* The state of a pass over a body has an environment env and events, and what
\* else the pass collects.
Emit(st, env, events) == [st EXCEPT !.env = env, !.events = @ \o events]

\* A statement of a loop's header, or one the pre-pass only runs: it leaves its
\* effect, not its events.
Quietly(s, st, ctx) == [st EXCEPT !.env = EvalStmt(s, st, ctx).env]

EvalBlock(ss, st, ctx) ==
    IF ss = <<>> THEN st ELSE EvalBlock(Tail(ss), EvalStmt(Head(ss), st, ctx), ctx)

\* An assignment of n to s.lhs that takes st to env: its name is printed
\* before it, the index of the component it is wired to is read after it.
AssignEvents(s, n, env, st, ctx) ==
    LET key == WireKey(s.lhs, env, ctx.prog.functions) IN
    IF s.op = "=" THEN <<StepEvent>>
    ELSE (IF key = <<>> THEN <<>> ELSE <<WireEvent(key, s.lhs.sig, n)>>)
         \o <<VariableEvent(NameOf(s.lhs, st.env, ctx.prog.functions), n,
                           IsBool(s.lhs, s.rhs, ctx.bools))>>
AssignedIn(s, n, env, st, ctx) == Emit(st, env, AssignEvents(s, n, env, st, ctx))
EvalAssign(s, n, st, ctx) ==
    AssignedIn(s, n, Assign(s.lhs, n, st.env, ctx.prog.functions), st, ctx)

\* A constraint is violated when both sides are known and differ.
ConstraintEvents(l, r) ==
    IF l # <<>> /\ r # <<>> /\ l # r THEN <<StepEvent, ViolationEvent(l[1], r[1])>>
    ELSE <<StepEvent>>

\* eval_stmt: the environment and the events after one statement.
EvalStmt(s, st, ctx) ==
    LET env == st.env
        fns == ctx.prog.functions
        Enter(key) ==
            Emit(st, IF key \in DOMAIN env THEN env ELSE Bind(env, key, CompVal(NoSignals)),
                 <<EnterEvent(key, s.template, IntArgs(s.args, env, fns))>>)
    IN
    CASE s.k = "var" -> Emit(st, Bind(env, <<s.name>>, IntVal(EvalInt(s.init, env, fns))),
                             <<StepEvent>>)
      [] s.k = "signal" /\ s.dims = <<>> ->
           LET e == IF <<s.name>> \in DOMAIN env THEN env ELSE Bind(env, <<s.name>>, Unset)
           IN  Emit(st, e, IF s.kind = "input"
                           THEN <<VariableEvent(<<s.name>>, OrZero(e[<<s.name>>]),
                                                s.name \in ctx.bools)>>
                           ELSE <<StepEvent>>)
      [] s.k = "signal" /\ s.dims # <<>> ->
           Emit(st, Bind(env, <<s.name>>,
                         ArrVal([i \in 1 .. SizeOfDims(s.dims, env, fns) |-> IntVal(0)])),
                <<StepEvent>>)
      [] s.k = "assign" -> EvalAssign(s, EvalInt(s.rhs, env, fns), st, ctx)
      [] s.k = "constraint" ->
           Emit(st, env, ConstraintEvents(AsInt(Eval(s.lhs, env, fns)),
                                          AsInt(Eval(s.rhs, env, fns))))
      [] s.k = "if" ->
           EvalBlock(IF EvalInt(s.cond, env, fns) # 0 THEN s.then ELSE s.else,
                     Emit(st, env, <<StepEvent>>), ctx)
      [] s.k = "for" -> EvalLoop(s, Quietly(s.init, Emit(st, env, <<StepEvent>>), ctx), ctx, 0)
      [] s.k = "component" -> Enter(<<s.name>>)
      [] s.k = "compassign" -> Enter(<<s.name, EvalInt(s.idx, env, fns)>>)
      [] s.k \in {"bus", "comparray", "expr", "return"} -> Emit(st, env, <<StepEvent>>)

EvalLoop(s, st, ctx, n) ==
    IF n = MaxIterations \/ EvalInt(s.cond, st.env, ctx.prog.functions) = 0 THEN st
    ELSE EvalLoop(s, Quietly(s.update, EvalBlock(s.body, st, ctx), ctx), ctx, n + 1)

---------------------------------------------------------------------------
\* The pre-pass: which components a body instantiates, and the expressions,
\* not yet evaluated, that are wired to each.

RECURSIVE CollectStmt(_, _, _), CollectBlock(_, _, _), CollectLoop(_, _, _, _)

CollectBlock(ss, p, ctx) ==
    IF ss = <<>> THEN p ELSE CollectBlock(Tail(ss), CollectStmt(Head(ss), p, ctx), ctx)

\* collect_components_with_wires, for one statement.  Statements it does not
\* treat by itself only change the environment.
CollectStmt(s, p, ctx) ==
    LET env == p.env
        fns == ctx.prog.functions
        Declare(key) ==
            [p EXCEPT !.env = Bind(env, key, CompVal(NoSignals)),
                      !.decls = Append(@, [key |-> key, template |-> s.template,
                                           args |-> IntArgs(s.args, env, fns)])]
    IN
    CASE s.k = "component" -> Declare(<<s.name>>)
      [] s.k = "compassign" -> Declare(<<s.name, EvalInt(s.idx, env, fns)>>)
      [] s.k = "comparray" ->
           [p EXCEPT !.env = Bind(env, <<s.name>>,
               ArrVal([i \in 1 .. SizeOfDims(s.dims, env, fns) |-> CompVal(NoSignals)]))]
      [] s.k = "assign" ->
           LET key == IF s.op = "=" THEN <<>> ELSE WireKey(s.lhs, env, fns)
           IN  IF key = <<>>
               THEN [p EXCEPT !.env = Assign(s.lhs, EvalInt(s.rhs, env, fns), env, fns)]
               ELSE [p EXCEPT !.wires = Append(@, [key |-> key, sig |-> s.lhs.sig,
                                                   rhs |-> s.rhs])]
      [] s.k = "if" ->
           CollectBlock(IF EvalInt(s.cond, env, fns) # 0 THEN s.then ELSE s.else, p, ctx)
      [] s.k = "for" ->
           CollectLoop(s, Quietly(s.init, p, ctx), ctx, 0)
      [] s.k \in {"var", "signal"} -> Quietly(s, p, ctx)
      [] OTHER -> p

CollectLoop(s, p, ctx, n) ==
    IF n = MaxIterations \/ EvalInt(s.cond, p.env, ctx.prog.functions) = 0 THEN p
    ELSE CollectLoop(s, Quietly(s.update, CollectBlock(s.body, p, ctx), ctx), ctx, n + 1)

---------------------------------------------------------------------------
\* evaluate_template.

SeqRange(s) == {s[i] : i \in DOMAIN s}

\* Generic parameters (0 when there are too few arguments), then the inputs,
\* then the buses with every field 0.
Seed(tmpl, inputs, args, prog) ==
    LET generics == [k \in {<<g>> : g \in SeqRange(tmpl.generics)} |->
            LET i == CHOOSE j \in DOMAIN tmpl.generics : <<tmpl.generics[j]>> = k
            IN  IntVal(IF i \in DOMAIN args THEN args[i] ELSE 0)]
        ins == [k \in {<<i>> : i \in DOMAIN inputs} |-> IntVal(inputs[k[1]])]
        decls == {s \in SeqRange(tmpl.body) : s.k = "bus"}
        buses == [k \in {<<d.name>> : d \in decls} |->
            LET d == CHOOSE x \in decls : <<x.name>> = k
            IN  CompVal(IF d.type \in DOMAIN prog.buses
                        THEN [f \in prog.buses[d.type] |-> 0] ELSE NoSignals)]
    IN  buses @@ ins @@ generics

\* Mutant of FoldInputs: every component is evaluated before it is wired.
FoldBeforeWires(wires, key, env, fns) == NoSignals

\* The inputs the fold gives a component: its wired expressions, evaluated in
\* the environment of the fold, the last wire to a signal winning.
RECURSIVE FoldInputs(_, _, _, _)
FoldInputs(wires, key, env, fns) ==
    IF wires = <<>> THEN NoSignals
    ELSE LET rest == FoldInputs(SubSeq(wires, 1, Len(wires) - 1), key, env, fns)
             wire == wires[Len(wires)]
         IN  IF wire.key = key THEN (wire.sig :> EvalInt(wire.rhs, env, fns)) @@ rest
             ELSE rest

RECURSIVE EvaluateTemplate(_, _, _, _), FoldComponents(_, _, _, _)

\* Mutant of FoldComponents: only the inputs are kept, so that reading an output
\* yields 0.
FoldInputsOnly(decls, wires, env, prog) ==
    IF decls = <<>> THEN env
    ELSE LET d == Head(decls)
             inputs == FoldInputs(wires, d.key, env, prog.functions)
         IN  FoldComponents(Tail(decls), wires, Bind(env, d.key, CompVal(inputs)), prog)

\* Every declared component, in the order of declaration, evaluated into env:
\* its signals are its inputs and, over them, its outputs.
FoldComponents(decls, wires, env, prog) ==
    IF decls = <<>> THEN env
    ELSE LET d == Head(decls)
             inputs == FoldInputs(wires, d.key, env, prog.functions)
             signals == IF d.template \notin DOMAIN prog.templates THEN NoSignals
                        ELSE EvaluateTemplate(prog, d.template, inputs, d.args).outputs
                             @@ inputs
         IN  FoldComponents(Tail(decls), wires, Bind(env, d.key, CompVal(signals)), prog)

Outputs(body) == {s.name : s \in {x \in SeqRange(body) : x.k = "signal" /\ x.kind = "output"}}
OutputValues(body, env) == [o \in Outputs(body) |-> OrZero(Lookup(env, <<o>>))]
Evaluated(body, st) == [events |-> st.events, outputs |-> OutputValues(body, st.env)]

\* The three passes, and the values of the outputs the body declares.
EventPass(tmpl, env, ctx) ==
    Evaluated(tmpl.body, EvalBlock(tmpl.body, [env |-> env, events |-> <<>>], ctx))
FoldPass(tmpl, pre, env, ctx) ==
    EventPass(tmpl, FoldComponents(pre.decls, pre.wires, env, ctx.prog), ctx)
PrePass(tmpl, env, ctx) ==
    FoldPass(tmpl, CollectBlock(tmpl.body, [env |-> env, events |-> <<>>, decls |-> <<>>,
                                            wires |-> <<>>], ctx), env, ctx)
EvaluateTemplate(prog, name, inputs, args) ==
    LET tmpl == prog.templates[name]
    IN  PrePass(tmpl, Seed(tmpl, inputs, args, prog),
                [prog |-> prog, bools |-> ProgramBooleans(prog)])

\* A template's input_signals: its input declarations, in order.
InputsOf(prog, name) ==
    LET IsInput(s) == s.k = "signal" /\ s.kind = "input"
        ins == SelectSeq(prog.templates[name].body, IsInput)
    IN  [i \in DOMAIN ins |-> ins[i].name]
=============================================================================
