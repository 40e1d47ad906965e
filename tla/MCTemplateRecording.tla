------------------------ MODULE MCTemplateRecording ------------------------
(***************************************************************************)
(* A family of circuits: every legal order of statements of a small pool,  *)
(* in a main template with one input x and one output o, over children     *)
(* that exercise one construct each.  Every input of a recording is 0      *)
(* (tracer.rs build_witness_inputs), so x is 0.                            *)
(***************************************************************************)
EXTENDS TemplateRecording

CONSTANT Checks   \* the sets of constraints a main body may have

Num(n) == [k |-> "int", n |-> n]
Id(n) == [k |-> "id", name |-> n]
Member(b, s) == [k |-> "member", base |-> b, sig |-> s]
At(b, i) == [k |-> "index", base |-> Id(b), idx |-> i]
Binary(op, l, r) == [k |-> "binary", op |-> op, l |-> l, r |-> r]
Input(n) == [k |-> "signal", name |-> n, kind |-> "input", dims |-> <<>>]
Output(n) == [k |-> "signal", name |-> n, kind |-> "output", dims |-> <<>>]
Local(n) == [k |-> "signal", name |-> n, kind |-> "intermediate", dims |-> <<>>]
Var(n, e) == [k |-> "var", name |-> n, init |-> e]
Assigned(l, op, r) == [k |-> "assign", op |-> op, lhs |-> l, rhs |-> r]
Constrain(l, r) == [k |-> "constraint", lhs |-> l, rhs |-> r]
Component(n, t, args) == [k |-> "component", name |-> n, template |-> t, args |-> args]
Loop(init, cond, update, body) ==
    [k |-> "for", init |-> init, cond |-> cond, update |-> update, body |-> body]
Template(generics, body) == [generics |-> generics, body |-> body]
Wired(c, e) == Assigned(Member(Id(c), "in"), "<==", e)

\* out <== in + 1
Inc == Template(<<>>, <<Input("in"), Output("out"),
    Assigned(Id("out"), "<==", Binary("+", Id("in"), Num(1)))>>)
\* out <== in + n
AddN == Template(<<"n">>, <<Input("in"), Output("out"),
    Assigned(Id("out"), "<==", Binary("+", Id("in"), Id("n")))>>)
\* An Inc in an Inc.
Wrap == Template(<<>>, <<Input("in"), Output("out"), Component("i", "Inc", <<>>),
    Wired("i", Id("in")), Assigned(Id("out"), "<==", Member(Id("i"), "out"))>>)
\* out <-- in; out * (out - 1) === 0
BitOf == Template(<<>>, <<Input("in"), Output("out"),
    Assigned(Id("out"), "<--", Id("in")),
    Constrain(Binary("*", Id("out"), Binary("-", Id("out"), Num(1))), Num(0))>>)
\* A function that sums in a loop.
TwiceFunction == [params |-> <<"a">>, body |-> <<
    Var("t", Num(0)),
    Loop(Var("i", Num(0)), Binary("<", Id("i"), Num(2)),
         Assigned(Id("i"), "=", Binary("+", Id("i"), Num(1))),
         <<Assigned(Id("t"), "=", Binary("+", Id("t"), Id("a")))>>),
    [k |-> "return", value |-> Id("t")]>>]

\* Functions with a `return` in an `if` in a loop: of a number, and of 0.
Returning(n) == [params |-> <<"a">>, body |-> <<
    Loop(Var("i", Num(0)), Binary("<", Id("i"), Num(2)),
         Assigned(Id("i"), "=", Binary("+", Id("i"), Num(1))),
         <<[k |-> "if", cond |-> Binary("==", Id("a"), Binary("+", Id("i"), Num(2))),
            then |-> <<[k |-> "return", value |-> Num(n)]>>, else |-> <<>>]>>),
    [k |-> "return", value |-> Binary("+", Id("a"), Num(1))]>>]
Calls(f) == Template(<<>>, <<Input("in"), Output("out"),
    Assigned(Id("out"), "<==", [k |-> "call", name |-> f, args |-> <<Id("in")>>])>>)

\* The pool: what a statement needs, what it gives, and its syntax.  A capital
\* stands for a component wired, "s" and "O" for signals assigned.
Statement(needs, gives, stmt) == [needs |-> needs, gives |-> gives, stmt |-> stmt]
ComponentC(t, args) == Statement({}, {"c"}, Component("c", t, args))
WireC(e, needs) == Statement({"c"} \cup needs, {"C"}, Wired("c", e))
OutputOf(needs, e) == Statement(needs, {"O"}, Assigned(Id("o"), "<==", e))
ArrayLoop(e) == Statement({}, {"A"},
    Loop(Var("i", Num(0)), Binary("<", Id("i"), Num(2)),
         Assigned(Id("i"), "=", Binary("+", Id("i"), Num(1))),
         <<[k |-> "compassign", name |-> "a", idx |-> Id("i"), template |-> "AddN",
            args |-> <<Binary("+", Id("i"), Num(1))>>],
           Assigned(Member(At("a", Id("i")), "in"), "<==", e)>>))
Out(c) == Member(Id(c), "out")

Pool == [
    sum   |-> Statement({}, {"s"}, Assigned(Id("s"), "<==", Binary("+", Id("x"), Num(1)))),
    pick  |-> Statement({}, {"s"}, [k |-> "if", cond |-> Binary("==", Id("x"), Num(1)),
                  then |-> <<Assigned(Id("s"), "<--", Num(5))>>,
                  else |-> <<Assigned(Id("s"), "<--", Num(2))>>]),
    cInc  |-> ComponentC("Inc", <<>>),
    cAdd  |-> ComponentC("AddN", <<Num(2)>>),
    cWrap |-> ComponentC("Wrap", <<>>),
    cBit  |-> ComponentC("BitOf", <<>>),
    cFun  |-> ComponentC("Twice", <<>>),
    cSeven |-> ComponentC("Seven", <<>>),
    cZero |-> ComponentC("Zero", <<>>),
    elem  |-> Statement({}, {"t"}, Assigned(At("t", Num(1)), "<==", Binary("+", Id("x"), Num(2)))),
    ct    |-> WireC(At("t", Num(1)), {"t"}),
    oct   |-> OutputOf({"C", "t"}, Binary("+", Out("c"), At("t", Num(1)))),
    cOpa  |-> ComponentC("Opaque", <<>>),
    cExt  |-> ComponentC("External", <<>>),
    c3    |-> WireC(Num(3), {}),
    cx    |-> WireC(Id("x"), {}),
    cs    |-> WireC(Id("s"), {"s"}),
    dAdd  |-> Statement({}, {"d"}, Component("d", "AddN", <<Num(2)>>)),
    dc    |-> Statement({"C", "d"}, {"D"}, Wired("d", Out("c"))),
    oc    |-> OutputOf({"C"}, Out("c")),
    od    |-> OutputOf({"D"}, Out("d")),
    ocs   |-> OutputOf({"C", "s"}, Binary("+", Out("c"), Id("s"))),
    ax    |-> ArrayLoop(Id("x")),
    ai    |-> ArrayLoop(Id("i")),
    oa    |-> OutputOf({"A"}, Binary("+", Member(At("a", Num(0)), "out"),
                                          Member(At("a", Num(1)), "out"))),
    o4    |-> Statement({"O"}, {"4"}, Constrain(Id("o"), Num(4)))]

\* What a complete main body is made of: a component, or a loop that fills an
\* array of them, what is wired to it, and an output; perhaps a local signal
\* that one of them reads, a second component, and a constraint.
Choices == [kind : {"cInc", "cAdd", "cWrap", "cBit", "cFun", "cSeven", "cZero", "cOpa", "cExt"},
            wire : {"c3", "cx", "cs", "ct"},
            local : {{}, {"sum"}, {"pick"}, {"elem"}},
            second : {{}, {"dAdd", "dc"}},
            out : {"oc", "od", "ocs", "oct"},
            check : Checks]
Chosen(c) == {c.kind, c.wire, c.out} \cup c.local \cup c.second \cup c.check
ArrayBodies == {{loop, "oa"} \cup check : loop \in {"ax", "ai"}, check \in Checks}

Gives(ls) == UNION {Pool[l].gives : l \in ls}
Needs(ls) == UNION {Pool[l].needs : l \in ls}
Complete(ls) ==
    /\ Needs(ls) \subseteq Gives(ls)
    /\ "s" \in Gives(ls) => "s" \in Needs(ls)
    /\ "t" \in Gives(ls) => "t" \in Needs(ls)
    /\ "d" \in Gives(ls) => "od" \in ls

\* The orders in which every statement comes after what it needs.
RECURSIVE Orders(_)
Orders(ls) ==
    IF ls = {} THEN {<<>>}
    ELSE UNION {{Append(p, l) : p \in Orders(ls \ {l})} :
                l \in {m \in ls : Needs(ls \ {m}) \subseteq Gives(ls \ {m})}}

MCPrograms ==
    UNION {Orders(ls) : ls \in {l \in {Chosen(c) : c \in Choices} \cup ArrayBodies : Complete(l)}}

\* The template parser gives up on Opaque; the line scanner finds it, and calls
\* it.  External is of an included file: neither knows it.
Parsable == {"Main", "Inc", "AddN", "Wrap", "BitOf", "Twice", "Seven", "Zero"}
MCTemplates == Parsable \cup {"Opaque"}
MCCalled(p) == SourceTemplates(p) \cup {"Opaque"}

\* The templates of a program are those it uses.
Used(p) ==
    LET kinds == {Pool[p[i]].stmt : i \in DOMAIN p}
        direct == {s.template : s \in {x \in kinds : x.k = "component"}}
        looped == IF \E s \in kinds : s.k = "for" THEN {"AddN"} ELSE {}
    IN  {"Main"} \cup (Parsable \cap (direct \cup looped))
        \cup (IF "Wrap" \in direct THEN {"Inc"} ELSE {})

FunctionsOf(p) ==
    {f \in {"twice", "seven", "zero"} :
        \E t \in Used(p) : <<t, f>> \in {<<"Twice", "twice">>, <<"Seven", "seven">>,
                                        <<"Zero", "zero">>}}

MCSource(p) ==
    [templates |-> [t \in Used(p) |->
        CASE t = "Main" -> Template(<<>>,
                <<Input("x"), Output("o"), Local("s"),
                  [Local("t") EXCEPT !.dims = <<Num(2)>>],
                  [k |-> "comparray", name |-> "a", dims |-> <<Num(2)>>]>>
                \o [i \in DOMAIN p |-> Pool[p[i]].stmt])
          [] t = "Inc" -> Inc
          [] t = "AddN" -> AddN
          [] t = "Wrap" -> Wrap
          [] t = "BitOf" -> BitOf
          [] t = "Twice" -> Calls("twice")
          [] t = "Seven" -> Calls("seven")
          [] t = "Zero" -> Calls("zero")],
     functions |-> [f \in FunctionsOf(p) |-> CASE f = "twice" -> TwiceFunction
                                             [] f = "seven" -> Returning(7)
                                             [] f = "zero" -> Returning(0)],
     buses |-> [b \in {} |-> {}]]

MCMainInputs(p) == {[x \in {"x"} |-> 0]}
MCMainOf(p) == "Main"
MCMainArgs(p) == <<>>

\* The streams of these circuits are those the proofs about ArgsAreWired take
\* evaluate_template to yield.
ASSUME StreamsAreWellWired ==
    /\ \A p \in MCPrograms : \A inputs \in MCMainInputs(p) :
          WellWired(p, SourceEvents(p, "Main", inputs, <<>>))
    /\ \A p \in MCPrograms : Len(p) <= 3 =>
          \A t \in SourceTemplates(p) \ {"Main"}, n, arg \in 0 .. 4 :
              WellWired(p, SourceEvents(p, t, [in |-> n], <<arg>>))
=============================================================================
