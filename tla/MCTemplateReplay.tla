-------------------------- MODULE MCTemplateReplay --------------------------
(***************************************************************************)
(* Every short stream of events, for a main template M and a child A: the  *)
(* replay does not depend on what evaluation yields.  B is called but not  *)
(* parsed, U is of an included file.  A wire may come before, after or     *)
(* without the component it goes to, and a component may be entered twice  *)
(* (a declaration in a loop).                                              *)
(***************************************************************************)
EXTENDS TemplateReplay

CONSTANTS MainLength, ChildLength   \* the bounds on the streams of M and A

Enter(c, t) == [ev |-> "enter", comp |-> <<c>>, template |-> t, args |-> <<>>]
Wire(c, v) == [ev |-> "wire", comp |-> <<c>>, sig |-> "in", value |-> v]

Plain == {[ev |-> "step"],
          [ev |-> "variable", name |-> <<"y">>, value |-> 2, bool |-> TRUE],
          [ev |-> "violation", lhs |-> 1, rhs |-> 2],
          Enter("b", "B"), Enter("u", "U")}
Streams(evs, n) == UNION {[1 .. k -> evs] : k \in 0 .. n}

MCPrograms ==
    [M : Streams(Plain \cup {Enter("a", "A"), Wire("a", 1), Wire("a", 2)}, MainLength),
     A : Streams(Plain, ChildLength)]

MCTemplates == {"M", "A", "B"}
MCMainInputs(p) == {[x \in {"x"} |-> 0]}
MCMainOf(p) == "M"
MCMainArgs(p) == <<>>
MCCalled(p) == {"M", "A", "B"}
MCParsedIn(p) == {"M", "A"}
MCInputNames(p, t) == IF t = "M" THEN <<"x">> ELSE <<"in">>
MCEvaluate(p, t, inputs, args) == IF t = "M" THEN p.M ELSE p.A
=============================================================================
