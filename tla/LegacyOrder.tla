----------------------------- MODULE LegacyOrder -----------------------------
(***************************************************************************)
(* The fallback of tracer.rs for a source whose main template has no body  *)
(* to evaluate: order_components_by_nesting walks the component lines the  *)
(* scanner found, depth first from `component main`, and emit_legacy_flat  *)
(* opens one call for each of them and closes them all at the end.         *)
(*                                                                         *)
(* A component is its template and the template it is declared in, as the  *)
(* scanner saw them: two components may name the same template, templates  *)
(* may contain each other, and the declaring template may be one that no   *)
(* component instantiates.  Lines, arguments and the steps of signals and  *)
(* assignments are left out.                                               *)
(***************************************************************************)
EXTENDS Integers, Sequences

CONSTANTS Templates,       \* names of templates
          File,            \* the parent of a component at file scope
          ComponentLists,  \* the component lines a source may have
          Definitions      \* the sets of templates the scanner may have found

Component == [template : Templates, parent : Templates \cup {File}]

ASSUME FileAssumption == File \notin Templates
ASSUME ListsAssumption == ComponentLists \subseteq Seq(Component)
ASSUME DefinitionsAssumption == Definitions \subseteq SUBSET Templates

VARIABLES components,  \* what parse_component_instances returned
          defined,     \* the templates of parse_template_definitions
          pc, stack,   \* the recursion of dfs: a component, the next to look at
          emitted,     \* the flags of the walk
          at,          \* the index of the loop after the walk
          out,         \* the ordered components, by their place in the source
          calls        \* the components whose call is open, outermost first

vars == <<components, defined, pc, stack, emitted, at, out, calls>>
input == <<components, defined>>

Places == DOMAIN components
AtFileScope == {i \in Places : components[i].parent = File}
IsFirst(i, S) == i \in S /\ \A j \in S : i <= j

\* Mutant of IsChild: any component inside some template is a child.
IsAnyChild(i, p) == components[i].parent # File

\* Component i is declared in the body of the template of component p.
IsChild(i, p) == components[i].parent = components[p].template

Stages == {"find", "walk", "orphans", "calls", "returns", "done"}

Init ==
    /\ components \in ComponentLists /\ defined \in Definitions
    /\ pc = "find" /\ stack = <<>> /\ emitted = {} /\ at = 1 /\ out = <<>> /\ calls = <<>>

\* Without a component at file scope the source order stands.
KeepSourceOrder ==
    /\ pc = "find" /\ AtFileScope = {}
    /\ out' = [i \in Places |-> i]
    /\ pc' = "calls"
    /\ UNCHANGED <<input, stack, emitted, at, calls>>

\* A call of dfs on component i: it is marked and emitted, its children are next.
Visit(i, rest) ==
    /\ emitted' = emitted \cup {i}
    /\ out' = Append(out, i)
    /\ stack' = Append(rest, [comp |-> i, next |-> 1])

FindMain ==
    /\ pc = "find"
    /\ \E m \in Places : IsFirst(m, AtFileScope) /\ Visit(m, <<>>)
    /\ pc' = "walk"
    /\ UNCHANGED <<input, at, calls>>

Top == stack[Len(stack)]
Frames(f) == Append(SubSeq(stack, 1, Len(stack) - 1), f)

\* The loop of dfs over all components: an unmarked child is walked at once.
\* Mutant of Descends: the flags are not looked at.
DescendsAgain == IsChild(Top.next, Top.comp)

Descends == Top.next \notin emitted /\ IsChild(Top.next, Top.comp)

\* Mutant of Descend: the components that are left are looked at backwards.
DescendLastFirst ==
    /\ pc = "walk" /\ Top.next \in Places
    /\ \E i \in Places :
         /\ i \notin emitted /\ IsChild(i, Top.comp)
         /\ \A j \in Places \ emitted : IsChild(j, Top.comp) => j <= i
         /\ Visit(i, stack)
    /\ UNCHANGED <<input, pc, at, calls>>

Descend ==
    /\ pc = "walk" /\ Top.next \in Places /\ Descends
    /\ Visit(Top.next, Frames([Top EXCEPT !.next = @ + 1]))
    /\ UNCHANGED <<input, pc, at, calls>>

\* Mutant of PassBy: the loop does not move on.
PassByInPlace ==
    /\ pc = "walk" /\ Top.next \in Places /\ ~Descends
    /\ stack' = Frames(Top)
    /\ UNCHANGED <<input, pc, emitted, at, out, calls>>

PassBy ==
    /\ pc = "walk" /\ Top.next \in Places /\ ~Descends
    /\ stack' = Frames([Top EXCEPT !.next = @ + 1])
    /\ UNCHANGED <<input, pc, emitted, at, out, calls>>

\* Mutants of Ascend: the walk ends with the first leaf; the walk is not left.
AscendToTheTop ==
    /\ pc = "walk" /\ Top.next \notin Places
    /\ stack' = <<>> /\ pc' = "orphans"
    /\ UNCHANGED <<input, emitted, at, out, calls>>
AscendOnly ==
    /\ pc = "walk" /\ Top.next \notin Places
    /\ stack' = SubSeq(stack, 1, Len(stack) - 1)
    /\ UNCHANGED <<input, pc, emitted, at, out, calls>>

Ascend ==
    /\ pc = "walk" /\ Top.next \notin Places
    /\ stack' = SubSeq(stack, 1, Len(stack) - 1)
    /\ pc' = IF Len(stack) = 1 THEN "orphans" ELSE "walk"
    /\ UNCHANGED <<input, emitted, at, out, calls>>

\* The loop after the walk: what was not reached, in source order.
AppendOrphan ==
    /\ pc = "orphans"
    /\ IF at \in Places
       THEN /\ out' = IF at \in emitted THEN out ELSE Append(out, at)
            /\ at' = at + 1 /\ UNCHANGED pc
       ELSE /\ at' = 1 /\ pc' = "calls" /\ UNCHANGED out
    /\ UNCHANGED <<input, stack, emitted, calls>>

\* Mutant of EmitCall: a component of an unknown template ends the loop.
EmitCallOrStop ==
    /\ pc = "calls"
    /\ IF at \in DOMAIN out /\ components[out[at]].template \in defined
       THEN calls' = Append(calls, out[at]) /\ at' = at + 1 /\ UNCHANGED pc
       ELSE pc' = "returns" /\ UNCHANGED <<calls, at>>
    /\ UNCHANGED <<input, stack, emitted, out>>

\* emit_legacy_flat: a call for every component whose template is known.
EmitCall ==
    /\ pc = "calls"
    /\ IF at \in DOMAIN out
       THEN /\ calls' = IF components[out[at]].template \in defined
                        THEN Append(calls, out[at]) ELSE calls
            /\ at' = at + 1 /\ UNCHANGED pc
       ELSE pc' = "returns" /\ UNCHANGED <<calls, at>>
    /\ UNCHANGED <<input, stack, emitted, out>>

EmitReturn ==
    /\ pc = "returns"
    /\ IF calls # <<>>
       THEN calls' = SubSeq(calls, 1, Len(calls) - 1) /\ UNCHANGED pc
       ELSE pc' = "done" /\ UNCHANGED calls
    /\ UNCHANGED <<input, stack, emitted, at, out>>

Next ==
    \/ KeepSourceOrder \/ FindMain \/ Descend \/ PassBy \/ Ascend
    \/ AppendOrphan \/ EmitCall \/ EmitReturn

Spec == Init /\ [][Next]_vars /\ WF_vars(Next)

---------------------------------------------------------------------------
\* Properties.

\* The types of the variables, and a recursion that is under way exactly in
\* the walk.
TypeOK ==
    /\ components \in Seq(Component) /\ defined \in SUBSET Templates
    /\ pc \in Stages
    /\ stack \in Seq([comp : Places, next : Nat \ {0}])
    /\ pc = "walk" <=> stack # <<>>
    /\ emitted \in SUBSET Places /\ at \in Nat \ {0}
    /\ out \in Seq(Places) /\ calls \in Seq(Places)

Ordered == pc \in {"calls", "returns", "done"}

\* No component is emitted twice, however often its template is used and
\* however the templates contain each other, and the order has all of them
\* (dfs, tracer.rs:1793-1797, and the loop after it, 1818-1822).
EachOnce ==
    /\ \A p, q \in DOMAIN out : out[p] = out[q] => p = q
    /\ Ordered => \A i \in Places : \E p \in DOMAIN out : out[p] = i

\* Component i is declared in the template component p is of.
DeclaredIn(i, p) == components[i].parent = components[p].template
Closed(S) == \A p \in S, i \in Places : DeclaredIn(i, p) => i \in S

\* What can be reached from the first component at file scope: it is in every
\* set that has that one and, with a component, all those declared in its
\* template.
Reachable ==
    {i \in Places : \A S \in SUBSET Places :
        Closed(S) /\ (\E m \in S : IsFirst(m, AtFileScope)) => i \in S}

\* The walk reaches what can be reached and no more; the components it reached
\* come first, the others after them in source order (doc comment,
\* tracer.rs:1767-1769).
ReachableFirst ==
    Ordered /\ AtFileScope # {} =>
        LET reached == Reachable IN
        \A p, q \in DOMAIN out : p < q /\ out[p] \notin reached =>
            out[q] \notin reached /\ out[p] < out[q]

\* A component the walk reached, but main, comes after a component of the
\* template it is declared in.  The doc comment (tracer.rs:1753-1755) asks for
\* every such component: a second one of the same template comes later.
ParentsFirst ==
    AtFileScope # {} =>
        LET reached == Reachable IN
        \A q \in DOMAIN out : out[q] \in reached =>
            \/ IsFirst(out[q], AtFileScope)
            \/ \E p \in 1 .. q - 1 : DeclaredIn(out[q], out[p])

\* Components of one body come in source order (tracer.rs:1759-1763), also
\* when one of them contains, at some depth, the template of the body.
SiblingsInOrder ==
    \A j \in Places : \A i \in 1 .. j - 1 :
        components[i].parent = components[j].parent /\ components[i].parent # File =>
            \A q \in DOMAIN out : out[q] = j => \E p \in 1 .. q - 1 : out[p] = i

\* The calls that are open when the last component was emitted are those of the
\* components of a known template, each once, outermost first in the order of
\* the walk: a sibling is shown inside its elder.
Known == {i \in Places : components[i].template \in defined}
CallsAreOrdered ==
    /\ Known = {calls[k] : k \in DOMAIN calls}
    /\ \A k, l \in DOMAIN calls : k < l =>
         \E p, q \in DOMAIN out : p < q /\ out[p] = calls[k] /\ out[q] = calls[l]
EveryKnownCalled == [][pc = "calls" /\ pc' = "returns" => CallsAreOrdered]_vars

\* The walk, the loops and the emission end.
Termination == <>(pc = "done")
=============================================================================
