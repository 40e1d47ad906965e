--------------------------- MODULE MCSignalValues ---------------------------
(***************************************************************************)
(* Files with the two sections in both orders and with one of another kind *)
(* between or before them, cut off at every byte or with another magic;    *)
(* whole files with every witness of up to three elements; .sym files with *)
(* signals of main, of a component, of two elements of an array of         *)
(* components and of a nested component, with indices up to one beyond the *)
(* witness.                                                                *)
(***************************************************************************)
EXTENDS SignalValues

CONSTANTS N8, FieldElements

Info(n) == [type |-> FieldInfo, size |-> N8 + 8, n8 |-> N8, count |-> n, elements |-> <<>>]
Witness(es) == [type |-> WitnessData, size |-> N8 * Len(es), n8 |-> 0, count |-> 0,
                elements |-> es]
Other == [type |-> 3, size |-> 5, n8 |-> 0, count |-> 0, elements |-> <<>>]

Starts(ss) ==
    [s \in 1..(Len(ss) + 1) |->
        FoldLeft(LAMBDA p, x : p + 12 + x.size, 12, SubSeq(ss, 1, s - 1))]
Whole(ss) ==
    [magic |-> TRUE, sections |-> ss, starts |-> Starts(ss), length |-> Starts(ss)[Len(ss) + 1]]
CutOff(f) == {[f EXCEPT !.length = n] : n \in 0..f.length}

\* The first element of a witness is 1.
Witnesses == {<<1>> \o es : es \in UNION {[1..n -> FieldElements] : n \in 0..2}}

Layouts(es) ==
    LET i == Info(Len(es))
        d == Witness(es)
    IN {<<i, d>>, <<d, i>>, <<Other, i, d>>, <<i, Other, d>>}

MCFiles ==
    UNION {CutOff(Whole(ss)) : ss \in Layouts(<<1, 3, 0>>)}
    \cup {Whole(<<Info(Len(es)), Witness(es)>>) : es \in Witnesses}
    \cup {[Whole(ss) EXCEPT !.magic = FALSE] : ss \in Layouts(<<1, 3, 0>>)}
MCSections == UNION {Range(f.sections) : f \in MCFiles}

Part(n) == [name |-> n, index |-> NoIndex]
Element(n, i) == [name |-> n, index |-> i]
Main == Part("main")
MCPaths ==
    {<<Main, Part("a")>>, <<Main, Part("c"), Part("a")>>, <<Main, Element("c", 0), Part("a")>>,
     <<Main, Element("c", 1), Part("a")>>, <<Main, Part("c"), Element("a", 1)>>,
     <<Main, Part("d"), Part("c"), Part("a")>>}

Symbols(paths, first) ==
    [i \in DOMAIN paths |-> [index |-> first + i - 1, path |-> paths[i]]]
MCSymbolLists ==
    {Symbols(ps, first) : ps \in {qs \in UNION {[1..n -> MCPaths] : n \in 0..2} : IsInjective(qs)},
                          first \in {1, 2}}
=============================================================================
