-------------------------- MODULE MCSourceReaders --------------------------
(***************************************************************************)
(* Sources of two definitions and a main component.  Either the first has  *)
(* up to two fragments in its body and the second is simple, or both have  *)
(* at most one and modifiers, shared lines and comments come in.           *)
(***************************************************************************)
EXTENDS SourceReaders

CONSTANTS TemplateFragments, FunctionFragments

\* No statement comes twice: a name is declared once.
Bodies(fragments, n) ==
    {b \in UNION {[1..k -> fragments] : k \in 0..n} : IsInjective(b)}

Definition(kind, name, mods, body) ==
    [kind |-> kind, name |-> name, mods |-> mods, body |-> body, glued |-> FALSE]
BothPlaces(ds) == ds \cup {[d EXCEPT !.glued = TRUE] : d \in ds}

Templates(name, mods, n) ==
    {Definition("template", name, m, b) : m \in mods, b \in Bodies(TemplateFragments, n)}
Functions(name, n) ==
    {Definition("function", name, <<>>, b) : b \in Bodies(FunctionFragments, n)}
Buses == {Definition("bus", "P", <<>>, b) : b \in {<<>>, <<"field">>}}

AnyModifiers == {<<>>, <<"custom">>, <<"custom", "parallel">>}

Main == [kind |-> "main", name |-> "A"]
PublicMain == [kind |-> "public", name |-> "A"]
Quoted == [kind |-> "quoted", name |-> "Q"]

Simple == {Definition("template", "B", <<>>, b) : b \in {<<"input a">>, <<"bad">>}}
          \cup {Definition("function", "g", <<>>, <<"plain">>),
                Definition("bus", "P", <<>>, <<"field">>)}

RichSources ==
    {<<a, b, Main>> : a \in Templates("A", {<<>>}, 2) \cup Functions("f", 1), b \in BothPlaces(Simple)}

First == Templates("A", AnyModifiers, 1) \cup Functions("f", 1)

\* Behind it, what is taken for a scan's end or start, or stops the parser.
Second ==
    {d \in Templates("B", {<<>>}, 1) \cup Functions("g", 1) :
        Range(d.body) \cap {"plain", "input b", "loop", "comments"} = {}} \cup Buses

MixedSources ==
    {<<a, b, Main>> : a \in First, b \in BothPlaces(Second)}
    \cup {<<a, b, PublicMain>> : a \in First, b \in Simple}

QuotedSources ==
    {<<Quoted, a, Main>> : a \in Templates("A", AnyModifiers, 1)}

MCSources == RichSources \cup MixedSources \cup QuotedSources
=============================================================================
