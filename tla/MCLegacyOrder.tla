---------------------------- MODULE MCLegacyOrder ----------------------------
(***************************************************************************)
(* Every list of up to three components over three templates, and of four  *)
(* over two: templates used twice, templates in templates and in           *)
(* themselves, parents nobody instantiates, no or several components at    *)
(* file scope.                                                             *)
(***************************************************************************)
EXTENDS LegacyOrder

CONSTANTS T1, T2, T3

Lists(n, ts) == [1 .. n -> [template : ts, parent : ts \cup {File}]]
MCComponentLists ==
    UNION {Lists(n, {T1, T2, T3}) : n \in 0 .. 3} \cup Lists(4, {T1, T2})
MCDefinitions == {{T1, T2, T3}, {T1, T3}}
=============================================================================
