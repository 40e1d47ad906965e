---------------------------- MODULE SignalValues ----------------------------
(***************************************************************************)
(* From a witness to the values of signals: tracer.rs looks up every line  *)
(* of the .sym file in the witness the C++ backend has read, and           *)
(* signal_hierarchy.rs builds a tree of components from the names.         *)
(*                                                                         *)
(* A symbol is an index into the witness and a path; a part of a path is a *)
(* name and an index, NoIndex for a part without brackets.  A field        *)
(* element is a number, I64Max the greatest one that an i64 holds.         *)
(***************************************************************************)
EXTENDS CppWitness, FiniteSets, SequencesExt

CONSTANTS Paths,        \* the paths signals may have
          SymbolLists,  \* the .sym files
          I64Max, NoIndex

ASSUME I64MaxAssumption == I64Max \in Nat

\* A path begins with "main" and ends with the name of a signal.
ASSUME PathsAssumption == \A p \in Paths : Len(p) \in Nat \ {0, 1}

\* circom names every signal once.
ASSUME SymbolsAssumption ==
    \A ss \in SymbolLists :
        /\ ss \in Seq([index : Nat, path : Paths])
        /\ \A i, j \in DOMAIN ss : Tail(ss[i].path) = Tail(ss[j].path) => i = j

VARIABLES symbols,   \* what parse_sym_file returned
          mapped,    \* how many of them are looked up
          values,    \* name without "main." -> value
          listed,    \* full_name_values
          inserted,  \* how many of those are in the tree
          tree       \* path of a component -> its signals, in order

mapVars == <<symbols, mapped, values, listed, inserted, tree>>
vars == <<readerVars, mapVars>>

Start ==
    /\ Init
    /\ symbols \in SymbolLists
    /\ mapped = 0 /\ values = <<>> /\ listed = <<>>
    /\ inserted = 0 /\ tree = [p \in {<<>>} |-> <<>>]

\* Mutant of bigint_to_i64: the lower half of a large element is kept.
truncated_to_i64(v) == v % (I64Max + 1)

bigint_to_i64(v) == IF v <= I64Max THEN v ELSE 0

Name(path) == Tail(path)  \* without the prefix "main."

Put(f, k, v) == [x \in DOMAIN f \cup {k} |-> IF x = k THEN v ELSE f[x]]

\* A symbol beyond the end of the witness has no value.
MapSymbol ==
    /\ pc = "ok" /\ mapped < Len(symbols)
    /\ LET s == symbols[mapped + 1]
       IN IF s.index < Len(witness)
          THEN LET v == bigint_to_i64(witness[s.index + 1])
               IN /\ values' = Put(values, Name(s.path), v)
                  /\ listed' = Append(listed, [path |-> s.path, value |-> v])
          ELSE UNCHANGED <<values, listed>>
    /\ mapped' = mapped + 1
    /\ UNCHANGED <<readerVars, symbols, inserted, tree>>

\* The components a signal is in, by their names: an index in brackets is dropped.
Container(path) == [i \in 1..(Len(path) - 2) |-> path[i + 1].name]

SignalsAt(node) == IF node \in DOMAIN tree THEN tree[node] ELSE <<>>

\* Mutant of Insert: a component has one signal of a name.
InsertOnce(node, signal) ==
    [p \in DOMAIN tree \cup Prefixes(node) |->
        IF p = node /\ \A i \in DOMAIN SignalsAt(p) : SignalsAt(p)[i].leaf # signal.leaf
        THEN Append(SignalsAt(p), signal) ELSE SignalsAt(p)]

Insert(node, signal) ==
    [p \in DOMAIN tree \cup Prefixes(node) |->
        IF p = node THEN Append(SignalsAt(p), signal) ELSE SignalsAt(p)]

AddToTree ==
    /\ pc = "ok" /\ mapped = Len(symbols) /\ inserted < Len(listed)
    /\ LET l == listed[inserted + 1]
       IN tree' = Insert(Container(l.path), [leaf |-> Last(l.path), value |-> l.value])
    /\ inserted' = inserted + 1
    /\ UNCHANGED <<readerVars, symbols, mapped, values, listed>>

ReadFile == ReadWitness /\ UNCHANGED mapVars

Ended ==
    \/ pc \in {"error", "panic", "failed"}
    \/ pc = "ok" /\ mapped = Len(symbols) /\ inserted = Len(listed)
Done == Ended /\ UNCHANGED vars

Work == ReadFile \/ MapSymbol \/ AddToTree
Next == Work \/ Done
Spec == Start /\ [][Next]_vars

---------------------------------------------------------------------------
\* flatten: every signal with the path of its node; the order is that of a HashMap.
Flat == UNION {{[node |-> p, place |-> i, signal |-> tree[p][i]] : i \in DOMAIN tree[p]} :
                 p \in DOMAIN tree}

TypeOK ==
    /\ ReaderTypeOK
    /\ mapped \in 0..Len(symbols) /\ Len(listed) <= mapped /\ inserted \in 0..Len(listed)

\* The value a signal is shown with is that of its element of the witness; 0 stands
\* also for an element an i64 does not hold, and no other value does. A signal has a
\* value if and only if the witness has an element for it.
ValuesAreWitness ==
    pc = "ok" /\ mapped = Len(symbols) =>
        LET known == {i \in DOMAIN symbols : symbols[i].index < Len(witness)}
        IN /\ DOMAIN values = {Name(symbols[i].path) : i \in known}
           /\ \A i \in known :
                LET v == values[Name(symbols[i].path)]
                    e == witness[symbols[i].index + 1]
                IN v = e \/ (v = 0 /\ e > I64Max)

\* The tree has every signal that has a value, in the node of its component's name, as
\* often as the .sym file has it there: the elements of an array of components share a
\* node, and none of their signals is lost.
TreeHasSignals ==
    pc = "ok" /\ mapped = Len(symbols) /\ inserted = Len(listed) =>
        /\ Cardinality(Flat) = Len(listed)
        /\ \A i \in DOMAIN listed :
              LET node == Container(listed[i].path)
                  Like(leaf, value) == leaf = Last(listed[i].path) /\ value = listed[i].value
              IN Cardinality({x \in Flat : x.node = node /\ Like(x.signal.leaf, x.signal.value)})
                 = Cardinality({j \in DOMAIN listed :
                       /\ Container(listed[j].path) = node
                       /\ Like(Last(listed[j].path), listed[j].value)})
=============================================================================
