------------------------ MODULE MCWitnessCalculator ------------------------
(***************************************************************************)
(* Circuits with up to three inputs, of which the scan of the source may   *)
(* miss one, invent one or get a size wrong, and with every run of up to   *)
(* two statements: logs of an empty message, of messages and of values,    *)
(* failing asserts and traps.                                              *)
(***************************************************************************)
EXTENDS WitnessCalculator

CONSTANTS MaxStatements, MaxParts   \* bounds on a run and on a log()

MCLimbs == 0 .. 1
MCN32 == 2
MCPrime == <<1, 1>>

Names == {"a", "b", "c"}
Sizes(names, ns) == UNION {[s -> ns] : s \in SUBSET names}
SeqsUpTo(n, S) == UNION {[1 .. k -> S] : k \in 0 .. n}

\* A value is that of an input, or one the circuit computes.
PartChoices == {EmptyMessage, Message("m"), Value(<<0, 1>>)}
StatementChoices ==
    {LogStatement(ps) : ps \in SeqsUpTo(MaxParts, PartChoices)} \cup {AssertFails, Trap}

\* Any run, where the scan is right; any two sets of inputs, where nothing or
\* one empty log() runs.  An array may be declared with no elements; the scan
\* gives every input at least one value.
MCCircuits ==
    {[declared |-> d, asked |-> d, run |-> r] :
        d \in Sizes({"a", "b"}, 1 .. 2), r \in SeqsUpTo(MaxStatements, StatementChoices)}
    \cup {[declared |-> d, asked |-> a, run |-> r] :
        d \in Sizes(Names, 0 .. 2), a \in Sizes(Names, 1 .. 2),
        r \in SeqsUpTo(1, {LogStatement(<<>>)})}
MCDeclared(c) == c.declared
MCAsked(c) == c.asked
MCStatements(c, ins) == c.run

\* The constant one, two outputs and the inputs; the first output is assigned
\* before any statement, the second after the first.
MCWitnessSize(c) == 3 + Cardinality(Slots(c.declared))
MCWitness(c, ins) ==
    [i \in 1 .. MCWitnessSize(c) |->
        IF i = 1 THEN <<1>> ELSE IF i \in 2 .. 3 THEN <<0, 1>> ELSE <<>>]
MCAssignedAfter(c, ins) == [i \in 1 .. MCWitnessSize(c) |-> IF i = 3 THEN 1 ELSE 0]
=============================================================================
