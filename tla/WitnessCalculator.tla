------------------------- MODULE WitnessCalculator -------------------------
(***************************************************************************)
(* tracer.rs calculate_witness: the recorder drives the WASM program that  *)
(* circom generated.  It sets the inputs one value at a time through a     *)
(* shared memory that holds one field element; the call that sets the last *)
(* one runs the circuit, which calls back into the recorder for every part *)
(* of a log(); then the recorder reads the witness through the same        *)
(* memory.  The inputs are set in the order of a hash map: any order.      *)
(* A failing assert or `===` ends the run, not the calculation: the        *)
(* program reports it to exceptionHandler, which is linked as a no-op.     *)
(*                                                                         *)
(* The WASM program is external.  It is modelled by what calculate_witness *)
(* and its callbacks rely on: getInputSignalSize, setInputSignal (which    *)
(* runs the circuit when nothing is unset), getWitness and the callbacks.  *)
(*                                                                         *)
(* A field element of the recorder (a BigUint) is its limbs, the least     *)
(* significant first, without leading zeros; in the shared memory it has   *)
(* N32 limbs.                                                              *)
(***************************************************************************)
EXTENDS Naturals, Sequences, FiniteSets

CONSTANTS
    Circuits,         \* the compiled circuits
    Declared(_),      \* the sizes of a circuit's inputs, by name
    Asked(_),         \* those build_witness_inputs gives them
    WitnessSize(_),   \* getWitnessSize
    Witness(_, _),    \* the witness of a circuit under its inputs, all assigned
    Statements(_, _), \* its log()s and failing asserts, and a trap, in the order of a run
    AssignedAfter(_, _),   \* how many of them come before an element is assigned
    Limbs,            \* the values of a limb: 0 .. 2^32 - 1 in the code
    N32,              \* limbs of a field element in the shared memory
    Prime             \* the circuit's prime

Arrays == [1 .. N32 -> Limbs]
Elements == {v \in UNION {[1 .. n -> Limbs] : n \in 0 .. N32} : Len(v) > 0 => v[Len(v)] # 0}
Zero == <<>>   \* every input is given the value "0"

\* to_array32_le: all N32 limbs, those above the value's zero.
to_array32_le(v) == [j \in 1 .. N32 |-> IF j <= Len(v) THEN v[j] ELSE 0]

\* The values a circuit's inputs take, one slot each, and those it is given.
Slots(sizes) == UNION {{n} \X (0 .. sizes[n] - 1) : n \in DOMAIN sizes}
ZeroInputs(c) == [s \in Slots(Declared(c)) |-> to_array32_le(Zero)]

\* A log() has parts: messages, and values it copies into the shared memory.
Message(t) == [k |-> "message", text |-> t]
Value(v) == [k |-> "value", value |-> v]
EmptyMessage == Message("")
LogStatement(parts) == [k |-> "log", parts |-> parts]
AssertFails == [k |-> "assert"]   \* an assert or `===` that does not hold
Trap == [k |-> "trap"]            \* the WASM engine stops: the stack is used up, say

ASSUME CircuitsAssumption ==
    /\ N32 \in Nat \ {0} /\ 0 \in Limbs /\ Prime \in Elements
    /\ \A c \in Circuits :
          /\ IsFiniteSet(DOMAIN Declared(c)) /\ IsFiniteSet(DOMAIN Asked(c))
          /\ \A n \in DOMAIN Declared(c) : Declared(c)[n] \in Nat
          /\ \A n \in DOMAIN Asked(c) : Asked(c)[n] \in Nat \ {0}
          /\ WitnessSize(c) \in Nat
          /\ Witness(c, ZeroInputs(c)) \in [1 .. WitnessSize(c) -> Elements]
          /\ AssignedAfter(c, ZeroInputs(c)) \in [1 .. WitnessSize(c) -> Nat]
          /\ Len(Statements(c, ZeroInputs(c))) \in Nat
          /\ \A i \in 1 .. Len(Statements(c, ZeroInputs(c))) :
                LET s == Statements(c, ZeroInputs(c))[i]
                IN  /\ s.k \in {"log", "assert", "trap"}
                    /\ s.k = "log" =>
                          /\ Len(s.parts) \in Nat /\ DOMAIN s.parts = 1 .. Len(s.parts)
                          /\ \A j \in 1 .. Len(s.parts) :
                                \/ s.parts[j].k = "message"
                                \/ /\ s.parts[j] = Value(s.parts[j].value)
                                   /\ s.parts[j].value \in Elements

VARIABLES
    circuit,
    pc,        \* the stage calculate_witness is in
    left,      \* the inputs not yet taken from the hash map
    cur,       \* the input being set, <<name, next index>>, or <<>>
    count,     \* input_counter
    shared,    \* the shared memory
    stored,    \* the inputs set in the WASM program: slots to arrays
    stmt,      \* the statement its run is at: 0 before the run
    part,      \* the part of that log() to be printed next
    stopped,   \* whether a failing assert has ended the run there
    log_buffer, logs,   \* WitnessRuntime
    witness,   \* the witness read so far
    result     \* "none", "ok" or "err"

host    == <<left, cur, count, witness>>
program == <<stored, stmt, part, stopped>>
runtime == <<log_buffer, logs>>
vars == <<circuit, pc, host, shared, program, runtime, result>>

---------------------------------------------------------------------------
\* The shared memory.

\* from_array32_le: without the zero limbs on top.
from_array32_le(a) == CHOOSE v \in Elements : to_array32_le(v) = a

\* Mutant of WriteShared: only the limbs the value has are written.
WriteSignificant(v) == [j \in 1 .. N32 |-> IF j <= Len(v) THEN v[j] ELSE shared[j]]

\* The loop of writeSharedRWMemory calls before a setInputSignal.
WriteShared(v) == to_array32_le(v)

---------------------------------------------------------------------------
\* The run of the circuit.

Script == Statements(circuit, stored)
Running == stmt > 0 /\ stmt <= Len(Script) /\ ~stopped

\* The run starts when every input of the circuit is set.
Started(sto) == IF DOMAIN sto = Slots(Declared(circuit)) THEN 1 ELSE 0

Init ==
    /\ circuit \in Circuits
    /\ pc = "load"
    /\ left = DOMAIN Asked(circuit)
    /\ cur = <<>> /\ count = 0 /\ witness = <<>>
    /\ shared = to_array32_le(Zero)
    /\ stored = [s \in {} |-> Zero] /\ stmt = 0 /\ part = 1
    /\ stopped = FALSE
    /\ log_buffer = <<>> /\ logs = <<>>
    /\ result = "none"

\* A `?`: the error is returned, and what was logged is dropped with the store.
Fail ==
    /\ result' = "err"
    /\ UNCHANGED <<circuit, pc, host, shared, program, runtime>>

Waiting(stage) == pc = stage /\ result = "none" /\ ~Running

\* Read the file, compile and link the module, look up its exports.
Load ==
    /\ Waiting("load")
    /\ \/ Fail
       \/ /\ pc' = "init"
          /\ UNCHANGED <<circuit, host, shared, program, runtime, result>>

\* getRawPrime leaves the prime in the shared memory; init(0) runs a circuit
\* without inputs.
InitCircuit ==
    /\ Waiting("init")
    /\ shared' = to_array32_le(Prime)
    /\ stmt' = Started(stored)
    /\ pc' = "inputs"
    /\ UNCHANGED <<circuit, host, stored, part, stopped, runtime, result>>

\* Mutant of ChooseInput: the size is not compared.
ChooseAnySize ==
    /\ Waiting("inputs") /\ cur = <<>>
    /\ \E n \in left : cur' = <<n, 0>> /\ left' = left \ {n}
    /\ UNCHANGED <<circuit, pc, count, witness, shared, program, runtime, result>>

\* The next input of the hash map.  getInputSignalSize gives a name the
\* circuit does not have a size no input has.
ChooseInput ==
    /\ Waiting("inputs") /\ cur = <<>>
    /\ \E n \in left :
          IF n \in DOMAIN Declared(circuit) /\ Declared(circuit)[n] = Asked(circuit)[n]
          THEN /\ cur' = <<n, 0>> /\ left' = left \ {n}
               /\ UNCHANGED <<circuit, pc, count, witness, shared, program, runtime, result>>
          ELSE Fail

\* Mutant of SetInput: the index of the input stays.
SetInputAgain ==
    /\ Waiting("inputs") /\ cur # <<>>
    /\ shared' = WriteShared(Zero)
    /\ stored' = [s \in DOMAIN stored \cup {cur} |-> IF s = cur THEN shared' ELSE stored[s]]
    /\ UNCHANGED <<circuit, pc, left, cur, count, witness, stmt, part, stopped, runtime, result>>

\* Write one value to the shared memory; setInputSignal stores it and, when it
\* was the last, runs the circuit before it returns.
SetInput ==
    /\ Waiting("inputs") /\ cur # <<>>
    /\ shared' = WriteShared(Zero)
    /\ stored' = [s \in DOMAIN stored \cup {cur} |-> IF s = cur THEN shared' ELSE stored[s]]
    /\ stmt' = Started(stored')
    /\ count' = count + 1
    /\ cur' = IF cur[2] + 1 = Asked(circuit)[cur[1]] THEN <<>> ELSE <<cur[1], cur[2] + 1>>
    /\ UNCHANGED <<circuit, pc, left, witness, part, stopped, runtime, result>>

\* append_log_part: with a space between parts, but none before the first,
\* and a buffer of one empty part is an empty buffer.
Appended(buffer, p) ==
    IF buffer = <<>> /\ p = EmptyMessage THEN <<>> ELSE Append(buffer, p)

\* A part of a log(): writeBufferMessage, or showSharedRWMemory with the value
\* in the shared memory.
LogPart ==
    /\ result = "none" /\ Running
    /\ Script[stmt].k = "log" /\ part <= Len(Script[stmt].parts)
    /\ LET p == Script[stmt].parts[part]
       IN  IF p.k = "message"
           THEN log_buffer' = Appended(log_buffer, p) /\ UNCHANGED shared
           ELSE /\ shared' = to_array32_le(p.value)
                /\ log_buffer' = Appended(log_buffer, Value(from_array32_le(shared')))
    /\ part' = part + 1
    /\ UNCHANGED <<circuit, pc, host, stored, stmt, stopped, logs, result>>

\* Mutant of Flush: the buffer is copied, not taken.
FlushCopy ==
    /\ logs' = IF log_buffer = <<>> THEN logs ELSE Append(logs, log_buffer)
    /\ UNCHANGED log_buffer

\* The buffer becomes a line, unless it is empty.
Flush ==
    /\ logs' = IF log_buffer = <<>> THEN logs ELSE Append(logs, log_buffer)
    /\ log_buffer' = <<>>

\* writeBufferMessage with the newline that ends every log().
LogEnds ==
    /\ result = "none" /\ Running
    /\ Script[stmt].k = "log" /\ part = Len(Script[stmt].parts) + 1
    /\ Flush
    /\ stmt' = stmt + 1 /\ part' = 1
    /\ UNCHANGED <<circuit, pc, host, shared, stored, stopped, result>>

\* A failing assert: printErrorMessage reads its message and drops it, the run
\* returns a code, and exceptionHandler, which is to throw, does nothing with it:
\* the call that ran the circuit returns as after a complete run.
AssertStops ==
    /\ result = "none" /\ Running
    /\ Script[stmt].k = "assert"
    /\ stopped' = TRUE
    /\ UNCHANGED <<circuit, pc, host, shared, stored, stmt, part, runtime, result>>

\* A trap: the call that runs the circuit returns an error.
RunTraps ==
    /\ result = "none" /\ Running
    /\ Script[stmt].k = "trap"
    /\ Fail

\* Mutants of EndInputs: the count is not compared, or must be exceeded.
EndInputsUnchecked ==
    /\ Waiting("inputs") /\ cur = <<>> /\ left = {}
    /\ pc' = "witness"
    /\ UNCHANGED <<circuit, host, shared, program, runtime, result>>

EndInputsExceeded ==
    /\ Waiting("inputs") /\ cur = <<>> /\ left = {}
    /\ IF count <= Cardinality(Slots(Declared(circuit)))
       THEN Fail
       ELSE pc' = "witness" /\ UNCHANGED <<circuit, host, shared, program, runtime, result>>

\* "Not all inputs set".
EndInputs ==
    /\ Waiting("inputs") /\ cur = <<>> /\ left = {}
    /\ IF count < Cardinality(Slots(Declared(circuit)))
       THEN Fail
       ELSE pc' = "witness" /\ UNCHANGED <<circuit, host, shared, program, runtime, result>>

\* getWitness(i) puts an element in the shared memory: 0 until it is assigned.
WitnessAt(i) ==
    IF AssignedAfter(circuit, stored)[i] < stmt THEN Witness(circuit, stored)[i] ELSE Zero

ReadWitness ==
    /\ Waiting("witness") /\ Len(witness) < WitnessSize(circuit)
    /\ shared' = to_array32_le(WitnessAt(Len(witness) + 1))
    /\ witness' = Append(witness, from_array32_le(shared'))
    /\ UNCHANGED <<circuit, pc, left, cur, count, program, runtime, result>>

\* What is left in the buffer becomes a line.
Done ==
    /\ Waiting("witness") /\ Len(witness) = WitnessSize(circuit)
    /\ Flush
    /\ result' = "ok"
    /\ UNCHANGED <<circuit, pc, host, shared, program>>

Recorder == Load \/ InitCircuit \/ ChooseInput \/ SetInput \/ EndInputs \/ ReadWitness \/ Done
Circuit  == LogPart \/ LogEnds \/ AssertStops \/ RunTraps
Next == Recorder \/ Circuit

\* One thread: the recorder runs, or waits for the call that runs the circuit.
Spec == Init /\ [][Next]_vars /\ WF_vars(Next)

---------------------------------------------------------------------------
\* Properties.

TypeOK ==
    /\ pc \in {"load", "init", "inputs", "witness"}
    /\ left \subseteq DOMAIN Asked(circuit)
    /\ cur \in {<<>>} \cup Slots(Asked(circuit))
    /\ count \in 0 .. Cardinality(Slots(Declared(circuit)))
    /\ shared \in Arrays
    /\ DOMAIN stored \subseteq Slots(Declared(circuit))
    /\ stmt \in Nat /\ part \in Nat /\ stopped \in BOOLEAN
    /\ witness \in Seq(Elements)
    /\ result \in {"none", "ok", "err"}

\* Every input the circuit was given is the zero the recorder asked for, in
\* all its limbs: nothing the memory held before (the prime, a logged value)
\* shows through.
StoredIsAsked == \A s \in DOMAIN stored : stored[s] = to_array32_le(Zero)

\* How many statements the circuit executes: those before the first that ends its
\* run, or all.
Executed == Cardinality({i \in 1 .. Len(Script) : \A j \in 1 .. i : Script[j].k = "log"})

\* A calculation succeeds only after the circuit was run with all its inputs, and
\* as far as it goes: no failed call is passed over but that of a failing assert.
\* Its witness is then that of the run: the elements assigned before the failing
\* assert have their values, those behind it are 0.  The counter of values,
\* compared once at the end, and the sizes, compared input by input, are enough to
\* tell that no input is missing, whatever the order they were set in.
OkIsOfTheRun ==
    result = "ok" =>
        /\ DOMAIN stored = Slots(Declared(circuit))
        /\ \/ Executed = Len(Script)
           \/ Script[Executed + 1].k = "assert"
        /\ witness = [i \in 1 .. WitnessSize(circuit) |->
                        IF AssignedAfter(circuit, stored)[i] <= Executed
                        THEN Witness(circuit, stored)[i] ELSE Zero]

\* The line of a log(): its parts, without empty messages in front.
LineOf(parts) ==
    LET shown == {i \in DOMAIN parts : parts[i] # EmptyMessage}
        first == IF shown = {} THEN Len(parts) + 1
                 ELSE CHOOSE i \in shown : \A j \in shown : i <= j
    IN  [i \in 1 .. Len(parts) + 1 - first |-> parts[first + i - 1]]

\* The statements up to the n-th that print something.
Printing(n) == {i \in 1 .. n : LineOf(Script[i].parts) # <<>>}

\* A successful calculation returns one line per log() that was executed and
\* prints something, in the order of the run, each with its own parts only: the
\* line of a log() is in the place of its rank among those that print.
LogsArePrinted ==
    result = "ok" =>
        /\ Len(logs) = Cardinality(Printing(Executed))
        /\ \A i \in Printing(Executed) :
              logs[Cardinality(Printing(i))] = LineOf(Script[i].parts)

\* When the source scan gives every input its declared size, the calculation
\* fails only if the program cannot be loaded or traps: never for an assert.
ErrorsHaveCause ==
    result = "err" =>
        \/ pc = "load"
        \/ Asked(circuit) # Declared(circuit)
        \/ Running /\ Script[stmt].k = "trap"

\* A constraint that does not hold aborts the witness calculator (the notes on
\* errors in tests/test_tracer.rs, and the protocol of circom's own calculator that
\* calculate_witness is to implement): success means that every statement was executed.
\* What the code does refutes it, exceptionHandler being a no-op.
ConstraintFailureAborts == result = "ok" => Executed = Len(Script)

\* The calculation ends.
Termination == <>(result # "none")
=============================================================================
