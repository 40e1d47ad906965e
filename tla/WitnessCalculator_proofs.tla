---------------------- MODULE WitnessCalculator_proofs ----------------------
(***************************************************************************)
(* Whatever the circuits are, the values the recorder writes to and reads  *)
(* from the shared memory are its own; a calculation succeeds only after   *)
(* a run with all inputs, as far as the first assert that fails, with that *)
(* run's witness and a line for each of its log()s that prints; and fails  *)
(* only for a cause, which a failing assert is not.                        *)
(***************************************************************************)
EXTENDS WitnessCalculator, FunctionTheorems, FiniteSetTheorems, TLAPS

---------------------------------------------------------------------------
\* Values.

\* A value written to the shared memory is read back unchanged: an array has
\* one value at most.
LEMMA RoundTrip ==
    ASSUME NEW v \in Elements
    PROVE  /\ to_array32_le(v) \in Arrays
           /\ from_array32_le(to_array32_le(v)) = v
<1>0. N32 \in Nat \ {0} /\ 0 \in Limbs
  BY CircuitsAssumption
<1> USE <1>0
<1>1. \A u \in Elements : /\ Len(u) \in 0 .. N32 /\ u \in Seq(Limbs)
                          /\ Len(u) > 0 => u[Len(u)] # 0
                          /\ u = [i \in 1 .. Len(u) |-> u[i]]
  <2> TAKE u \in Elements
  <2>1. PICK n \in 0 .. N32 : u \in [1 .. n -> Limbs]
    BY DEF Elements
  <2>2. u \in Seq(Limbs) /\ Len(u) = n
    BY <2>1
  <2> QED BY <2>1, <2>2 DEF Elements
<1>2. to_array32_le(v) \in Arrays
  BY <1>1 DEF to_array32_le, Arrays
<1>3. ASSUME NEW u \in Elements, to_array32_le(u) = to_array32_le(v)
      PROVE  u = v
  <2>1. \A j \in 1 .. N32 : (IF j <= Len(u) THEN u[j] ELSE 0) = (IF j <= Len(v) THEN v[j] ELSE 0)
    BY <1>3 DEF to_array32_le
  <2>2. Len(u) = Len(v)
    <3>1. ~(Len(u) < Len(v))
      BY <1>1, <2>1
    <3>2. ~(Len(v) < Len(u))
      BY <1>1, <2>1
    <3> QED BY <1>1, <3>1, <3>2
  <2>3. \A j \in 1 .. Len(u) : u[j] = v[j]
    BY <1>1, <2>1, <2>2
  <2> QED BY <1>1, <2>2, <2>3
<1> QED BY <1>2, <1>3 DEF from_array32_le

LEMMA ZeroIsElement == Zero \in Elements /\ to_array32_le(Zero) \in Arrays
<1>1. Zero \in Elements
  <2>1. 0 \in 0 .. N32 /\ Zero \in [1 .. 0 -> Limbs] /\ Len(Zero) = 0
    <3>1. N32 \in Nat
      BY CircuitsAssumption
    <3> QED BY <3>1 DEF Zero
  <2> QED BY <2>1 DEF Elements
<1> QED BY <1>1, RoundTrip

---------------------------------------------------------------------------
\* Slots.

LEMMA SlotsAre ==
    ASSUME NEW f
    PROVE  \A s : s \in Slots(f) <=> \E n \in DOMAIN f : \E i \in 0 .. f[n] - 1 : s = <<n, i>>
BY DEF Slots

\* Finitely many inputs have finitely many slots.
LEMMA SlotsFinite ==
    ASSUME NEW f, IsFiniteSet(DOMAIN f), \A n \in DOMAIN f : f[n] \in Nat
    PROVE  IsFiniteSet(Slots(f))
<1> DEFINE D == DOMAIN f
           SlotsOf == [n \in D |-> {n} \X (0 .. f[n] - 1)]
           R == {SlotsOf[n] : n \in D}
<1>1. SlotsOf \in Surjection(D, R)
  <2>1. SlotsOf \in [D -> R]
    OBVIOUS
  <2>2. \A t \in R : \E n \in D : SlotsOf[n] = t
    OBVIOUS
  <2> QED BY <2>1, <2>2, Zenon DEF Surjection
<1>2. IsFiniteSet(R)
  <2> HIDE DEF SlotsOf, R, D
  <2>1. IsFiniteSet(D)
    BY DEF D
  <2> QED BY <1>1, <2>1, FS_Surjection
<1>3. ASSUME NEW t \in R PROVE IsFiniteSet(t)
  <2>1. PICK n \in D : t = {n} \X (0 .. f[n] - 1)
    OBVIOUS
  <2>2. f[n] \in Nat /\ IsFiniteSet({n}) /\ IsFiniteSet(0 .. f[n] - 1)
    <3>1. f[n] \in Nat /\ f[n] - 1 \in Int /\ 0 \in Int
      OBVIOUS
    <3> QED BY <3>1, FS_Interval, FS_Singleton
  <2> QED BY <2>1, <2>2, FS_Product
<1>4. Slots(f) = UNION R
  BY DEF Slots
<1>5. IsFiniteSet(UNION R)
  <2> HIDE DEF R
  <2> QED BY <1>2, <1>3, FS_UNION
<1> QED BY <1>4, <1>5

---------------------------------------------------------------------------
\* The inductive invariant.

\* Where the calculation is in its inputs: those taken from the hash map have
\* the sizes the circuit declares, and the next value is one of theirs.
InputsOK ==
    /\ left \subseteq DOMAIN Asked(circuit)
    /\ cur # <<>> => \E n \in DOMAIN Asked(circuit) \ left :
                        \E i \in 0 .. Asked(circuit)[n] - 1 : cur = <<n, i>>
    /\ \A n \in DOMAIN Asked(circuit) \ left :
          n \in DOMAIN Declared(circuit) /\ Declared(circuit)[n] = Asked(circuit)[n]
    /\ pc \in {"load", "init"} => left = DOMAIN Asked(circuit) /\ cur = <<>>

\* A slot is set in the program exactly when the recorder is past it.
IsPast(n, i) == n \notin left /\ (cur # <<>> /\ cur[1] = n => i < cur[2])
StoredOK ==
    /\ DOMAIN stored \subseteq Slots(Asked(circuit))
    /\ \A n \in DOMAIN Asked(circuit) : \A i \in 0 .. Asked(circuit)[n] - 1 :
          <<n, i>> \in DOMAIN stored <=> IsPast(n, i)
    /\ stored = [s \in DOMAIN stored |-> to_array32_le(Zero)]
    /\ IsFiniteSet(DOMAIN stored) /\ count = Cardinality(DOMAIN stored)

\* The program has started when all its inputs are set, and not before; what is
\* behind it are log()s, and it stops at an assert.
Complete == DOMAIN stored = Slots(Declared(circuit))
RunOK ==
    /\ stmt \in Nat /\ part \in Nat /\ part > 0 /\ stopped \in BOOLEAN
    /\ stmt > 0 => Complete /\ stmt <= Len(Script) + 1 /\ pc \in {"inputs", "witness"}
    /\ Complete /\ pc \in {"inputs", "witness"} => stmt > 0
    /\ \A j \in 1 .. stmt - 1 : Script[j].k = "log"
    /\ stopped => stmt \in 1 .. Len(Script) /\ Script[stmt].k = "assert"

\* The witness read so far is a prefix of the run's, which is over.
WitnessOK ==
    /\ pc = "witness" => Complete /\ ~Running
    /\ witness \in Seq(Elements) /\ Len(witness) <= WitnessSize(circuit)
    /\ pc # "witness" => witness = <<>>
    /\ \A i \in 1 .. Len(witness) : witness[i] = WitnessAt(i)

ResultOK ==
    /\ result \in {"none", "ok", "err"}
    /\ result = "ok" => pc = "witness" /\ ~Running /\ Len(witness) = WitnessSize(circuit)
    /\ ErrorsHaveCause

IInv ==
    /\ circuit \in Circuits
    /\ pc \in {"load", "init", "inputs", "witness"}
    /\ shared \in Arrays
    /\ InputsOK /\ StoredOK /\ RunOK /\ WitnessOK /\ ResultOK

\* What is set is declared; it is all that was asked once the hash map is
\* used up; and when all is set, it is the zero inputs.
LEMMA StoredFacts ==
    ASSUME IInv
    PROVE  /\ DOMAIN stored \subseteq Slots(Declared(circuit))
           /\ IsFiniteSet(Slots(Declared(circuit)))
           /\ left = {} /\ cur = <<>> => DOMAIN stored = Slots(Asked(circuit))
           /\ Complete => stored = ZeroInputs(circuit)
           /\ count \in 0 .. Cardinality(Slots(Declared(circuit)))
<1> USE DEF IInv
<1>1. DOMAIN stored \subseteq Slots(Declared(circuit))
  BY SlotsAre DEF InputsOK, StoredOK, IsPast
<1>2. IsFiniteSet(Slots(Declared(circuit)))
  BY CircuitsAssumption, SlotsFinite
<1>3. ASSUME left = {}, cur = <<>> PROVE DOMAIN stored = Slots(Asked(circuit))
  <2>1. \A n \in DOMAIN Asked(circuit) : \A i \in 0 .. Asked(circuit)[n] - 1 : <<n, i>> \in DOMAIN stored
    BY <1>3 DEF StoredOK, IsPast
  <2>2. Slots(Asked(circuit)) \subseteq DOMAIN stored
    BY <2>1, SlotsAre
  <2> QED BY <2>2 DEF StoredOK
<1>4. Complete => stored = ZeroInputs(circuit)
  BY DEF StoredOK, Complete, ZeroInputs
<1>5. count \in Nat /\ count <= Cardinality(Slots(Declared(circuit)))
        /\ Cardinality(Slots(Declared(circuit))) \in Nat
  BY <1>1, <1>2, FS_Subset, FS_CardinalityType DEF StoredOK
<1> QED BY <1>1, <1>2, <1>3, <1>4, <1>5

\* Before anything is set.
LEMMA InvInit == Init => IInv
<1> SUFFICES ASSUME Init PROVE IInv
  OBVIOUS
<1> USE CircuitsAssumption DEF Init
<1>1. shared \in Arrays
  BY ZeroIsElement
<1>2. InputsOK
  BY DEF InputsOK
<1>3. StoredOK
  <2>1. DOMAIN stored = {}
    OBVIOUS
  <2> QED BY <2>1, FS_EmptySet DEF StoredOK, IsPast
<1>4. RunOK
  <2>1. stmt = 0 /\ part = 1 /\ stopped = FALSE /\ pc = "load"
    OBVIOUS
  <2> HIDE CircuitsAssumption DEF Init
  <2>2. \A j \in 1 .. stmt - 1 : Script[j].k = "log"
    BY <2>1
  <2>3. stopped \in BOOLEAN /\ ~stopped
    BY <2>1, Zenon
  <2>4. stmt \in Nat /\ part \in Nat /\ part > 0 /\ ~(stmt > 0) /\ pc \notin {"inputs", "witness"}
    BY <2>1
  <2> QED BY <2>2, <2>3, <2>4 DEF RunOK
<1>5. WitnessOK
  BY DEF WitnessOK
<1>6. ResultOK
  BY DEF ResultOK, ErrorsHaveCause
<1> QED BY <1>1, <1>2, <1>3, <1>4, <1>5, <1>6 DEF IInv

\* A failure leaves everything as it is; it must have a cause.
LEMMA FailKeeps ==
    ASSUME IInv, Fail,
           \/ pc = "load"
           \/ Asked(circuit) # Declared(circuit)
           \/ Running /\ Script[stmt].k = "trap"
    PROVE  IInv'
<1> USE DEF Fail, host, program, runtime, IInv
<1>1. InputsOK' /\ StoredOK' /\ RunOK' /\ WitnessOK'
  BY DEF InputsOK, StoredOK, IsPast, RunOK, Complete, WitnessOK, WitnessAt, Script, Running
<1>2. ResultOK'
  BY DEF ResultOK, ErrorsHaveCause, Running, Script
<1> QED BY <1>1, <1>2

\* Setting one value: its slot was not set before, and is the only one added.
LEMMA SetInputKeeps ==
    ASSUME IInv, SetInput
    PROVE  IInv'
<1> USE CircuitsAssumption DEF IInv
<1> DEFINE A == Asked(circuit)
<1>1. PICK n \in DOMAIN A \ left, i \in Nat : i \in 0 .. A[n] - 1 /\ cur = <<n, i>>
  BY DEF SetInput, InputsOK
<1>2. A[n] \in Nat /\ cur # <<>> /\ cur[1] = n /\ cur[2] = i
  BY <1>1
<1>3. /\ circuit' = circuit /\ pc' = pc /\ left' = left /\ witness' = witness
      /\ part' = part /\ stopped' = stopped /\ result' = result /\ result = "none"
      /\ pc = "inputs"
      /\ ~Running /\ stmt' = Started(stored')
      /\ shared' = to_array32_le(Zero) /\ count' = count + 1
  BY DEF SetInput, Waiting, WriteShared, host, program
<1>4. stored' = [s \in DOMAIN stored \cup {cur} |-> IF s = cur THEN to_array32_le(Zero) ELSE stored[s]]
  BY <1>3 DEF SetInput
<1>5. DOMAIN stored' = DOMAIN stored \cup {cur}
  BY <1>4
<1>6. cur \notin DOMAIN stored
  BY <1>1, <1>2 DEF StoredOK, IsPast
<1>7. cur' = IF i + 1 = A[n] THEN <<>> ELSE <<n, i + 1>>
  BY <1>2 DEF SetInput
<1>8. shared' \in Arrays
  BY <1>3, ZeroIsElement
<1>9. InputsOK'
  <2>1. cur' # <<>> => i + 1 \in 0 .. A[n] - 1 /\ cur' = <<n, i + 1>>
    BY <1>1, <1>2, <1>7
  <2> QED BY <1>1, <1>3, <2>1 DEF InputsOK
<1>10. StoredOK'
  <2>1. DOMAIN stored' \subseteq Slots(A)
    BY <1>1, <1>5, SlotsAre DEF StoredOK
  <2>2. ASSUME NEW m \in DOMAIN A, NEW j \in 0 .. A[m] - 1
        PROVE  <<m, j>> \in DOMAIN stored' <=> IsPast(m, j)'
    <3>1. <<m, j>> \in DOMAIN stored' <=> IsPast(m, j) \/ (m = n /\ j = i)
      BY <1>1, <1>5 DEF StoredOK
    <3>2. IsPast(m, j)' <=> IsPast(m, j) \/ (m = n /\ j = i)
      <4>1. CASE m # n
        BY <1>2, <1>3, <1>7, <4>1 DEF IsPast
      <4>2. CASE m = n
        <5>1. A[m] \in Nat /\ j \in Int /\ i \in Int /\ j < A[n] /\ n \notin left
          BY <1>1, <4>2
        <5> QED BY <1>2, <1>3, <1>7, <4>2, <5>1 DEF IsPast
      <4> QED BY <4>1, <4>2
    <3> QED BY <3>1, <3>2
  <2>3. stored' = [s \in DOMAIN stored' |-> to_array32_le(Zero)]
    BY <1>4, <1>5 DEF StoredOK
  <2>4. IsFiniteSet(DOMAIN stored') /\ count' = Cardinality(DOMAIN stored')
    <3>1. IsFiniteSet(DOMAIN stored) /\ count = Cardinality(DOMAIN stored)
      BY DEF StoredOK
    <3>2. /\ IsFiniteSet(DOMAIN stored \cup {cur})
          /\ Cardinality(DOMAIN stored \cup {cur}) = Cardinality(DOMAIN stored) + 1
      BY <1>6, <3>1, FS_AddElement
    <3> QED BY <1>3, <1>5, <3>1, <3>2
  <2> QED BY <1>3, <2>1, <2>2, <2>3, <2>4 DEF StoredOK
<1>11. stmt = 0
  <2>1. cur \in Slots(Declared(circuit))
    BY <1>1, SlotsAre DEF InputsOK
  <2> QED BY <1>6, <2>1 DEF RunOK, Complete
<1>12. RunOK'
  <2>1. stmt' = IF Complete' THEN 1 ELSE 0
    BY <1>3 DEF Started, Complete
  <2>2. ASSUME Complete' PROVE 1 <= Len(Script') + 1
    <3>1. stored' = ZeroInputs(circuit)
      BY <1>3, <1>10, <2>2 DEF StoredOK, Complete, ZeroInputs
    <3> QED BY <1>3, <3>1 DEF Script
  <2>3. stopped = FALSE
    BY <1>11 DEF RunOK
  <2> QED BY <1>3, <2>1, <2>2, <2>3 DEF RunOK
<1>13. WitnessOK'
  BY <1>3 DEF WitnessOK
<1>14. ResultOK'
  BY <1>3 DEF ResultOK, ErrorsHaveCause
<1> QED BY <1>3, <1>8, <1>9, <1>10, <1>12, <1>13, <1>14

\* Every step keeps the invariant.
LEMMA InvStep == IInv /\ [Next]_vars => IInv'
<1> SUFFICES ASSUME IInv, [Next]_vars PROVE IInv'
  OBVIOUS
<1> USE DEF IInv
<1>1. CASE Load
  <2>1. CASE Fail
    BY <1>1, <2>1, FailKeeps DEF Load, Waiting
  <2>2. CASE ~Fail
    <3>1. /\ pc = "load" /\ pc' = "init" /\ result = "none"
          /\ UNCHANGED <<circuit, left, cur, count, witness, shared, stored, stmt, part, stopped,
                         result>>
      BY <1>1, <2>2 DEF Load, Waiting, host, program, runtime
    <3> QED BY <3>1 DEF InputsOK, StoredOK, IsPast, RunOK, Complete, Script, Running, WitnessOK,
       ResultOK, ErrorsHaveCause
  <2> QED BY <2>1, <2>2
<1>2. CASE InitCircuit
  <2>1. /\ pc = "init" /\ pc' = "inputs" /\ result = "none" /\ stmt' = Started(stored)
        /\ shared' = to_array32_le(Prime)
        /\ UNCHANGED <<circuit, left, cur, count, witness, stored, part, stopped, result>>
    BY <1>2 DEF InitCircuit, Waiting, host, runtime
  <2>2. shared' \in Arrays
    BY <2>1, RoundTrip, CircuitsAssumption
  <2>3. InputsOK' /\ StoredOK' /\ WitnessOK' /\ ResultOK'
    BY <2>1 DEF InputsOK, StoredOK, IsPast, Complete, WitnessOK, ResultOK, ErrorsHaveCause
  <2>4. RunOK'
    <3>1. stmt' = IF Complete THEN 1 ELSE 0
      BY <2>1 DEF Started, Complete
    <3>2. ASSUME Complete PROVE 1 <= Len(Script) + 1
      BY <3>2, StoredFacts, CircuitsAssumption DEF Script
    <3>3. stmt = 0 /\ stopped = FALSE
      BY <2>1 DEF RunOK
    <3> QED BY <2>1, <3>1, <3>2, <3>3 DEF RunOK, Complete, Script
  <2> QED BY <2>1, <2>2, <2>3, <2>4
<1>3. CASE ChooseInput
  <2>1. PICK n \in left :
          IF n \in DOMAIN Declared(circuit) /\ Declared(circuit)[n] = Asked(circuit)[n]
          THEN /\ cur' = <<n, 0>> /\ left' = left \ {n}
               /\ UNCHANGED <<circuit, pc, count, witness, shared, program, runtime, result>>
          ELSE Fail
    BY <1>3 DEF ChooseInput
  <2>2. n \in DOMAIN Asked(circuit) /\ Asked(circuit)[n] \in Nat \ {0}
        /\ cur = <<>> /\ pc = "inputs" /\ result = "none"
    BY <1>3, <2>1, CircuitsAssumption DEF ChooseInput, Waiting, InputsOK
  <2>3. CASE n \in DOMAIN Declared(circuit) /\ Declared(circuit)[n] = Asked(circuit)[n]
    <3>1. /\ cur' = <<n, 0>> /\ left' = left \ {n}
          /\ UNCHANGED <<circuit, pc, count, witness, shared, stored, stmt, part, stopped, result>>
      BY <2>1, <2>3 DEF program
    <3>2. InputsOK'
      <4>1. 0 \in 0 .. Asked(circuit)[n] - 1 /\ n \in DOMAIN Asked(circuit) \ left'
        BY <2>2, <3>1
      <4> QED BY <2>2, <2>3, <3>1, <4>1 DEF InputsOK
    <3>3. \A m \in DOMAIN Asked(circuit) : \A i \in 0 .. Asked(circuit)[m] - 1 : IsPast(m, i)' <=> IsPast(m, i)
      <4> SUFFICES ASSUME NEW m \in DOMAIN Asked(circuit), NEW i \in 0 .. Asked(circuit)[m] - 1
                   PROVE  IsPast(m, i)' <=> IsPast(m, i)
        OBVIOUS
      <4>1. cur' # <<>> /\ cur'[1] = n /\ cur'[2] = 0
        BY <3>1
      <4>2. ~(i < 0)
        BY CircuitsAssumption
      <4> QED BY <2>1, <2>2, <3>1, <4>1, <4>2 DEF IsPast
    <3>4. StoredOK'
      BY <3>1, <3>3 DEF StoredOK
    <3>5. RunOK' /\ WitnessOK' /\ ResultOK'
      BY <2>2, <3>1 DEF RunOK, Complete, Script, Running, WitnessOK, ResultOK, ErrorsHaveCause
    <3> QED BY <3>1, <3>2, <3>4, <3>5
  <2>4. CASE ~(n \in DOMAIN Declared(circuit) /\ Declared(circuit)[n] = Asked(circuit)[n])
    <3>1. Fail /\ Asked(circuit) # Declared(circuit)
      BY <2>1, <2>2, <2>4
    <3> QED BY <3>1, FailKeeps
  <2> QED BY <2>3, <2>4
<1>4. CASE SetInput
  BY <1>4, SetInputKeeps
<1>5. CASE EndInputs
  <2>1. pc = "inputs" /\ result = "none" /\ cur = <<>> /\ left = {} /\ ~Running
    BY <1>5 DEF EndInputs, Waiting
  <2> DEFINE D == Slots(Declared(circuit))
  <2>2. /\ DOMAIN stored \subseteq D /\ IsFiniteSet(D) /\ DOMAIN stored = Slots(Asked(circuit))
        /\ count = Cardinality(DOMAIN stored) /\ count \in 0 .. Cardinality(D)
    BY <2>1, StoredFacts DEF StoredOK
  <2>3. Cardinality(D) \in Nat
    BY <2>2, FS_CardinalityType
  <2>4. CASE count < Cardinality(D)
    <3>1. Fail
      BY <1>5, <2>4 DEF EndInputs
    <3>2. Asked(circuit) # Declared(circuit)
      <4>1. DOMAIN stored # D
        BY <2>2, <2>3, <2>4
      <4> QED BY <2>2, <4>1
    <3> QED BY <3>1, <3>2, FailKeeps
  <2>5. CASE ~(count < Cardinality(D))
    <3>1. /\ pc' = "witness"
          /\ UNCHANGED <<circuit, left, cur, count, witness, shared, stored, stmt, part, stopped,
                         result>>
      BY <1>5, <2>5 DEF EndInputs, host, program
    <3>2. Complete
      <4>1. Cardinality(DOMAIN stored) = Cardinality(D)
        BY <2>2, <2>3, <2>5
      <4>2. DOMAIN stored \in SUBSET D
        BY <2>2
      <4> HIDE DEF D
      <4>3. DOMAIN stored = D
        BY <2>2, <4>1, <4>2, FS_Subset
      <4> QED BY <4>3 DEF Complete, D
    <3> QED BY <2>1, <3>1, <3>2 DEF InputsOK, StoredOK, IsPast, RunOK, Complete, Script,
       Running, WitnessOK, ResultOK, ErrorsHaveCause
  <2> QED BY <2>4, <2>5
<1>6. CASE ReadWitness
  <2> DEFINE w == WitnessAt(Len(witness) + 1)
  <2>1. /\ pc = "witness" /\ result = "none" /\ ~Running /\ Len(witness) < WitnessSize(circuit)
        /\ shared' = to_array32_le(w) /\ witness' = Append(witness, from_array32_le(shared'))
        /\ UNCHANGED <<circuit, pc, left, cur, count, stored, stmt, part, stopped, result>>
    BY <1>6 DEF ReadWitness, Waiting, program
  <2>2. stored = ZeroInputs(circuit)
    BY <2>1, StoredFacts DEF WitnessOK
  <2>3. Len(witness) \in Nat /\ WitnessSize(circuit) \in Nat
    BY CircuitsAssumption DEF WitnessOK
  <2>4. w \in Elements
    <3>1. Len(witness) + 1 \in 1 .. WitnessSize(circuit)
      BY <2>1, <2>3
    <3>2. Witness(circuit, stored)[Len(witness) + 1] \in Elements
      BY <2>2, <3>1, CircuitsAssumption
    <3> QED BY <3>2, ZeroIsElement DEF WitnessAt
  <2>5. \A i : WitnessAt(i)' = WitnessAt(i)
    BY <2>1 DEF WitnessAt
  <2>6. Running' <=> Running
    BY <2>1 DEF Running, Script
  <2> HIDE DEF w
  <2>7. shared' \in Arrays /\ witness' = Append(witness, w)
    BY <2>1, <2>4, RoundTrip
  <2>8. WitnessOK'
    <3>1. witness' \in Seq(Elements) /\ Len(witness') <= WitnessSize(circuit')
      BY <2>1, <2>3, <2>4, <2>7 DEF WitnessOK
    <3>2. \A i \in 1 .. Len(witness') : witness'[i] = WitnessAt(i)
      BY <2>3, <2>4, <2>7 DEF WitnessOK, w
    <3> QED BY <2>1, <2>5, <2>6, <3>1, <3>2 DEF WitnessOK, Complete
  <2> QED BY <2>1, <2>7, <2>8 DEF InputsOK, StoredOK, IsPast, RunOK, Complete, Script,
     ResultOK, ErrorsHaveCause
<1>7. CASE Done
  <2>1. /\ pc = "witness" /\ ~Running /\ Len(witness) = WitnessSize(circuit) /\ result' = "ok"
        /\ UNCHANGED <<circuit, pc, left, cur, count, witness, shared, stored, stmt, part, stopped>>
    BY <1>7 DEF Done, Waiting, host, program
  <2> QED BY <2>1 DEF InputsOK, StoredOK, IsPast, RunOK, Complete, Script, Running, WitnessOK,
     WitnessAt, ResultOK, ErrorsHaveCause
<1>8. CASE LogPart
  <2>1. /\ result = "none" /\ Running /\ Script[stmt].k = "log" /\ part <= Len(Script[stmt].parts)
        /\ part' = part + 1
        /\ UNCHANGED <<circuit, pc, left, cur, count, witness, stored, stmt, stopped, result>>
    BY <1>8 DEF LogPart, host
  <2>2. shared' \in Arrays
    <3> DEFINE p == Script[stmt].parts[part]
    <3>1. CASE p.k = "message"
      BY <1>8, <3>1 DEF LogPart
    <3>2. CASE p.k # "message"
      <4>1. shared' = to_array32_le(p.value)
        BY <1>8, <3>2 DEF LogPart
      <4>2. stored = ZeroInputs(circuit) /\ stmt \in Nat /\ part \in Nat
        BY <2>1, StoredFacts DEF Running, RunOK
      <4>3. stmt \in 1 .. Len(Statements(circuit, ZeroInputs(circuit)))
        BY <2>1, <4>2, CircuitsAssumption DEF Running, Script
      <4>4. part \in 1 .. Len(Script[stmt].parts)
        BY <2>1, <4>2, <4>3, CircuitsAssumption DEF Script, RunOK
      <4>5. p.value \in Elements
        BY <2>1, <3>2, <4>2, <4>3, <4>4, CircuitsAssumption DEF Script
      <4> QED BY <4>1, <4>5, RoundTrip
    <3> QED BY <3>1, <3>2
  <2> QED BY <2>1, <2>2 DEF InputsOK, StoredOK, IsPast, RunOK, Complete, Script, Running, WitnessOK,
     WitnessAt, ResultOK, ErrorsHaveCause
<1>9. CASE LogEnds
  <2>1. /\ result = "none" /\ Running /\ Script[stmt].k = "log" /\ stmt' = stmt + 1 /\ part' = 1
        /\ UNCHANGED <<circuit, pc, left, cur, count, witness, shared, stored, stopped, result>>
    BY <1>9 DEF LogEnds, host
  <2>2. Len(Script) \in Nat /\ Script' = Script /\ stopped = FALSE
    BY <2>1, StoredFacts, CircuitsAssumption DEF Script, Running, RunOK
  <2>3. RunOK'
    BY <2>1, <2>2 DEF RunOK, Complete, Running
  <2>4. pc # "witness" /\ witness = <<>>
    BY <2>1 DEF WitnessOK
  <2>5. WitnessOK'
    BY <2>1, <2>4 DEF WitnessOK
  <2> QED BY <2>1, <2>3, <2>5 DEF InputsOK, StoredOK, IsPast, ResultOK, ErrorsHaveCause
<1>10. CASE AssertStops
  <2>1. /\ result = "none" /\ Running /\ Script[stmt].k = "assert" /\ stopped' = TRUE
        /\ UNCHANGED <<circuit, pc, left, cur, count, witness, shared, stored, stmt, part, result>>
    BY <1>10 DEF AssertStops, host
  <2>2. Script' = Script /\ stmt \in 1 .. Len(Script)
    BY <2>1, StoredFacts, CircuitsAssumption DEF Script, Running, RunOK
  <2>3. RunOK'
    BY <2>1, <2>2 DEF RunOK, Complete
  <2>4. pc # "witness" /\ witness = <<>>
    BY <2>1 DEF WitnessOK
  <2>5. WitnessOK'
    BY <2>1, <2>4 DEF WitnessOK
  <2> QED BY <2>1, <2>3, <2>5 DEF InputsOK, StoredOK, IsPast, ResultOK, ErrorsHaveCause
<1>11. CASE RunTraps
  BY <1>11, FailKeeps DEF RunTraps
<1>12. CASE UNCHANGED vars
  BY <1>12 DEF vars, host, program, runtime, InputsOK, StoredOK, IsPast, RunOK, Complete,
     Script, Running, WitnessOK, WitnessAt, ResultOK, ErrorsHaveCause
<1> QED BY <1>1, <1>2, <1>3, <1>4, <1>5, <1>6, <1>7, <1>8, <1>9, <1>10, <1>11, <1>12 DEF Next,
   Recorder, Circuit

---------------------------------------------------------------------------
\* The lines of the log() statements.

\* A set of numbers has a least one: `<` is well-founded.
LEMMA Least ==
    ASSUME NEW S, S \subseteq Nat, S # {}
    PROVE  \E i \in S : \A j \in S : i <= j
<1> DEFINE R == {p \in Nat \X Nat : p[1] < p[2]}
<1>1. OpToRel(<, Nat) = R
  BY Zenon DEF OpToRel
<1>2. IsWellFoundedOn(R, Nat)
  BY <1>1, NatLessThanWellFounded, Zenon
<1> HIDE DEF R
<1>3. PICK i \in S : \A j \in S : ~(<<j, i>> \in R)
  BY <1>2, WFMin, Zenon
<1>4. \A j \in S : ~(j < i)
  BY <1>3 DEF R
<1> QED BY <1>4

\* The first n parts of a log(), and the line they make.
Prefix(parts, n) == [j \in 1 .. n |-> parts[j]]

ShownIn(parts, n) == {i \in 1 .. n : parts[i] # EmptyMessage}
FirstShown(parts, n) == CHOOSE i \in ShownIn(parts, n) : \A j \in ShownIn(parts, n) : i <= j

LEMMA LineOfPrefix ==
    ASSUME NEW parts, NEW n \in Nat
    PROVE  /\ ShownIn(parts, n) = {} => LineOf(Prefix(parts, n)) = <<>>
           /\ ShownIn(parts, n) # {} =>
                LET f == FirstShown(parts, n)
                IN  /\ f \in ShownIn(parts, n) /\ \A j \in ShownIn(parts, n) : f <= j
                    /\ LineOf(Prefix(parts, n)) = [i \in 1 .. n + 1 - f |-> parts[f + i - 1]]
<1> DEFINE P == Prefix(parts, n)
           f == FirstShown(parts, n)
           shown == {i \in DOMAIN P : P[i] # EmptyMessage}
<1>1. DOMAIN P = 1 .. n /\ Len(P) = n /\ \A i \in 1 .. n : P[i] = parts[i]
  BY DEF Prefix
<1>2. shown = ShownIn(parts, n)
  BY <1>1 DEF ShownIn
<1>3. ASSUME ShownIn(parts, n) = {} PROVE LineOf(P) = <<>>
  <2>1. LineOf(P) = [i \in 1 .. n + 1 - (n + 1) |-> P[n + 1 + i - 1]]
    BY <1>1, <1>2, <1>3 DEF LineOf
  <2> QED BY <2>1
<1>4. ASSUME ShownIn(parts, n) # {}
      PROVE  /\ f \in ShownIn(parts, n) /\ \A j \in ShownIn(parts, n) : f <= j
             /\ LineOf(P) = [i \in 1 .. n + 1 - f |-> parts[f + i - 1]]
  <2>1. \E i \in ShownIn(parts, n) : \A j \in ShownIn(parts, n) : i <= j
    <3>1. ShownIn(parts, n) \subseteq Nat
      BY DEF ShownIn
    <3> QED BY <3>1, <1>4, Least
  <2>2. f \in ShownIn(parts, n) /\ \A j \in ShownIn(parts, n) : f <= j
    BY <2>1 DEF FirstShown
  <2>3. LineOf(P) = [i \in 1 .. n + 1 - f |-> P[f + i - 1]]
    <3> DEFINE F == IF shown = {} THEN Len(P) + 1
                    ELSE CHOOSE i \in shown : \A j \in shown : i <= j
    <3>1. F = f
      <4> HIDE DEF shown
      <4> QED BY <1>2, <1>4 DEF FirstShown
    <3>2. LineOf(P) = [i \in 1 .. Len(P) + 1 - F |-> P[F + i - 1]]
      BY DEF LineOf
    <3> HIDE DEF F, f, P
    <3> QED BY <1>1, <3>1, <3>2
  <2>4. f \in 1 .. n
    BY <2>2 DEF ShownIn
  <2>5. \A i \in 1 .. n + 1 - f : f + i - 1 \in 1 .. n
    BY <2>4
  <2>6. \A i \in 1 .. n + 1 - f : P[f + i - 1] = parts[f + i - 1]
    BY <2>5, <1>1
  <2> QED BY <2>2, <2>3, <2>6
<1> QED BY <1>3, <1>4

\* append_log_part makes the line of one part more.
LEMMA LineGrows ==
    ASSUME NEW parts, NEW n \in Nat
    PROVE  LineOf(Prefix(parts, n + 1)) = Appended(LineOf(Prefix(parts, n)), parts[n + 1])
<1> DEFINE f == FirstShown(parts, n)
           g == FirstShown(parts, n + 1)
           l == LineOf(Prefix(parts, n))
<1>1. ShownIn(parts, n + 1) = IF parts[n + 1] # EmptyMessage THEN ShownIn(parts, n) \cup {n + 1}
                              ELSE ShownIn(parts, n)
  BY DEF ShownIn
<1>2. CASE ShownIn(parts, n) = {}
  <2>1. l = <<>>
    BY <1>2, LineOfPrefix
  <2>2. CASE parts[n + 1] = EmptyMessage
    <3>1. LineOf(Prefix(parts, n + 1)) = <<>>
      BY <1>1, <1>2, <2>2, LineOfPrefix
    <3> QED BY <3>1, <2>1, <2>2 DEF Appended
  <2>3. CASE parts[n + 1] # EmptyMessage
    <3>1. ShownIn(parts, n + 1) = {n + 1}
      BY <1>1, <1>2, <2>3
    <3>2. g = n + 1 /\ LineOf(Prefix(parts, n + 1)) = [i \in 1 .. n + 2 - g |-> parts[g + i - 1]]
      <4>1. g = n + 1 /\ LineOf(Prefix(parts, n + 1))
                        = [i \in 1 .. (n + 1) + 1 - g |-> parts[g + i - 1]]
        <5>1. n + 1 \in Nat /\ ShownIn(parts, n + 1) # {}
          BY <3>1
        <5>2. g \in ShownIn(parts, n + 1)
              /\ LineOf(Prefix(parts, n + 1)) = [i \in 1 .. (n + 1) + 1 - g |-> parts[g + i - 1]]
          <6> HIDE DEF g
          <6> QED BY <5>1, LineOfPrefix DEF g
        <5>3. g = n + 1
          BY <5>2, <3>1
        <5> QED BY <5>2, <5>3
      <4>2. (n + 1) + 1 - g = n + 2 - g
        BY <4>1
      <4> QED BY <4>1, <4>2
    <3>3. LineOf(Prefix(parts, n + 1)) = [i \in 1 .. 1 |-> parts[n + 1]]
      BY <3>2
    <3>4. Appended(l, parts[n + 1]) = Append(<<>>, parts[n + 1])
      BY <2>1, <2>3 DEF Appended
    <3>5. Append(<<>>, parts[n + 1]) = [i \in 1 .. 1 |-> parts[n + 1]]
      OBVIOUS
    <3> QED BY <3>3, <3>4, <3>5
  <2> QED BY <2>2, <2>3
<1>3. CASE ShownIn(parts, n) # {}
  <2>1. f \in 1 .. n /\ f \in ShownIn(parts, n) /\ \A j \in ShownIn(parts, n) : f <= j
    BY <1>3, LineOfPrefix DEF ShownIn
  <2>2. g \in ShownIn(parts, n + 1) /\ \A j \in ShownIn(parts, n + 1) : g <= j
    BY <1>1, <1>3, LineOfPrefix
  <2>3. f = g
    <3>1. f \in ShownIn(parts, n + 1) /\ g \in 1 .. n + 1 /\ (g \in ShownIn(parts, n) \/ g = n + 1)
      BY <1>1, <2>1, <2>2 DEF ShownIn
    <3> QED BY <2>1, <2>2, <3>1
  <2>4. l = [i \in 1 .. n + 1 - f |-> parts[f + i - 1]]
    BY <1>3, LineOfPrefix
  <2>5. LineOf(Prefix(parts, n + 1)) = [i \in 1 .. n + 2 - f |-> parts[f + i - 1]]
    <3>1. ShownIn(parts, n + 1) # {}
      BY <1>1, <1>3
    <3>2. LineOf(Prefix(parts, n + 1)) = [i \in 1 .. (n + 1) + 1 - g |-> parts[g + i - 1]]
      <4> HIDE DEF g
      <4>1. n + 1 \in Nat
        OBVIOUS
      <4> QED BY <3>1, <4>1, LineOfPrefix DEF g
    <3>3. (n + 1) + 1 - g = n + 2 - f
      BY <2>1, <2>3
    <3> HIDE DEF f, g
    <3> QED BY <2>3, <3>2, <3>3
  <2> DEFINE S == {parts[j] : j \in 1 .. n + 1}
             k == n + 1 - f
  <2>6. k \in Nat /\ k > 0 /\ l \in [1 .. k -> S]
    BY <2>1, <2>4
  <2>7. Appended(l, parts[n + 1]) = Append(l, parts[n + 1])
    <3>1. l # <<>>
      BY <2>6
    <3> QED BY <3>1 DEF Appended
  <2>8. Append(l, parts[n + 1]) = [i \in 1 .. k + 1 |-> IF i <= k THEN l[i] ELSE parts[n + 1]]
    <3>1. l \in Seq(S) /\ Len(l) = k
      <4> HIDE DEF l, S, k
      <4> QED BY <2>6
    <3> HIDE DEF l, S, k
    <3> QED BY <3>1
  <2>9. \A i \in 1 .. k + 1 : (IF i <= k THEN l[i] ELSE parts[n + 1]) = parts[f + i - 1]
    <3> SUFFICES ASSUME NEW i \in 1 .. k + 1
                 PROVE (IF i <= k THEN l[i] ELSE parts[n + 1]) = parts[f + i - 1]
      OBVIOUS
    <3>1. CASE i <= k
      <4> HIDE DEF l, f
      <4>1. i \in 1 .. n + 1 - f
        BY <2>1, <3>1
      <4> QED BY <2>4, <3>1, <4>1
    <3>2. CASE ~(i <= k)
      <4>1. i = k + 1 /\ f + i - 1 = n + 1
        BY <2>1, <2>6, <3>2
      <4> QED BY <3>2, <4>1
    <3> QED BY <3>1, <3>2
  <2>10. k + 1 = n + 2 - f
    BY <2>1
  <2> DEFINE N == Prefix(parts, n + 1)
             p == parts[n + 1]
             A == Append(l, p)
  <2>11. A = [i \in 1 .. k + 1 |-> parts[f + i - 1]]
    <3> HIDE DEF l, k, f
    <3> QED BY <2>8, <2>9
  <2>12. LineOf(N) = [i \in 1 .. k + 1 |-> parts[f + i - 1]]
    <3> HIDE DEF N, k, f
    <3> QED BY <2>5, <2>10 DEF N
  <2> QED BY <2>7, <2>11, <2>12
<1> QED BY <1>2, <1>3

\* All the parts.
LEMMA LineOfAll ==
    ASSUME NEW parts, Len(parts) \in Nat, DOMAIN parts = 1 .. Len(parts)
    PROVE  LineOf(Prefix(parts, Len(parts))) = LineOf(parts)
<1> DEFINE P == Prefix(parts, Len(parts))
           shown == {i \in DOMAIN P : P[i] # EmptyMessage}
           first == IF shown = {} THEN Len(P) + 1
                    ELSE CHOOSE i \in shown : \A j \in shown : i <= j
<1>1. DOMAIN P = DOMAIN parts /\ Len(P) = Len(parts) /\ \A i \in DOMAIN parts : P[i] = parts[i]
  BY DEF Prefix
<1>2. shown = {i \in DOMAIN parts : parts[i] # EmptyMessage}
  BY <1>1
<1>3. LineOf(P) = [i \in 1 .. Len(P) + 1 - first |-> P[first + i - 1]]
  BY DEF LineOf
<1>4. LineOf(parts) = [i \in 1 .. Len(parts) + 1 - first |-> parts[first + i - 1]]
  <2> DEFINE all == {i \in DOMAIN parts : parts[i] # EmptyMessage}
             F == IF all = {} THEN Len(parts) + 1
                  ELSE CHOOSE i \in all : \A j \in all : i <= j
  <2>1. LineOf(parts) = [i \in 1 .. Len(parts) + 1 - F |-> parts[F + i - 1]]
    BY DEF LineOf
  <2>2. F = first
    <3>1. all = shown /\ Len(P) = Len(parts)
      BY <1>1, <1>2
    <3> HIDE DEF all, shown, P
    <3> QED BY <3>1
  <2> HIDE DEF F, first
  <2> QED BY <2>1, <2>2
<1>5. first \in 1 .. Len(parts) + 1
  <2>1. CASE shown = {}
    BY <2>1, <1>1
  <2>2. CASE shown # {}
    <3>1. shown \subseteq Nat /\ shown \subseteq 1 .. Len(parts)
      BY <1>1
    <3>2. \E i \in shown : \A j \in shown : i <= j
      <4> HIDE DEF shown
      <4> QED BY <3>1, <2>2, Least
    <3>3. first \in shown
      BY <3>2, <2>2
    <3> QED BY <3>1, <3>3
  <2> QED BY <2>1, <2>2
<1> HIDE DEF first
<1>6. \A i \in 1 .. Len(parts) + 1 - first : P[first + i - 1] = parts[first + i - 1]
  BY <1>1, <1>5
<1>7. LineOf(P) = LineOf(parts)
  <2> HIDE DEF P
  <2> QED BY <1>1, <1>3, <1>4, <1>6
<1> QED BY <1>7

---------------------------------------------------------------------------
\* The lines logged so far are those of the statements before the one the run is
\* at, each in the place of its rank; the buffer is the line of the parts printed.

LineAt(i) == LineOf(Script[i].parts)
AtLog == Running /\ Script[stmt].k = "log"
LogInv ==
    /\ \E S : logs \in Seq(S)
    /\ Len(logs) = Cardinality(Printing(stmt - 1))
    /\ \A i \in Printing(stmt - 1) : logs[Cardinality(Printing(i))] = LineAt(i)
    /\ ~AtLog => log_buffer = <<>> /\ part = 1
    /\ AtLog =>
          /\ part \in 1 .. Len(Script[stmt].parts) + 1
          /\ log_buffer = LineOf(Prefix(Script[stmt].parts, part - 1))

\* Before the run nothing is printed, and the first statement has printed nothing.
LEMMA NothingPrinted ==
    /\ \A n \in Int : n <= 0 => Printing(n) = {} /\ Cardinality(Printing(n)) = 0
    /\ \A parts : LineOf(Prefix(parts, 0)) = <<>>
<1>1. \A n \in Int : n <= 0 => Printing(n) = {}
  BY DEF Printing
<1>2. \A parts : ShownIn(parts, 0) = {}
  BY DEF ShownIn
<1>3. ASSUME NEW parts PROVE LineOf(Prefix(parts, 0)) = <<>>
  <2>1. 0 \in Nat /\ ShownIn(parts, 0) = {}
    BY <1>2
  <2> QED BY <2>1, LineOfPrefix
<1> QED BY <1>1, <1>3, FS_EmptySet

LEMMA PrintingGrows ==
    ASSUME NEW n \in Nat
    PROVE  /\ IsFiniteSet(Printing(n)) /\ Cardinality(Printing(n)) \in Nat
           /\ Printing(n + 1) = IF LineAt(n + 1) = <<>> THEN Printing(n)
                                ELSE Printing(n) \cup {n + 1}
           /\ Cardinality(Printing(n + 1)) =
                  Cardinality(Printing(n)) + (IF LineAt(n + 1) = <<>> THEN 0 ELSE 1)
           /\ \A i \in Printing(n) : Cardinality(Printing(i)) \in 1 .. Cardinality(Printing(n))
<1>1. ASSUME NEW m \in Nat PROVE IsFiniteSet(Printing(m)) /\ Cardinality(Printing(m)) \in Nat
  <2>1. Printing(m) \in SUBSET (1 .. m) /\ IsFiniteSet(1 .. m)
    BY FS_Interval DEF Printing
  <2> QED BY <2>1, FS_Subset, FS_CardinalityType
<1>2. Printing(n + 1) = IF LineAt(n + 1) = <<>> THEN Printing(n) ELSE Printing(n) \cup {n + 1}
  BY DEF Printing, LineAt
<1>3. n + 1 \notin Printing(n)
  BY DEF Printing
<1>4. Cardinality(Printing(n + 1)) = Cardinality(Printing(n)) + (IF LineAt(n + 1) = <<>> THEN 0 ELSE 1)
  <2>1. Cardinality(Printing(n) \cup {n + 1}) = Cardinality(Printing(n)) + 1
    BY <1>1, <1>3, FS_AddElement
  <2>2. Cardinality(Printing(n)) \in Nat
    BY <1>1
  <2>3. CASE LineAt(n + 1) = <<>>
    <3>1. Printing(n + 1) = Printing(n)
      BY <1>2, <2>3
    <3> QED BY <3>1, <2>2, <2>3
  <2>4. CASE LineAt(n + 1) # <<>>
    <3>1. Printing(n + 1) = Printing(n) \cup {n + 1}
      BY <1>2, <2>4
    <3> QED BY <3>1, <2>1, <2>4
  <2> QED BY <2>3, <2>4
<1>5. ASSUME NEW i \in Printing(n)
      PROVE  Cardinality(Printing(i)) \in 1 .. Cardinality(Printing(n))
  <2>1. i \in 1 .. n /\ i \in Printing(i)
    BY DEF Printing
  <2>2. Printing(i) \in SUBSET Printing(n)
    BY <2>1 DEF Printing
  <2>3. /\ IsFiniteSet(Printing(i)) /\ Cardinality(Printing(i)) \in Nat
        /\ Cardinality(Printing(i)) <= Cardinality(Printing(n))
    BY <1>1, <2>1, <2>2, FS_Subset
  <2>4. Cardinality(Printing(i)) # 0
    BY <2>1, <2>3, FS_EmptySet
  <2> QED BY <1>1, <2>3, <2>4
<1> QED BY <1>1, <1>2, <1>4, <1>5

\* The statement the run is at.
LEMMA AtStatement ==
    ASSUME IInv, Running
    PROVE  /\ Len(Script) \in Nat /\ stmt \in 1 .. Len(Script) /\ stored = ZeroInputs(circuit)
           /\ Script[stmt].k = "log" =>
                LET parts == Script[stmt].parts
                IN  /\ Len(parts) \in Nat /\ DOMAIN parts = 1 .. Len(parts)
                    /\ \A j \in 1 .. Len(parts) :
                          \/ parts[j].k = "message"
                          \/ parts[j] = Value(parts[j].value) /\ parts[j].value \in Elements
<1>1. stored = ZeroInputs(circuit) /\ circuit \in Circuits /\ stmt \in Nat
  BY StoredFacts DEF IInv, RunOK, Running
<1>2. Len(Script) \in Nat
  BY <1>1, CircuitsAssumption DEF Script
<1>3. stmt \in 1 .. Len(Script)
  BY <1>1, <1>2 DEF Running
<1> QED BY <1>1, <1>2, <1>3, CircuitsAssumption DEF Script

\* A step that neither logs nor moves the run.
LEMMA LogSame ==
    ASSUME LogInv, UNCHANGED <<circuit, stored, stmt, part, stopped, log_buffer, logs>>
    PROVE  LogInv'
BY DEF LogInv, AtLog, LineAt, Printing, Script, Running

\* The step that ends it at a failing assert.
LEMMA LogStops ==
    ASSUME LogInv, AssertStops
    PROVE  LogInv'
<1>1. ~AtLog /\ UNCHANGED <<circuit, stored, stmt, part, log_buffer, logs>> /\ stopped'
  BY DEF AssertStops, AtLog, runtime
<1>2. ~AtLog'
  BY <1>1 DEF AtLog, Running
<1> QED BY <1>1, <1>2 DEF LogInv, LineAt, Printing, Script

\* A step that may start the run.
LEMMA LogStarts ==
    ASSUME IInv, LogInv, UNCHANGED <<circuit, part, log_buffer, logs>>,
           stmt = 0, stmt' \in {0, 1}, IInv'
    PROVE  LogInv'
<1>1. ~AtLog /\ log_buffer = <<>> /\ part = 1
  BY DEF LogInv, AtLog, Running
<1>2. Len(logs) = 0
  BY NothingPrinted DEF LogInv
<1>3. \A n \in Int : n <= 0 => Printing(n)' = {}
  BY DEF Printing
<1>4. Cardinality(Printing(stmt - 1))' = 0 /\ Printing(stmt - 1)' = {}
  <2>1. stmt' - 1 \in Int /\ stmt' - 1 <= 0
    <3>1. CASE stmt' = 0
      BY <3>1
    <3>2. CASE stmt' = 1
      BY <3>2
    <3> QED BY <3>1, <3>2
  <2>2. Printing(stmt - 1)' = {}
    BY <2>1 DEF Printing
  <2> QED BY <2>2, FS_EmptySet
<1>5. ASSUME Running', Script'[stmt'].k = "log"
      PROVE  1 \in 1 .. Len(Script'[stmt'].parts) + 1
  <2>1. Len(Script'[stmt'].parts) \in Nat
    <3>1. stored' = ZeroInputs(circuit) /\ circuit \in Circuits /\ stmt' = 1
      <4>1. Complete'
        BY <1>5 DEF IInv, RunOK, Running
      <4> QED BY <4>1, <1>5 DEF IInv, StoredOK, Complete, ZeroInputs, Running
    <3>2. 1 \in 1 .. Len(Statements(circuit, ZeroInputs(circuit)))
      BY <3>1, <1>5, CircuitsAssumption DEF Running, Script
    <3> QED BY <3>1, <3>2, <1>5, CircuitsAssumption DEF Script
  <2> QED BY <2>1
<1>6. LineOf(Prefix(Script'[stmt'].parts, 1 - 1)) = <<>>
  BY NothingPrinted
<1> QED BY <1>1, <1>2, <1>4, <1>5, <1>6 DEF LogInv, AtLog

\* One part printed.
LEMMA LogPartKeeps ==
    ASSUME IInv, LogInv, LogPart
    PROVE  LogInv'
<1> DEFINE parts == Script[stmt].parts
           p == parts[part]
<1>1. /\ Running /\ Script[stmt].k = "log" /\ part <= Len(parts) /\ part' = part + 1
      /\ UNCHANGED <<circuit, stored, stmt, stopped, logs>>
  BY DEF LogPart
<1>2. /\ Len(parts) \in Nat /\ part \in 1 .. Len(parts)
      /\ p.k = "message" \/ (p = Value(p.value) /\ p.value \in Elements)
  <2>1. Len(parts) \in Nat
    BY <1>1, AtStatement
  <2>2. part \in 1 .. Len(parts)
    BY <1>1, <2>1 DEF LogInv, AtLog
  <2> QED BY <1>1, <2>1, <2>2, AtStatement
<1>3. log_buffer' = Appended(log_buffer, p)
  <2>1. CASE p.k = "message"
    BY <2>1 DEF LogPart
  <2>2. CASE p.k # "message"
    <3>1. shared' = to_array32_le(p.value) /\ log_buffer' = Appended(log_buffer, Value(from_array32_le(shared')))
      BY <2>2 DEF LogPart
    <3>2. from_array32_le(shared') = p.value
      BY <1>2, <2>2, <3>1, RoundTrip
    <3> QED BY <1>2, <2>2, <3>1, <3>2
  <2> QED BY <2>1, <2>2
<1>4. log_buffer = LineOf(Prefix(parts, part - 1))
  BY <1>1 DEF LogInv, AtLog
<1>5. log_buffer' = LineOf(Prefix(parts, part))
  <2>1. part - 1 \in Nat /\ (part - 1) + 1 = part
    BY <1>2
  <2> HIDE DEF parts
  <2>2. LineOf(Prefix(parts, (part - 1) + 1))
          = Appended(LineOf(Prefix(parts, part - 1)), parts[(part - 1) + 1])
    BY <2>1, LineGrows
  <2> QED BY <1>3, <1>4, <2>1, <2>2
<1>6. Running' /\ parts' = parts /\ Script'[stmt'].k = "log"
  BY <1>1 DEF Running, Script
<1>7. part' \in 1 .. Len(parts) + 1 /\ part' - 1 = part
  BY <1>1, <1>2
<1>8. \A n : UNCHANGED <<Printing(n), LineAt(n)>>
  BY <1>1 DEF Printing, LineAt, Script
<1> QED BY <1>1, <1>5, <1>6, <1>7, <1>8 DEF LogInv, AtLog

\* The end of a log(): its line, if it printed something, is the last.
LEMMA LogEndsKeeps ==
    ASSUME IInv, LogInv, LogEnds
    PROVE  LogInv'
<1> DEFINE parts == Script[stmt].parts
           n == stmt - 1
           line == LineAt(stmt)
<1>1. /\ Running /\ Script[stmt].k = "log" /\ part = Len(parts) + 1
      /\ log_buffer' = <<>> /\ stmt' = stmt + 1 /\ part' = 1 /\ UNCHANGED <<circuit, stored>>
      /\ logs' = IF log_buffer = <<>> THEN logs ELSE Append(logs, log_buffer)
  BY DEF LogEnds, Flush
<1>2. /\ Len(parts) \in Nat /\ DOMAIN parts = 1 .. Len(parts)
      /\ Len(Script) \in Nat /\ stmt \in 1 .. Len(Script) /\ stored = ZeroInputs(circuit)
  BY <1>1, AtStatement
<1>3. log_buffer = line
  <2>1. log_buffer = LineOf(Prefix(parts, part - 1)) /\ part - 1 = Len(parts)
    BY <1>1, <1>2 DEF LogInv, AtLog
  <2>2. LineOf(Prefix(parts, Len(parts))) = LineOf(parts)
    <3> HIDE DEF parts
    <3> QED BY <1>2, LineOfAll
  <2> QED BY <2>1, <2>2 DEF LineAt
<1>4. n \in Nat /\ n + 1 = stmt /\ stmt' - 1 = n + 1
  BY <1>1, <1>2
<1>5. /\ Cardinality(Printing(n)) \in Nat /\ Len(logs) = Cardinality(Printing(n))
      /\ \A i \in Printing(n) : logs[Cardinality(Printing(i))] = LineAt(i)
      /\ \A i \in Printing(n) : Cardinality(Printing(i)) \in 1 .. Cardinality(Printing(n))
  BY <1>4, PrintingGrows DEF LogInv
<1>6. \A m : UNCHANGED <<Printing(m), LineAt(m)>>
  BY <1>1 DEF Printing, LineAt, Script
<1>7. /\ \E S : logs' \in Seq(S)
      /\ Len(logs') = Cardinality(Printing(stmt))
      /\ \A i \in Printing(stmt) : logs'[Cardinality(Printing(i))] = LineAt(i)
  <2>1. /\ Printing(stmt) = IF line = <<>> THEN Printing(n) ELSE Printing(n) \cup {stmt}
        /\ Cardinality(Printing(stmt)) = Cardinality(Printing(n)) + (IF line = <<>> THEN 0 ELSE 1)
    BY <1>4, PrintingGrows
  <2>2. PICK S : logs \in Seq(S)
    BY DEF LogInv
  <2>3. CASE line = <<>>
    <3>1. logs' = logs
      BY <1>1, <1>3, <2>3
    <3> QED BY <2>1, <2>2, <2>3, <3>1, <1>5
  <2>4. CASE line # <<>>
    <3> DEFINE T == S \cup {line}
               c == Cardinality(Printing(n))
    <3>1. logs' = Append(logs, line)
      BY <1>1, <1>3, <2>4
    <3>2. logs \in Seq(T) /\ line \in T /\ Len(logs) = c /\ c \in Nat
      BY <2>2, <1>5
    <3>3. Cardinality(Printing(stmt)) = c + 1 /\ Printing(stmt) = Printing(n) \cup {stmt}
      BY <2>1, <2>4
    <3> HIDE DEF T, line, c, n
    <3>4. /\ logs' \in Seq(T) /\ Len(logs') = c + 1 /\ logs'[c + 1] = line
          /\ \A k \in 1 .. c : logs'[k] = logs[k]
      BY <3>1, <3>2
    <3>5. \A i \in Printing(n) : logs'[Cardinality(Printing(i))] = LineAt(i)
      BY <1>5, <3>4 DEF c
    <3>6. logs'[Cardinality(Printing(stmt))] = LineAt(stmt)
      BY <3>3, <3>4 DEF line
    <3> QED BY <3>3, <3>4, <3>5, <3>6
  <2> QED BY <2>3, <2>4
<1>8. ASSUME Running', Script'[stmt'].k = "log"
      PROVE  1 \in 1 .. Len(Script'[stmt'].parts) + 1
  <2>1. Script' = Script /\ stmt' \in 1 .. Len(Script)
    BY <1>1, <1>2, <1>8 DEF Running, Script
  <2>2. Len(Script[stmt'].parts) \in Nat
    BY <1>2, <1>8, <2>1, CircuitsAssumption DEF Script, IInv
  <2> QED BY <2>1, <2>2
<1>9. \A ps : LineOf(Prefix(ps, 1 - 1)) = <<>>
  BY NothingPrinted
<1>10. Printing(stmt - 1)' = Printing(stmt) /\ \A i : Printing(i)' = Printing(i) /\ LineAt(i)' = LineAt(i)
  <2>1. Printing(stmt - 1)' = Printing(stmt)
    <3>1. stmt' - 1 = stmt
      BY <1>4
    <3> QED BY <3>1, <1>1 DEF Printing, Script
  <2> QED BY <2>1, <1>6
<1> QED BY <1>1, <1>7, <1>8, <1>9, <1>10 DEF LogInv, AtLog

LEMMA LogInit == Init => LogInv
<1> SUFFICES ASSUME Init PROVE LogInv
  OBVIOUS
<1>1. stmt = 0 /\ part = 1 /\ log_buffer = <<>> /\ logs = <<>> /\ ~Running
  BY DEF Init, Running
<1>2. Printing(stmt - 1) = {} /\ Cardinality(Printing(stmt - 1)) = 0
  <2>1. stmt - 1 \in Int /\ stmt - 1 <= 0
    BY <1>1
  <2> QED BY <2>1, NothingPrinted
<1>3. logs \in Seq({}) /\ Len(logs) = 0
  BY <1>1
<1> QED BY <1>1, <1>2, <1>3 DEF LogInv, AtLog

LEMMA LogStep == IInv /\ LogInv /\ [Next]_vars => LogInv'
<1> SUFFICES ASSUME IInv, LogInv, [Next]_vars, IInv' PROVE LogInv'
  BY InvStep
<1> DEFINE Quiet == UNCHANGED <<circuit, stored, stmt, part, stopped, log_buffer, logs>>
<1>1. CASE Load
  <2>1. Quiet
    BY <1>1 DEF Load, Fail, program, runtime
  <2> QED BY <2>1, LogSame
<1>2. CASE InitCircuit
  <2>1. stmt = 0
    BY <1>2 DEF InitCircuit, Waiting, IInv, RunOK
  <2> QED BY <1>2, <2>1, LogStarts DEF InitCircuit, Started, runtime
<1>3. CASE ChooseInput
  <2>1. Quiet
    BY <1>3 DEF ChooseInput, Fail, program, runtime
  <2> QED BY <2>1, LogSame
<1>4. CASE SetInput
  <2>1. stmt = 0
    <3>1. cur \in Slots(Declared(circuit)) /\ cur \notin DOMAIN stored
      <4>1. PICK n \in DOMAIN Asked(circuit) \ left, i \in Nat :
                i \in 0 .. Asked(circuit)[n] - 1 /\ cur = <<n, i>>
        BY <1>4 DEF SetInput, IInv, InputsOK
      <4>2. cur \in Slots(Declared(circuit))
        BY <4>1, SlotsAre DEF IInv, InputsOK
      <4> QED BY <4>1, <4>2 DEF IInv, StoredOK, IsPast
    <3> QED BY <3>1 DEF IInv, RunOK, Complete
  <2> QED BY <1>4, <2>1, LogStarts DEF SetInput, Started, runtime
<1>5. CASE EndInputs
  <2>1. Quiet
    BY <1>5 DEF EndInputs, Fail, program, runtime
  <2> QED BY <2>1, LogSame
<1>6. CASE ReadWitness
  <2>1. Quiet
    BY <1>6 DEF ReadWitness, program, runtime
  <2> QED BY <2>1, LogSame
<1>7. CASE Done
  <2>1. log_buffer = <<>>
    BY <1>7 DEF Done, Waiting, LogInv, AtLog
  <2>2. Quiet
    BY <1>7, <2>1 DEF Done, Flush, program
  <2> QED BY <2>2, LogSame
<1>8. CASE LogPart
  BY <1>8, LogPartKeeps
<1>9. CASE LogEnds
  BY <1>9, LogEndsKeeps
<1>10. CASE AssertStops
  BY <1>10, LogStops
<1>11. CASE RunTraps
  <2>1. Quiet
    BY <1>11 DEF RunTraps, Fail, program, runtime
  <2> QED BY <2>1, LogSame
<1>12. CASE UNCHANGED vars
  <2>1. Quiet
    BY <1>12 DEF vars, program, runtime
  <2> QED BY <2>1, LogSame
<1> QED BY <1>1, <1>2, <1>3, <1>4, <1>5, <1>6, <1>7, <1>8, <1>9, <1>10, <1>11, <1>12 DEF Next,
   Recorder, Circuit

---------------------------------------------------------------------------
\* What the invariant says of the calculation.

LEMMA SpecInv == Spec => [](IInv /\ LogInv)
<1>1. Init => IInv /\ LogInv
  BY InvInit, LogInit
<1>2. IInv /\ LogInv /\ [Next]_vars => (IInv /\ LogInv)'
  BY InvStep, LogStep
<1> QED BY <1>1, <1>2, PTL DEF Spec

\* The state keeps its types: in particular no input is set that the circuit
\* does not declare, and the counter never exceeds the circuit's total.
THEOREM TypeCorrect == Spec => []TypeOK
<1>1. IInv => TypeOK
  <2> SUFFICES ASSUME IInv PROVE TypeOK
    OBVIOUS
  <2>1. cur \in {<<>>} \cup Slots(Asked(circuit))
    BY SlotsAre DEF IInv, InputsOK
  <2> QED BY <2>1, StoredFacts DEF IInv, TypeOK, InputsOK, RunOK, WitnessOK, ResultOK
<1> QED BY <1>1, SpecInv, PTL

\* Every input the circuit was given is zero in all its limbs, whatever the
\* shared memory held before it was written.
THEOREM InputsAreAsked == Spec => []StoredIsAsked
<1>1. IInv => StoredIsAsked
  BY DEF IInv, StoredOK, StoredIsAsked
<1> QED BY <1>1, SpecInv, PTL

\* The statement the run is at when it is over: it is behind the last, or at the
\* first that is no log(), an assert.
LEMMA RunOver ==
    ASSUME IInv, pc = "witness"
    PROVE  /\ Complete /\ stored = ZeroInputs(circuit) /\ circuit \in Circuits
           /\ Len(Script) \in Nat /\ stmt \in Nat /\ stmt - 1 = Executed /\ Executed \in Nat
           /\ Executed = Len(Script) \/ Script[Executed + 1].k = "assert"
<1>1. Complete /\ ~Running /\ stmt > 0 /\ stmt \in Nat /\ stmt <= Len(Script) + 1
  BY DEF IInv, WitnessOK, RunOK
<1>2. stored = ZeroInputs(circuit) /\ circuit \in Circuits
  BY <1>1, StoredFacts DEF IInv
<1>3. Len(Script) \in Nat
  BY <1>2, CircuitsAssumption DEF Script
<1>4. \A j \in 1 .. stmt - 1 : Script[j].k = "log"
  BY DEF IInv, RunOK
<1>5. stmt = Len(Script) + 1 \/ (stmt \in 1 .. Len(Script) /\ Script[stmt].k = "assert")
  BY <1>1, <1>3 DEF Running, IInv, RunOK
<1> DEFINE E == {i \in 1 .. Len(Script) : \A j \in 1 .. i : Script[j].k = "log"}
<1>6. E = 1 .. stmt - 1
  <2>1. ASSUME NEW i \in 1 .. stmt - 1 PROVE i \in E
    BY <2>1, <1>1, <1>3, <1>4
  <2>2. ASSUME NEW i \in E PROVE i \in 1 .. stmt - 1
    <3>1. CASE stmt = Len(Script) + 1
      BY <3>1, <1>3
    <3>2. CASE stmt \in 1 .. Len(Script) /\ Script[stmt].k = "assert"
      <4>1. ~(stmt \in 1 .. i)
        BY <2>2, <3>2
      <4> QED BY <4>1, <3>2, <2>2
    <3> QED BY <1>5, <3>1, <3>2
  <2> HIDE DEF E
  <2> QED BY <2>1, <2>2
<1>7. Cardinality(1 .. stmt - 1) = stmt - 1
  <2>1. 1 \in Int /\ stmt - 1 \in Int /\ (~(1 > stmt - 1) \/ stmt - 1 = 0)
    BY <1>1
  <2>2. Cardinality(1 .. stmt - 1) = IF 1 > stmt - 1 THEN 0 ELSE (stmt - 1) - 1 + 1
    <3>1. \A a, b \in Int : Cardinality(a .. b) = IF a > b THEN 0 ELSE b - a + 1
      BY FS_Interval
    <3>2. 1 \in Int /\ stmt - 1 \in Int
      BY <1>1
    <3> QED BY <3>1, <3>2
  <2> QED BY <2>1, <2>2, <1>1
<1>8. Executed = stmt - 1
  BY <1>6, <1>7 DEF Executed
<1>9. Executed = Len(Script) \/ Script[Executed + 1].k = "assert"
  BY <1>1, <1>3, <1>5, <1>8
<1> QED BY <1>1, <1>2, <1>3, <1>8, <1>9

\* A calculation that succeeds has run the circuit with all inputs, as far as its
\* first assert that fails, and returns that run's witness: the elements assigned
\* before it, 0 for the others.  In whatever order the hash map gave the inputs.
THEOREM SuccessIsOfTheRun == Spec => []OkIsOfTheRun
<1>1. IInv => OkIsOfTheRun
  <2> SUFFICES ASSUME IInv, result = "ok" PROVE OkIsOfTheRun
    BY DEF OkIsOfTheRun
  <2>1. pc = "witness" /\ Len(witness) = WitnessSize(circuit)
    BY DEF IInv, ResultOK
  <2> DEFINE read == [i \in 1 .. WitnessSize(circuit) |->
                        IF AssignedAfter(circuit, stored)[i] <= Executed
                        THEN Witness(circuit, stored)[i] ELSE Zero]
  <2>2. ASSUME NEW i \in 1 .. WitnessSize(circuit) PROVE witness[i] = read[i]
    <3>1. witness[i] = WitnessAt(i)
      BY <2>1 DEF IInv, WitnessOK
    <3>2. AssignedAfter(circuit, stored)[i] \in Nat
      BY <2>1, RunOver, CircuitsAssumption
    <3>3. AssignedAfter(circuit, stored)[i] < stmt <=> AssignedAfter(circuit, stored)[i] <= Executed
      BY <2>1, <3>2, RunOver
    <3> QED BY <3>1, <3>3 DEF WitnessAt
  <2>3. witness = read
    <3>1. witness = [i \in 1 .. Len(witness) |-> witness[i]]
      BY DEF IInv, WitnessOK
    <3> HIDE DEF read
    <3>2. DOMAIN read = 1 .. WitnessSize(circuit) /\ read = [i \in 1 .. WitnessSize(circuit) |-> read[i]]
      BY DEF read
    <3> QED BY <2>1, <2>2, <3>1, <3>2
  <2> HIDE DEF read
  <2> QED BY <2>1, <2>3, RunOver DEF OkIsOfTheRun, Complete, read
<1> QED BY <1>1, SpecInv, PTL

\* A calculation fails only when the program cannot be loaded or traps, or when the
\* scan of the source is wrong about the inputs: not for an assert that fails.
THEOREM FailuresHaveCause == Spec => []ErrorsHaveCause
<1>1. IInv => ErrorsHaveCause
  BY DEF IInv, ResultOK
<1> QED BY <1>1, SpecInv, PTL

\* A calculation that succeeds returns the lines of the log() statements its run
\* executed, those before the first assert that fails, if any: those that print
\* something, in their order and with nothing of one another, for every circuit and
\* whatever its log() statements print.
THEOREM LogsAreComplete == Spec => []LogsArePrinted
<1>1. IInv /\ LogInv => LogsArePrinted
  <2> SUFFICES ASSUME IInv, LogInv, result = "ok" PROVE LogsArePrinted
    BY DEF LogsArePrinted
  <2>1. pc = "witness"
    BY DEF IInv, ResultOK
  <2>2. stmt - 1 = Executed
    BY <2>1, RunOver
  <2> QED BY <2>2 DEF LogInv, LogsArePrinted, LineAt
<1> QED BY <1>1, SpecInv, PTL
=============================================================================
