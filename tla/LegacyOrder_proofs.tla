-------------------------- MODULE LegacyOrder_proofs --------------------------
(***************************************************************************)
(* For every list of components: the order of the fallback has each of     *)
(* them once, reached ones first and after a parent, siblings in source    *)
(* order; and the calls opened are those of the known templates.           *)
(***************************************************************************)
EXTENDS LegacyOrder, SequenceTheorems, TLAPS

---------------------------------------------------------------------------
\* The inductive invariant.

IsMain(m) == IsFirst(m, AtFileScope)
InOut(i) == \E p \in DOMAIN out : out[p] = i

\* What has not begun at a stage, and the source order without a main.
StageOK ==
    /\ pc = "find" => out = <<>> /\ emitted = {}
    /\ pc \in {"find", "walk"} => at = 1
    /\ pc \in {"find", "walk", "orphans"} => calls = <<>>
    /\ pc \in {"walk", "orphans"} => AtFileScope # {}
    /\ AtFileScope = {} /\ pc # "find" => out = [i \in Places |-> i]
    /\ AtFileScope # {} /\ pc # "find" => \E m \in emitted : IsMain(m)

Injective == \A p, q \in DOMAIN out : out[p] = out[q] => p = q
MarkedAreOut == \A e \in emitted : InOut(e)

\* The walk: a frame has walked the children before its next one, and a marked
\* component that has no frame any more has walked them all.
WalkOK ==
    pc = "walk" =>
        /\ \A p \in DOMAIN out : out[p] \in emitted
        /\ \A k \in DOMAIN stack :
             /\ stack[k].comp \in emitted
             /\ \A c \in Places :
                  c < stack[k].next /\ DeclaredIn(c, stack[k].comp) => c \in emitted
        /\ \A e \in emitted :
             \/ \E k \in DOMAIN stack : stack[k].comp = e
             \/ \A c \in Places : DeclaredIn(c, e) => c \in emitted

\* No more is marked than what can be reached.
MarkedAreReachable ==
    \A S \in SUBSET Places : Closed(S) /\ (\E m \in S : IsMain(m)) => emitted \subseteq S

MarkedHaveParents ==
    AtFileScope # {} =>
        \A q \in DOMAIN out : out[q] \in emitted =>
            \/ IsMain(out[q])
            \/ \E p \in 1 .. q - 1 : DeclaredIn(out[q], out[p])

\* After the walk: what is marked is closed, and the rest follows in order.
OrphansOK ==
    pc \notin {"find", "walk"} /\ AtFileScope # {} =>
        /\ Closed(emitted)
        /\ \A p, q \in DOMAIN out : p < q /\ out[p] \notin emitted =>
               out[q] \notin emitted /\ out[p] < out[q]
        /\ pc = "orphans" =>
             /\ \A i \in Places : i < at => InOut(i)
             /\ \A p \in DOMAIN out : out[p] \notin emitted => out[p] < at

AllOut == Ordered => \A i \in Places : InOut(i)

\* The calls are those of the components emitted so far.
CallsOK ==
    pc = "calls" =>
        /\ at <= Len(out) + 1
        /\ \A k \in DOMAIN calls : calls[k] \in Known
        /\ \A p \in 1 .. at - 1 : out[p] \in Known => \E k \in DOMAIN calls : calls[k] = out[p]
        /\ \A k \in DOMAIN calls : \E p \in 1 .. at - 1 : out[p] = calls[k]
        /\ \A k, l \in DOMAIN calls : k < l =>
             \E p, q \in 1 .. at - 1 : p < q /\ out[p] = calls[k] /\ out[q] = calls[l]

IInv ==
    /\ TypeOK /\ StageOK /\ Injective /\ MarkedAreOut /\ WalkOK
    /\ MarkedAreReachable /\ MarkedHaveParents /\ SiblingsInOrder
    /\ OrphansOK /\ AllOut /\ CallsOK

---------------------------------------------------------------------------
\* Sequences.

LEMMA AppendFacts ==
    ASSUME NEW S, NEW s \in Seq(S), NEW x \in S
    PROVE  /\ Append(s, x) \in Seq(S)
           /\ Len(Append(s, x)) = Len(s) + 1
           /\ DOMAIN Append(s, x) = 1 .. Len(s) + 1
           /\ Append(s, x)[Len(s) + 1] = x
           /\ \A k \in 1 .. Len(s) : Append(s, x)[k] = s[k]
OBVIOUS

LEMMA LastFacts ==
    ASSUME NEW S, NEW s \in Seq(S), s # <<>>
    PROVE  s[Len(s)] \in S
OBVIOUS

LEMMA DropFacts ==
    ASSUME NEW S, NEW s \in Seq(S), s # <<>>, NEW t, t = SubSeq(s, 1, Len(s) - 1)
    PROVE  /\ t \in Seq(S)
           /\ Len(t) = Len(s) - 1
           /\ DOMAIN t = 1 .. Len(s) - 1
           /\ \A k \in 1 .. Len(s) - 1 : t[k] = s[k]
<1> DEFINE n == Len(s) - 1
<1>1. Len(s) \in Nat /\ Len(s) >= 1 /\ \A i \in 1 .. Len(s) : s[i] \in S
  OBVIOUS
<1>2. 1 \in Int /\ n \in Nat /\ n \in Int /\ \A i \in 1 .. n : s[i] \in S
  BY <1>1
<1> HIDE DEF n
<1>3. /\ t \in Seq(S)
      /\ Len(t) = IF 1 <= n THEN n - 1 + 1 ELSE 0
      /\ \A i \in 1 .. n - 1 + 1 : t[i] = s[1 + i - 1]
  BY <1>2, SubSeqProperties DEF n
<1>4. Len(t) = n /\ \A i \in 1 .. n : t[i] = s[i]
  BY <1>2, <1>3
<1> QED BY <1>3, <1>4 DEF n

\* Replacing the top frame.
LEMMA FramesFacts ==
    ASSUME NEW S, stack \in Seq(S), stack # <<>>, NEW f \in S
    PROVE  /\ Frames(f) \in Seq(S)
           /\ Len(Frames(f)) = Len(stack)
           /\ DOMAIN Frames(f) = 1 .. Len(stack)
           /\ Frames(f)[Len(stack)] = f
           /\ \A k \in 1 .. Len(stack) - 1 : Frames(f)[k] = stack[k]
<1> DEFINE t == SubSeq(stack, 1, Len(stack) - 1)
<1>1. /\ t \in Seq(S) /\ Len(t) = Len(stack) - 1
      /\ \A k \in 1 .. Len(stack) - 1 : t[k] = stack[k]
  BY DropFacts
<1>2. Frames(f) = Append(t, f)
  BY DEF Frames
<1>3. Len(stack) \in Nat
  OBVIOUS
<1> HIDE DEF t
<1>4. /\ Append(t, f) \in Seq(S) /\ Len(Append(t, f)) = Len(t) + 1
      /\ DOMAIN Append(t, f) = 1 .. Len(t) + 1
      /\ Append(t, f)[Len(t) + 1] = f
      /\ \A k \in 1 .. Len(t) : Append(t, f)[k] = t[k]
  BY <1>1, AppendFacts
<1> QED BY <1>1, <1>2, <1>3, <1>4

---------------------------------------------------------------------------
\* Types.

LEMMA PlacesFacts ==
    ASSUME TypeOK
    PROVE  /\ Len(components) \in Nat /\ Places = 1 .. Len(components)
           /\ \A i \in Places : components[i] \in Component
BY DEF TypeOK, Places

\* The top frame in the walk, and what of it may change.
LEMMA TopFacts ==
    ASSUME TypeOK, pc = "walk"
    PROVE  /\ stack # <<>> /\ Len(stack) \in Nat /\ Len(stack) >= 1
           /\ DOMAIN stack = 1 .. Len(stack)
           /\ stack \in Seq([comp : Places, next : Nat \ {0}])
           /\ Top \in [comp : Places, next : Nat \ {0}]
           /\ [Top EXCEPT !.next = @ + 1] \in [comp : Places, next : Nat \ {0}]
           /\ [Top EXCEPT !.next = @ + 1].comp = Top.comp
           /\ [Top EXCEPT !.next = @ + 1].next = Top.next + 1
<1>1. stack # <<>> /\ stack \in Seq([comp : Places, next : Nat \ {0}])
  BY DEF TypeOK
<1>2. Len(stack) \in Nat /\ Len(stack) >= 1 /\ DOMAIN stack = 1 .. Len(stack)
  BY <1>1
<1>3. Top \in [comp : Places, next : Nat \ {0}]
  BY <1>1, LastFacts DEF Top
<1>4. ASSUME NEW f \in [comp : Places, next : Nat \ {0}]
      PROVE  /\ [f EXCEPT !.next = @ + 1] \in [comp : Places, next : Nat \ {0}]
             /\ [f EXCEPT !.next = @ + 1].comp = f.comp
             /\ [f EXCEPT !.next = @ + 1].next = f.next + 1
  OBVIOUS
<1> QED BY <1>1, <1>2, <1>3, <1>4

\* A visit keeps the types, on top of any recursion.
LEMMA VisitTypes ==
    ASSUME TypeOK, UNCHANGED components, NEW i \in Places,
           NEW rest \in Seq([comp : Places, next : Nat \ {0}]), Visit(i, rest)
    PROVE  /\ stack' \in Seq([comp : Places, next : Nat \ {0}]) /\ stack' # <<>>
           /\ Len(stack') = Len(rest) + 1 /\ DOMAIN stack' = 1 .. Len(rest) + 1
           /\ stack'[Len(rest) + 1] = [comp |-> i, next |-> 1]
           /\ \A k \in 1 .. Len(rest) : stack'[k] = rest[k]
           /\ emitted' \in SUBSET Places /\ emitted' = emitted \cup {i}
           /\ out' \in Seq(Places) /\ Len(out') = Len(out) + 1
           /\ DOMAIN out' = 1 .. Len(out) + 1 /\ out'[Len(out) + 1] = i
           /\ \A k \in 1 .. Len(out) : out'[k] = out[k]
<1> DEFINE x == [comp |-> i, next |-> 1]
<1>1. x \in [comp : Places, next : Nat \ {0}] /\ stack' = Append(rest, x)
  BY DEF Visit
<1> HIDE DEF x
<1>2. /\ stack' \in Seq([comp : Places, next : Nat \ {0}]) /\ Len(stack') = Len(rest) + 1
      /\ DOMAIN stack' = 1 .. Len(rest) + 1 /\ stack'[Len(rest) + 1] = x
      /\ \A k \in 1 .. Len(rest) : stack'[k] = rest[k]
  BY <1>1, AppendFacts
<1>3. stack' # <<>>
  BY <1>2
<1>4. /\ out' \in Seq(Places) /\ Len(out') = Len(out) + 1
      /\ DOMAIN out' = 1 .. Len(out) + 1 /\ out'[Len(out) + 1] = i
      /\ \A k \in 1 .. Len(out) : out'[k] = out[k]
  BY AppendFacts DEF Visit, TypeOK
<1>5. emitted' \in SUBSET Places /\ emitted' = emitted \cup {i}
  BY DEF Visit, TypeOK
<1> QED BY <1>2, <1>3, <1>4, <1>5 DEF x

LEMMA TypeInit == Init => TypeOK
BY ListsAssumption, DefinitionsAssumption DEF Init, TypeOK, Stages, Places

LEMMA TypeStep == TypeOK /\ [Next]_vars => TypeOK'
<1> SUFFICES ASSUME TypeOK, [Next]_vars PROVE TypeOK'
  OBVIOUS
<1> DEFINE Frame == [comp : Places, next : Nat \ {0}]
<1>0. UNCHANGED <<components, defined>>
  BY DEF Next, vars, input, KeepSourceOrder, FindMain, Descend, PassBy, Ascend,
         AppendOrphan, EmitCall, EmitReturn
<1>a. Places' = Places
  BY <1>0 DEF Places
<1>1. CASE KeepSourceOrder
  <2>1. Len(components) \in Nat /\ out' = [i \in 1 .. Len(components) |-> i]
    BY <1>1, PlacesFacts DEF KeepSourceOrder
  <2>2. out' \in Seq(Places)
    BY <2>1, PlacesFacts
  <2>3. UNCHANGED <<stack, emitted, at, calls>> /\ pc = "find" /\ pc' = "calls"
    BY <1>1 DEF KeepSourceOrder
  <2> QED BY <1>0, <1>a, <2>2, <2>3 DEF TypeOK, Stages
<1>2. CASE FindMain
  <2>1. PICK m \in Places : Visit(m, <<>>)
    BY <1>2 DEF FindMain
  <2>2. <<>> \in Seq(Frame)
    OBVIOUS
  <2>3. stack' \in Seq(Frame) /\ stack' # <<>> /\ emitted' \in SUBSET Places /\ out' \in Seq(Places)
    BY <1>0, <2>1, <2>2, VisitTypes
  <2>4. pc' = "walk" /\ UNCHANGED <<at, calls>>
    BY <1>2 DEF FindMain
  <2> QED BY <1>0, <1>a, <2>3, <2>4 DEF TypeOK, Stages
<1>3. CASE Descend
  <2>1. pc = "walk" /\ pc' = "walk" /\ UNCHANGED <<at, calls>> /\ Top.next \in Places
    BY <1>3 DEF Descend
  <2> DEFINE f == [Top EXCEPT !.next = @ + 1]
  <2>2. f \in Frame /\ stack \in Seq(Frame) /\ stack # <<>>
    BY <2>1, TopFacts
  <2>3. Visit(Top.next, Frames(f))
    BY <1>3 DEF Descend
  <2> HIDE DEF f
  <2>4. Frames(f) \in Seq(Frame)
    BY <2>2, FramesFacts
  <2>5. stack' \in Seq(Frame) /\ stack' # <<>> /\ emitted' \in SUBSET Places /\ out' \in Seq(Places)
    BY <1>0, <2>1, <2>3, <2>4, VisitTypes
  <2> QED BY <1>0, <1>a, <2>1, <2>5 DEF TypeOK, Stages
<1>4. CASE PassBy
  <2>1. pc = "walk" /\ UNCHANGED <<pc, emitted, at, out, calls>>
    BY <1>4 DEF PassBy
  <2> DEFINE f == [Top EXCEPT !.next = @ + 1]
  <2>2. f \in Frame /\ stack \in Seq(Frame) /\ stack # <<>>
    BY <2>1, TopFacts
  <2>3. stack' = Frames(f)
    BY <1>4 DEF PassBy
  <2> HIDE DEF f
  <2>4. stack' \in Seq(Frame) /\ Len(stack') = Len(stack)
    BY <2>2, <2>3, FramesFacts
  <2>5. stack' # <<>>
    BY <2>2, <2>4
  <2> QED BY <1>0, <1>a, <2>1, <2>4, <2>5 DEF TypeOK
<1>5. CASE Ascend
  <2>1. /\ pc = "walk" /\ stack' = SubSeq(stack, 1, Len(stack) - 1)
        /\ pc' = (IF Len(stack) = 1 THEN "orphans" ELSE "walk")
        /\ UNCHANGED <<emitted, at, out, calls>>
    BY <1>5 DEF Ascend
  <2>2. stack \in Seq(Frame) /\ stack # <<>> /\ Len(stack) \in Nat
    BY <2>1, TopFacts
  <2>3. stack' \in Seq(Frame) /\ Len(stack') = Len(stack) - 1
    BY <2>1, <2>2, DropFacts
  <2>4. stack' # <<>> <=> Len(stack) # 1
    BY <2>2, <2>3, SMTT(30)
  <2> QED BY <1>0, <1>a, <2>1, <2>3, <2>4 DEF TypeOK, Stages
<1>6. CASE AppendOrphan
  <2>1. out' \in Seq(Places)
    <3>1. out' = out \/ (at \in Places /\ out' = Append(out, at))
      BY <1>6 DEF AppendOrphan
    <3>2. out \in Seq(Places)
      BY DEF TypeOK
    <3> QED BY <3>1, <3>2, AppendFacts
  <2> QED BY <1>0, <1>a, <1>6, <2>1 DEF AppendOrphan, TypeOK, Stages
<1>7. CASE EmitCall
  <2>1. calls' \in Seq(Places)
    <3>1. calls' = calls \/ (at \in DOMAIN out /\ calls' = Append(calls, out[at]))
      BY <1>7 DEF EmitCall
    <3>2. out \in Seq(Places) /\ calls \in Seq(Places)
      BY DEF TypeOK
    <3>3. at \in DOMAIN out => out[at] \in Places
      BY <3>2
    <3> QED BY <3>1, <3>2, <3>3, AppendFacts
  <2> QED BY <1>0, <1>a, <1>7, <2>1 DEF EmitCall, TypeOK, Stages
<1>8. CASE EmitReturn
  <2>1. calls' \in Seq(Places)
    <3>1. CASE calls = <<>>
      BY <1>8, <3>1 DEF EmitReturn, TypeOK
    <3>2. CASE calls # <<>>
      BY <1>8, <3>2, DropFacts DEF EmitReturn, TypeOK
    <3> QED BY <3>1, <3>2
  <2> QED BY <1>0, <1>a, <1>8, <2>1 DEF EmitReturn, TypeOK, Stages
<1>9. CASE UNCHANGED vars
  BY <1>9 DEF vars, input, TypeOK, Places
<1> QED BY <1>1, <1>2, <1>3, <1>4, <1>5, <1>6, <1>7, <1>8, <1>9 DEF Next

---------------------------------------------------------------------------
\* The steps of the walk.

\* What depends on the source alone does not change.
LEMMA SameSource ==
    ASSUME UNCHANGED <<components, defined>>
    PROVE  /\ Places' = Places /\ AtFileScope' = AtFileScope /\ Known' = Known
           /\ \A m : IsMain(m)' <=> IsMain(m)
           /\ \A i, p : DeclaredIn(i, p)' <=> DeclaredIn(i, p)
           /\ \A S : Closed(S)' <=> Closed(S)
BY DEF Places, AtFileScope, Known, IsMain, IsFirst, DeclaredIn, Closed

LEMMA NextSameSource ==
    ASSUME [Next]_vars
    PROVE  UNCHANGED <<components, defined>>
BY DEF Next, vars, input, KeepSourceOrder, FindMain, Descend, PassBy, Ascend,
       AppendOrphan, EmitCall, EmitReturn

LEMMA KeepStep ==
    ASSUME IInv, KeepSourceOrder, TypeOK', UNCHANGED <<components, defined>>
    PROVE  IInv'
<1>1. /\ AtFileScope = {} /\ AtFileScope' = {} /\ Places' = Places /\ pc = "find" /\ pc' = "calls"
      /\ out' = [i \in Places |-> i] /\ emitted' = {} /\ at' = 1 /\ calls' = <<>>
  BY SameSource DEF KeepSourceOrder, IInv, StageOK
<1>2. Len(components) \in Nat /\ Places = 1 .. Len(components)
  BY PlacesFacts DEF IInv
<1>3. DOMAIN out' = Places /\ \A p \in Places : out'[p] = p
  BY <1>1
<1>4. out' \in Seq(Places) /\ Len(out') = Len(components)
  BY <1>1, <1>2
<1>5. StageOK'
  BY <1>1 DEF StageOK
<1>6. Injective' /\ MarkedAreOut' /\ MarkedAreReachable' /\ AllOut'
  BY <1>1, <1>3 DEF Injective, MarkedAreOut, MarkedAreReachable, AllOut, InOut
<1>7. WalkOK' /\ MarkedHaveParents' /\ OrphansOK'
  BY <1>1 DEF WalkOK, MarkedHaveParents, OrphansOK
<1>8. SiblingsInOrder'
  BY <1>1, <1>2, <1>3 DEF SiblingsInOrder
<1>9. CallsOK'
  BY <1>1, <1>2, <1>4 DEF CallsOK
<1> QED BY <1>5, <1>6, <1>7, <1>8, <1>9 DEF IInv

LEMMA FindStep ==
    ASSUME IInv, FindMain, TypeOK', UNCHANGED <<components, defined>>
    PROVE  IInv'
<1>0. Places' = Places /\ AtFileScope' = AtFileScope
  BY SameSource
<1>1. PICK m \in Places : IsMain(m) /\ Visit(m, <<>>)
  BY DEF FindMain, IsMain
<1>2. pc = "find" /\ pc' = "walk" /\ at' = 1 /\ calls' = <<>> /\ out = <<>> /\ emitted = {}
  BY DEF FindMain, IInv, StageOK
<1>3. /\ Len(stack') = 1 /\ DOMAIN stack' = 1 .. 1 /\ stack'[1] = [comp |-> m, next |-> 1]
      /\ emitted' = {m} /\ Len(out') = 1 /\ DOMAIN out' = 1 .. 1 /\ out'[1] = m
  <2>1. <<>> \in Seq([comp : Places, next : Nat \ {0}]) /\ Len(<<>>) = 0
    OBVIOUS
  <2>2. Len(out) = 0
    BY <1>2
  <2>3. TypeOK
    BY DEF IInv
  <2>4. /\ Len(stack') = Len(<<>>) + 1 /\ DOMAIN stack' = 1 .. Len(<<>>) + 1
        /\ stack'[Len(<<>>) + 1] = [comp |-> m, next |-> 1]
        /\ emitted' = emitted \cup {m}
        /\ Len(out') = Len(out) + 1 /\ DOMAIN out' = 1 .. Len(out) + 1
        /\ out'[Len(out) + 1] = m
    BY <1>1, <2>1, <2>3, VisitTypes
  <2> QED BY <1>2, <2>1, <2>2, <2>4
<1>4. m \in AtFileScope
  BY <1>1 DEF IsMain, IsFirst
<1>5. StageOK'
  BY <1>0, <1>1, <1>2, <1>3, <1>4 DEF StageOK, IsMain, IsFirst
<1>6. Injective' /\ MarkedAreOut' /\ AllOut' /\ OrphansOK' /\ CallsOK'
  BY <1>2, <1>3 DEF Injective, MarkedAreOut, AllOut, Ordered, InOut, OrphansOK, CallsOK
<1>7. WalkOK'
  <2>1. \A c \in Places : ~(c < 1)
    BY PlacesFacts DEF IInv
  <2> QED BY <1>0, <1>2, <1>3, <2>1 DEF WalkOK
<1>8. MarkedAreReachable'
  <2>1. \A n : IsMain(n) => n = m
    <3> SUFFICES ASSUME NEW n, IsMain(n) PROVE n = m
      OBVIOUS
    <3>1. n \in Places /\ n <= m /\ m <= n
      BY <1>1 DEF IsMain, IsFirst, AtFileScope
    <3>2. n \in Int /\ m \in Int
      BY <3>1, PlacesFacts DEF IInv
    <3> QED BY <3>1, <3>2
  <2>2. \A n : IsMain(n)' => n = m
    BY <1>0, <2>1 DEF IsMain, IsFirst
  <2> QED BY <1>0, <1>3, <2>2 DEF MarkedAreReachable
<1>9. MarkedHaveParents'
  BY <1>0, <1>1, <1>3 DEF MarkedHaveParents, IsMain, IsFirst
<1>10. SiblingsInOrder'
  BY <1>0, <1>3, <1>4 DEF SiblingsInOrder, AtFileScope
<1> QED BY <1>5, <1>6, <1>7, <1>8, <1>9, <1>10 DEF IInv

LEMMA DescendStep ==
    ASSUME IInv, Descend, TypeOK', UNCHANGED <<components, defined>>
    PROVE  IInv'
<1> DEFINE i == Top.next
           n == Len(stack)
           f == [Top EXCEPT !.next = @ + 1]
<1>0. Places' = Places /\ AtFileScope' = AtFileScope
  BY SameSource
<1>1. /\ pc = "walk" /\ pc' = "walk" /\ at' = at /\ calls' = calls
      /\ i \in Places /\ i \notin emitted /\ DeclaredIn(i, Top.comp)
      /\ Visit(i, Frames(f)) /\ TypeOK
  BY DEF Descend, Descends, IsChild, DeclaredIn, IInv
<1>2. /\ n \in Nat /\ n >= 1 /\ DOMAIN stack = 1 .. n /\ stack # <<>>
      /\ stack \in Seq([comp : Places, next : Nat \ {0}])
      /\ f \in [comp : Places, next : Nat \ {0}] /\ f.comp = Top.comp /\ f.next = i + 1
      /\ Top.comp \in Places /\ i \in Nat /\ Top = stack[n]
  BY <1>1, TopFacts DEF Top
<1> HIDE DEF f
<1>3. /\ Frames(f) \in Seq([comp : Places, next : Nat \ {0}]) /\ Len(Frames(f)) = n
      /\ Frames(f)[n] = f /\ \A k \in 1 .. n - 1 : Frames(f)[k] = stack[k]
  BY <1>2, FramesFacts
<1>4. /\ DOMAIN stack' = 1 .. n + 1 /\ stack'[n + 1] = [comp |-> i, next |-> 1]
      /\ \A k \in 1 .. n : stack'[k] = Frames(f)[k]
      /\ emitted' = emitted \cup {i}
      /\ Len(out') = Len(out) + 1 /\ DOMAIN out' = 1 .. Len(out) + 1
      /\ out'[Len(out) + 1] = i /\ \A k \in 1 .. Len(out) : out'[k] = out[k]
  <2> DEFINE r == Frames(f)
  <2>1. r \in Seq([comp : Places, next : Nat \ {0}]) /\ Len(r) = n /\ Visit(i, r)
    BY <1>1, <1>3
  <2> HIDE DEF r
  <2>2. /\ DOMAIN stack' = 1 .. Len(r) + 1 /\ stack'[Len(r) + 1] = [comp |-> i, next |-> 1]
        /\ \A k \in 1 .. Len(r) : stack'[k] = r[k]
        /\ emitted' = emitted \cup {i}
        /\ Len(out') = Len(out) + 1 /\ DOMAIN out' = 1 .. Len(out) + 1
        /\ out'[Len(out) + 1] = i /\ \A k \in 1 .. Len(out) : out'[k] = out[k]
    BY <1>1, <2>1, VisitTypes
  <2> HIDE DEF n, i
  <2> QED BY <2>1, <2>2 DEF r
<1> HIDE DEF n, i
<1>5. /\ stack'[n].comp = stack[n].comp /\ stack'[n].next = i + 1 /\ n \in DOMAIN stack'
      /\ stack'[n + 1].comp = i /\ stack'[n + 1].next = 1
      /\ \A k \in 1 .. n - 1 : stack'[k] = stack[k]
  BY <1>2, <1>3, <1>4
<1>a. /\ \A p \in DOMAIN out : out[p] \in emitted
      /\ \A k \in 1 .. n :
           /\ stack[k].comp \in emitted
           /\ \A c \in Places : c < stack[k].next /\ DeclaredIn(c, stack[k].comp) => c \in emitted
      /\ \A e \in emitted :
           \/ \E k \in 1 .. n : stack[k].comp = e
           \/ \A c \in Places : DeclaredIn(c, e) => c \in emitted
  BY <1>1, <1>2 DEF IInv, WalkOK
<1>b. Top.comp = stack[n].comp /\ stack[n].next = i /\ Top.comp \in emitted /\ n \in 1 .. n
  BY <1>2, <1>a DEF i
<1>c. Places \subseteq Nat \ {0} /\ emitted \subseteq Places /\ out \in Seq(Places)
  BY <1>1, PlacesFacts, SMTT(30) DEF TypeOK
<1>d. Len(out) \in Nat /\ DOMAIN out = 1 .. Len(out)
  BY <1>c
<1>6. /\ Len(out) \in Nat /\ DOMAIN out = 1 .. Len(out)
      /\ \A p \in DOMAIN out : out[p] \in emitted /\ out'[p] = out[p]
      /\ Top.comp \in emitted /\ Places \subseteq Nat \ {0} /\ emitted \subseteq Places
      /\ Top.comp = stack[n].comp /\ stack[n].next = i
  BY <1>4, <1>a, <1>b, <1>c, <1>d
<1>7. StageOK'
  BY <1>0, <1>1, <1>4 DEF IInv, StageOK, IsMain, IsFirst
<1>8. Injective'
  BY <1>1, <1>4, <1>6 DEF IInv, Injective
<1>9. MarkedAreOut'
  <2>1. Len(out) + 1 \in DOMAIN out' /\ DOMAIN out \subseteq DOMAIN out'
    BY <1>4, <1>6
  <2>2. \A e \in emitted : \E p \in DOMAIN out' : out'[p] = e
    BY <1>6, <2>1 DEF IInv, MarkedAreOut, InOut
  <2> QED BY <1>4, <2>1, <2>2 DEF MarkedAreOut, InOut
<1>10. WalkOK'
  <2>1. \A p \in DOMAIN out' : out'[p] \in emitted'
    BY <1>4, <1>6
  <2>2. ASSUME NEW k \in DOMAIN stack'
        PROVE  /\ stack'[k].comp \in emitted'
               /\ \A c \in Places :
                    c < stack'[k].next /\ DeclaredIn(c, stack'[k].comp) => c \in emitted'
    <3>1. CASE k \in 1 .. n - 1
      <4>1. k \in 1 .. n /\ stack'[k] = stack[k]
        BY <1>2, <1>5, <3>1
      <4> QED BY <1>4, <1>a, <4>1
    <3>2. CASE k = n
      <4>1. /\ stack[n].comp \in emitted
            /\ \A c \in Places : c < i /\ DeclaredIn(c, stack[n].comp) => c \in emitted
        BY <1>a, <1>b
      <4>2. ASSUME NEW c \in Places, c < i + 1 PROVE c < i \/ c = i
        <5>1. c \in Nat /\ i \in Nat
          BY <1>2, <1>6
        <5> QED BY <4>2, <5>1
      <4> QED BY <1>4, <1>5, <3>2, <4>1, <4>2
    <3>3. CASE k = n + 1
      <4>1. \A c \in Places : ~(c < 1)
        BY <1>6
      <4> QED BY <1>4, <1>5, <3>3, <4>1
    <3> QED BY <1>2, <1>4, <3>1, <3>2, <3>3
  <2>3. ASSUME NEW e \in emitted'
        PROVE  \/ \E k \in DOMAIN stack' : stack'[k].comp = e
               \/ \A c \in Places : DeclaredIn(c, e) => c \in emitted'
    <3>1. CASE e = i
      <4>1. n + 1 \in DOMAIN stack' /\ stack'[n + 1].comp = e
        BY <1>2, <1>4, <1>5, <3>1
      <4> QED BY <4>1
    <3>2. CASE e \in emitted /\ \E k \in 1 .. n : stack[k].comp = e
      <4>1. PICK k \in 1 .. n : stack[k].comp = e
        BY <3>2
      <4>2. k \in DOMAIN stack' /\ stack'[k].comp = e
        BY <1>2, <1>4, <1>5, <4>1
      <4> QED BY <4>2
    <3>3. CASE e \in emitted /\ \A c \in Places : DeclaredIn(c, e) => c \in emitted
      BY <1>4, <3>3
    <3> QED BY <1>4, <1>a, <3>1, <3>2, <3>3
  <2> QED BY <1>0, <2>1, <2>2, <2>3 DEF WalkOK, DeclaredIn
<1>11. MarkedAreReachable'
  <2>1. ASSUME NEW S \in SUBSET Places, Closed(S), \E m \in S : IsMain(m)
        PROVE  emitted' \subseteq S
    BY <1>1, <1>4, <1>6, <2>1 DEF IInv, MarkedAreReachable, Closed
  <2> QED BY <1>0, <2>1 DEF MarkedAreReachable, Closed, DeclaredIn, IsMain, IsFirst
<1>12. MarkedHaveParents'
  <2>1. ASSUME AtFileScope # {}, NEW q \in DOMAIN out'
        PROVE  IsMain(out'[q]) \/ \E p \in 1 .. q - 1 : DeclaredIn(out'[q], out'[p])
    <3>1. CASE q = Len(out) + 1
      <4>1. PICK p \in DOMAIN out : out[p] = Top.comp
        BY <1>6 DEF IInv, MarkedAreOut, InOut
      <4>2. p \in 1 .. q - 1 /\ out'[p] = Top.comp
        BY <1>6, <3>1, <4>1
      <4> QED BY <1>1, <1>4, <3>1, <4>2
    <3>2. CASE q \in 1 .. Len(out)
      <4>1. out'[q] = out[q] /\ \A p \in 1 .. q - 1 : out'[p] = out[p]
        BY <1>4, <1>6, <3>2
      <4> QED BY <1>6, <2>1, <3>2, <4>1 DEF IInv, MarkedHaveParents
    <3> QED BY <1>4, <1>6, <3>1, <3>2
  <2> QED BY <1>0, <2>1 DEF MarkedHaveParents, DeclaredIn, IsMain, IsFirst
<1>13. SiblingsInOrder'
  <2>1. ASSUME NEW j \in Places, NEW h \in 1 .. j - 1,
               components[h].parent = components[j].parent, components[h].parent # File,
               NEW q \in DOMAIN out', out'[q] = j
        PROVE  \E p \in 1 .. q - 1 : out'[p] = h
    <3>1. CASE q = Len(out) + 1
      <4>1. h \in Places /\ h < i /\ j = i
        BY <1>4, <1>6, <2>1, <3>1, PlacesFacts, <1>1
      <4>2. DeclaredIn(h, stack[n].comp)
        BY <1>1, <1>6, <2>1, <4>1 DEF DeclaredIn
      <4>3. h \in emitted
        BY <1>a, <1>b, <4>1, <4>2
      <4>4. PICK p \in DOMAIN out : out[p] = h
        BY <4>3 DEF IInv, MarkedAreOut, InOut
      <4> QED BY <1>6, <3>1, <4>4
    <3>2. CASE q \in 1 .. Len(out)
      <4>1. out[q] = j
        BY <1>4, <2>1, <3>2
      <4>2. PICK p \in 1 .. q - 1 : out[p] = h
        BY <1>6, <2>1, <3>2, <4>1 DEF IInv, SiblingsInOrder
      <4> QED BY <1>6, <3>2, <4>2
    <3> QED BY <1>4, <1>6, <3>1, <3>2
  <2> QED BY <1>0, <2>1 DEF SiblingsInOrder
<1>14. OrphansOK' /\ AllOut' /\ CallsOK'
  BY <1>1 DEF OrphansOK, AllOut, Ordered, CallsOK
<1> QED BY <1>7, <1>8, <1>9, <1>10, <1>11, <1>12, <1>13, <1>14 DEF IInv

\* What the other steps of the walk leave as it is.
LEMMA SameOrder ==
    ASSUME IInv, UNCHANGED <<components, defined, emitted, at, out, calls>>, pc = "walk",
           pc' \in {"walk", "orphans"}
    PROVE  /\ StageOK' /\ Injective' /\ MarkedAreOut' /\ MarkedAreReachable'
           /\ MarkedHaveParents' /\ SiblingsInOrder' /\ AllOut' /\ CallsOK'
<1>0. Places' = Places /\ AtFileScope' = AtFileScope
  BY SameSource
<1>1. StageOK'
  BY <1>0 DEF IInv, StageOK, IsMain, IsFirst
<1>2. Injective' /\ MarkedAreOut'
  BY DEF IInv, Injective, MarkedAreOut, InOut
<1>3. MarkedAreReachable'
  BY <1>0 DEF IInv, MarkedAreReachable, Closed, DeclaredIn, IsMain, IsFirst
<1>4. MarkedHaveParents'
  BY <1>0 DEF IInv, MarkedHaveParents, DeclaredIn, IsMain, IsFirst
<1>5. SiblingsInOrder'
  BY <1>0 DEF IInv, SiblingsInOrder
<1>6. AllOut' /\ CallsOK'
  BY DEF AllOut, Ordered, CallsOK
<1> QED BY <1>1, <1>2, <1>3, <1>4, <1>5, <1>6

\* The walk, unfolded.
LEMMA WalkFacts ==
    ASSUME IInv, pc = "walk"
    PROVE  /\ Len(stack) \in Nat /\ Len(stack) >= 1 /\ stack # <<>>
           /\ stack \in Seq([comp : Places, next : Nat \ {0}])
           /\ Top = stack[Len(stack)] /\ Top.next \in Nat \ {0}
           /\ \A p \in DOMAIN out : out[p] \in emitted
           /\ \A k \in 1 .. Len(stack) :
                /\ stack[k].comp \in emitted
                /\ \A c \in Places :
                     c < stack[k].next /\ DeclaredIn(c, stack[k].comp) => c \in emitted
           /\ \A e \in emitted :
                \/ \E k \in 1 .. Len(stack) : stack[k].comp = e
                \/ \A c \in Places : DeclaredIn(c, e) => c \in emitted
<1>1. TypeOK
  BY DEF IInv
<1>2. /\ Len(stack) \in Nat /\ Len(stack) >= 1 /\ stack # <<>> /\ DOMAIN stack = 1 .. Len(stack)
      /\ stack \in Seq([comp : Places, next : Nat \ {0}])
      /\ Top \in [comp : Places, next : Nat \ {0}]
  BY <1>1, TopFacts
<1>3. Top = stack[Len(stack)] /\ Top.next \in Nat \ {0}
  BY <1>2 DEF Top
<1> QED BY <1>2, <1>3 DEF IInv, WalkOK

LEMMA PassStep ==
    ASSUME IInv, PassBy, TypeOK', UNCHANGED <<components, defined>>
    PROVE  IInv'
<1> DEFINE i == Top.next
           n == Len(stack)
           f == [Top EXCEPT !.next = @ + 1]
<1>0. Places' = Places
  BY SameSource
<1>1. /\ pc = "walk" /\ pc' = "walk" /\ UNCHANGED <<emitted, at, out, calls>>
      /\ stack' = Frames(f) /\ i \in Places
      /\ DeclaredIn(i, Top.comp) => i \in emitted
  BY DEF PassBy, Descends, IsChild, DeclaredIn
<1>2. f \in [comp : Places, next : Nat \ {0}] /\ f.comp = Top.comp /\ f.next = i + 1
  BY <1>1, TopFacts DEF IInv
<1> HIDE DEF f
<1>3. /\ DOMAIN stack' = 1 .. n /\ stack'[n] = f
      /\ \A k \in 1 .. n - 1 : stack'[k] = stack[k]
  BY <1>1, <1>2, FramesFacts, WalkFacts, ZenonT(60)
<1>4. n \in Nat /\ n >= 1 /\ Top = stack[n] /\ i \in Nat
  BY <1>1, WalkFacts
<1>5. Places \subseteq Nat
  BY PlacesFacts DEF IInv
<1>a. /\ \A k \in 1 .. n :
           /\ stack[k].comp \in emitted
           /\ \A c \in Places : c < stack[k].next /\ DeclaredIn(c, stack[k].comp) => c \in emitted
      /\ \A e \in emitted :
           \/ \E k \in 1 .. n : stack[k].comp = e
           \/ \A c \in Places : DeclaredIn(c, e) => c \in emitted
  BY <1>1, WalkFacts
<1> HIDE DEF n
<1>6. WalkOK'
  <2>1. ASSUME NEW k \in DOMAIN stack'
        PROVE  /\ stack'[k].comp \in emitted
               /\ \A c \in Places :
                    c < stack'[k].next /\ DeclaredIn(c, stack'[k].comp) => c \in emitted
    <3>1. CASE k \in 1 .. n - 1
      <4>1. k \in 1 .. n /\ stack'[k] = stack[k]
        BY <1>3, <1>4, <3>1
      <4> QED BY <1>a, <4>1
    <3>2. CASE k = n
      <4>1. stack'[k].comp = Top.comp /\ stack'[k].next = i + 1 /\ k \in 1 .. n
        BY <1>2, <1>3, <1>4, <3>2
      <4>2. Top.comp \in emitted
        BY <1>4, <1>a, <4>1, <3>2
      <4>3. ASSUME NEW c \in Places, c < i + 1, DeclaredIn(c, Top.comp) PROVE c \in emitted
        <5>1. c < i \/ c = i
          BY <1>4, <1>5, <4>3
        <5> QED BY <1>1, <1>4, <1>a, <3>2, <4>1, <4>3, <5>1
      <4> QED BY <4>1, <4>2, <4>3
    <3> QED BY <1>3, <1>4, <3>1, <3>2
  <2>2. ASSUME NEW e \in emitted
        PROVE  \/ \E k \in DOMAIN stack' : stack'[k].comp = e
               \/ \A c \in Places : DeclaredIn(c, e) => c \in emitted
    <3>1. CASE \E k \in 1 .. n : stack[k].comp = e
      <4>1. PICK k \in 1 .. n : stack[k].comp = e
        BY <3>1
      <4>2. stack'[k].comp = e /\ k \in DOMAIN stack'
        <5>1. CASE k = n
          BY <1>2, <1>3, <1>4, <4>1, <5>1
        <5>2. CASE k # n
          BY <1>3, <1>4, <4>1, <5>2
        <5> QED BY <5>1, <5>2
      <4> QED BY <4>2
    <3> QED BY <1>a, <3>1
  <2>3. \A p \in DOMAIN out : out[p] \in emitted
    BY <1>1, WalkFacts
  <2> QED BY <1>0, <1>1, <2>1, <2>2, <2>3 DEF WalkOK, DeclaredIn
<1>7. OrphansOK'
  BY <1>1 DEF OrphansOK
<1> QED BY <1>1, <1>6, <1>7, SameOrder DEF IInv

LEMMA AscendStep ==
    ASSUME IInv, Ascend, TypeOK', UNCHANGED <<components, defined>>
    PROVE  IInv'
<1> DEFINE n == Len(stack)
<1>0. Places' = Places
  BY SameSource
<1>1. /\ pc = "walk" /\ UNCHANGED <<emitted, at, out, calls>> /\ Top.next \notin Places
      /\ stack' = SubSeq(stack, 1, n - 1)
      /\ pc' = (IF n = 1 THEN "orphans" ELSE "walk") /\ at = 1
  BY DEF Ascend, IInv, StageOK
<1>2. n \in Nat /\ n >= 1 /\ Top = stack[n]
  BY <1>1, WalkFacts
<1>3. DOMAIN stack' = 1 .. n - 1 /\ \A k \in 1 .. n - 1 : stack'[k] = stack[k]
  BY <1>1, DropFacts, WalkFacts
<1>a. /\ \A p \in DOMAIN out : out[p] \in emitted
      /\ \A k \in 1 .. n :
           /\ stack[k].comp \in emitted
           /\ \A c \in Places : c < stack[k].next /\ DeclaredIn(c, stack[k].comp) => c \in emitted
      /\ \A e \in emitted :
           \/ \E k \in 1 .. n : stack[k].comp = e
           \/ \A c \in Places : DeclaredIn(c, e) => c \in emitted
  BY <1>1, WalkFacts
<1>4. \A c \in Places : c < Top.next /\ c >= 1
  <2>1. Places = 1 .. Len(components) /\ Len(components) \in Nat
    BY PlacesFacts DEF IInv
  <2>2. Top.next \in Nat \ {0}
    BY <1>1, WalkFacts
  <2> QED BY <1>1, <2>1, <2>2
<1> HIDE DEF n
\* The component whose loop is over has walked all its children.
<1>5. \A c \in Places : DeclaredIn(c, stack[n].comp) => c \in emitted
  BY <1>2, <1>4, <1>a
<1>6. WalkOK'
  <2>1. ASSUME NEW e \in emitted
        PROVE  \/ \E k \in DOMAIN stack' : stack'[k].comp = e
               \/ \A c \in Places : DeclaredIn(c, e) => c \in emitted
    <3>1. CASE \E k \in 1 .. n : stack[k].comp = e
      <4>1. PICK k \in 1 .. n : stack[k].comp = e
        BY <3>1
      <4>2. CASE k = n
        BY <1>5, <4>1, <4>2
      <4>3. CASE k # n
        <5>1. k \in DOMAIN stack' /\ stack'[k].comp = e
          BY <1>2, <1>3, <4>1, <4>3
        <5> QED BY <5>1
      <4> QED BY <4>2, <4>3
    <3> QED BY <1>a, <3>1
  <2>2. ASSUME NEW k \in DOMAIN stack'
        PROVE  /\ stack'[k].comp \in emitted
               /\ \A c \in Places :
                    c < stack'[k].next /\ DeclaredIn(c, stack'[k].comp) => c \in emitted
    <3>1. k \in 1 .. n /\ stack'[k] = stack[k]
      BY <1>2, <1>3
    <3> QED BY <1>a, <3>1
  <2> QED BY <1>0, <1>1, <1>a, <2>1, <2>2 DEF WalkOK, DeclaredIn
<1>7. OrphansOK'
  <2>1. CASE n = 1
    <3>1. Closed(emitted)
      <4>1. ASSUME NEW e \in emitted, NEW c \in Places, DeclaredIn(c, e) PROVE c \in emitted
        <5>1. CASE \E k \in 1 .. n : stack[k].comp = e
          <6>1. stack[n].comp = e
            BY <2>1, <5>1
          <6> QED BY <1>5, <4>1, <6>1
        <5> QED BY <1>a, <4>1, <5>1
      <4> QED BY <4>1 DEF Closed
    <3>2. Closed(emitted)'
      BY <1>0, <1>1, <3>1 DEF Closed, DeclaredIn
    <3>3. \A c \in Places : ~(c < 1)
      BY PlacesFacts DEF IInv
    <3> QED BY <1>0, <1>1, <1>a, <3>2, <3>3 DEF OrphansOK
  <2>2. CASE n # 1
    BY <1>1, <2>2 DEF OrphansOK
  <2> QED BY <2>1, <2>2
<1> QED BY <1>1, <1>6, <1>7, SameOrder DEF IInv

---------------------------------------------------------------------------
\* The steps after the walk.

LEMMA OrphanStep ==
    ASSUME IInv, AppendOrphan, TypeOK', UNCHANGED <<components, defined>>
    PROVE  IInv'
<1>0. Places' = Places /\ AtFileScope' = AtFileScope
  BY SameSource
<1>1. pc = "orphans" /\ AtFileScope # {} /\ UNCHANGED <<emitted, calls>> /\ calls = <<>>
  BY DEF AppendOrphan, IInv, StageOK
<1>2. /\ out \in Seq(Places) /\ Len(out) \in Nat /\ DOMAIN out = 1 .. Len(out)
      /\ Places = 1 .. Len(components) /\ Len(components) \in Nat /\ at \in Nat \ {0}
      /\ emitted \subseteq Places
  BY PlacesFacts DEF IInv, TypeOK
<1>3. /\ Closed(emitted) /\ \A i \in Places : i < at => InOut(i)
      /\ \A p, q \in DOMAIN out : p < q /\ out[p] \notin emitted =>
               out[q] \notin emitted /\ out[p] < out[q]
      /\ \A p \in DOMAIN out : out[p] \notin emitted => out[p] < at
  BY <1>1 DEF IInv, OrphansOK
<1>4. Closed(emitted)'
  BY <1>0, <1>1, <1>3 DEF Closed, DeclaredIn
<1>5. MarkedAreReachable'
  BY <1>0, <1>1 DEF IInv, MarkedAreReachable, Closed, DeclaredIn, IsMain, IsFirst
<1>6. WalkOK'
  BY <1>1 DEF WalkOK, AppendOrphan
<1>7. CASE at \notin Places
  <2>1. UNCHANGED out /\ at' = 1 /\ pc' = "calls"
    BY <1>7 DEF AppendOrphan
  <2>2. StageOK'
    BY <1>0, <1>1, <2>1 DEF IInv, StageOK, IsMain, IsFirst
  <2>3. Injective' /\ MarkedAreOut'
    BY <1>1, <2>1 DEF IInv, Injective, MarkedAreOut, InOut
  <2>4. MarkedHaveParents'
    BY <1>0, <1>1, <2>1 DEF IInv, MarkedHaveParents, DeclaredIn, IsMain, IsFirst
  <2>5. SiblingsInOrder'
    BY <1>0, <2>1 DEF IInv, SiblingsInOrder
  <2>6. OrphansOK'
    BY <1>0, <1>1, <1>3, <1>4, <2>1 DEF OrphansOK
  <2>7. \A i \in Places : i < at
    BY <1>2, <1>7
  <2>8. AllOut'
    BY <1>0, <1>3, <2>1, <2>7 DEF AllOut, InOut
  <2>9. CallsOK'
    BY <1>1, <1>2, <2>1 DEF CallsOK
  <2> QED BY <1>5, <1>6, <2>2, <2>3, <2>4, <2>5, <2>6, <2>8, <2>9 DEF IInv
<1>8. CASE at \in Places /\ at \in emitted
  <2>1. UNCHANGED out /\ at' = at + 1 /\ pc' = "orphans"
    BY <1>1, <1>8 DEF AppendOrphan
  <2>2. StageOK'
    BY <1>0, <1>1, <2>1 DEF IInv, StageOK, IsMain, IsFirst
  <2>3. Injective' /\ MarkedAreOut'
    BY <1>1, <2>1 DEF IInv, Injective, MarkedAreOut, InOut
  <2>4. MarkedHaveParents'
    BY <1>0, <1>1, <2>1 DEF IInv, MarkedHaveParents, DeclaredIn, IsMain, IsFirst
  <2>5. SiblingsInOrder'
    BY <1>0, <2>1 DEF IInv, SiblingsInOrder
  <2>6. \A i \in Places : i < at + 1 => InOut(i)
    <3>1. InOut(at)
      BY <1>8 DEF IInv, MarkedAreOut
    <3>2. \A i \in Places : i < at + 1 => i < at \/ i = at
      BY <1>2
    <3> QED BY <1>3, <3>1, <3>2
  <2>7. \A p \in DOMAIN out : out[p] \notin emitted => out[p] < at + 1
    <3>1. \A p \in DOMAIN out : out[p] \in Nat
      BY <1>2
    <3> QED BY <1>2, <1>3, <3>1
  <2>8. OrphansOK'
    BY <1>0, <1>1, <1>3, <1>4, <2>1, <2>6, <2>7 DEF OrphansOK, InOut
  <2>9. AllOut' /\ CallsOK'
    BY <2>1 DEF AllOut, Ordered, CallsOK
  <2> QED BY <1>5, <1>6, <2>2, <2>3, <2>4, <2>5, <2>8, <2>9 DEF IInv
<1>9. CASE at \in Places /\ at \notin emitted
  <2> DEFINE n == Len(out)
  <2>1. out' = Append(out, at) /\ at' = at + 1 /\ pc' = "orphans"
    BY <1>1, <1>9 DEF AppendOrphan
  <2>2. /\ DOMAIN out' = 1 .. n + 1 /\ out'[n + 1] = at /\ n + 1 \in 1 .. n + 1
        /\ \A k \in 1 .. n : out'[k] = out[k] /\ out[k] \in Places /\ out[k] \in Nat
        /\ n \in Nat /\ DOMAIN out = 1 .. n
    BY <1>2, <1>9, <2>1, AppendFacts
  <2> HIDE DEF n
  <2>3. StageOK'
    BY <1>0, <1>1, <2>1 DEF IInv, StageOK, IsMain, IsFirst
  \* What is out already is marked or comes earlier in the source.
  <2>4. \A k \in 1 .. n : out[k] # at
    BY <1>2, <1>3, <1>9, <2>2
  <2>5. Injective'
    BY <2>2, <2>4 DEF IInv, Injective
  <2>6. \A i : InOut(i) => \E p \in 1 .. n + 1 : out'[p] = i
    BY <2>2 DEF InOut
  <2>7. MarkedAreOut'
    BY <1>1, <2>2, <2>6 DEF IInv, MarkedAreOut, InOut
  <2>8. MarkedHaveParents'
    <3>1. ASSUME NEW q \in 1 .. n + 1, out'[q] \in emitted
          PROVE  IsMain(out'[q]) \/ \E p \in 1 .. q - 1 : DeclaredIn(out'[q], out'[p])
      <4>1. q \in 1 .. n
        BY <1>9, <2>2, <3>1
      <4>2. out'[q] = out[q] /\ \A p \in 1 .. q - 1 : out'[p] = out[p]
        BY <2>2, <4>1
      <4> QED BY <1>1, <2>2, <3>1, <4>1, <4>2 DEF IInv, MarkedHaveParents
    <3> QED BY <1>0, <1>1, <2>2, <3>1 DEF MarkedHaveParents, DeclaredIn, IsMain, IsFirst
  <2>9. SiblingsInOrder'
    <3>1. ASSUME NEW j \in Places, NEW h \in 1 .. j - 1,
                 components[h].parent = components[j].parent, components[h].parent # File,
                 NEW q \in 1 .. n + 1, out'[q] = j
          PROVE  \E p \in 1 .. q - 1 : out'[p] = h
      <4>1. CASE q = n + 1
        <5>1. h \in Places /\ h < at
          BY <1>2, <2>2, <3>1, <4>1
        <5>2. PICK p \in 1 .. n : out[p] = h
          BY <1>3, <2>2, <5>1 DEF InOut
        <5> QED BY <2>2, <4>1, <5>2
      <4>2. CASE q \in 1 .. n
        <5>1. PICK p \in 1 .. q - 1 : out[p] = h
          BY <2>2, <3>1, <4>2 DEF IInv, SiblingsInOrder
        <5> QED BY <2>2, <4>2, <5>1
      <4> QED BY <2>2, <4>1, <4>2
    <3> QED BY <1>0, <2>2, <3>1 DEF SiblingsInOrder
  <2>10. \A i \in Places : i < at + 1 => \E p \in 1 .. n + 1 : out'[p] = i
    <3>1. ASSUME NEW i \in Places, i < at + 1 PROVE i < at \/ i = at
      BY <1>2, <3>1
    <3> QED BY <1>3, <2>2, <2>6, <3>1
  <2>11. \A p \in 1 .. n + 1 : out'[p] \notin emitted => out'[p] < at + 1
    BY <1>2, <1>3, <2>2
  <2>12. \A p, q \in 1 .. n + 1 : p < q /\ out'[p] \notin emitted =>
             out'[q] \notin emitted /\ out'[p] < out'[q]
    <3>1. ASSUME NEW p \in 1 .. n + 1, NEW q \in 1 .. n + 1, p < q, out'[p] \notin emitted
          PROVE  out'[q] \notin emitted /\ out'[p] < out'[q]
      <4>1. p \in 1 .. n /\ out'[p] = out[p]
        BY <2>2, <3>1
      <4>2. CASE q = n + 1
        BY <1>3, <1>9, <2>2, <3>1, <4>1, <4>2
      <4>3. CASE q \in 1 .. n
        BY <1>3, <2>2, <3>1, <4>1, <4>3
      <4> QED BY <2>2, <4>2, <4>3
    <3> QED BY <3>1
  <2>13. OrphansOK'
    BY <1>0, <1>1, <1>4, <2>1, <2>2, <2>10, <2>11, <2>12 DEF OrphansOK, InOut
  <2>14. AllOut' /\ CallsOK'
    BY <2>1 DEF AllOut, Ordered, CallsOK
  <2> QED BY <1>5, <1>6, <2>3, <2>5, <2>7, <2>8, <2>9, <2>13, <2>14 DEF IInv
<1> QED BY <1>7, <1>8, <1>9

\* The emission changes nothing of the order.
LEMMA EmissionKeepsOrder ==
    ASSUME IInv, UNCHANGED <<components, defined, emitted, out>>,
           pc \in {"calls", "returns"}, pc' \in {"calls", "returns", "done"}
    PROVE  /\ StageOK' /\ Injective' /\ MarkedAreOut' /\ WalkOK' /\ MarkedAreReachable'
           /\ MarkedHaveParents' /\ SiblingsInOrder' /\ OrphansOK' /\ AllOut'
<1>0. Places' = Places /\ AtFileScope' = AtFileScope
  BY SameSource
<1>1. StageOK'
  BY <1>0 DEF IInv, StageOK, IsMain, IsFirst
<1>2. Injective' /\ MarkedAreOut' /\ WalkOK'
  BY DEF IInv, Injective, MarkedAreOut, InOut, WalkOK
<1>3. MarkedAreReachable'
  BY <1>0 DEF IInv, MarkedAreReachable, Closed, DeclaredIn, IsMain, IsFirst
<1>4. MarkedHaveParents'
  BY <1>0 DEF IInv, MarkedHaveParents, DeclaredIn, IsMain, IsFirst
<1>5. SiblingsInOrder'
  BY <1>0 DEF IInv, SiblingsInOrder
<1>6. OrphansOK'
  BY <1>0 DEF IInv, OrphansOK, Closed, DeclaredIn
<1>7. AllOut'
  BY <1>0 DEF IInv, AllOut, Ordered, InOut
<1> QED BY <1>1, <1>2, <1>3, <1>4, <1>5, <1>6, <1>7

LEMMA CallStep ==
    ASSUME IInv, EmitCall, TypeOK', UNCHANGED <<components, defined>>
    PROVE  IInv'
<1>1. pc = "calls" /\ UNCHANGED <<emitted, out>> /\ pc' \in {"calls", "returns"}
  BY DEF EmitCall
<1>2. /\ out \in Seq(Places) /\ Len(out) \in Nat /\ DOMAIN out = 1 .. Len(out)
      /\ calls \in Seq(Places) /\ Len(calls) \in Nat /\ DOMAIN calls = 1 .. Len(calls)
      /\ at \in Nat \ {0}
  BY DEF IInv, TypeOK
<1>3. /\ at <= Len(out) + 1
      /\ \A k \in DOMAIN calls : calls[k] \in Known
      /\ \A p \in 1 .. at - 1 : out[p] \in Known => \E k \in DOMAIN calls : calls[k] = out[p]
      /\ \A k \in DOMAIN calls : \E p \in 1 .. at - 1 : out[p] = calls[k]
      /\ \A k, l \in DOMAIN calls : k < l =>
             \E p, q \in 1 .. at - 1 : p < q /\ out[p] = calls[k] /\ out[q] = calls[l]
  BY <1>1 DEF IInv, CallsOK
<1>4. Known' = Known
  BY SameSource
<1>5. CASE at \notin DOMAIN out
  BY <1>1, <1>5, EmissionKeepsOrder DEF IInv, EmitCall, CallsOK
<1>6. CASE at \in DOMAIN out /\ out[at] \notin Known
  <2>1. at' = at + 1 /\ calls' = calls /\ pc' = "calls"
    BY <1>1, <1>2, <1>6 DEF EmitCall, Known
  <2>2. \A p \in 1 .. at : p \in 1 .. at - 1 \/ p = at
    BY <1>2
  <2>3. at + 1 <= Len(out) + 1 /\ 1 .. at - 1 \subseteq 1 .. at /\ at + 1 - 1 = at
    BY <1>2, <1>6
  <2>4. \A p \in 1 .. at : out[p] \in Known => \E k \in DOMAIN calls : calls[k] = out[p]
    BY <1>3, <1>6, <2>2
  <2>6. \A k \in DOMAIN calls : \E p \in 1 .. at : out[p] = calls[k]
    BY <1>3, <2>3
  <2>7. \A k, l \in DOMAIN calls : k < l =>
            \E p, q \in 1 .. at : p < q /\ out[p] = calls[k] /\ out[q] = calls[l]
    BY <1>3, <2>3
  <2>8. at' - 1 = at /\ at' <= Len(out') + 1
    BY <1>1, <1>2, <2>1, <2>3
  <2>5. CallsOK'
    <3>1. \A k \in DOMAIN calls' : calls'[k] \in Known'
      BY <1>3, <1>4, <2>1
    <3>2. \A p \in 1 .. at' - 1 : out'[p] \in Known' => \E k \in DOMAIN calls' : calls'[k] = out'[p]
      BY <1>1, <1>4, <2>1, <2>4, <2>8
    <3>3. \A k \in DOMAIN calls' : \E p \in 1 .. at' - 1 : out'[p] = calls'[k]
      BY <1>1, <2>1, <2>6, <2>8
    <3>4. \A k, l \in DOMAIN calls' : k < l =>
              \E p, q \in 1 .. at' - 1 : p < q /\ out'[p] = calls'[k] /\ out'[q] = calls'[l]
      BY <1>1, <2>1, <2>7, <2>8
    <3> QED BY <2>8, <3>1, <3>2, <3>3, <3>4 DEF CallsOK
  <2> QED BY <1>1, <2>1, <2>5, EmissionKeepsOrder DEF IInv
<1>7. CASE at \in DOMAIN out /\ out[at] \in Known
  <2> DEFINE n == Len(calls)
             x == out[at]
  <2>1. at' = at + 1 /\ calls' = Append(calls, x) /\ pc' = "calls" /\ x \in Places
    BY <1>1, <1>2, <1>7 DEF EmitCall, Known
  <2>2. /\ DOMAIN calls' = 1 .. n + 1 /\ calls'[n + 1] = x /\ n + 1 \in 1 .. n + 1
        /\ \A k \in 1 .. n : calls'[k] = calls[k]
        /\ n \in Nat /\ DOMAIN calls = 1 .. n
    BY <1>2, <2>1, AppendFacts
  <2>3. /\ at + 1 <= Len(out) + 1 /\ 1 .. at - 1 \subseteq 1 .. at /\ at + 1 - 1 = at
        /\ at \in 1 .. at /\ \A p \in 1 .. at : p \in 1 .. at - 1 \/ p = at
    BY <1>2, <1>7
  <2> HIDE DEF n
  <2>4. \A k \in 1 .. n + 1 : calls'[k] \in Known
    <3>1. \A k \in 1 .. n + 1 : k \in 1 .. n \/ k = n + 1
      BY <2>2
    <3> QED BY <1>3, <1>7, <2>2, <3>1
  <2>5. \A p \in 1 .. at : out[p] \in Known => \E k \in 1 .. n + 1 : calls'[k] = out[p]
    <3>1. ASSUME NEW p \in 1 .. at - 1, out[p] \in Known
          PROVE  \E k \in 1 .. n + 1 : calls'[k] = out[p]
      <4>1. PICK k \in 1 .. n : calls[k] = out[p]
        BY <1>3, <2>2, <3>1
      <4> QED BY <2>2, <4>1
    <3> QED BY <2>2, <2>3, <3>1
  <2>6. \A k \in 1 .. n + 1 : \E p \in 1 .. at : out[p] = calls'[k]
    <3>1. ASSUME NEW k \in 1 .. n PROVE \E p \in 1 .. at : out[p] = calls'[k]
      <4>1. PICK p \in 1 .. at - 1 : out[p] = calls[k]
        BY <1>3, <2>2
      <4> QED BY <2>2, <2>3, <4>1
    <3>2. \A k \in 1 .. n + 1 : k \in 1 .. n \/ k = n + 1
      BY <2>2
    <3>3. out[at] = calls'[n + 1] /\ at \in 1 .. at
      BY <2>2, <2>3
    <3> QED BY <3>1, <3>2, <3>3
  <2>7. ASSUME NEW k \in 1 .. n + 1, NEW l \in 1 .. n + 1, k < l
        PROVE  \E p, q \in 1 .. at : p < q /\ out[p] = calls'[k] /\ out[q] = calls'[l]
    <3>1. k \in 1 .. n /\ calls'[k] = calls[k]
      BY <2>2, <2>7
    <3>2. CASE l = n + 1
      <4>1. PICK p \in 1 .. at - 1 : out[p] = calls[k]
        BY <1>3, <2>2, <3>1
      <4>2. p \in 1 .. at /\ p < at
        BY <1>2, <4>1
      <4> QED BY <2>2, <2>3, <3>1, <3>2, <4>1, <4>2
    <3>3. CASE l \in 1 .. n
      <4>1. \E p, q \in 1 .. at - 1 : p < q /\ out[p] = calls[k] /\ out[q] = calls[l]
        BY <1>3, <2>2, <2>7, <3>1, <3>3
      <4> QED BY <2>2, <2>3, <3>1, <3>3, <4>1
    <3> QED BY <2>2, <3>2, <3>3
  <2>9. at' - 1 = at /\ at' <= Len(out') + 1
    BY <1>1, <1>2, <2>1, <2>3
  <2>8. CallsOK'
    <3> HIDE DEF x
    <3>1. \A k \in DOMAIN calls' : calls'[k] \in Known'
      BY <1>4, <2>2, <2>4
    <3>2. \A p \in 1 .. at' - 1 : out'[p] \in Known' => \E k \in DOMAIN calls' : calls'[k] = out'[p]
      BY <1>1, <1>4, <2>2, <2>5, <2>9
    <3>3. \A k \in DOMAIN calls' : \E p \in 1 .. at' - 1 : out'[p] = calls'[k]
      BY <1>1, <2>2, <2>6, <2>9
    <3>4. \A k, l \in DOMAIN calls' : k < l =>
              \E p, q \in 1 .. at' - 1 : p < q /\ out'[p] = calls'[k] /\ out'[q] = calls'[l]
      <4>1. out' = out /\ DOMAIN calls' = 1 .. n + 1
        BY <1>1, <2>2
      <4>2. \A k, l \in 1 .. n + 1 : k < l =>
              \E p, q \in 1 .. at : p < q /\ out[p] = calls'[k] /\ out[q] = calls'[l]
        BY <2>7
      <4> QED BY <2>9, <4>1, <4>2
    <3> QED BY <2>9, <3>1, <3>2, <3>3, <3>4 DEF CallsOK
  <2> QED BY <1>1, <2>1, <2>8, EmissionKeepsOrder DEF IInv
<1> QED BY <1>5, <1>6, <1>7

LEMMA ReturnStep ==
    ASSUME IInv, EmitReturn, TypeOK', UNCHANGED <<components, defined>>
    PROVE  IInv'
<1>1. pc = "returns" /\ UNCHANGED <<emitted, out>> /\ pc' \in {"returns", "done"}
  BY DEF EmitReturn
<1>2. CallsOK'
  BY <1>1 DEF CallsOK
<1> QED BY <1>1, <1>2, EmissionKeepsOrder DEF IInv

---------------------------------------------------------------------------
\* The theorems.

LEMMA InvInit == Init => IInv
<1> SUFFICES ASSUME Init PROVE IInv
  OBVIOUS
<1>1. TypeOK
  BY TypeInit
<1>2. pc = "find" /\ stack = <<>> /\ emitted = {} /\ at = 1 /\ out = <<>> /\ calls = <<>>
  BY DEF Init
<1>3. DOMAIN out = {}
  BY <1>2
<1>4. StageOK /\ WalkOK /\ OrphansOK /\ AllOut /\ CallsOK
  BY <1>2 DEF StageOK, WalkOK, OrphansOK, AllOut, Ordered, CallsOK
<1>5. Injective /\ MarkedAreOut /\ MarkedAreReachable /\ MarkedHaveParents /\ SiblingsInOrder
  BY <1>2, <1>3 DEF Injective, MarkedAreOut, MarkedAreReachable, MarkedHaveParents, SiblingsInOrder
<1> QED BY <1>1, <1>4, <1>5 DEF IInv

LEMMA InvStutter == IInv /\ UNCHANGED vars => IInv'
<1> SUFFICES ASSUME IInv, UNCHANGED vars PROVE IInv'
  OBVIOUS
<1>1. UNCHANGED <<components, defined, pc, stack, emitted, at, out, calls>>
  BY DEF vars
<1>a. TypeOK'
  BY <1>1 DEF IInv, TypeOK, Places
<1>b. StageOK'
  BY <1>1 DEF IInv, StageOK, AtFileScope, Places, IsMain, IsFirst
<1>c. WalkOK' /\ Injective' /\ MarkedAreOut'
  BY <1>1 DEF IInv, WalkOK, Injective, MarkedAreOut, InOut, Places, DeclaredIn
<1>2. MarkedAreReachable'
  BY <1>1 DEF IInv, MarkedAreReachable, Places, AtFileScope, IsMain, IsFirst, Closed, DeclaredIn
<1>3. MarkedHaveParents' /\ SiblingsInOrder' /\ OrphansOK' /\ AllOut' /\ CallsOK'
  BY <1>1 DEF IInv, MarkedHaveParents, SiblingsInOrder, OrphansOK, AllOut, CallsOK, Known,
              Ordered, Places, AtFileScope, IsMain, IsFirst, InOut, Closed, DeclaredIn
<1> QED BY <1>2, <1>3, <1>a, <1>b, <1>c DEF IInv

LEMMA InvStep == IInv /\ [Next]_vars => IInv'
<1> SUFFICES ASSUME IInv, [Next]_vars PROVE IInv'
  OBVIOUS
<1>1. TypeOK' /\ UNCHANGED <<components, defined>>
  BY TypeStep, NextSameSource DEF IInv
<1>2. CASE KeepSourceOrder
  BY <1>1, <1>2, KeepStep
<1>3. CASE FindMain
  BY <1>1, <1>3, FindStep
<1>4. CASE Descend
  BY <1>1, <1>4, DescendStep
<1>5. CASE PassBy
  BY <1>1, <1>5, PassStep
<1>6. CASE Ascend
  BY <1>1, <1>6, AscendStep
<1>7. CASE AppendOrphan
  BY <1>1, <1>7, OrphanStep
<1>8. CASE EmitCall
  BY <1>1, <1>8, CallStep
<1>9. CASE EmitReturn
  BY <1>1, <1>9, ReturnStep
<1>10. CASE UNCHANGED vars
  BY <1>10, InvStutter
<1> QED BY <1>2, <1>3, <1>4, <1>5, <1>6, <1>7, <1>8, <1>9, <1>10 DEF Next

LEMMA Invariance == Spec => []IInv
<1>1. Init => IInv
  BY InvInit
<1>2. IInv /\ [Next]_vars => IInv'
  BY InvStep
<1> QED BY <1>1, <1>2, PTL DEF Spec

\* The types of the walk: its recursion never runs out of frames before it is
\* over, nor has any left then.
THEOREM TypeCorrect == Spec => []TypeOK
<1>1. IInv => TypeOK
  BY DEF IInv
<1> QED BY <1>1, Invariance, PTL

\* Every component of any list comes once in the order, also when templates
\* are used twice or contain each other.
THEOREM EveryComponentOnce == Spec => []EachOnce
<1>1. IInv => EachOnce
  BY DEF IInv, EachOnce, Injective, AllOut, InOut
<1> QED BY <1>1, Invariance, PTL

\* What is marked is what can be reached, once the walk is over.
LEMMA MarkedIsReachable ==
    ASSUME IInv, pc \notin {"find", "walk"}, AtFileScope # {}
    PROVE  emitted = Reachable
<1>1. emitted \in SUBSET Places /\ Closed(emitted) /\ \E m \in emitted : IsMain(m)
  BY DEF IInv, TypeOK, OrphansOK, StageOK
<1>2. Reachable \subseteq emitted
  BY <1>1 DEF Reachable, IsMain
<1>3. emitted \subseteq Reachable
  BY <1>1 DEF IInv, MarkedAreReachable, Reachable, IsMain
<1> QED BY <1>2, <1>3

\* The reached components come first and the others follow in source order.
THEOREM ReachedComeFirst == Spec => []ReachableFirst
<1>1. IInv => ReachableFirst
  <2> SUFFICES ASSUME IInv, Ordered, AtFileScope # {},
                      NEW p \in DOMAIN out, NEW q \in DOMAIN out, p < q, out[p] \notin Reachable
               PROVE  out[q] \notin Reachable /\ out[p] < out[q]
    BY DEF ReachableFirst
  <2>1. pc \notin {"find", "walk"}
    BY DEF Ordered
  <2>2. emitted = Reachable
    BY <2>1, MarkedIsReachable
  <2> QED BY <2>1, <2>2 DEF IInv, OrphansOK
<1> QED BY <1>1, Invariance, PTL

\* A reached component comes after one of the template it is declared in.
THEOREM ParentsComeFirst == Spec => []ParentsFirst
<1>1. IInv => ParentsFirst
  <2> SUFFICES ASSUME IInv, AtFileScope # {}, NEW q \in DOMAIN out, out[q] \in Reachable
               PROVE  \/ IsFirst(out[q], AtFileScope)
                      \/ \E p \in 1 .. q - 1 : DeclaredIn(out[q], out[p])
    BY DEF ParentsFirst
  <2>1. out[q] \in emitted
    <3>1. CASE pc = "find"
      BY <3>1 DEF IInv, StageOK
    <3>2. CASE pc = "walk"
      BY <3>2 DEF IInv, WalkOK
    <3>3. CASE pc \notin {"find", "walk"}
      BY <3>3, MarkedIsReachable
    <3> QED BY <3>1, <3>2, <3>3
  <2> QED BY <2>1 DEF IInv, MarkedHaveParents, IsMain
<1> QED BY <1>1, Invariance, PTL

\* Components declared in one body come in source order.
THEOREM SiblingsComeInOrder == Spec => []SiblingsInOrder
<1>1. IInv => SiblingsInOrder
  BY DEF IInv
<1> QED BY <1>1, Invariance, PTL

\* The calls opened are those of the known templates, in the order found.
THEOREM KnownAreCalled == Spec => EveryKnownCalled
<1>1. IInv /\ [Next]_vars => [pc = "calls" /\ pc' = "returns" => CallsAreOrdered]_vars
  <2> SUFFICES ASSUME IInv, [Next]_vars, pc = "calls", pc' = "returns" PROVE CallsAreOrdered
    OBVIOUS
  <2>1. EmitCall
    BY DEF Next, vars, KeepSourceOrder, FindMain, Descend, PassBy, Ascend, AppendOrphan, EmitReturn
  <2>2. at \notin DOMAIN out
    BY <2>1 DEF EmitCall
  <2>3. Len(out) \in Nat /\ DOMAIN out = 1 .. Len(out) /\ at \in Nat \ {0}
    BY DEF IInv, TypeOK
  <2>4. at <= Len(out) + 1
    BY DEF IInv, CallsOK
  <2>5. 1 .. at - 1 = DOMAIN out
    BY <2>2, <2>3, <2>4
  <2>6. \A i \in Places : \E p \in DOMAIN out : out[p] = i
    BY DEF IInv, AllOut, Ordered, InOut
  <2>7. /\ \A k \in DOMAIN calls : calls[k] \in Known
        /\ \A p \in DOMAIN out : out[p] \in Known => \E k \in DOMAIN calls : calls[k] = out[p]
        /\ \A k, l \in DOMAIN calls : k < l =>
             \E p, q \in DOMAIN out : p < q /\ out[p] = calls[k] /\ out[q] = calls[l]
    <3>1. /\ \A k \in DOMAIN calls : calls[k] \in Known
          /\ \A p \in 1 .. at - 1 : out[p] \in Known => \E k \in DOMAIN calls : calls[k] = out[p]
          /\ \A k, l \in DOMAIN calls : k < l =>
               \E p, q \in 1 .. at - 1 : p < q /\ out[p] = calls[k] /\ out[q] = calls[l]
      BY DEF IInv, CallsOK
    <3>2. ASSUME NEW k \in DOMAIN calls, NEW l \in DOMAIN calls, k < l
          PROVE  \E p, q \in DOMAIN out : p < q /\ out[p] = calls[k] /\ out[q] = calls[l]
      <4>1. \E p, q \in 1 .. at - 1 : p < q /\ out[p] = calls[k] /\ out[q] = calls[l]
        BY <3>1, <3>2
      <4> QED BY <2>5, <4>1
    <3>3. \A p \in DOMAIN out : out[p] \in Known => \E k \in DOMAIN calls : calls[k] = out[p]
      BY <2>5, <3>1
    <3> QED BY <3>1, <3>2, <3>3
  <2>8. Known = {calls[k] : k \in DOMAIN calls}
    <3>1. Known \subseteq Places
      BY DEF Known
    <3> QED BY <2>6, <2>7, <3>1
  <2> QED BY <2>7, <2>8 DEF CallsAreOrdered
<1> QED BY <1>1, Invariance, PTL DEF Spec, EveryKnownCalled
=============================================================================
