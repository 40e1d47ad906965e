------------------------- MODULE SignalValues_proofs -------------------------
(***************************************************************************)
(* For every file of the generator and every cut in it: what is read is    *)
(* the witness, a whole file is read, and the recorder goes down in one    *)
(* place only; for every .sym file the values are those of the witness,    *)
(* and the tree shows each of them in its node, as often as it is listed.  *)
(***************************************************************************)
EXTENDS SignalValues, FiniteSetTheorems, TLAPS

---------------------------------------------------------------------------
\* The inductive invariant of the walk over the file.

Count == file.sections[Field].count
Size == file.sections[Field].n8

\* A section the walk has passed is known, one it has not reached is not.
KnownOK ==
    /\ n8 = IF section > Field THEN Size ELSE 0
    /\ count = IF section > Field THEN Count ELSE 0
    /\ start = IF section > DataAt THEN file.starts[DataAt] + 12 ELSE 0

WalkOK ==
    /\ section \in 1..(Len(file.sections) + 1)
    /\ pc \in {"generate", "open", "failed"} => section = 1
    /\ pc \in {"check", "elements", "ok"} => section = Len(file.sections) + 1
    /\ pc \in {"section", "check", "elements", "ok", "panic"} => pos = file.starts[section]
    /\ pc \notin {"section", "check", "elements", "ok", "panic", "error"} => pos = 0
    /\ pc = "error" => pos = IF NoWtns THEN 0 ELSE file.starts[section]
    /\ pc \in {"section", "check", "elements", "ok", "panic"} => ~NoWtns /\ file.length >= 12

ElementsOK ==
    /\ witness \in Seq(Nat) /\ Len(witness) <= count
    /\ \A k \in 1..Len(witness) : witness[k] = Data[k]
    /\ pc \notin {"elements", "ok", "error"} => witness = <<>> /\ wpos = 0
    /\ pc = "elements" => wpos = start + Len(witness) * n8
    /\ pc = "ok" => Len(witness) = count
    /\ wpos \in Nat

RInv ==
    /\ file \in Files /\ pc \in Stages
    /\ WalkOK /\ KnownOK /\ ElementsOK
    /\ WholeFileIsRead /\ PanicInFieldSize

---------------------------------------------------------------------------
\* What circom writes.

LEMMA Layout ==
    ASSUME NEW f \in Files
    PROVE  /\ f.sections \in Seq(Sections) /\ f.length \in Nat /\ Len(f.sections) \in Nat
           /\ f.starts \in [1..(Len(f.sections) + 1) -> Nat] /\ f.starts[1] = 12
           /\ \A s \in DOMAIN f.sections :
                /\ s \in 1..Len(f.sections)
                /\ f.sections[s].type \in Nat /\ f.sections[s].size \in Nat
                /\ f.sections[s].n8 \in Nat /\ f.sections[s].count \in Nat
                /\ f.sections[s].elements \in Seq(Nat)
                /\ f.starts[s] \in Nat
                /\ f.starts[s + 1] = f.starts[s] + 12 + f.sections[s].size
                /\ f.starts[s + 1] <= f.starts[Len(f.sections) + 1]
           /\ f.length <= f.starts[Len(f.sections) + 1]
           /\ f.starts[Len(f.sections) + 1] \in Nat
  <1>1. f.sections \in Seq(Sections) /\ Len(f.sections) \in Nat
        /\ DOMAIN f.sections = 1..Len(f.sections)
    BY FilesAssumption
  <1>2. \A s \in DOMAIN f.sections : f.sections[s] \in Sections
    BY <1>1
  <1>3. \A s \in DOMAIN f.sections :
            f.sections[s] \in [type : Nat, size : Nat, n8 : Nat, count : Nat, elements : Seq(Nat)]
    BY <1>2, SectionsAssumption
  <1>4. f.starts[Len(f.sections) + 1] \in Nat
    BY <1>1, FilesAssumption
  <1>5. /\ f.starts \in [1..(Len(f.sections) + 1) -> Nat] /\ f.starts[1] = 12
        /\ f.length \in 0..f.starts[Len(f.sections) + 1]
        /\ \A s \in DOMAIN f.sections :
              /\ f.starts[s + 1] = f.starts[s] + 12 + f.sections[s].size
              /\ f.starts[s + 1] <= f.starts[Len(f.sections) + 1]
    BY FilesAssumption
  <1>6. f.length \in Nat /\ f.length <= f.starts[Len(f.sections) + 1]
    BY <1>4, <1>5
  <1>7. \A s \in DOMAIN f.sections : s \in 1..Len(f.sections) /\ f.starts[s] \in Nat
    BY <1>1, <1>5
  <1> QED
    BY <1>1, <1>3, <1>4, <1>5, <1>6, <1>7

LEMMA TwoSections ==
    ASSUME file \in Files
    PROVE  /\ Field \in DOMAIN file.sections /\ DataAt \in DOMAIN file.sections
           /\ \A s \in DOMAIN file.sections :
                /\ file.sections[s].type = FieldInfo <=> s = Field
                /\ file.sections[s].type = WitnessData <=> s = DataAt
           /\ Size > 0 /\ Count > 0 /\ Size \in Nat /\ Count \in Nat
           /\ file.sections[Field].size = Size + 8
           /\ Data \in Seq(Nat) /\ Len(Data) = Count
           /\ file.sections[DataAt].size = Count * Size
  <1>1. PICK i \in DOMAIN file.sections, d \in DOMAIN file.sections :
            /\ SectionsOf(file, FieldInfo) = {i} /\ SectionsOf(file, WitnessData) = {d}
            /\ file.sections[i].n8 > 0 /\ file.sections[i].count > 0
            /\ file.sections[i].size = file.sections[i].n8 + 8
            /\ Len(file.sections[d].elements) = file.sections[i].count
            /\ file.sections[d].size = file.sections[i].count * file.sections[i].n8
    BY WitnessAssumption
  <1>2. \A s \in DOMAIN file.sections : file.sections[s].type = FieldInfo <=> s = i
    BY <1>1 DEF SectionsOf
  <1>3. \A s \in DOMAIN file.sections : file.sections[s].type = WitnessData <=> s = d
    BY <1>1 DEF SectionsOf
  <1>4. Field = i
    BY <1>2 DEF Field
  <1>5. DataAt = d
    BY <1>3 DEF DataAt
  <1>6. /\ file.sections[i].n8 \in Nat /\ file.sections[i].count \in Nat
        /\ file.sections[d].elements \in Seq(Nat)
    BY <1>1, Layout
  <1> QED
    BY <1>1, <1>2, <1>3, <1>4, <1>5, <1>6 DEF Size, Count, Data

LEMMA OneMore ==
    ASSUME NEW l \in Nat, NEW n \in Nat
    PROVE  (l + 1) * n = l * n + n
  OBVIOUS

LEMMA Fits ==
    ASSUME NEW l \in Nat, NEW c \in Nat, NEW n \in Nat, l < c
    PROVE  l * n + n <= c * n
  <1>1. PICK k \in Nat : c = l + 1 + k
    <2>1. c - (l + 1) \in Nat /\ c = l + 1 + (c - (l + 1))
      OBVIOUS
    <2> QED BY <2>1
  <1>2. c * n = (l + 1) * n + k * n
    BY <1>1
  <1>3. k * n >= 0
    OBVIOUS
  <1>4. (l + 1) * n = l * n + n
    OBVIOUS
  <1> QED
    <2>1. l * n \in Int /\ k * n \in Int /\ c * n \in Int /\ (l + 1) * n \in Int
      OBVIOUS
    <2> QED BY <1>2, <1>3, <1>4, <2>1

---------------------------------------------------------------------------
LEMMA RInit == Start => RInv
  <1> SUFFICES ASSUME Start PROVE RInv
    OBVIOUS
  <1> USE DEF Start, Init
  <1>1. file \in Files /\ pc \in Stages
    BY DEF Stages
  <1>2. Field \in 1..Len(file.sections) /\ DataAt \in 1..Len(file.sections)
    BY <1>1, TwoSections, Layout
  <1>3. Len(file.sections) \in Nat
    BY Layout
  <1>4. WalkOK
    BY <1>3 DEF WalkOK, NoWtns
  <1>5. KnownOK
    BY <1>2, <1>3 DEF KnownOK
  <1>6. ElementsOK
    BY DEF ElementsOK
  <1>7. WholeFileIsRead /\ PanicInFieldSize
    BY DEF WholeFileIsRead, PanicInFieldSize
  <1> QED
    BY <1>1, <1>4, <1>5, <1>6, <1>7 DEF RInv

\* A step that ends the walk, or goes on with nothing read, changes pc only.
LEMMA StopKeeps ==
    ASSUME NEW o, Stop(o)
    PROVE  /\ pc' = o /\ UNCHANGED <<file, section, pos, n8, count, start, wpos, witness>>
           /\ UNCHANGED <<Field, DataAt, Data, Size, Count, FullLength>>
  BY DEF Stop, Known, Elements, Field, DataAt, Data, Size, Count, FullLength

LEMMA SameFile ==
    ASSUME UNCHANGED file
    PROVE  UNCHANGED <<Field, DataAt, Data, Size, Count, FullLength>>
  BY DEF Field, DataAt, Data, Size, Count, FullLength

\* The section the walk is at.
LEMMA AtSection ==
    ASSUME RInv, InSections
    PROVE  /\ section \in DOMAIN file.sections /\ section \in Nat
           /\ pos = file.starts[section] /\ pos \in Nat /\ Contents = pos + 12
           /\ Current.size \in Nat /\ Current.type \in Nat /\ Current.n8 \in Nat
           /\ file.starts[section + 1] = Contents + Current.size
           /\ file.starts[section + 1] <= FullLength
           /\ FullLength \in Nat /\ file.length \in Nat /\ file.length >= 12
           /\ Current.type = FieldInfo <=> section = Field
           /\ Current.type = WitnessData <=> section = DataAt
           /\ section = Field =>
                /\ n8 = 0 /\ count = 0 /\ Current.size = Size + 8
                /\ Current.n8 = Size /\ Current.count = Count
  <1>1. file \in Files
    BY DEF RInv
  <1>2. Len(file.sections) \in Nat /\ file.sections \in Seq(Sections)
    BY <1>1, Layout
  <1>3. section \in DOMAIN file.sections /\ section \in Nat
    BY <1>2 DEF RInv, WalkOK, NoWtns, InSections
  <1>4. pos = file.starts[section] /\ file.length >= 12
    BY DEF RInv, WalkOK, NoWtns, InSections
  <1>5. FullLength \in Nat
    BY <1>1, <1>2, Layout DEF FullLength
  <1>6. section = Field => n8 = 0 /\ count = 0
    BY <1>3 DEF RInv, KnownOK
  <1>7. section = Field => Current.n8 = Size /\ Current.count = Count
    BY DEF Current, Size, Count
  <1>8. section = Field => Current.size = Size + 8
    BY <1>1, TwoSections DEF Current
  <1>9. /\ Current.type = FieldInfo <=> section = Field
        /\ Current.type = WitnessData <=> section = DataAt
    BY <1>1, <1>3, TwoSections DEF Current
  <1>10. /\ pos \in Nat /\ Current.size \in Nat /\ Current.type \in Nat /\ Current.n8 \in Nat
         /\ file.starts[section + 1] = file.starts[section] + 12 + Current.size
         /\ file.starts[section + 1] <= FullLength /\ file.length \in Nat
    BY <1>1, <1>3, <1>4, Layout DEF Current, FullLength
  <1>11. file.starts[section + 1] = Contents + Current.size
    BY <1>4, <1>10 DEF Contents
  <1> QED
    BY <1>3, <1>4, <1>5, <1>6, <1>7, <1>8, <1>9, <1>10, <1>11 DEF Contents

LEMMA RStep == RInv /\ [Next]_vars => RInv'
  <1> SUFFICES ASSUME RInv, [Next]_vars PROVE RInv'
    OBVIOUS
  <1>0. file \in Files
    BY DEF RInv
  <1>a. /\ Len(file.sections) \in Nat /\ file.length \in Nat
        /\ Field \in 1..Len(file.sections) /\ DataAt \in 1..Len(file.sections)
        /\ Size \in Nat /\ Count \in Nat /\ Size > 0 /\ Count > 0
    BY <1>0, TwoSections, Layout
  <1>b. ASSUME NEW o, Stop(o), o \in Stages, o \notin {"panic", "error"},
               o = "open" => pc = "generate", o = "failed" => pc = "generate",
               o = "check" => pc = "section" /\ section = Len(file.sections) + 1,
               o = "ok" => pc = "elements" /\ Len(witness) = count,
               o \in {"open", "failed", "check", "ok"}
        PROVE  RInv'
    <2>1. WalkOK'
      BY <1>b, StopKeeps DEF RInv, WalkOK, NoWtns
    <2>2. KnownOK'
      BY <1>b, StopKeeps DEF RInv, KnownOK
    <2>3. ElementsOK'
      BY <1>b, StopKeeps DEF RInv, ElementsOK
    <2>4. WholeFileIsRead' /\ PanicInFieldSize'
      BY <1>b, StopKeeps DEF WholeFileIsRead, PanicInFieldSize
    <2> QED
      BY <2>1, <2>2, <2>3, <2>4, <1>b, StopKeeps DEF RInv
  <1>c. ASSUME Stop("error"), file.length # FullLength \/ ~file.magic,
               pc \in {"section", "check", "elements"} \/ (pc = "open" /\ NoWtns),
               pc = "open" => pos = 0
        PROVE  RInv'
    <2>1. WalkOK'
      <3>1. pos = IF NoWtns THEN 0 ELSE file.starts[section]
        BY <1>a, <1>c DEF RInv, WalkOK, NoWtns
      <3> QED BY <3>1, <1>c, StopKeeps DEF RInv, WalkOK, NoWtns
    <2>2. KnownOK'
      BY <1>c, StopKeeps DEF RInv, KnownOK
    <2>3. ElementsOK'
      BY <1>c, StopKeeps DEF RInv, ElementsOK
    <2>4. WholeFileIsRead' /\ PanicInFieldSize'
      BY <1>c, StopKeeps DEF WholeFileIsRead, PanicInFieldSize
    <2> QED
      BY <2>1, <2>2, <2>3, <2>4, <1>c, StopKeeps DEF RInv, Stages
  \* The walk goes on with the next section.
  <1>d. ASSUME InSections, NextSection,
               n8' = IF section = Field THEN Size ELSE n8,
               count' = IF section = Field THEN Count ELSE count,
               start' = IF section = DataAt THEN Contents ELSE start
        PROVE  RInv'
    <2>0. /\ section' = section + 1 /\ pos' = Contents + Current.size
          /\ UNCHANGED <<file, pc, wpos, witness>> /\ pc = "section"
      BY <1>d DEF NextSection, Elements, InSections
    <2>1. WalkOK'
      BY <2>0, <1>d, <1>a, AtSection, SMTT(60) DEF RInv, WalkOK, NoWtns
    <2>2. KnownOK'
      <3>1. UNCHANGED <<Field, DataAt, Size, Count>>
        BY <2>0, SameFile
      <3>2. section \in Nat /\ (section = DataAt => Contents = file.starts[DataAt] + 12)
        BY <1>d, AtSection
      <3>3. n8' = IF section + 1 > Field THEN Size ELSE 0
        BY <1>d, <1>a, <3>2 DEF RInv, KnownOK
      <3>4. count' = IF section + 1 > Field THEN Count ELSE 0
        BY <1>d, <1>a, <3>2 DEF RInv, KnownOK
      <3>5. start' = IF section + 1 > DataAt THEN file.starts[DataAt] + 12 ELSE 0
        BY <1>d, <1>a, <3>2 DEF RInv, KnownOK
      <3> QED BY <3>1, <3>3, <3>4, <3>5, <2>0 DEF KnownOK
    <2>3. ElementsOK'
      <3>1. witness = <<>> /\ wpos = 0
        BY <2>0 DEF RInv, ElementsOK
      <3>2. count' \in Nat
        BY <1>d, <1>a DEF RInv, KnownOK
      <3> QED BY <3>1, <3>2, <2>0 DEF ElementsOK
    <2>4. WholeFileIsRead' /\ PanicInFieldSize'
      BY <2>0 DEF WholeFileIsRead, PanicInFieldSize
    <2> QED
      BY <2>0, <2>1, <2>2, <2>3, <2>4 DEF RInv
  <1>1. CASE Generate
    BY <1>1, <1>b DEF Generate, Stages
  <1>2. CASE OpenFile
    <2>0. pc = "open" /\ pos = 0 /\ section = 1
      BY <1>2 DEF OpenFile, RInv, WalkOK, NoWtns
    <2>1. CASE NoWtns
      <3>1. file.length # FullLength \/ ~file.magic
        <4>1. Field \in DOMAIN file.sections
          BY <1>0, TwoSections
        <4>2. /\ file.starts[Field] \in Nat /\ file.sections[Field].size \in Nat
              /\ file.starts[Field + 1] = file.starts[Field] + 12 + file.sections[Field].size
              /\ file.starts[Field + 1] <= FullLength
          BY <4>1, <1>0, Layout DEF FullLength
        <4>3. FullLength \in Nat
          BY <1>0, Layout DEF FullLength
        <4>4. FullLength >= 12
          BY <4>2, <4>3
        <4>5. CASE file.length < 12
          BY <4>4, <4>3, <4>5, <1>a
        <4> QED BY <4>5, <2>1 DEF NoWtns
      <3>2. Stop("error")
        BY <2>1, <1>2 DEF OpenFile
      <3> QED BY <2>0, <2>1, <3>1, <3>2, <1>c
    <2>2. CASE ~NoWtns
      <3>1. /\ pc' = "section" /\ pos' = 12
            /\ UNCHANGED <<file, section, n8, count, start, wpos, witness>>
        BY <2>2, <1>2 DEF OpenFile, Known, Elements
      <3>2. WalkOK'
        BY <3>1, <2>0, <2>2, <1>0, <1>a, Layout DEF RInv, WalkOK, NoWtns
      <3>3. KnownOK' /\ ElementsOK'
        BY <3>1, <2>0, SameFile DEF RInv, KnownOK, ElementsOK
      <3>4. WholeFileIsRead' /\ PanicInFieldSize'
        BY <3>1 DEF WholeFileIsRead, PanicInFieldSize
      <3> QED BY <3>1, <3>2, <3>3, <3>4, <1>0 DEF RInv, Stages
    <2> QED BY <2>1, <2>2
  <1>3. CASE HeaderTruncated
    <2>1. InSections /\ Contents > file.length /\ Stop("error") /\ pc = "section"
      BY <1>3 DEF HeaderTruncated, InSections
    <2>2. file.length # FullLength
      BY <2>1, AtSection
    <2> QED BY <2>1, <2>2, <1>c
  <1>4. CASE FieldPanic
    <2>1. /\ InSections /\ pc = "section" /\ Current.type = FieldInfo
          /\ Contents <= file.length /\ Contents + 4 > file.length /\ Stop("panic")
      BY <1>4 DEF FieldPanic, HeaderRead, InSections
    <2>2. section = Field /\ Contents = file.starts[Field] + 12 /\ file.length # FullLength
      <3>1. section = Field /\ Contents = pos + 12 /\ pos = file.starts[section] /\ pos \in Nat
        BY <2>1, AtSection
      <3>2. /\ Current.size = Size + 8 /\ file.starts[section + 1] = Contents + Current.size
            /\ file.starts[section + 1] <= FullLength /\ FullLength \in Nat
        BY <2>1, <3>1, AtSection
      <3>3. Contents = file.starts[Field] + 12
        BY <3>1
      <3>4. Contents \in Nat /\ Contents + (Size + 8) <= FullLength
        BY <3>1, <3>2
      <3>5. file.length < Contents + 4
        BY <2>1, <3>4, <1>a
      <3>6. file.length # FullLength
        BY <3>2, <3>4, <3>5, <1>a
      <3> QED BY <3>1, <3>3, <3>6
    <2>3. WholeFileIsRead' /\ PanicInFieldSize'
      <3>1. file.length - (file.starts[Field] + 12) \in 0..3
        <4>1. Contents \in Nat
          BY <2>1, AtSection
        <4> QED BY <4>1, <2>1, <2>2, <1>a, SMTT(30)
      <3>2. UNCHANGED <<file, Field, FullLength>> /\ pc' = "panic"
        BY <2>1, StopKeeps
      <3>3. WholeFileIsRead'
        BY <3>2, <2>2 DEF WholeFileIsRead
      <3> QED BY <3>1, <3>2, <3>3 DEF PanicInFieldSize
    <2>4. WalkOK'
      BY <2>1, StopKeeps DEF RInv, WalkOK, NoWtns
    <2>5. /\ pc' = "panic" /\ UNCHANGED <<file, section, n8, count, start, wpos, witness>>
          /\ UNCHANGED <<Field, DataAt, Data, Size, Count>>
      BY <2>1, StopKeeps
    <2>6. KnownOK' /\ ElementsOK'
      <3>1. KnownOK'
        BY <2>5 DEF RInv, KnownOK
      <3>2. witness = <<>> /\ wpos = 0
        BY <2>1 DEF RInv, ElementsOK
      <3>3. ElementsOK'
        BY <2>5, <3>2 DEF RInv, ElementsOK
      <3> QED BY <3>1, <3>3
    <2> QED BY <2>3, <2>4, <2>5, <2>6, <1>0 DEF RInv, Stages
  <1>5. CASE FieldError
    <2>1. /\ InSections /\ pc = "section" /\ Current.type = FieldInfo /\ Stop("error")
          /\ Current.size < 4 \/ FieldBytes > file.length
      BY <1>5 DEF FieldError, HeaderRead, InSections
    <2>2. file.length # FullLength
      <3>1. /\ Current.size = Size + 8 /\ Current.n8 = Size /\ Contents \in Nat
            /\ file.starts[section + 1] = Contents + Current.size
            /\ file.starts[section + 1] <= FullLength /\ FullLength \in Nat
        BY <2>1, AtSection
      <3> QED BY <2>1, <3>1, <1>a DEF FieldBytes
    <2> QED BY <2>1, <2>2, <1>c
  <1>6. CASE ReadField
    <2>1. /\ InSections /\ NextSection /\ Current.type = FieldInfo
          /\ n8' = Current.n8 /\ count' = Current.count /\ start' = start
      BY <1>6 DEF ReadField, HeaderRead
    <2>2. section = Field /\ section # DataAt
      BY <2>1, AtSection DEF FieldInfo, WitnessData
    <2> QED BY <2>1, <2>2, <1>d, AtSection
  <1>7. CASE FindData
    <2>1. /\ InSections /\ NextSection /\ Current.type = WitnessData
          /\ start' = Contents /\ n8' = n8 /\ count' = count
      BY <1>7 DEF FindData, HeaderRead
    <2>2. section = DataAt /\ section # Field
      BY <2>1, AtSection DEF FieldInfo, WitnessData
    <2> QED BY <2>1, <2>2, <1>d
  <1>8. CASE PassSection
    <2>1. /\ InSections /\ NextSection /\ Current.type \notin {FieldInfo, WitnessData}
          /\ start' = start /\ n8' = n8 /\ count' = count
      BY <1>8 DEF PassSection, HeaderRead, Known
    <2>2. section # DataAt /\ section # Field
      BY <2>1, AtSection
    <2> QED BY <2>1, <2>2, <1>d
  <1>9. CASE EndSections
    <2>1. pc = "section" /\ section = Len(file.sections) + 1 /\ Stop("check")
      BY <1>9, <1>a DEF EndSections, RInv, WalkOK, NoWtns
    <2> QED BY <2>1, <1>b DEF Stages
  <1>10. CASE CheckKnown
    <2>1. pc = "check" /\ section = Len(file.sections) + 1
      BY <1>10 DEF CheckKnown, RInv, WalkOK, NoWtns
    <2>2. n8 = Size /\ count = Count /\ start = file.starts[DataAt] + 12
      BY <2>1, <1>a DEF RInv, KnownOK
    <2>3. start \in Nat /\ start # 0
      <3>1. DataAt \in DOMAIN file.sections
        BY <1>0, TwoSections
      <3>2. file.starts[DataAt] \in Nat
        BY <3>1, <1>0, Layout
      <3> QED BY <2>2, <3>2
    <2>4. /\ pc' = "elements" /\ wpos' = start
          /\ UNCHANGED <<file, section, pos, n8, count, start, witness>>
      BY <1>10, <2>2, <2>3, <1>a DEF CheckKnown, Known
    <2>5. witness = <<>> /\ Len(witness) = 0
      BY <2>1 DEF RInv, ElementsOK
    <2>6. wpos' = start' + Len(witness') * n8'
      BY <2>2, <2>3, <2>4, <2>5, <1>a
    <2>7. ElementsOK'
      BY <2>2, <2>3, <2>4, <2>5, <2>6, <1>a DEF ElementsOK
    <2>8. WalkOK'
      BY <2>1, <2>4 DEF RInv, WalkOK, NoWtns
    <2>9. KnownOK'
      BY <2>4, SameFile DEF RInv, KnownOK
    <2>10. WholeFileIsRead' /\ PanicInFieldSize'
      BY <2>4 DEF WholeFileIsRead, PanicInFieldSize
    <2> QED BY <2>4, <2>7, <2>8, <2>9, <2>10, <1>0 DEF RInv, Stages
  <1>11. CASE ReadElement
    <2>0. /\ pc = "elements" /\ Len(witness) < count /\ section = Len(file.sections) + 1
          /\ witness \in Seq(Nat) /\ wpos = start + Len(witness) * n8
          /\ \A k \in 1..Len(witness) : witness[k] = Data[k]
      BY <1>11 DEF ReadElement, RInv, WalkOK, NoWtns, ElementsOK
    <2>1. n8 = Size /\ count = Count /\ start = file.starts[DataAt] + 12 /\ start \in Nat
      <3>1. n8 = Size /\ count = Count /\ start = file.starts[DataAt] + 12
        BY <2>0, <1>a, SMTT(30) DEF RInv, KnownOK
      <3>2. DataAt \in DOMAIN file.sections
        BY <1>0, TwoSections
      <3>3. file.starts[DataAt] \in Nat
        BY <3>2, <1>0, Layout
      <3> QED BY <3>1, <3>3
    <2>2. Len(witness) \in Nat /\ Len(witness) * n8 \in Nat /\ wpos \in Nat
      <3>1. Len(witness) \in Nat
        BY <2>0
      <3>2. \A a, b \in Nat : a * b \in Nat
        OBVIOUS
      <3>3. n8 \in Nat
        BY <2>1, <1>a
      <3>4. Len(witness) * n8 \in Nat
        BY <3>1, <3>2, <3>3
      <3> QED BY <3>1, <3>4, <2>1, <2>0
    <2>3. CASE wpos + n8 > file.length
      <3>1. Len(witness) * n8 + n8 <= Count * Size
        BY <2>0, <2>1, <2>2, <1>a, Fits
      <3>2. start + Count * Size <= FullLength /\ Count * Size \in Nat /\ FullLength \in Nat
        <4>1. file.sections[DataAt].size = Count * Size /\ DataAt \in DOMAIN file.sections
          BY <1>0, TwoSections
        <4>2. /\ file.starts[DataAt + 1] = file.starts[DataAt] + 12 + file.sections[DataAt].size
              /\ file.starts[DataAt + 1] <= FullLength
              /\ file.sections[DataAt].size \in Nat
          BY <4>1, <1>0, Layout DEF FullLength
        <4>3. FullLength \in Nat
          BY <1>0, <1>a, Layout DEF FullLength
        <4> QED BY <4>1, <4>2, <4>3, <2>1
      <3>3. file.length # FullLength
        <4> DEFINE x == Len(witness) * n8
                   y == Count * Size
        <4>1. x \in Nat /\ y \in Nat /\ wpos = start + x /\ x + n8 <= y /\ start + y <= FullLength
          BY <3>1, <3>2, <2>0, <2>2
        <4>2. n8 \in Nat
          BY <2>1, <1>a
        <4>3. x \in Int /\ y \in Int
          BY <4>1
        <4>4. FullLength \in Nat /\ start \in Nat /\ file.length \in Nat
          BY <3>2, <2>1, <1>a
        <4> HIDE DEF x, y
        <4> QED BY <4>1, <4>2, <4>3, <4>4, <2>3
      <3>4. Stop("error")
        BY <2>3, <1>11 DEF ReadElement
      <3> QED BY <3>3, <3>4, <2>0, <1>c
    <2>4. CASE ~(wpos + n8 > file.length)
      <3>1. /\ witness' = Append(witness, Data[Len(witness) + 1]) /\ wpos' = wpos + n8
            /\ UNCHANGED <<file, pc, section, pos, n8, count, start>>
        BY <2>4, <1>11 DEF ReadElement, Known
      <3>2. UNCHANGED <<Field, DataAt, Data, Size, Count, FullLength>>
        BY <3>1, SameFile
      <3>3. Data[Len(witness) + 1] \in Nat
        <4>1. Data \in Seq(Nat) /\ Len(Data) = Count
          BY <1>0, TwoSections
        <4>2. Len(witness) + 1 \in 1..Len(Data)
          BY <4>1, <2>0, <2>1, <2>2, <1>a, SMTT(30)
        <4> QED BY <4>1, <4>2
      <3>4. witness' \in Seq(Nat) /\ Len(witness') = Len(witness) + 1 /\ Len(witness') <= count'
        BY <3>1, <3>3, <2>0, <2>1, <2>2, <1>a
      <3>5. \A k \in 1..Len(witness') : witness'[k] = Data'[k]
        BY <3>1, <3>2, <3>3, <3>4, <2>0, <2>2
      <3>6. wpos' = start' + Len(witness') * n8' /\ wpos' \in Nat
        <4>1. Len(witness') * n8 = Len(witness) * n8 + n8
          BY <3>4, <2>1, <2>2, <1>a, OneMore
        <4> DEFINE x == Len(witness) * n8
                   y == Len(witness') * n8
        <4>2. x \in Nat /\ y = x + n8 /\ wpos = start + x
          BY <4>1, <2>0, <2>2
        <4>3. n8' = n8 /\ start' = start /\ wpos' = wpos + n8 /\ n8 \in Nat
          BY <3>1, <2>1, <1>a
        <4>4. Len(witness') * n8' = y
          BY <4>3
        <4>5. start \in Nat /\ wpos' \in Nat
          BY <2>1, <2>2, <4>3
        <4> HIDE DEF x, y
        <4> QED BY <4>2, <4>3, <4>4, <4>5
      <3>7. ElementsOK'
        BY <3>1, <3>4, <3>5, <3>6, <2>0 DEF ElementsOK
      <3>8. WalkOK'
        BY <3>1 DEF RInv, WalkOK, NoWtns
      <3>9. KnownOK'
        BY <3>1, <3>2 DEF RInv, KnownOK
      <3>10. WholeFileIsRead' /\ PanicInFieldSize'
        BY <3>1, <2>0 DEF WholeFileIsRead, PanicInFieldSize
      <3> QED BY <3>1, <3>7, <3>8, <3>9, <3>10 DEF RInv
    <2> QED BY <2>3, <2>4
  <1>12. CASE EndElements
    BY <1>12, <1>b DEF EndElements, Stages
  <1>13. CASE UNCHANGED readerVars
    <2>1. /\ UNCHANGED <<file, pc, section, pos, n8, count, start, wpos, witness>>
          /\ UNCHANGED <<Field, DataAt, Data, Size, Count, FullLength>>
      BY <1>13, SameFile DEF readerVars
    <2> QED
      BY <2>1 DEF RInv, WalkOK, NoWtns, KnownOK, ElementsOK, WholeFileIsRead, PanicInFieldSize
  <1> QED
    BY <1>1, <1>2, <1>3, <1>4, <1>5, <1>6, <1>7, <1>8, <1>9, <1>10, <1>11, <1>12, <1>13
       DEF Next, Work, ReadFile, ReadWitness, ReadSections, MapSymbol, AddToTree, Done, vars

---------------------------------------------------------------------------
\* The look-up of the symbols.

Listing == [path : Paths, value : Nat]
KnownUpTo(n) == {i \in 1..n : symbols[i].index < Len(witness)}

MInv ==
    /\ symbols \in SymbolLists
    /\ mapped \in 0..Len(symbols)
    /\ listed \in Seq(Listing) /\ Len(listed) <= mapped
    /\ inserted \in 0..Len(listed)
    /\ pc # "ok" => mapped = 0
    /\ DOMAIN values = {Name(symbols[i].path) : i \in KnownUpTo(mapped)}
    /\ \A i \in KnownUpTo(mapped) :
          values[Name(symbols[i].path)] = bigint_to_i64(witness[symbols[i].index + 1])

LEMMA Symbols ==
    ASSUME symbols \in SymbolLists
    PROVE  /\ symbols \in Seq([index : Nat, path : Paths]) /\ Len(symbols) \in Nat
           /\ DOMAIN symbols = 1..Len(symbols)
           /\ \A i \in 1..Len(symbols) : symbols[i].index \in Nat /\ symbols[i].path \in Paths
           /\ \A i, j \in 1..Len(symbols) :
                 Name(symbols[i].path) = Name(symbols[j].path) => i = j
  <1>1. symbols \in Seq([index : Nat, path : Paths])
    BY SymbolsAssumption
  <1>2. Len(symbols) \in Nat /\ DOMAIN symbols = 1..Len(symbols)
    BY <1>1
  <1>3. \A i \in 1..Len(symbols) : symbols[i] \in [index : Nat, path : Paths]
    <2> DEFINE E == [index : Nat, path : Paths]
    <2>1. symbols \in Seq(E)
      BY <1>1
    <2> HIDE DEF E
    <2>2. \A i \in 1..Len(symbols) : symbols[i] \in E
      BY <2>1, <1>2
    <2> QED BY <2>2 DEF E
  <1>4. \A i, j \in 1..Len(symbols) :
            Name(symbols[i].path) = Name(symbols[j].path) => i = j
    BY <1>2, SymbolsAssumption DEF Name
  <1>5. \A i \in 1..Len(symbols) : symbols[i].index \in Nat /\ symbols[i].path \in Paths
    BY <1>3
  <1> QED
    BY <1>1, <1>2, <1>4, <1>5

LEMMA MInit == Start => MInv
  <1> SUFFICES ASSUME Start PROVE MInv
    OBVIOUS
  <1> USE DEF Start, Init
  <1>1. Len(symbols) \in Nat
    BY Symbols
  <1>2. KnownUpTo(mapped) = {}
    BY DEF KnownUpTo
  <1>3. DOMAIN values = {}
    OBVIOUS
  <1> QED
    BY <1>1, <1>2, <1>3 DEF MInv

\* A step that leaves the symbols and their values alone.
LEMMA MSame ==
    ASSUME MInv, UNCHANGED <<symbols, mapped, values, listed>>,
           inserted' \in 0..Len(listed), pc' # "ok" => mapped = 0,
           mapped = 0 \/ witness' = witness
    PROVE  MInv'
  <1>1. Len(symbols) \in Nat
    BY Symbols DEF MInv
  <1>2. CASE mapped = 0
    <2>1. KnownUpTo(mapped) = {} /\ KnownUpTo(mapped)' = {}
      BY <1>2 DEF KnownUpTo
    <2> QED BY <2>1, <1>1 DEF MInv
  <1>3. CASE witness' = witness
    <2>1. KnownUpTo(mapped)' = KnownUpTo(mapped)
      BY <1>3 DEF KnownUpTo
    <2> QED BY <2>1, <1>3 DEF MInv, bigint_to_i64, Name
  <1> QED BY <1>2, <1>3

LEMMA MStep == RInv /\ MInv /\ [Next]_vars => MInv'
  <1> SUFFICES ASSUME RInv, MInv, [Next]_vars PROVE MInv'
    OBVIOUS
  <1>1. CASE ReadFile
    <2>1. UNCHANGED <<symbols, mapped, values, listed, inserted>>
      BY <1>1 DEF ReadFile, mapVars
    <2>2. pc # "ok"
      BY <1>1 DEF ReadFile, ReadWitness, ReadSections, Generate, OpenFile, HeaderTruncated,
         FieldPanic, FieldError, ReadField, FindData, PassSection, EndSections, CheckKnown,
         ReadElement, EndElements, HeaderRead, InSections
    <2>3. mapped = 0 /\ inserted \in 0..Len(listed)
      BY <2>2 DEF MInv
    <2> QED BY <2>1, <2>3, MSame
  <1>2. CASE MapSymbol
    <2> DEFINE s == symbols[mapped + 1]
               v == bigint_to_i64(witness[s.index + 1])
    <2>0. /\ pc = "ok" /\ mapped < Len(symbols) /\ mapped' = mapped + 1
          /\ UNCHANGED <<pc, witness, symbols, inserted>>
      BY <1>2 DEF MapSymbol, readerVars
    <2>1. /\ Len(symbols) \in Nat /\ mapped \in Nat /\ mapped + 1 \in 1..Len(symbols)
          /\ s.index \in Nat /\ s.path \in Paths
      BY <2>0, Symbols DEF MInv
    <2>2. witness \in Seq(Nat) /\ Len(witness) \in Nat
      BY DEF RInv, ElementsOK
    <2>3. CASE s.index < Len(witness)
      <3>1. /\ values' = Put(values, Name(s.path), v)
            /\ listed' = Append(listed, [path |-> s.path, value |-> v])
        BY <2>3, <1>2 DEF MapSymbol
      <3>2. v \in Nat
        <4>1. witness[s.index + 1] \in Nat
          BY <2>1, <2>2, <2>3
        <4> QED BY <4>1 DEF bigint_to_i64
      <3>3. KnownUpTo(mapped') = KnownUpTo(mapped) \cup {mapped + 1}
        BY <2>0, <2>1, <2>3 DEF KnownUpTo
      <3>4. KnownUpTo(mapped)' = KnownUpTo(mapped')
        BY <2>0 DEF KnownUpTo
      <3>5. DOMAIN values' = DOMAIN values \cup {Name(s.path)}
        BY <3>1 DEF Put
      <3>6. values'[Name(s.path)] = v
        BY <3>1 DEF Put
      <3>7. \A x \in DOMAIN values : x # Name(s.path) => values'[x] = values[x]
        BY <3>1 DEF Put
      <3>8. \A i \in KnownUpTo(mapped) : i \in 1..Len(symbols) /\ i # mapped + 1
        BY <2>1, <2>0 DEF KnownUpTo
      <3>9. \A i \in KnownUpTo(mapped) :
                values'[Name(symbols[i].path)] = bigint_to_i64(witness[symbols[i].index + 1])
        <4> SUFFICES ASSUME NEW i \in KnownUpTo(mapped)
                     PROVE values'[Name(symbols[i].path)]
                           = bigint_to_i64(witness[symbols[i].index + 1])
          OBVIOUS
        <4>1. Name(symbols[i].path) # Name(s.path)
          BY <3>8, <2>1, Symbols DEF MInv
        <4>2. Name(symbols[i].path) \in DOMAIN values
          BY DEF MInv
        <4> QED BY <4>1, <4>2, <3>7 DEF MInv
      <3>10. DOMAIN values' = {Name(symbols[i].path) : i \in KnownUpTo(mapped) \cup {mapped + 1}}
        BY <3>5 DEF MInv
      <3>11. listed' \in Seq(Listing) /\ Len(listed') = Len(listed) + 1 /\ Len(listed) \in Nat
        <4>1. [path |-> s.path, value |-> v] \in Listing
          BY <2>1, <3>2 DEF Listing
        <4> QED BY <4>1, <3>1 DEF MInv
      <3>12. /\ symbols' \in SymbolLists /\ mapped' \in 0..Len(symbols')
             /\ Len(listed') <= mapped' /\ inserted' \in 0..Len(listed')
        BY <2>0, <2>1, <3>11 DEF MInv
      <3>13. \A i \in KnownUpTo(mapped) \cup {mapped + 1} :
                values'[Name(symbols[i].path)] = bigint_to_i64(witness[symbols[i].index + 1])
        BY <3>6, <3>9
      <3>14. KnownUpTo(mapped)' = KnownUpTo(mapped) \cup {mapped + 1}
        BY <3>3, <3>4
      <3>15. (DOMAIN values)' = {Name(symbols[i].path) : i \in KnownUpTo(mapped)}'
        BY <2>0, <3>10, <3>14 DEF Name
      <3>16. \A i \in KnownUpTo(mapped)' :
                values'[Name(symbols'[i].path)] = bigint_to_i64(witness'[symbols'[i].index + 1])
        BY <2>0, <3>13, <3>14
      <3> QED
        BY <2>0, <3>11, <3>12, <3>15, <3>16 DEF MInv, bigint_to_i64, Name
    <2>4. CASE ~(s.index < Len(witness))
      <3>1. UNCHANGED <<values, listed>>
        BY <2>4, <1>2 DEF MapSymbol
      <3>2. KnownUpTo(mapped') = KnownUpTo(mapped)
        BY <2>0, <2>1, <2>4 DEF KnownUpTo
      <3>3. KnownUpTo(mapped)' = KnownUpTo(mapped')
        BY <2>0 DEF KnownUpTo
      <3>4. /\ symbols' \in SymbolLists /\ mapped' \in 0..Len(symbols')
            /\ listed' \in Seq(Listing) /\ Len(listed') <= mapped' /\ inserted' \in 0..Len(listed')
        <4>1. Len(listed) \in Nat
          BY DEF MInv
        <4> QED BY <4>1, <2>0, <2>1, <3>1 DEF MInv
      <3> QED BY <2>0, <3>1, <3>2, <3>3, <3>4, ZenonT(60) DEF MInv, bigint_to_i64, Name
    <2> QED BY <2>3, <2>4
  <1>3. CASE AddToTree
    <2>1. /\ UNCHANGED <<pc, witness, symbols, mapped, values, listed>>
          /\ inserted < Len(listed) /\ inserted' = inserted + 1
      BY <1>3 DEF AddToTree, readerVars
    <2>2. Len(listed) \in Nat
      BY DEF MInv
    <2>3. inserted' \in 0..Len(listed) /\ (pc' # "ok" => mapped = 0)
      BY <2>1, <2>2 DEF MInv
    <2> QED BY <2>1, <2>3, MSame
  <1>4. CASE UNCHANGED vars
    <2>1. UNCHANGED <<pc, witness, symbols, mapped, values, listed, inserted>>
      BY <1>4 DEF vars, readerVars, mapVars
    <2>2. inserted' \in 0..Len(listed) /\ (pc' # "ok" => mapped = 0)
      BY <2>1 DEF MInv
    <2> QED BY <2>1, <2>2, MSame
  <1> QED BY <1>1, <1>2, <1>3, <1>4 DEF Next, Work, Done

---------------------------------------------------------------------------
\* The tree: as far as signals are inserted, it has each of them once.

Leaf(path) == path[Len(path)]
Signals == [leaf : {Leaf(p) : p \in Paths}, value : Nat]

\* The elements of the tree, and the inserted signals, of a node, a name and a value.
Shown(node, leaf, value) ==
    {x \in Flat : x.node = node /\ x.signal.leaf = leaf /\ x.signal.value = value}
Seen(node, leaf, value) ==
    {j \in 1..inserted : /\ Container(listed[j].path) = node
                         /\ Leaf(listed[j].path) = leaf /\ listed[j].value = value}

TInv ==
    /\ mapped < Len(symbols) => inserted = 0
    /\ \A p \in DOMAIN tree : tree[p] \in Seq(Signals)
    /\ IsFiniteSet(Flat) /\ Cardinality(Flat) = inserted
    /\ \A node, leaf, value :
          Cardinality(Shown(node, leaf, value)) = Cardinality(Seen(node, leaf, value))

\* A node is one of its own prefixes.
LEMMA OwnPrefix ==
    ASSUME NEW path \in Paths
    PROVE  Container(path) \in Prefixes(Container(path))
  <1> DEFINE c == Container(path)
             n == Len(path) - 2
  <1>1. n \in Nat
    <2> DEFINE m == Len(path)
    <2>1. m \in Nat /\ m # 0 /\ m # 1
      BY PathsAssumption
    <2> HIDE DEF m
    <2>2. m - 2 \in Nat
      BY <2>1
    <2> QED BY <2>2 DEF m
  <1>2. c = [i \in 1..n |-> path[i + 1].name]
    BY DEF Container
  <1> DEFINE Names == {path[i + 1].name : i \in 1..n}
  <1> HIDE DEF n
  <1>3. c \in Seq(Names) /\ Len(c) = n
    <2>1. c \in [1..n -> Names]
      BY <1>2
    <2> HIDE DEF c, Names
    <2> QED BY <1>1, <2>1
  <1> HIDE DEF c, Names
  <1>4. SubSeq(c, 1, n) = c
    BY <1>1, <1>3
  <1>5. c \in {SubSeq(c, 1, l) : l \in 0..Len(c)}
    BY <1>1, <1>3, <1>4
  <1> QED BY <1>5 DEF Prefixes, c

\* Inserting a signal adds one element, in the next place of its node.
LEMMA Inserted ==
    ASSUME \A p \in DOMAIN tree : tree[p] \in Seq(Signals),
           NEW node, node \in Prefixes(node), NEW signal \in Signals,
           tree' = Insert(node, signal)
    PROVE  /\ \A p \in DOMAIN tree' : tree'[p] \in Seq(Signals)
           /\ \E x : /\ x.node = node /\ x.signal = signal
                     /\ x \notin Flat /\ Flat' = Flat \cup {x}
  <1> DEFINE n == Len(SignalsAt(node))
             x == [node |-> node, place |-> n + 1, signal |-> signal]
  <1>1. /\ DOMAIN tree' = DOMAIN tree \cup Prefixes(node) /\ node \in DOMAIN tree'
        /\ \A p \in DOMAIN tree' :
              tree'[p] = IF p = node THEN Append(SignalsAt(p), signal) ELSE SignalsAt(p)
    BY DEF Insert
  <1>2. \A p : SignalsAt(p) \in Seq(Signals)
    BY DEF SignalsAt
  <1>3. n \in Nat /\ DOMAIN SignalsAt(node) = 1..n
    BY <1>2
  <1>4. \A p \in DOMAIN tree' : tree'[p] \in Seq(Signals)
    <2>1. \A p : Append(SignalsAt(p), signal) \in Seq(Signals)
      BY <1>2
    <2> QED BY <1>1, <1>2, <2>1
  <1> HIDE DEF n
  <1>5. tree'[node] = Append(SignalsAt(node), signal) /\ DOMAIN tree'[node] = 1..(n + 1)
    <2>1. tree'[node] = Append(SignalsAt(node), signal)
      BY <1>1
    <2>2. SignalsAt(node) \in Seq(Signals) /\ Len(SignalsAt(node)) = n
      BY <1>2 DEF n
    <2>3. DOMAIN Append(SignalsAt(node), signal) = 1..(n + 1)
      BY <2>2, <1>3
    <2> QED BY <2>1, <2>3
  <1>6. tree'[node][n + 1] = signal /\ \A i \in 1..n : tree'[node][i] = SignalsAt(node)[i]
    <2>1. SignalsAt(node) \in Seq(Signals) /\ Len(SignalsAt(node)) = n
      BY <1>2 DEF n
    <2> QED BY <2>1, <1>3, <1>5
  <1>7. x \notin Flat
    <2> SUFFICES ASSUME x \in Flat PROVE FALSE
      OBVIOUS
    <2>0. PICK p \in DOMAIN tree : \E i \in DOMAIN tree[p] :
              x = [node |-> p, place |-> i, signal |-> tree[p][i]]
      BY DEF Flat
    <2>1. PICK i \in DOMAIN tree[p] : x = [node |-> p, place |-> i, signal |-> tree[p][i]]
      BY <2>0
    <2>2. p = node /\ i = n + 1
      BY <2>1
    <2>3. i \in 1..n
      BY <2>1, <2>2, <1>3 DEF SignalsAt
    <2> QED BY <2>2, <2>3, <1>3
  <1>8. Flat' \subseteq Flat \cup {x}
    <2> SUFFICES ASSUME NEW y \in Flat', y # x PROVE y \in Flat
      OBVIOUS
    <2>0. PICK p \in DOMAIN tree' : \E i \in DOMAIN tree'[p] :
              y = [node |-> p, place |-> i, signal |-> tree'[p][i]]
      BY DEF Flat
    <2>1. PICK i \in DOMAIN tree'[p] : y = [node |-> p, place |-> i, signal |-> tree'[p][i]]
      BY <2>0
    <2>2. i \in DOMAIN SignalsAt(p) /\ tree'[p][i] = SignalsAt(p)[i]
      <3>1. CASE p = node
        <4>1. i \in 1..(n + 1) /\ i # n + 1
          BY <3>1, <2>1, <1>5, <1>6
        <4>2. i \in 1..n
          BY <4>1, <1>3
        <4> QED BY <3>1, <4>2, <1>3, <1>6
      <3>2. CASE p # node
        BY <3>2, <2>1, <1>1
      <3> QED BY <3>1, <3>2
    <2>3. p \in DOMAIN tree
      BY <2>2 DEF SignalsAt
    <2> QED BY <2>1, <2>2, <2>3 DEF Flat, SignalsAt
  <1>9. Flat \subseteq Flat'
    <2> SUFFICES ASSUME NEW y \in Flat PROVE y \in Flat'
      OBVIOUS
    <2>0. PICK p \in DOMAIN tree : \E i \in DOMAIN tree[p] :
              y = [node |-> p, place |-> i, signal |-> tree[p][i]]
      BY DEF Flat
    <2>1. PICK i \in DOMAIN tree[p] : y = [node |-> p, place |-> i, signal |-> tree[p][i]]
      BY <2>0
    <2>2. p \in DOMAIN tree' /\ SignalsAt(p) = tree[p]
      BY <2>1, <1>1 DEF SignalsAt
    <2>3. i \in DOMAIN tree'[p] /\ tree'[p][i] = tree[p][i]
      BY <2>1, <2>2, <1>1, <1>3, <1>5, <1>6
    <2> QED BY <2>1, <2>2, <2>3 DEF Flat
  <1>10. x \in Flat'
    <2>1. n + 1 \in DOMAIN tree'[node] /\ tree'[node][n + 1] = signal
      BY <1>3, <1>5, <1>6
    <2> QED BY <2>1, <1>1 DEF Flat
  <1>11. x.node = node /\ x.signal = signal
    OBVIOUS
  <1> HIDE DEF x
  <1> QED BY <1>4, <1>7, <1>8, <1>9, <1>10, <1>11

LEMMA TInit == Start => TInv
  <1> SUFFICES ASSUME Start PROVE TInv
    OBVIOUS
  <1>1. inserted = 0 /\ tree = [p \in {<<>>} |-> <<>>]
    BY DEF Start
  <1>2. Flat = {}
    BY <1>1 DEF Flat
  <1>3. \A node, leaf, value : Shown(node, leaf, value) = {} /\ Seen(node, leaf, value) = {}
    BY <1>1, <1>2 DEF Shown, Seen
  <1> QED BY <1>1, <1>2, <1>3, FS_EmptySet DEF TInv

LEMMA TSame ==
    ASSUME TInv, MInv, UNCHANGED <<inserted, tree>>,
           mapped' < Len(symbols') => inserted = 0,
           \A j \in 1..inserted : listed'[j] = listed[j]
    PROVE  TInv'
  <1>1. UNCHANGED Flat
    BY DEF Flat
  <1>2. ASSUME NEW node, NEW leaf, NEW value
        PROVE  UNCHANGED <<Shown(node, leaf, value), Seen(node, leaf, value)>>
    <2>1. UNCHANGED Shown(node, leaf, value)
      BY <1>1 DEF Shown
    <2>2. UNCHANGED Seen(node, leaf, value)
      <3>1. \A j \in 1..inserted : listed'[j] = listed[j]
        OBVIOUS
      <3> QED BY <3>1 DEF Seen, Container, Leaf
    <2> QED BY <2>1, <2>2
  <1> QED BY <1>1, <1>2 DEF TInv

LEMMA TAdd == TInv /\ MInv /\ AddToTree => TInv'
  <1> SUFFICES ASSUME TInv, MInv, AddToTree PROVE TInv'
    OBVIOUS
  <1> DEFINE n == inserted + 1
             l == listed[n]
             node == Container(l.path)
             signal == [leaf |-> Leaf(l.path), value |-> l.value]
  <1>1. /\ mapped = Len(symbols) /\ inserted < Len(listed) /\ inserted' = n
        /\ UNCHANGED <<symbols, mapped, listed>>
    BY DEF AddToTree, readerVars
  <1>2. inserted \in Nat /\ Len(listed) \in Nat /\ Len(symbols) \in Nat /\ l \in Listing
    <2>1. listed \in Seq(Listing) /\ Len(symbols) \in Nat
      BY Symbols DEF MInv
    <2>2. Len(listed) \in Nat /\ inserted \in Nat
      BY <2>1 DEF MInv
    <2>3. n \in 1..Len(listed)
      BY <1>1, <2>2
    <2> QED BY <2>1, <2>2, <2>3
  <1>3. l.path \in Paths /\ signal \in Signals
    BY <1>2 DEF Listing, Signals
  <1>4. tree' = Insert(node, signal)
    BY DEF AddToTree, Last, Leaf
  <1>5. node \in Prefixes(node)
    BY <1>3, OwnPrefix
  <1> HIDE DEF node, signal, l, n
  <1>6. /\ \A p \in DOMAIN tree' : tree'[p] \in Seq(Signals)
        /\ \E x : x.node = node /\ x.signal = signal /\ x \notin Flat /\ Flat' = Flat \cup {x}
    BY <1>3, <1>4, <1>5, Inserted DEF TInv
  <1>7. PICK x : x.node = node /\ x.signal = signal /\ x \notin Flat /\ Flat' = Flat \cup {x}
    BY <1>6
  <1>8. IsFiniteSet(Flat') /\ Cardinality(Flat') = inserted'
    BY <1>1, <1>2, <1>7, FS_AddElement DEF TInv, n
  <1>9. ASSUME NEW m, NEW f, NEW v
        PROVE  Cardinality(Shown(m, f, v))' = Cardinality(Seen(m, f, v))'
    <2>1. /\ IsFiniteSet(Shown(m, f, v)) /\ IsFiniteSet(Seen(m, f, v))
          /\ Cardinality(Shown(m, f, v)) = Cardinality(Seen(m, f, v))
      <3>1. Shown(m, f, v) \in SUBSET Flat /\ Seen(m, f, v) \in SUBSET (1..inserted)
        BY DEF Shown, Seen
      <3>2. IsFiniteSet(Flat) /\ IsFiniteSet(1..inserted)
        BY <1>2, FS_Interval DEF TInv
      <3>3. IsFiniteSet(Shown(m, f, v)) /\ IsFiniteSet(Seen(m, f, v))
        BY <3>1, <3>2, FS_Subset
      <3> QED BY <3>3 DEF TInv
    <2>2. x.signal.leaf = Leaf(l.path) /\ x.signal.value = l.value /\ x.node = Container(l.path)
      BY <1>7 DEF signal, node
    <2>3. n \notin Seen(m, f, v) /\ x \notin Shown(m, f, v)
      BY <1>2, <1>7 DEF Seen, Shown, n
    <2>4. 1..inserted' = 1..inserted \cup {n}
      BY <1>1, <1>2 DEF n
    <2>5. CASE node = m /\ Leaf(l.path) = f /\ l.value = v
      <3>1. Shown(m, f, v)' = Shown(m, f, v) \cup {x}
        BY <2>2, <2>5, <1>7 DEF Shown, node
      <3>2. Seen(m, f, v)' = Seen(m, f, v) \cup {n}
        BY <2>4, <2>5, <1>1 DEF Seen, node, l, Container, Leaf
      <3>3. Cardinality(Shown(m, f, v) \cup {x}) = Cardinality(Shown(m, f, v)) + 1
        BY <2>1, <2>3, FS_AddElement
      <3>4. Cardinality(Seen(m, f, v) \cup {n}) = Cardinality(Seen(m, f, v)) + 1
        BY <2>1, <2>3, FS_AddElement
      <3> QED BY <3>1, <3>2, <3>3, <3>4, <2>1
    <2>6. CASE ~(node = m /\ Leaf(l.path) = f /\ l.value = v)
      <3>1. Shown(m, f, v)' = Shown(m, f, v)
        BY <2>2, <2>6, <1>7 DEF Shown, node
      <3>2. Seen(m, f, v)' = Seen(m, f, v)
        BY <2>4, <2>6, <1>1 DEF Seen, node, l, Container, Leaf
      <3> QED BY <3>1, <3>2, <2>1
    <2> QED BY <2>5, <2>6
  <1>10. ~(mapped' < Len(symbols'))
    BY <1>1, <1>2
  <1> QED BY <1>6, <1>8, <1>9, <1>10 DEF TInv

LEMMA TStep == RInv /\ MInv /\ TInv /\ [Next]_vars => TInv'
  <1> SUFFICES ASSUME MInv, TInv, [Next]_vars PROVE TInv'
    OBVIOUS
  <1>0. Len(symbols) \in Nat /\ mapped \in Nat /\ Len(listed) \in Nat /\ listed \in Seq(Listing)
    BY Symbols DEF MInv
  <1>1. CASE ReadFile
    BY <1>1, TSame DEF ReadFile, mapVars, TInv
  <1>2. CASE MapSymbol
    <2>1. inserted = 0 /\ UNCHANGED <<inserted, tree>>
      BY <1>2 DEF MapSymbol, TInv
    <2> QED BY <2>1, TSame
  <1>3. CASE AddToTree
    BY <1>3, TAdd
  <1>4. CASE UNCHANGED vars
    BY <1>4, TSame DEF vars, mapVars, TInv
  <1> QED BY <1>1, <1>2, <1>3, <1>4 DEF Next, Work, Done

LEMMA Inductive == Spec => [](RInv /\ MInv /\ TInv)
  <1>1. Start => RInv /\ MInv /\ TInv
    BY RInit, MInit, TInit
  <1>2. RInv /\ MInv /\ TInv /\ [Next]_vars => (RInv /\ MInv /\ TInv)'
    BY RStep, MStep, TStep
  <1> QED
    BY <1>1, <1>2, PTL DEF Spec

---------------------------------------------------------------------------
\* The reader stays where the file has a section, and knows of the witness nothing or
\* what the file says, for every file and every .sym file.
THEOREM TypeCorrect == Spec => []TypeOK
  <1>1. RInv /\ MInv => TypeOK
    <2> SUFFICES ASSUME RInv, MInv PROVE TypeOK
      OBVIOUS
    <2>1. NoWtns => pc \in {"generate", "open", "failed", "error"}
      <3>1. file.length \in Nat
        BY Layout DEF RInv
      <3> QED BY <3>1 DEF RInv, WalkOK, NoWtns, Stages
    <2>2. pos = (IF pc \in {"generate", "open", "failed"} \/ NoWtns THEN 0
                 ELSE file.starts[section])
      BY <2>1 DEF RInv, WalkOK, NoWtns, Stages
    <2>3. n8 \in {0, Size} /\ count \in {0, Count} /\ start \in {0, file.starts[DataAt] + 12}
      BY DEF RInv, KnownOK
    <2> QED
      BY <2>2, <2>3 DEF TypeOK, ReaderTypeOK, RInv, WalkOK, NoWtns, ElementsOK, MInv, Size, Count
  <1> QED BY <1>1, Inductive, PTL

\* parse_wtns_file returns the witness of the file or an error, never a part of it, for
\* every order of the sections and wherever the file is cut off.
THEOREM WitnessIsWhole == Spec => []OkIsTheWitness
  <1>1. RInv => OkIsTheWitness
    <2> SUFFICES ASSUME RInv, pc = "ok" PROVE witness = Data
      BY DEF OkIsTheWitness
    <2>1. Data \in Seq(Nat) /\ Len(Data) = Count /\ Count \in Nat
      BY TwoSections DEF RInv
    <2>2. count = Count
      <3>1. section = Len(file.sections) + 1
        BY DEF RInv, WalkOK, NoWtns
      <3>2. Field \in 1..Len(file.sections)
        BY TwoSections, Layout DEF RInv
      <3>3. section > Field
        BY <3>1, <3>2
      <3> QED BY <3>3 DEF RInv, KnownOK
    <2>3. /\ witness \in Seq(Nat) /\ Len(witness) = Count
          /\ \A k \in 1..Len(witness) : witness[k] = Data[k]
      BY <2>2 DEF RInv, ElementsOK
    <2> QED BY <2>1, <2>3
  <1> QED BY <1>1, Inductive, PTL

\* A file of the format that is not cut off is read, whatever the number and the size of its elements.
THEOREM WholeIsRead == Spec => []WholeFileIsRead
  <1>1. RInv => WholeFileIsRead
    BY DEF RInv
  <1> QED BY <1>1, Inductive, PTL

\* The only read parse_wtns_file does not check is that of the size of an element.
THEOREM OnePanic == Spec => []PanicInFieldSize
  <1>1. RInv => PanicInFieldSize
    BY DEF RInv
  <1> QED BY <1>1, Inductive, PTL

\* Every signal the witness has an element for is shown with it, or with 0 if an i64
\* does not hold it, for every .sym file that names a signal once.
THEOREM ValuesAreOfTheWitness == Spec => []ValuesAreWitness
  <1>1. RInv /\ MInv => ValuesAreWitness
    <2> SUFFICES ASSUME RInv, MInv, pc = "ok", mapped = Len(symbols) PROVE ValuesAreWitness
      BY DEF ValuesAreWitness
    <2>1. DOMAIN symbols = 1..Len(symbols) /\ \A i \in 1..Len(symbols) : symbols[i].index \in Nat
      BY Symbols DEF MInv
    <2>2. {i \in DOMAIN symbols : symbols[i].index < Len(witness)} = KnownUpTo(mapped)
      BY <2>1 DEF KnownUpTo
    <2>3. \A i \in KnownUpTo(mapped) : witness[symbols[i].index + 1] \in Nat
      <3>1. witness \in Seq(Nat)
        BY DEF RInv, ElementsOK
      <3> QED BY <3>1, <2>1 DEF KnownUpTo
    <2>4. \A i \in KnownUpTo(mapped) :
            LET v == values[Name(symbols[i].path)]
                e == witness[symbols[i].index + 1]
            IN v = e \/ (v = 0 /\ e > I64Max)
      BY <2>3, I64MaxAssumption DEF MInv, bigint_to_i64
    <2>5. DOMAIN values = {Name(symbols[i].path) : i \in KnownUpTo(mapped)}
      BY DEF MInv
    <2> QED BY <2>2, <2>4, <2>5 DEF ValuesAreWitness
  <1> QED BY <1>1, Inductive, PTL

\* Every signal that has a value is in the tree, in the node of its component's name, as
\* often as the .sym file has it there, for every .sym file.
THEOREM TreeIsComplete == Spec => []TreeHasSignals
  <1>1. MInv /\ TInv => TreeHasSignals
    <2> SUFFICES ASSUME MInv, TInv, inserted = Len(listed) PROVE TreeHasSignals
      BY DEF TreeHasSignals
    <2>1. DOMAIN listed = 1..inserted
      BY DEF MInv
    <2>2. Cardinality(Flat) = Len(listed)
      BY DEF TInv
    <2>3. ASSUME NEW i \in DOMAIN listed
          PROVE LET node == Container(listed[i].path)
                    Like(leaf, value) == leaf = Last(listed[i].path) /\ value = listed[i].value
                IN Cardinality({x \in Flat : x.node = node /\ Like(x.signal.leaf, x.signal.value)})
                   = Cardinality({j \in DOMAIN listed :
                         /\ Container(listed[j].path) = node
                         /\ Like(Last(listed[j].path), listed[j].value)})
      <3> DEFINE node == Container(listed[i].path)
                 leaf == Leaf(listed[i].path)
                 value == listed[i].value
      <3>1. {x \in Flat : x.node = node /\ x.signal.leaf = Last(listed[i].path)
                          /\ x.signal.value = value} = Shown(node, leaf, value)
        BY DEF Shown, Last, Leaf
      <3>2. {j \in DOMAIN listed : Container(listed[j].path) = node
                /\ Last(listed[j].path) = Last(listed[i].path) /\ listed[j].value = value}
            = Seen(node, leaf, value)
        BY <2>1 DEF Seen, Last, Leaf
      <3>3. Cardinality(Shown(node, leaf, value)) = Cardinality(Seen(node, leaf, value))
        BY DEF TInv
      <3> QED BY <3>1, <3>2, <3>3
    <2> QED BY <2>2, <2>3 DEF TreeHasSignals
  <1> QED BY <1>1, Inductive, PTL
=============================================================================
