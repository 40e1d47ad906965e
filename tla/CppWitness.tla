----------------------------- MODULE CppWitness -----------------------------
(***************************************************************************)
(* The C++ backend of cpp_witness.rs: the generator circom wrote is built  *)
(* and run, and parse_wtns_file walks the sections of the .wtns file it    *)
(* leaves.  The generator may end with success and leave a file that is    *)
(* cut off at any byte (a full disk).                                      *)
(*                                                                         *)
(* A file may begin with other bytes than those of the format (its magic). *)
(*                                                                         *)
(* Positions and sizes are those of the format: 12 bytes before the first  *)
(* section and before the contents of each.  What the bytes of a section   *)
(* say is kept with the section, and can be read as far as the file goes.  *)
(***************************************************************************)
EXTENDS Integers, Sequences

CONSTANTS Sections,  \* the sections a file may have
          Files      \* the files a generator may leave

FieldInfo == 1
WitnessData == 2

SectionsOf(f, t) == {s \in DOMAIN f.sections : f.sections[s].type = t}

ASSUME SectionsAssumption ==
    Sections \subseteq [type : Nat, size : Nat, n8 : Nat, count : Nat, elements : Seq(Nat)]

\* A file has its sections one after the other and is at most as long as they are.
ASSUME FilesAssumption ==
    \A f \in Files :
        /\ f.sections \in Seq(Sections)
        /\ f.starts \in [1..(Len(f.sections) + 1) -> Nat]
        /\ f.starts[1] = 12
        /\ \A s \in DOMAIN f.sections :
              /\ f.starts[s + 1] = f.starts[s] + 12 + f.sections[s].size
              /\ f.starts[s + 1] <= f.starts[Len(f.sections) + 1]
        /\ f.magic \in BOOLEAN
        /\ f.length \in 0..f.starts[Len(f.sections) + 1]

\* What circom writes: one section of each kind, of the size its contents need.
ASSUME WitnessAssumption ==
    \A f \in Files :
        \E i, d \in DOMAIN f.sections :
            /\ SectionsOf(f, FieldInfo) = {i} /\ SectionsOf(f, WitnessData) = {d}
            /\ f.sections[i].n8 > 0 /\ f.sections[i].count > 0
            /\ f.sections[i].size = f.sections[i].n8 + 8
            /\ Len(f.sections[d].elements) = f.sections[i].count
            /\ f.sections[d].size = f.sections[i].count * f.sections[i].n8

VARIABLES file,              \* the file of the generator
          pc, section, pos,  \* where parse_wtns_file is
          n8, count, start,  \* what it knows: 0 as long as it does not
          wpos, witness      \* the elements read so far

readerVars == <<file, pc, section, pos, n8, count, start, wpos, witness>>

Stages == {"generate", "open", "section", "check", "elements", "ok", "error", "panic", "failed"}

Init ==
    /\ file \in Files
    /\ pc = "generate" /\ section = 1 /\ pos = 0
    /\ n8 = 0 /\ count = 0 /\ start = 0
    /\ wpos = 0 /\ witness = <<>>

Known == <<n8, count, start>>
Elements == <<wpos, witness>>
Stop(outcome) == pc' = outcome /\ UNCHANGED <<file, section, pos, Known, Elements>>

\* compile_cpp_witness, write_input_json and the run: each may fail.
Generate == pc = "generate" /\ (Stop("open") \/ Stop("failed"))

NoWtns == file.length < 12 \/ ~file.magic

OpenFile ==
    /\ pc = "open"
    /\ IF NoWtns THEN Stop("error")
       ELSE pc' = "section" /\ pos' = 12 /\ UNCHANGED <<file, section, Known, Elements>>

Current == file.sections[section]
InSections == pc = "section" /\ section <= Len(file.sections)
Contents == pos + 12
HeaderRead == InSections /\ Contents <= file.length

\* Mutant of NextSection: the size of the section is taken to include its header.
NextSectionShort ==
    /\ pos' = pos + Current.size /\ section' = section + 1
    /\ UNCHANGED <<file, pc, Elements>>

NextSection ==
    /\ pos' = Contents + Current.size /\ section' = section + 1
    /\ UNCHANGED <<file, pc, Elements>>

HeaderTruncated == InSections /\ Contents > file.length /\ Stop("error")

FieldBytes == Contents + 4 + Current.n8 + 4

\* Mutant of FieldPanic: nothing is looked for before the field info is read.
FieldPanicUnchecked ==
    /\ HeaderRead /\ Current.type = FieldInfo /\ Current.size >= 4
    /\ FieldBytes > file.length
    /\ Stop("panic")

\* The size of an element is read before it is known to be in the file.
FieldPanic ==
    /\ HeaderRead /\ Current.type = FieldInfo /\ Current.size >= 4
    /\ Contents + 4 > file.length
    /\ Stop("panic")

FieldError ==
    /\ HeaderRead /\ Current.type = FieldInfo
    /\ \/ Current.size < 4
       \/ Contents + 4 <= file.length /\ FieldBytes > file.length
    /\ Stop("error")

ReadField ==
    /\ HeaderRead /\ Current.type = FieldInfo /\ Current.size >= 4
    /\ FieldBytes <= file.length
    /\ n8' = Current.n8 /\ count' = Current.count
    /\ NextSection /\ UNCHANGED start

FindData ==
    /\ HeaderRead /\ Current.type = WitnessData
    /\ start' = Contents
    /\ NextSection /\ UNCHANGED <<n8, count>>

PassSection ==
    /\ HeaderRead /\ Current.type \notin {FieldInfo, WitnessData}
    /\ NextSection /\ UNCHANGED Known

EndSections ==
    /\ pc = "section" /\ section > Len(file.sections)
    /\ Stop("check")

CheckKnown ==
    /\ pc = "check"
    /\ IF n8 = 0 \/ count = 0 \/ start = 0 THEN Stop("error")
       ELSE pc' = "elements" /\ wpos' = start /\ UNCHANGED <<file, section, pos, Known, witness>>

\* The two sections of what circom writes, and the elements the data has.
Field == CHOOSE s \in DOMAIN file.sections : file.sections[s].type = FieldInfo
DataAt == CHOOSE s \in DOMAIN file.sections : file.sections[s].type = WitnessData
Data == file.sections[DataAt].elements
FullLength == file.starts[Len(file.sections) + 1]

\* Mutants of ReadElement: reading stops where the file does; the first byte counts.
ReadElementOrStop ==
    /\ pc = "elements" /\ Len(witness) < count
    /\ IF wpos + n8 > file.length THEN Stop("ok")
       ELSE /\ witness' = Append(witness, Data[Len(witness) + 1])
            /\ wpos' = wpos + n8
            /\ UNCHANGED <<file, pc, section, pos, Known>>

ReadElementBelow ==
    /\ pc = "elements" /\ Len(witness) < count
    /\ IF wpos + n8 >= file.length THEN Stop("error")
       ELSE /\ witness' = Append(witness, Data[Len(witness) + 1])
            /\ wpos' = wpos + n8
            /\ UNCHANGED <<file, pc, section, pos, Known>>

ReadElement ==
    /\ pc = "elements" /\ Len(witness) < count
    /\ IF wpos + n8 > file.length THEN Stop("error")
       ELSE /\ witness' = Append(witness, Data[Len(witness) + 1])
            /\ wpos' = wpos + n8
            /\ UNCHANGED <<file, pc, section, pos, Known>>

EndElements == pc = "elements" /\ Len(witness) = count /\ Stop("ok")

ReadSections ==
    HeaderTruncated \/ FieldPanic \/ FieldError \/ ReadField \/ FindData \/ PassSection
    \/ EndSections

ReadWitness ==
    Generate \/ OpenFile \/ ReadSections \/ CheckKnown \/ ReadElement \/ EndElements

CppSpec == Init /\ [][ReadWitness]_readerVars

---------------------------------------------------------------------------
\* Properties.

\* The walk is at the start of a section, and knows either nothing of the witness or
\* what the file says; no more elements are read than there are.
ReaderTypeOK ==
    /\ pc \in Stages
    /\ section \in 1..(Len(file.sections) + 1)
    /\ pos = (IF pc \in {"generate", "open", "failed"} \/ NoWtns THEN 0
              ELSE file.starts[section])
    /\ n8 \in {0, file.sections[Field].n8}
    /\ count \in {0, file.sections[Field].count}
    /\ start \in {0, file.starts[DataAt] + 12}
    /\ wpos \in Nat /\ Len(witness) <= count

\* A witness that is read is the one the file says, to its last element, wherever
\* the file may be cut off and whatever order its sections have (parse_wtns_file).
OkIsTheWitness ==
    pc = "ok" => witness = Data

\* A file of the format that is not cut off is read.
WholeFileIsRead ==
    file.magic /\ file.length = FullLength => pc \notin {"error", "panic"}

\* The recorder goes down without an error message only if the file is cut off in the
\* four bytes that say how long an element is.
PanicInFieldSize ==
    pc = "panic" => file.length - (file.starts[Field] + 12) \in 0..3
=============================================================================
