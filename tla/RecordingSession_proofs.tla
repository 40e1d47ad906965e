----------------------- MODULE RecordingSession_proofs -----------------------
(***************************************************************************)
(* Proofs about RecordingSession for every set of source versions and      *)
(* every bound: type correctness, balanced bundles, refusals, and that the *)
(* session implements RecordingContract (safety; Termination stays with    *)
(* TLC).                                                                   *)
(***************************************************************************)
EXTENDS RecordingSession, TLAPS

Setup    == {"validate", "read", "start"}
Flat     == {"compile", "artifacts", "witness", "emit", "toplevel"}
Emission == {"body", "calls", "steps", "returns"}
Ending   == {"finish", "meta", "close"}

\* Which phase the bundle is in at each stage, and with which size.
PhaseAtStage ==
    /\ pc \in Setup => w = NewWriter
    /\ pc \in Flat \cup Emission \cup {"finish"} => w.phase = "started"
    /\ pc = "meta" => w.phase = "finished"
    /\ pc = "close" => w.phase = "meta"
    /\ w.phase \notin {"absent", "streams"} =>
          text \in Versions /\ w.size = source_line_count(text)
    /\ pc \in {"start"} \cup Flat \cup Emission => text \in Versions
    /\ pc = "body" => body \in Versions

\* How many calls are open at each stage.
DepthAtStage ==
    /\ pc \in Flat => w.depth = 1
    /\ pc \in Emission => w.depth = 1 + frames
    /\ pc \in Ending => w.depth = 0
    /\ w.phase \in {"finished", "meta", "closed"} => w.depth = 0

\* What the bundle and the exit status say of the session so far.
ErrorsAtStage ==
    /\ pc \notin Ending \cup {"done"} => cause = "none"
    /\ pc \in Ending => cause \in ToolErrors \cup {"none"}
    /\ pc # "done" <=> result = "none"
    /\ w.errors = IF cause \in ToolErrors THEN 1 ELSE 0
    /\ w.phase = "closed" => pc = "done"
    /\ result = "ok" => disabled \/ w.phase = "closed"
    /\ disabled => w.phase = "absent"
    /\ disabled => pc \in {"validate", "done"}

\* Where a refusal can be, and what it takes to get one.
RefusalAtStage ==
    /\ w.refused => /\ pc \in {"body", "toplevel", "finish", "done"}
                    /\ w.phase = "started"
                    /\ result # "ok"
                    /\ {text, body} \subseteq Versions
                    /\ source_line_count(body) > source_line_count(text)
    /\ edits = 0 /\ text # NoFile => disk = text
    /\ edits = 0 /\ body # NoFile => body = text

IInv == TypeOK /\ PhaseAtStage /\ DepthAtStage /\ ErrorsAtStage /\ RefusalAtStage

---------------------------------------------------------------------------
\* source_line_count is a positive number for every version, so that line 1,
\* which start() steps on, is a line of every file, the empty one included.
LEMMA LineCountIsPositive ==
    ASSUME NEW v \in Versions
    PROVE  source_line_count(v) \in Nat \ {0}
BY VersionsAssumption DEF source_line_count

---------------------------------------------------------------------------
\* What the operations of the writer do to a writer, field by field.

\* A step moves nothing but the top line and the refusal, which it sets
\* exactly when the line is past the stated size.
LEMMA StepFacts ==
    ASSUME NEW wr \in Writer, NEW n \in Nat
    PROVE  /\ RegisterStep(wr, n) \in Writer
           /\ RegisterStep(wr, n).phase = wr.phase
           /\ RegisterStep(wr, n).depth = wr.depth
           /\ RegisterStep(wr, n).size = wr.size
           /\ RegisterStep(wr, n).errors = wr.errors
           /\ RegisterStep(wr, n).logs = wr.logs
           /\ RegisterStep(wr, n).refused <=> wr.refused \/ n > wr.size
BY DEF RegisterStep, Writer, Phases

\* A call opens one more frame, a return closes one.
LEMMA CallFacts ==
    ASSUME NEW wr \in Writer
    PROVE  /\ RegisterCall(wr) \in Writer
           /\ RegisterCall(wr).phase = wr.phase
           /\ RegisterCall(wr).depth = wr.depth + 1
           /\ RegisterCall(wr).size = wr.size
           /\ RegisterCall(wr).errors = wr.errors
           /\ RegisterCall(wr).refused = wr.refused
           /\ RegisterReturn(wr) \in Writer
           /\ RegisterReturn(wr).phase = wr.phase
           /\ RegisterReturn(wr).depth = wr.depth - 1
           /\ RegisterReturn(wr).size = wr.size
           /\ RegisterReturn(wr).top = wr.top
           /\ RegisterReturn(wr).logs = wr.logs
           /\ RegisterReturn(wr).errors = wr.errors
           /\ RegisterReturn(wr).refused = wr.refused
BY DEF RegisterCall, RegisterReturn, Writer, Phases

\* Special events are only counted.
LEMMA EventFacts ==
    ASSUME NEW wr \in Writer, NEW n \in Nat
    PROVE  /\ RegisterError(wr) \in Writer
           /\ RegisterError(wr).phase = wr.phase
           /\ RegisterError(wr).depth = wr.depth
           /\ RegisterError(wr).size = wr.size
           /\ RegisterError(wr).errors = wr.errors + 1
           /\ RegisterError(wr).refused = wr.refused
           /\ RegisterLogs(wr, n) \in Writer
           /\ RegisterLogs(wr, n).phase = wr.phase
           /\ RegisterLogs(wr, n).depth = wr.depth
           /\ RegisterLogs(wr, n).size = wr.size
           /\ RegisterLogs(wr, n).errors = wr.errors
           /\ RegisterLogs(wr, n).refused = wr.refused
BY DEF RegisterError, RegisterLogs, Writer, Phases

\* The writer once its streams are open.
LEMMA OpenFacts ==
    /\ NewWriter \in Writer
    /\ OpenStreams(NewWriter) \in Writer
    /\ OpenStreams(NewWriter).phase = "streams"
    /\ OpenStreams(NewWriter).depth = 0
    /\ OpenStreams(NewWriter).errors = 0
    /\ OpenStreams(NewWriter).refused = FALSE
<1>1. NewWriter \in Writer
    BY DEF NewWriter, Writer, Phases
<1> DEFINE q == [NewWriter EXCEPT !.phase = "streams"]
<1>2. /\ q.phase = "streams" /\ q.depth = NewWriter.depth
      /\ q.errors = NewWriter.errors /\ q.refused = NewWriter.refused
      /\ q \in Writer
    BY <1>1 DEF Writer, Phases
<1>3. NewWriter.depth = 0 /\ NewWriter.errors = 0 /\ NewWriter.refused = FALSE
    BY DEF NewWriter
<1> QED
    BY <1>1, <1>2, <1>3 DEF OpenStreams

\* start_trace's writer: <toplevel> open, the size stated, nothing refused.
LEMMA StartFacts ==
    ASSUME NEW n \in Nat \ {0}
    PROVE  LET s == StartTrace(StateSize(OpenStreams(NewWriter), n), 1)
           IN  /\ s \in Writer /\ s.phase = "started" /\ s.depth = 1
               /\ s.size = n /\ s.errors = 0 /\ ~s.refused
<1> DEFINE q == OpenStreams(NewWriter)
           o == StateSize(q, n)
           r == RegisterStep(o, 1)
           p == [r EXCEPT !.phase = "started"]
<1>0. /\ q \in Writer /\ q.depth = 0 /\ q.errors = 0 /\ ~q.refused
    BY OpenFacts
<1> HIDE DEF q
<1>1. /\ o \in Writer /\ o.depth = 0 /\ o.size = n
      /\ o.errors = 0 /\ ~o.refused
    BY <1>0 DEF StateSize, Writer
<1> HIDE DEF o
<1>2. /\ r \in Writer /\ r.depth = 0 /\ r.size = n
      /\ r.errors = 0 /\ ~r.refused
    <2>1. ~(1 > o.size)
        BY <1>1
    <2> QED
        BY <1>1, <2>1, StepFacts
<1> HIDE DEF r
<1>3. /\ p \in Writer /\ p.phase = "started" /\ p.depth = 0 /\ p.size = n
      /\ p.errors = 0 /\ ~p.refused
    BY <1>2 DEF Writer, Phases
<1>4. StartTrace(o, 1) = RegisterCall(p)
    BY DEF StartTrace, p, r
<1> HIDE DEF p
<1> QED
    BY <1>3, <1>4, CallFacts DEF o, q

\* Between the calls of finish_trace only the phase moves.
LEMMA AdvanceFacts ==
    ASSUME NEW wr \in Writer, NEW ph \in Phases
    PROVE  /\ Advance(wr, ph) \in Writer
           /\ Advance(wr, ph).phase = ph
           /\ Advance(wr, ph).depth = wr.depth
           /\ Advance(wr, ph).size = wr.size
           /\ Advance(wr, ph).top = wr.top
           /\ Advance(wr, ph).logs = wr.logs
           /\ Advance(wr, ph).errors = wr.errors
           /\ Advance(wr, ph).refused = wr.refused
BY DEF Advance, Writer, Phases

---------------------------------------------------------------------------
USE VersionsAssumption, BoundsAssumption DEF source, options, reads, emitted, ending, ExitStatus

\* Every action keeps the type of the state.
LEMMA TypeStep == TypeOK /\ PhaseAtStage /\ [Next]_vars => TypeOK'
<1> SUFFICES ASSUME TypeOK, PhaseAtStage, [Next]_vars PROVE TypeOK'
    OBVIOUS
<1> USE DEF TypeOK, Stages, Causes, ToolErrors, OtherErrors
<1>0. /\ pc \in Setup => w = NewWriter
      /\ pc \in {"start"} \cup Flat \cup Emission => text \in Versions
      /\ pc = "body" => body \in Versions
    BY DEF PhaseAtStage
<1>1. CASE Validate
    BY <1>1 DEF Validate, Propagate, Goto
<1>2. CASE ReadSource
    BY <1>2 DEF ReadSource, Propagate, Goto
<1>3. CASE StartWriter
    BY <1>3, <1>0, StartFacts, OpenFacts, LineCountIsPositive DEF StartWriter, Propagate,
       Goto, Setup, Flat, Emission
<1>4. CASE Compile
    BY <1>4, CallFacts, EventFacts DEF Compile, Propagate, Goto, FinishWithError
<1>5. CASE CheckArtifacts
    BY <1>5, CallFacts, EventFacts DEF CheckArtifacts, Goto, FinishWithError
<1>6. CASE RunWitness
    <2>1. w' \in Writer
        <3>1. CASE UNCHANGED w
            BY <3>1, <1>0
        <3>2. CASE \E error : FinishWithError(error)
            BY <3>2, <1>0, CallFacts, EventFacts DEF FinishWithError
        <3>3. CASE \E printed \in 0 .. MaxLogs :
                      w' = RegisterLogs(w, IF useCpp THEN 0 ELSE printed)
            <4>1. PICK printed \in 0 .. MaxLogs :
                      w' = RegisterLogs(w, IF useCpp THEN 0 ELSE printed)
                BY <3>3
            <4>2. (IF useCpp THEN 0 ELSE printed) \in Nat
                OBVIOUS
            <4> QED
                BY <1>0, <4>1, <4>2, EventFacts
        <3> QED
            BY <1>6, <3>1, <3>2, <3>3 DEF RunWitness
    <2> QED
        BY <1>6, <2>1 DEF RunWitness, Propagate, Goto, FinishWithError
<1>7. CASE EnterEmit
    <2>1. text \in Versions
        BY <1>0, <1>7 DEF EnterEmit, Flat
    <2>2. MainLine(text) \in Nat
        BY <2>1, LineCountIsPositive
    <2> DEFINE stepped == RegisterStep(w, MainLine(text))
    <2>3. stepped \in Writer /\ RegisterCall(stepped) \in Writer
        BY <2>2, StepFacts, CallFacts
    <2> HIDE DEF stepped
    <2>4. w' \in {w, stepped, RegisterCall(stepped)}
        BY <1>7 DEF EnterEmit, EnterLegacy, stepped
    <2>5. frames' \in 0 .. MaxDepth /\ todo' \in 0 .. MaxBody
        BY <1>7 DEF EnterEmit, EnterLegacy
    <2>6. pc' \in Stages /\ cause' \in Causes /\ result' \in {"none", "ok", "err"}
        BY <1>7 DEF EnterEmit, EnterLegacy, Goto, Propagate
    <2> QED
        BY <1>7, <2>3, <2>4, <2>5, <2>6 DEF EnterEmit
<1>8. CASE BodyStep
    BY <1>8, <1>0, StepFacts, LineCountIsPositive DEF BodyStep, Setup, Flat, Emission
<1>9. CASE BodyCall
    BY <1>9, CallFacts DEF BodyCall
<1>10. CASE BodyReturn
    BY <1>10, CallFacts DEF BodyReturn
<1>11. CASE LeaveMain
    BY <1>11, CallFacts DEF LeaveMain, Goto
<1>12. CASE LegacyCall
    BY <1>12, <1>0, StepFacts, CallFacts, LineCountIsPositive DEF LegacyCall, Setup, Flat,
       Emission
<1>13. CASE LegacyFlat
    BY <1>13 DEF LegacyFlat, Goto
<1>14. CASE LegacyStep
    BY <1>14, <1>0, StepFacts, LineCountIsPositive DEF LegacyStep, Setup, Flat, Emission
<1>15. CASE LegacyReturns
    BY <1>15 DEF LegacyReturns, Goto
<1>16. CASE LegacyReturn
    BY <1>16, CallFacts DEF LegacyReturn, Goto
<1>17. CASE CloseToplevel
    BY <1>17, CallFacts DEF CloseToplevel, Goto
<1>18. CASE FinishEvents
    BY <1>18, AdvanceFacts DEF FinishEvents, FinishFails, CanFinish, Goto, Phases
<1>19. CASE WriteMeta
    BY <1>19, AdvanceFacts DEF WriteMeta, FinishFails, Goto, Phases
<1>20. CASE CloseBundle
    BY <1>20, AdvanceFacts DEF CloseBundle, FinishFails, Phases
<1>21. CASE Edit
    BY <1>21 DEF Edit
<1>22. CASE UNCHANGED vars
    BY <1>22 DEF vars
<1> QED
    BY <1>1, <1>2, <1>3, <1>4, <1>5, <1>6, <1>7, <1>8, <1>9, <1>10, <1>11, <1>12, <1>13,
       <1>14, <1>15, <1>16, <1>17, <1>18, <1>19, <1>20, <1>21, <1>22 DEF Next, Recorder, Prepare,
       Tools, EmitBody, EmitLegacy, Finish

\* Every action keeps the invariant.
LEMMA InvStep == IInv /\ [Next]_vars => IInv'
<1> SUFFICES ASSUME IInv, [Next]_vars PROVE IInv'
    OBVIOUS
<1>0. TypeOK /\ TypeOK'
    BY TypeStep DEF IInv
<1> USE DEF IInv, PhaseAtStage, DepthAtStage, ErrorsAtStage, RefusalAtStage,
            Setup, Flat, Emission, Ending, Causes, ToolErrors, OtherErrors
<1>1. CASE Validate
    <2>1. PhaseAtStage'
        BY <1>0, <1>1 DEF Validate, Propagate, Goto, NewWriter, TypeOK
    <2>2. DepthAtStage'
        BY <1>0, <1>1 DEF Validate, Propagate, Goto, NewWriter, TypeOK
    <2>3. ErrorsAtStage'
        BY <1>0, <1>1 DEF Validate, Propagate, Goto, NewWriter, TypeOK
    <2>4. RefusalAtStage'
        BY <1>0, <1>1 DEF Validate, Propagate, Goto, NewWriter, TypeOK
    <2> QED
        BY <1>0, <2>1, <2>2, <2>3, <2>4 DEF IInv
<1>2. CASE ReadSource
    <2>1. PhaseAtStage'
        BY <1>0, <1>2 DEF ReadSource, Propagate, Goto, NewWriter, TypeOK
    <2>2. DepthAtStage'
        BY <1>0, <1>2 DEF ReadSource, Propagate, Goto, NewWriter, TypeOK
    <2>3. ErrorsAtStage'
        BY <1>0, <1>2 DEF ReadSource, Propagate, Goto, NewWriter, TypeOK
    <2>4. RefusalAtStage'
        BY <1>0, <1>2 DEF ReadSource, Propagate, Goto, NewWriter, TypeOK
    <2> QED
        BY <1>0, <2>1, <2>2, <2>3, <2>4 DEF IInv
<1>3. CASE StartWriter
    <2>1. /\ pc = "start" /\ w = NewWriter /\ text \in Versions /\ ~disabled
          /\ UNCHANGED <<disabled, disk, edits, text, body, frames>>
        BY <1>3 DEF StartWriter
    <2>2. \/ /\ w' = w \/ w' = OpenStreams(w)
             /\ pc' = "done" /\ cause' \in {"output", "writer"} /\ result' = "err"
          \/ /\ w' = StartTrace(StateSize(OpenStreams(w), source_line_count(text)), 1)
             /\ pc' = "compile" /\ UNCHANGED ending
        BY <1>3 DEF StartWriter, Propagate, Goto
    <2>3. CASE pc' = "done"
        <3>1. w'.phase \in {"absent", "streams"} /\ w'.errors = 0 /\ ~w'.refused
            BY <2>1, <2>2, <2>3, OpenFacts DEF NewWriter
        <3> QED
            BY <1>0, <2>1, <2>2, <2>3, <3>1 DEF NewWriter, TypeOK
    <2>4. CASE pc' = "compile"
        <3>1. /\ w'.phase = "started" /\ w'.depth = 1 /\ w'.errors = 0
              /\ w'.size = source_line_count(text) /\ ~w'.refused
            BY <2>1, <2>2, <2>4, StartFacts, LineCountIsPositive
        <3> QED
            BY <1>0, <2>1, <2>2, <2>4, <3>1 DEF TypeOK
    <2> QED
        BY <2>2, <2>3, <2>4
<1>4. CASE Compile
    <2>1. PhaseAtStage'
        BY <1>0, <1>4, CallFacts, EventFacts DEF Compile, Propagate, Goto, FinishWithError,
           TypeOK
    <2>2. DepthAtStage'
        BY <1>0, <1>4, CallFacts, EventFacts DEF Compile, Propagate, Goto, FinishWithError,
           TypeOK
    <2>3. ErrorsAtStage'
        BY <1>0, <1>4, CallFacts, EventFacts DEF Compile, Propagate, Goto, FinishWithError,
           TypeOK
    <2>4. RefusalAtStage'
        BY <1>0, <1>4, CallFacts, EventFacts DEF Compile, Propagate, Goto, FinishWithError,
           TypeOK
    <2> QED
        BY <1>0, <2>1, <2>2, <2>3, <2>4 DEF IInv
<1>5. CASE CheckArtifacts
    <2>1. PhaseAtStage'
        BY <1>0, <1>5, CallFacts, EventFacts DEF CheckArtifacts, Goto, FinishWithError, TypeOK
    <2>2. DepthAtStage'
        BY <1>0, <1>5, CallFacts, EventFacts DEF CheckArtifacts, Goto, FinishWithError, TypeOK
    <2>3. ErrorsAtStage'
        BY <1>0, <1>5, CallFacts, EventFacts DEF CheckArtifacts, Goto, FinishWithError, TypeOK
    <2>4. RefusalAtStage'
        BY <1>0, <1>5, CallFacts, EventFacts DEF CheckArtifacts, Goto, FinishWithError, TypeOK
    <2> QED
        BY <1>0, <2>1, <2>2, <2>3, <2>4 DEF IInv
<1>6. CASE RunWitness
    <2>1. PhaseAtStage'
        BY <1>0, <1>6, CallFacts, EventFacts DEF RunWitness, Propagate, Goto, FinishWithError, TypeOK
    <2>2. DepthAtStage'
        BY <1>0, <1>6, CallFacts, EventFacts DEF RunWitness, Propagate, Goto, FinishWithError, TypeOK
    <2>3. ErrorsAtStage'
        BY <1>0, <1>6, CallFacts, EventFacts DEF RunWitness, Propagate, Goto, FinishWithError, TypeOK
    <2>4. RefusalAtStage'
        BY <1>0, <1>6, CallFacts, EventFacts DEF RunWitness, Propagate, Goto, FinishWithError, TypeOK
    <2> QED
        BY <1>0, <2>1, <2>2, <2>3, <2>4 DEF IInv
<1>7. CASE EnterEmit
    <2>1. /\ pc = "emit" /\ text \in Versions /\ ~w.refused
          /\ w.size = source_line_count(text)
        BY <1>7 DEF EnterEmit
    <2>2. MainLine(text) \in Nat /\ ~(MainLine(text) > w.size)
        BY <2>1, LineCountIsPositive DEF source_line_count
    <2> DEFINE stepped == RegisterStep(w, MainLine(text))
    <2>3. /\ stepped \in Writer /\ stepped.phase = w.phase
          /\ stepped.depth = w.depth /\ stepped.size = w.size
          /\ stepped.errors = w.errors /\ (stepped.refused <=> w.refused)
        BY <1>0, <2>2, StepFacts, ZenonT(60) DEF TypeOK
    <2> HIDE DEF stepped
    <2>4. /\ RegisterCall(stepped).phase = w.phase
          /\ RegisterCall(stepped).depth = w.depth + 1
          /\ RegisterCall(stepped).size = w.size
          /\ RegisterCall(stepped).errors = w.errors
          /\ RegisterCall(stepped).refused = stepped.refused
        BY <2>3, CallFacts
    <2>5. \/ pc' = "calls" /\ w' \in {w, stepped} /\ frames' = 0 /\ UNCHANGED ending
          \/ pc' = "done" /\ w' = w /\ cause' = "reread" /\ result' = "err"
          \/ /\ pc' = "body" /\ w' = RegisterCall(stepped) /\ frames' = 1
             /\ body' \in Versions /\ UNCHANGED ending
        BY <1>0, <1>7, <2>1 DEF EnterEmit, EnterLegacy, Goto, Propagate, stepped, TypeOK
    <2>6. /\ body' = body \/ body' = disk
          /\ UNCHANGED <<text, disk, edits, disabled>>
        BY <1>7 DEF EnterEmit
    <2>7. PhaseAtStage'
        BY <1>0, <2>1, <2>3, <2>4, <2>5, <2>6 DEF TypeOK
    <2>8. DepthAtStage'
        BY <1>0, <2>1, <2>3, <2>4, <2>5, <2>6 DEF TypeOK
    <2>9. ErrorsAtStage'
        BY <1>0, <2>1, <2>3, <2>4, <2>5, <2>6 DEF TypeOK
    <2>10. RefusalAtStage'
        BY <1>0, <2>1, <2>3, <2>4, <2>5, <2>6 DEF TypeOK
    <2> QED
        BY <1>0, <2>7, <2>8, <2>9, <2>10 DEF IInv
<1>8. CASE BodyStep
    <2>1. pc = "body" /\ body \in Versions /\ text \in Versions
        BY <1>8 DEF BodyStep
    <2>2. PICK line \in 1 .. source_line_count(body) : w' = RegisterStep(w, line)
        BY <1>8 DEF BodyStep
    <2>3. line \in Nat
        BY <2>1, LineCountIsPositive
    <2>4. /\ w'.phase = w.phase /\ w'.depth = w.depth
          /\ w'.size = w.size /\ w'.errors = w.errors
          /\ w'.refused <=> w.refused \/ line > w.size
        BY <1>0, <2>2, <2>3, StepFacts, ZenonT(60) DEF TypeOK
    <2>5. w.size = source_line_count(text) /\ source_line_count(body) \in Nat
        BY <2>1, LineCountIsPositive
    <2>6. w'.refused => w.refused \/ source_line_count(body) > source_line_count(text)
        BY <2>1, <2>3, <2>4, <2>5, LineCountIsPositive
    <2>7. w'.refused => edits > 0 /\ source_line_count(body) > source_line_count(text)
        BY <1>0, <2>1, <2>6, LineCountIsPositive DEF TypeOK
    <2>8. PhaseAtStage'
        BY <1>8, <2>1, <2>4, <2>5, <2>6, <2>7 DEF BodyStep, TypeOK
    <2>9. DepthAtStage'
        BY <1>8, <2>1, <2>4, <2>5, <2>6, <2>7 DEF BodyStep, TypeOK
    <2>10. ErrorsAtStage'
        BY <1>8, <2>1, <2>4, <2>5, <2>6, <2>7 DEF BodyStep, TypeOK
    <2>11. RefusalAtStage'
        BY <1>8, <2>1, <2>4, <2>5, <2>6, <2>7 DEF BodyStep, TypeOK
    <2> QED
        BY <1>0, <2>8, <2>9, <2>10, <2>11 DEF IInv
<1>9. CASE BodyCall
    <2>1. PhaseAtStage'
        BY <1>0, <1>9, CallFacts DEF BodyCall, TypeOK
    <2>2. DepthAtStage'
        BY <1>0, <1>9, CallFacts DEF BodyCall, TypeOK
    <2>3. ErrorsAtStage'
        BY <1>0, <1>9, CallFacts DEF BodyCall, TypeOK
    <2>4. RefusalAtStage'
        BY <1>0, <1>9, CallFacts DEF BodyCall, TypeOK
    <2> QED
        BY <1>0, <2>1, <2>2, <2>3, <2>4 DEF IInv
<1>10. CASE BodyReturn
    <2>1. PhaseAtStage'
        BY <1>0, <1>10, CallFacts DEF BodyReturn, TypeOK
    <2>2. DepthAtStage'
        <3>1. /\ pc = "body" /\ pc' = "body" /\ w.phase = "started"
              /\ w.depth = 1 + frames /\ frames' = frames - 1 /\ frames \in Nat
            BY <1>0, <1>10 DEF BodyReturn, TypeOK
        <3>2. w'.depth = w.depth - 1 /\ w'.phase = w.phase
            BY <1>0, <1>10, CallFacts DEF BodyReturn, TypeOK
        <3> QED
            BY <3>1, <3>2
    <2>3. ErrorsAtStage'
        BY <1>0, <1>10, CallFacts DEF BodyReturn, TypeOK
    <2>4. RefusalAtStage'
        BY <1>0, <1>10, CallFacts DEF BodyReturn, TypeOK
    <2> QED
        BY <1>0, <2>1, <2>2, <2>3, <2>4 DEF IInv
<1>11. CASE LeaveMain
    <2>1. PhaseAtStage'
        BY <1>0, <1>11, CallFacts DEF LeaveMain, Goto, TypeOK
    <2>2. DepthAtStage'
        BY <1>0, <1>11, CallFacts DEF LeaveMain, Goto, TypeOK
    <2>3. ErrorsAtStage'
        BY <1>0, <1>11, CallFacts DEF LeaveMain, Goto, TypeOK
    <2>4. RefusalAtStage'
        BY <1>0, <1>11, CallFacts DEF LeaveMain, Goto, TypeOK
    <2> QED
        BY <1>0, <2>1, <2>2, <2>3, <2>4 DEF IInv
<1>12. CASE LegacyCall
    <2>1. pc = "calls" /\ text \in Versions /\ text \in Versions
        BY <1>12 DEF LegacyCall
    <2>2. PICK line \in 1 .. source_line_count(text) : w' = RegisterCall(RegisterStep(w, line))
        BY <1>12 DEF LegacyCall
    <2>3. line \in Nat
        BY <2>1, LineCountIsPositive
    <2>4. /\ w'.phase = w.phase /\ w'.depth = w.depth + 1
          /\ w'.size = w.size /\ w'.errors = w.errors
          /\ w'.refused <=> w.refused \/ line > w.size
        <3> DEFINE r == RegisterStep(w, line)
        <3>1. /\ r \in Writer /\ r.phase = w.phase /\ r.depth = w.depth
              /\ r.size = w.size /\ r.errors = w.errors
              /\ r.refused <=> w.refused \/ line > w.size
            BY <1>0, <2>3, StepFacts DEF TypeOK
        <3>2. w' = RegisterCall(r)
            BY <2>2
        <3> HIDE DEF r
        <3> QED
            BY <3>1, <3>2, CallFacts
    <2>5. w.size = source_line_count(text) /\ source_line_count(text) \in Nat
        BY <2>1, LineCountIsPositive
    <2>6. w'.refused => w.refused
        BY <2>2, <2>4, <2>5
    <2>7. ~w.refused
        BY <2>1
    <2>8. PhaseAtStage'
        BY <1>12, <2>1, <2>4, <2>5, <2>6, <2>7 DEF LegacyCall, TypeOK
    <2>9. DepthAtStage'
        BY <1>12, <2>1, <2>4, <2>5, <2>6, <2>7 DEF LegacyCall, TypeOK
    <2>10. ErrorsAtStage'
        BY <1>12, <2>1, <2>4, <2>5, <2>6, <2>7 DEF LegacyCall, TypeOK
    <2>11. RefusalAtStage'
        BY <1>12, <2>1, <2>4, <2>5, <2>6, <2>7 DEF LegacyCall, TypeOK
    <2> QED
        BY <1>0, <2>8, <2>9, <2>10, <2>11 DEF IInv
<1>13. CASE LegacyFlat
    <2>1. PhaseAtStage'
        BY <1>0, <1>13 DEF LegacyFlat, Goto, TypeOK
    <2>2. DepthAtStage'
        BY <1>0, <1>13 DEF LegacyFlat, Goto, TypeOK
    <2>3. ErrorsAtStage'
        BY <1>0, <1>13 DEF LegacyFlat, Goto, TypeOK
    <2>4. RefusalAtStage'
        BY <1>0, <1>13 DEF LegacyFlat, Goto, TypeOK
    <2> QED
        BY <1>0, <2>1, <2>2, <2>3, <2>4 DEF IInv
<1>14. CASE LegacyStep
    <2>1. pc = "steps" /\ text \in Versions /\ text \in Versions
        BY <1>14 DEF LegacyStep
    <2>2. PICK line \in 1 .. source_line_count(text) : w' = RegisterStep(w, line)
        BY <1>14 DEF LegacyStep
    <2>3. line \in Nat
        BY <2>1, LineCountIsPositive
    <2>4. /\ w'.phase = w.phase /\ w'.depth = w.depth
          /\ w'.size = w.size /\ w'.errors = w.errors
          /\ w'.refused <=> w.refused \/ line > w.size
        BY <1>0, <2>2, <2>3, StepFacts, ZenonT(60) DEF TypeOK
    <2>5. w.size = source_line_count(text) /\ source_line_count(text) \in Nat
        BY <2>1, LineCountIsPositive
    <2>6. w'.refused => w.refused
        BY <2>2, <2>4, <2>5
    <2>7. ~w.refused
        BY <2>1
    <2>8. PhaseAtStage'
        BY <1>14, <2>1, <2>4, <2>5, <2>6, <2>7 DEF LegacyStep, TypeOK
    <2>9. DepthAtStage'
        BY <1>14, <2>1, <2>4, <2>5, <2>6, <2>7 DEF LegacyStep, TypeOK
    <2>10. ErrorsAtStage'
        BY <1>14, <2>1, <2>4, <2>5, <2>6, <2>7 DEF LegacyStep, TypeOK
    <2>11. RefusalAtStage'
        BY <1>14, <2>1, <2>4, <2>5, <2>6, <2>7 DEF LegacyStep, TypeOK
    <2> QED
        BY <1>0, <2>8, <2>9, <2>10, <2>11 DEF IInv
<1>15. CASE LegacyReturns
    <2>1. PhaseAtStage'
        BY <1>0, <1>15 DEF LegacyReturns, Goto, TypeOK
    <2>2. DepthAtStage'
        BY <1>0, <1>15 DEF LegacyReturns, Goto, TypeOK
    <2>3. ErrorsAtStage'
        BY <1>0, <1>15 DEF LegacyReturns, Goto, TypeOK
    <2>4. RefusalAtStage'
        BY <1>0, <1>15 DEF LegacyReturns, Goto, TypeOK
    <2> QED
        BY <1>0, <2>1, <2>2, <2>3, <2>4 DEF IInv
<1>16. CASE LegacyReturn
    <2>1. PhaseAtStage'
        BY <1>0, <1>16, CallFacts DEF LegacyReturn, Goto, TypeOK
    <2>2. DepthAtStage'
        BY <1>0, <1>16, CallFacts DEF LegacyReturn, Goto, TypeOK
    <2>3. ErrorsAtStage'
        BY <1>0, <1>16, CallFacts DEF LegacyReturn, Goto, TypeOK
    <2>4. RefusalAtStage'
        BY <1>0, <1>16, CallFacts DEF LegacyReturn, Goto, TypeOK
    <2> QED
        BY <1>0, <2>1, <2>2, <2>3, <2>4 DEF IInv
<1>17. CASE CloseToplevel
    <2>1. PhaseAtStage'
        BY <1>0, <1>17, CallFacts DEF CloseToplevel, Goto, TypeOK
    <2>2. DepthAtStage'
        BY <1>0, <1>17, CallFacts DEF CloseToplevel, Goto, TypeOK
    <2>3. ErrorsAtStage'
        BY <1>0, <1>17, CallFacts DEF CloseToplevel, Goto, TypeOK
    <2>4. RefusalAtStage'
        BY <1>0, <1>17, CallFacts DEF CloseToplevel, Goto, TypeOK
    <2> QED
        BY <1>0, <2>1, <2>2, <2>3, <2>4 DEF IInv
<1>18. CASE FinishEvents
    <2>1. PhaseAtStage'
        BY <1>0, <1>18, AdvanceFacts DEF FinishEvents, FinishFails, CanFinish, Goto, Phases,
           TypeOK
    <2>2. DepthAtStage'
        BY <1>0, <1>18, AdvanceFacts DEF FinishEvents, FinishFails, CanFinish, Goto, Phases,
           TypeOK
    <2>3. ErrorsAtStage'
        BY <1>0, <1>18, AdvanceFacts DEF FinishEvents, FinishFails, CanFinish, Goto, Phases,
           TypeOK
    <2>4. RefusalAtStage'
        BY <1>0, <1>18, AdvanceFacts DEF FinishEvents, FinishFails, CanFinish, Goto, Phases,
           TypeOK
    <2> QED
        BY <1>0, <2>1, <2>2, <2>3, <2>4 DEF IInv
<1>19. CASE WriteMeta
    <2>1. PhaseAtStage'
        BY <1>0, <1>19, AdvanceFacts DEF WriteMeta, FinishFails, Goto, Phases, TypeOK
    <2>2. DepthAtStage'
        BY <1>0, <1>19, AdvanceFacts DEF WriteMeta, FinishFails, Goto, Phases, TypeOK
    <2>3. ErrorsAtStage'
        BY <1>0, <1>19, AdvanceFacts DEF WriteMeta, FinishFails, Goto, Phases, TypeOK
    <2>4. RefusalAtStage'
        BY <1>0, <1>19, AdvanceFacts DEF WriteMeta, FinishFails, Goto, Phases, TypeOK
    <2> QED
        BY <1>0, <2>1, <2>2, <2>3, <2>4 DEF IInv
<1>20. CASE CloseBundle
    <2>1. PhaseAtStage'
        BY <1>0, <1>20, AdvanceFacts DEF CloseBundle, FinishFails, Phases, TypeOK
    <2>2. DepthAtStage'
        BY <1>0, <1>20, AdvanceFacts DEF CloseBundle, FinishFails, Phases, TypeOK
    <2>3. ErrorsAtStage'
        BY <1>0, <1>20, AdvanceFacts DEF CloseBundle, FinishFails, Phases, TypeOK
    <2>4. RefusalAtStage'
        BY <1>0, <1>20, AdvanceFacts DEF CloseBundle, FinishFails, Phases, TypeOK
    <2> QED
        BY <1>0, <2>1, <2>2, <2>3, <2>4 DEF IInv
<1>21. CASE Edit
    <2>1. PhaseAtStage'
        BY <1>0, <1>21 DEF Edit, TypeOK
    <2>2. DepthAtStage'
        BY <1>0, <1>21 DEF Edit, TypeOK
    <2>3. ErrorsAtStage'
        BY <1>0, <1>21 DEF Edit, TypeOK
    <2>4. RefusalAtStage'
        BY <1>0, <1>21 DEF Edit, TypeOK
    <2> QED
        BY <1>0, <2>1, <2>2, <2>3, <2>4 DEF IInv
<1>22. CASE UNCHANGED vars
    BY <1>0, <1>22 DEF vars
<1> QED
    BY <1>1, <1>2, <1>3, <1>4, <1>5, <1>6, <1>7, <1>8, <1>9, <1>10, <1>11, <1>12, <1>13,
       <1>14, <1>15, <1>16, <1>17, <1>18, <1>19, <1>20, <1>21, <1>22 DEF Next, Recorder, Prepare,
       Tools, EmitBody, EmitLegacy, Finish

\* The initial states satisfy it: no stage has run.
LEMMA InvInit == Init => IInv
<1> SUFFICES ASSUME Init PROVE IInv
    OBVIOUS
<1>1. w \in Writer /\ w = NewWriter
    BY OpenFacts DEF Init
<1>2. /\ w.phase = "absent" /\ w.errors = 0 /\ w.refused = FALSE
    BY <1>1 DEF NewWriter
<1>3. TypeOK
    BY <1>1 DEF Init, TypeOK, Stages, Causes
<1>4. PhaseAtStage /\ DepthAtStage
    BY <1>1, <1>2 DEF Init, PhaseAtStage, DepthAtStage, Setup, Flat, Emission, Ending
<1>5. ErrorsAtStage /\ RefusalAtStage
    BY <1>1, <1>2 DEF Init, ErrorsAtStage, RefusalAtStage, Setup, Flat, Emission,
                      Ending, ToolErrors
<1> QED
    BY <1>3, <1>4, <1>5 DEF IInv

---------------------------------------------------------------------------
\* The invariant holds of every behaviour.
THEOREM Invariance == Spec => []IInv
<1>1. Init => IInv
    BY InvInit
<1>2. IInv /\ [Next]_vars => IInv'
    BY InvStep
<1> QED
    BY <1>1, <1>2, PTL DEF Spec

\* Type correctness.
THEOREM TypeCorrect == Spec => []TypeOK
<1>1. IInv => TypeOK
    BY DEF IInv
<1> QED
    BY <1>1, Invariance, PTL

\* Whatever tool, file or writer call fails and wherever the session ends, a
\* bundle whose events were finished has each call closed exactly once.
THEOREM BundlesAreBalanced == Spec => []FinishedIsBalanced
<1>1. IInv => FinishedIsBalanced
    BY DEF IInv, DepthAtStage, FinishedIsBalanced
<1> QED
    BY <1>1, Invariance, PTL

\* Only a source file that grew while it was recorded makes the writer
\* refuse a step: each line the recorder steps on otherwise lies in a text
\* that is not longer than the one whose size it stated.
THEOREM RefusalsNeedGrowth == Spec => []RefusedOnlyIfGrown
<1>1. IInv => RefusedOnlyIfGrown
    <2> SUFFICES ASSUME IInv, w.refused PROVE edits > 0
        BY DEF IInv, RefusalAtStage, RefusedOnlyIfGrown
    <2>1. /\ {text, body} \subseteq Versions
          /\ source_line_count(body) > source_line_count(text)
        BY DEF IInv, RefusalAtStage
    <2>2. body # text
        BY <2>1, LineCountIsPositive
    <2>3. body # NoFile
        BY <2>1
    <2> QED
        BY <2>2, <2>3 DEF IInv, RefusalAtStage, TypeOK
<1> QED
    BY <1>1, Invariance, PTL

\* A refusal is never lost: the bundle stays unfinished and the session does
\* not succeed.
THEOREM RefusalsFail == Spec => []RefusalFailsRecording
<1>1. IInv => RefusalFailsRecording
    BY DEF IInv, RefusalAtStage, RefusalFailsRecording
<1> QED
    BY <1>1, Invariance, PTL

\* Nothing is recorded after the Error event.
THEOREM ErrorsAreLast == Spec => ErrorIsLast
<1> DEFINE Kept == w.errors > 0 => /\ w'.errors = w.errors /\ w'.depth = w.depth
                                   /\ w'.top = w.top /\ w'.logs = w.logs
<1>1. IInv /\ [Next]_vars => [Kept]_vars
    <2> SUFFICES ASSUME IInv, [Next]_vars, w.errors > 0 PROVE Kept
        OBVIOUS
    <2>1. w \in Writer /\ pc \in Ending \cup {"done"}
        BY DEF IInv, TypeOK, ErrorsAtStage, ToolErrors
    <2>2. CASE FinishEvents \/ WriteMeta \/ CloseBundle
        BY <2>1, <2>2, AdvanceFacts
        DEF FinishEvents, WriteMeta, CloseBundle, FinishFails, Goto, Phases
    <2>3. CASE Edit \/ UNCHANGED vars
        BY <2>3 DEF Edit, vars
    <2>4. CASE Prepare \/ Tools \/ EnterEmit \/ EmitBody \/ EmitLegacy \/ CloseToplevel
        BY <2>1, <2>4 DEF Ending, Prepare, Tools, EmitBody, EmitLegacy, Validate,
           ReadSource, StartWriter, Compile, CheckArtifacts, RunWitness, EnterEmit,
           BodyStep, BodyCall, BodyReturn, LeaveMain, LegacyCall, LegacyFlat,
           LegacyStep, LegacyReturns, LegacyReturn, CloseToplevel
    <2> QED
        BY <2>2, <2>3, <2>4 DEF Next, Recorder, Finish
<1> QED
    BY <1>1, Invariance, PTL DEF Spec, ErrorIsLast

---------------------------------------------------------------------------
\* The session implements the contract.

USE DEF bundle

\* The initial states of the session are initial states of the contract.
LEMMA ContractStart == Init => Contract!ContractInit
BY OpenFacts DEF Init, Contract!ContractInit, NewWriter

\* Every step of the session is a step of the contract or leaves it alone.
LEMMA ContractStep ==
    IInv /\ [Next]_vars => [Contract!ContractNext]_(Contract!contractVars)
<1> SUFFICES ASSUME IInv, [Next]_vars
             PROVE  Contract!ContractNext \/ UNCHANGED Contract!contractVars
    OBVIOUS
<1>0. w \in Writer /\ TypeOK
    BY DEF IInv, TypeOK
<1> USE DEF Contract!Running, Contract!contractVars, Contract!ContractNext
<1>1. CASE Validate
    BY <1>0, <1>1
    DEF IInv, PhaseAtStage, ErrorsAtStage, Setup, Flat, Emission, Ending, Validate, Propagate, Goto, Contract!PassThrough, Contract!GiveUp, NewWriter, Phases, ToolErrors
<1>2. CASE ReadSource
    BY <1>0, <1>2
    DEF IInv, PhaseAtStage, ErrorsAtStage, Setup, Flat, Emission, Ending, ReadSource, Propagate, Goto, Contract!GiveUp, NewWriter, Phases, ToolErrors
<1>3. CASE StartWriter
    <2>1. /\ w = NewWriter /\ text \in Versions /\ ~disabled /\ result = "none"
          /\ UNCHANGED disabled
        BY <1>3 DEF StartWriter, IInv, PhaseAtStage, ErrorsAtStage, Setup, Ending
    <2>2. \/ (w' = w \/ w' = OpenStreams(w)) /\ result' = "err"
          \/ /\ w' = StartTrace(StateSize(OpenStreams(w), source_line_count(text)), 1)
             /\ UNCHANGED result
        BY <1>3 DEF StartWriter, Propagate, Goto
    <2>3. w.phase = "absent" /\ w.errors = 0
        BY <2>1 DEF NewWriter
    <2>4. CASE w' = w \/ w' = OpenStreams(w)
        BY <2>1, <2>2, <2>3, <2>4, OpenFacts, StartFacts, LineCountIsPositive
        DEF Contract!GiveUp, Contract!Begin
    <2>5. CASE /\ w' = StartTrace(StateSize(OpenStreams(w), source_line_count(text)), 1)
               /\ UNCHANGED result
        <3>1. w'.phase = "started" /\ w'.errors = 0
            BY <2>1, <2>5, StartFacts, LineCountIsPositive
        <3> QED
            BY <2>1, <2>3, <2>5, <3>1 DEF Contract!Begin
    <2> QED
        BY <2>2, <2>4, <2>5
<1>4. CASE Compile
    BY <1>0, <1>4, CallFacts, EventFacts
    DEF IInv, PhaseAtStage, ErrorsAtStage, Setup, Flat, Emission, Ending, Compile, Propagate, Goto, FinishWithError, Contract!GiveUp, Contract!NoteError, NewWriter, Phases, ToolErrors
<1>5. CASE CheckArtifacts
    BY <1>0, <1>5, CallFacts, EventFacts
    DEF IInv, PhaseAtStage, ErrorsAtStage, Setup, Flat, Emission, Ending, CheckArtifacts, Goto, FinishWithError, Contract!NoteError, NewWriter, Phases, ToolErrors
<1>6. CASE RunWitness
    BY <1>0, <1>6, CallFacts, EventFacts
    DEF IInv, PhaseAtStage, ErrorsAtStage, Setup, Flat, Emission, Ending, RunWitness, Propagate, Goto, FinishWithError, Contract!GiveUp, Contract!NoteError, NewWriter, Phases, ToolErrors
<1>7. CASE EnterEmit
    <2>1. /\ text \in Versions /\ ~disabled /\ result = "none"
          /\ w.phase = "started" /\ UNCHANGED disabled
        BY <1>7 DEF EnterEmit, IInv, PhaseAtStage, ErrorsAtStage, Flat, Ending
    <2>2. MainLine(text) \in Nat
        BY <2>1, LineCountIsPositive
    <2> DEFINE stepped == RegisterStep(w, MainLine(text))
    <2>3. /\ stepped \in Writer /\ stepped.phase = w.phase
          /\ stepped.errors = w.errors
        BY <1>0, <2>2, StepFacts
    <2> HIDE DEF stepped
    <2>4. \/ w' \in {w, stepped, RegisterCall(stepped)} /\ UNCHANGED result
          \/ w' = w /\ result' = "err"
        BY <1>7 DEF EnterEmit, EnterLegacy, Goto, Propagate, stepped
    <2>5. w'.phase = w.phase /\ w'.errors = w.errors
        BY <2>3, <2>4, CallFacts
    <2> QED
        BY <2>1, <2>4, <2>5 DEF Contract!GiveUp
<1>8. CASE BodyStep
    <2>1. PICK line \in 1 .. source_line_count(body) : w' = RegisterStep(w, line)
        BY <1>8 DEF BodyStep
    <2>2. line \in Nat
        BY <1>8, LineCountIsPositive DEF BodyStep, IInv, PhaseAtStage, Emission
    <2>3. w'.phase = w.phase /\ w'.errors = w.errors
        BY <1>0, <2>1, <2>2, StepFacts
    <2> QED
        BY <1>8, <2>3 DEF BodyStep
<1>9. CASE BodyCall
    BY <1>0, <1>9, CallFacts
    DEF IInv, PhaseAtStage, ErrorsAtStage, Setup, Flat, Emission, Ending, BodyCall, NewWriter, Phases, ToolErrors
<1>10. CASE BodyReturn
    BY <1>0, <1>10, CallFacts
    DEF IInv, PhaseAtStage, ErrorsAtStage, Setup, Flat, Emission, Ending, BodyReturn, NewWriter, Phases, ToolErrors
<1>11. CASE LeaveMain
    BY <1>0, <1>11, CallFacts
    DEF IInv, PhaseAtStage, ErrorsAtStage, Setup, Flat, Emission, Ending, LeaveMain, Goto, NewWriter, Phases, ToolErrors
<1>12. CASE LegacyCall
    <2>1. PICK line \in 1 .. source_line_count(text) :
             w' = RegisterCall(RegisterStep(w, line))
        BY <1>12 DEF LegacyCall
    <2>2. line \in Nat
        BY <1>12, LineCountIsPositive DEF LegacyCall, IInv, PhaseAtStage, Emission
    <2> DEFINE r == RegisterStep(w, line)
    <2>3. r \in Writer /\ r.phase = w.phase /\ r.errors = w.errors
        BY <1>0, <2>2, StepFacts
    <2>4. w' = RegisterCall(r)
        BY <2>1
    <2> HIDE DEF r
    <2>5. w'.phase = w.phase /\ w'.errors = w.errors
        BY <2>3, <2>4, CallFacts
    <2> QED
        BY <1>12, <2>5 DEF LegacyCall
<1>13. CASE LegacyFlat
    BY <1>0, <1>13
    DEF IInv, PhaseAtStage, ErrorsAtStage, Setup, Flat, Emission, Ending, LegacyFlat, Goto, NewWriter, Phases, ToolErrors
<1>14. CASE LegacyStep
    <2>1. PICK line \in 1 .. source_line_count(text) : w' = RegisterStep(w, line)
        BY <1>14 DEF LegacyStep
    <2>2. line \in Nat
        BY <1>14, LineCountIsPositive DEF LegacyStep, IInv, PhaseAtStage, Emission
    <2>3. w'.phase = w.phase /\ w'.errors = w.errors
        BY <1>0, <2>1, <2>2, StepFacts
    <2> QED
        BY <1>14, <2>3 DEF LegacyStep
<1>15. CASE LegacyReturns
    BY <1>0, <1>15
    DEF IInv, PhaseAtStage, ErrorsAtStage, Setup, Flat, Emission, Ending, LegacyReturns, Goto, NewWriter, Phases, ToolErrors
<1>16. CASE LegacyReturn
    BY <1>0, <1>16, CallFacts
    DEF IInv, PhaseAtStage, ErrorsAtStage, Setup, Flat, Emission, Ending, LegacyReturn, Goto, NewWriter, Phases, ToolErrors
<1>17. CASE CloseToplevel
    BY <1>0, <1>17, CallFacts
    DEF IInv, PhaseAtStage, ErrorsAtStage, Setup, Flat, Emission, Ending, CloseToplevel, Goto, NewWriter, Phases, ToolErrors
<1>18. CASE FinishEvents
    BY <1>0, <1>18, AdvanceFacts
    DEF IInv, PhaseAtStage, ErrorsAtStage, Setup, Flat, Emission, Ending, FinishEvents, FinishFails, CanFinish, Goto, Contract!GiveUp, NewWriter, Phases, ToolErrors
<1>19. CASE WriteMeta
    BY <1>0, <1>19, AdvanceFacts
    DEF IInv, PhaseAtStage, ErrorsAtStage, Setup, Flat, Emission, Ending, WriteMeta, FinishFails, Goto, Contract!GiveUp, NewWriter, Phases, ToolErrors
<1>20. CASE CloseBundle
    BY <1>0, <1>20, AdvanceFacts
    DEF IInv, PhaseAtStage, ErrorsAtStage, Setup, Flat, Emission, Ending, CloseBundle, FinishFails, Contract!GiveUp, Contract!Complete, NewWriter, Phases, ToolErrors
<1>21. CASE Edit
    BY <1>0, <1>21
    DEF IInv, PhaseAtStage, ErrorsAtStage, Setup, Flat, Emission, Ending, Edit, NewWriter, Phases, ToolErrors
<1>22. CASE UNCHANGED vars
    BY <1>22 DEF vars
<1> QED
    BY <1>1, <1>2, <1>3, <1>4, <1>5, <1>6, <1>7, <1>8, <1>9, <1>10, <1>11, <1>12, <1>13,
       <1>14, <1>15, <1>16, <1>17, <1>18, <1>19, <1>20, <1>21, <1>22 DEF Next, Recorder, Prepare,
       Tools, EmitBody, EmitLegacy, Finish

\* RecordingSession implements RecordingContract.
THEOREM SessionKeepsContract == Spec => KeepsContract
<1>1. Init => Contract!ContractInit
    BY ContractStart
<1>2. IInv /\ [Next]_vars => [Contract!ContractNext]_(Contract!contractVars)
    BY ContractStep
<1> QED
    BY <1>1, <1>2, Invariance, PTL DEF Spec, KeepsContract, Contract!ContractSpec
=============================================================================
