-------------------------- MODULE RecordingSession --------------------------
(***************************************************************************)
(* One `record` process: main.rs `record`, recorder.rs `record` and the    *)
(* pipeline of tracer.rs (trace_program_with_backend, its fallback without *)
(* --srcmap, emit_source_trace, emit_legacy_flat, finish_trace and         *)
(* finish_with_error).  Each action is one stage of the pipeline with all  *)
(* its outcomes.  Every external tool, file and writer call may fail, and  *)
(* an editor may rewrite or remove the source file between any two stages, *)
(* which matters because the pipeline reads it three times: recorder.rs,   *)
(* the circom compiler, and emit_source_trace again.                       *)
(***************************************************************************)
EXTENDS TraceWriter

CONSTANTS
    Versions,    \* the contents the source file may have
    NoFile,      \* the source file is missing or unreadable
    SizeOf(_),   \* number of newline characters of a version
    MainLine(_), \* line of its `component main`, or 0 without one
    Known(_),    \* its main template is one parse_template_definitions finds
    Parsed(_, _),\* the main template the first version names is one the
                 \* evaluator's parser accepts in the second version
    MaxEdits,    \* bound on the edits of the source file
    MaxLogs,     \* bound on the log() lines of one witness run
    MaxBody,     \* bound on the events one body emits
    MaxDepth     \* bound on the calls nested under <toplevel>

\* Mutant: a file's size is its newline count.
NewlineCount(v) == SizeOf(v)

\* The newlines plus one, so that the last line counts with or without a
\* newline after it.
source_line_count(v) == SizeOf(v) + 1

ASSUME VersionsAssumption ==
    /\ NoFile \notin Versions
    /\ \A v \in Versions :
          /\ SizeOf(v) \in Nat
          /\ MainLine(v) \in 0 .. SizeOf(v) + 1
          /\ Known(v) \in BOOLEAN
          /\ \A u \in Versions : Parsed(v, u) \in BOOLEAN

ASSUME BoundsAssumption ==
    /\ MaxEdits \in Nat
    /\ MaxLogs \in Nat
    /\ MaxBody \in Nat
    /\ MaxDepth \in Nat \ {0}

VARIABLES
    pc,        \* the stage about to run
    disabled,  \* CODETRACER_CIRCOM_RECORDER_DISABLED is set
    useCpp,    \* --backend cpp
    disk,      \* the source file now
    edits,     \* how often it was edited
    text,      \* source_code: the version recorder.rs read
    built,     \* the version the compiler was given
    body,      \* the version emit_source_trace read
    attempt,   \* 1: compile with --srcmap, 2: retry without
    w,         \* the trace writer
    frames,    \* calls the body emission has open
    todo,      \* events the body emission has left
    cause,     \* why the session fails, or "none"
    result     \* exit status: "none", "ok" or "err"

options == <<disabled, useCpp>>
source  == <<disk, edits>>
reads   == <<text, built, body>>
emitted == <<frames, todo>>
ending  == <<cause, result>>
vars == <<pc, options, source, reads, attempt, w, emitted, ending>>

Stages == {"validate", "read", "start", "compile", "artifacts", "witness",
           "emit", "body", "calls", "steps", "returns", "toplevel",
           "finish", "meta", "close", "done"}

\* The metadata of the Error events, and the causes that leave none.
ToolErrors  == {"circom_compile_error", "wasm_witness_error",
                "cpp_witness_error", "wasmtime_witness_error"}
OtherErrors == {"source", "output", "writer", "tempdir", "reread", "panic"}
Causes == {"none"} \cup ToolErrors \cup OtherErrors

Init ==
    /\ pc = "validate"
    /\ disabled \in BOOLEAN
    /\ useCpp \in BOOLEAN
    /\ disk \in Versions \cup {NoFile}
    /\ edits = 0
    /\ text = NoFile /\ built = NoFile /\ body = NoFile
    /\ attempt = 1
    /\ w = NewWriter
    /\ frames = 0 /\ todo = 0
    /\ cause = "none"
    /\ result = "none"

---------------------------------------------------------------------------
\* How a stage ends.

\* The `?` operator: return the error and leave the bundle as it is.
Propagate(why) ==
    /\ pc' = "done"
    /\ cause' = why
    /\ result' = "err"

\* Mutants: the return of the <toplevel> call is forgotten; the error is
\* noted and the session carries on.
FinishWithoutReturn(why) ==
    /\ w' = RegisterError(w)
    /\ cause' = why
    /\ pc' = "finish"
    /\ UNCHANGED result

NoteAndCarryOn(why) ==
    /\ w' = RegisterError(w)
    /\ cause' = why
    /\ pc' = "emit"
    /\ UNCHANGED result

\* finish_with_error up to finish_trace: the Error event and the return of
\* the <toplevel> call.
FinishWithError(why) ==
    /\ w' = RegisterReturn(RegisterError(w))
    /\ cause' = why
    /\ pc' = "finish"
    /\ UNCHANGED result

Goto(stage) ==
    /\ pc' = stage
    /\ UNCHANGED ending

---------------------------------------------------------------------------
\* main.rs and recorder.rs.

\* Canonicalize the source path, honour the disabled variable, create the
\* output directory.
Validate ==
    /\ pc = "validate"
    /\ \/ disk = NoFile /\ Propagate("source")
       \/ /\ disk # NoFile /\ disabled
          /\ pc' = "done" /\ result' = "ok" /\ UNCHANGED cause
       \/ /\ disk # NoFile /\ ~disabled
          /\ Propagate("output") \/ Goto("read")
    /\ UNCHANGED <<options, source, reads, attempt, w, emitted>>

\* read_to_string: the text every later stage but two works from.
ReadSource ==
    /\ pc = "read"
    /\ \/ disk = NoFile /\ Propagate("source") /\ UNCHANGED text
       \/ disk # NoFile /\ text' = disk /\ Goto("start")
    /\ UNCHANGED <<options, source, built, body, attempt, w, emitted>>

\* start_trace: open the streams, turn the line-count table on, register the
\* file with its size, open <toplevel>.  Any of them may fail.
StartWriter ==
    /\ pc = "start"
    /\ \/ /\ Propagate("output") \/ Propagate("writer")
          /\ UNCHANGED w
       \/ Propagate("writer") /\ w' = OpenStreams(w)
       \/ /\ w' = StartTrace(StateSize(OpenStreams(w), source_line_count(text)), 1)
          /\ Goto("compile")
    /\ UNCHANGED <<options, source, reads, attempt, emitted>>

---------------------------------------------------------------------------
\* The compiler and the witness generator.

\* A temp dir, then circom on the file as it is on disk.  The compiler may
\* be missing, fail, or succeed; stderr that mentions srcmap or
\* "unrecognized" sends the first attempt to the second.
Compile ==
    /\ pc = "compile"
    /\ \/ Propagate("tempdir") /\ UNCHANGED <<built, attempt, w>>
       \/ /\ FinishWithError("circom_compile_error")
          /\ UNCHANGED <<built, attempt>>
       \/ /\ attempt = 1 /\ attempt' = 2
          /\ Goto("compile") /\ UNCHANGED <<built, w>>
       \/ /\ disk # NoFile /\ built' = disk
          /\ Goto("artifacts") /\ UNCHANGED <<attempt, w>>
    /\ UNCHANGED <<options, source, text, body, emitted>>

\* Mutant: artefacts that are not there are compiled again.
CheckArtifactsAgain ==
    /\ pc = "artifacts"
    /\ Goto("compile") \/ Goto("witness")
    /\ UNCHANGED <<options, source, reads, attempt, w, emitted>>

\* The .wasm file, the .sym file and its parse.  A source map that fails to
\* load is only a warning.
CheckArtifacts ==
    /\ pc = "artifacts"
    /\ \/ FinishWithError("wasm_witness_error")
       \/ Goto("witness") /\ UNCHANGED w
    /\ UNCHANGED <<options, source, reads, attempt, emitted>>

\* Run the witness generator, which prints some log() lines before it fails
\* or ends.  The C++ branch builds its result with an empty log list; the
\* WASM branch returns the lines its callbacks collected, but not when it
\* fails.  A .wtns file cut off where CppWitness says takes the process down:
\* the bundle stays as it is.
RunWitness ==
    /\ pc = "witness"
    /\ \/ FinishWithError(IF useCpp THEN "cpp_witness_error"
                                    ELSE "wasmtime_witness_error")
       \/ useCpp /\ Propagate("panic") /\ UNCHANGED w
       \/ /\ \E printed \in 0 .. MaxLogs : w' = RegisterLogs(w, IF useCpp THEN 0 ELSE printed)
          /\ Goto("emit")
    /\ UNCHANGED <<options, source, reads, attempt, emitted>>

---------------------------------------------------------------------------
\* emit_source_trace.

\* Start the legacy flow: open a call per known component.
EnterLegacy(wr) ==
    /\ w' = wr
    /\ frames' = 0
    /\ todo' \in 0 .. MaxBody
    /\ Goto("calls")

\* Without a `component main` in the text that was read first: the legacy
\* flow.  With one: read the file again, step on the main line, and call the
\* main template if its definition is known, else fall back as well.  Both
\* line and definition come from the first read; whether the body is
\* evaluated depends on the second.
EnterEmit ==
    /\ pc = "emit"
    /\ \/ MainLine(text) = 0 /\ EnterLegacy(w) /\ UNCHANGED body
       \/ /\ MainLine(text) # 0 /\ disk = NoFile
          /\ Propagate("reread")
          /\ UNCHANGED <<body, w, emitted>>
       \/ /\ MainLine(text) # 0 /\ disk # NoFile
          /\ body' = disk
          /\ LET stepped == RegisterStep(w, MainLine(text))
             IN  \/ ~Known(text) /\ EnterLegacy(stepped)
                 \/ /\ Known(text)
                    /\ w' = RegisterCall(stepped)
                    /\ frames' = 1
                    /\ todo' \in IF Parsed(text, disk) THEN 0 .. MaxBody ELSE {0}
                    /\ Goto("body")
    /\ UNCHANGED <<options, source, text, built, attempt>>

\* evaluate_and_emit, as the session sees it: steps at lines of the text it
\* read, and calls that close in the reverse order of their opening.
BodyStep ==
    /\ pc = "body" /\ todo > 0
    /\ \E line \in 1 .. source_line_count(body) : w' = RegisterStep(w, line)
    /\ todo' = todo - 1
    /\ UNCHANGED <<pc, options, source, reads, attempt, frames, ending>>

BodyCall ==
    /\ pc = "body" /\ todo > 0 /\ frames < MaxDepth
    /\ w' = RegisterCall(w)
    /\ frames' = frames + 1
    /\ todo' = todo - 1
    /\ UNCHANGED <<pc, options, source, reads, attempt, ending>>

BodyReturn ==
    /\ pc = "body" /\ frames > 1
    /\ w' = RegisterReturn(w)
    /\ frames' = frames - 1
    /\ UNCHANGED <<pc, options, source, reads, attempt, todo, ending>>

\* The return of the main template's call.
LeaveMain ==
    /\ pc = "body" /\ todo = 0 /\ frames = 1
    /\ w' = RegisterReturn(w)
    /\ frames' = 0
    /\ Goto("toplevel")
    /\ UNCHANGED <<options, source, reads, attempt, todo>>

\* emit_legacy_flat: a step and a call per component whose template is
\* known, then the steps of declarations and assignments, then as many
\* returns.  All lines are lines of the text that was read first.
LegacyCall ==
    /\ pc = "calls" /\ todo > 0 /\ frames < MaxDepth
    /\ \E line \in 1 .. source_line_count(text) :
          w' = RegisterCall(RegisterStep(w, line))
    /\ frames' = frames + 1
    /\ todo' = todo - 1
    /\ UNCHANGED <<pc, options, source, reads, attempt, ending>>

LegacyFlat ==
    /\ pc = "calls"
    /\ Goto("steps")
    /\ UNCHANGED <<options, source, reads, attempt, w, emitted>>

LegacyStep ==
    /\ pc = "steps" /\ todo > 0
    /\ \E line \in 1 .. source_line_count(text) : w' = RegisterStep(w, line)
    /\ todo' = todo - 1
    /\ UNCHANGED <<pc, options, source, reads, attempt, frames, ending>>

LegacyReturns ==
    /\ pc = "steps" /\ todo = 0
    /\ Goto("returns")
    /\ UNCHANGED <<options, source, reads, attempt, w, emitted>>

\* Mutant: one return too many.
LegacyReturnTwice ==
    /\ pc = "returns"
    /\ IF frames = -1
       THEN Goto("toplevel") /\ UNCHANGED <<w, frames>>
       ELSE /\ w' = RegisterReturn(w)
            /\ frames' = frames - 1
            /\ UNCHANGED <<pc, ending>>
    /\ UNCHANGED <<options, source, reads, attempt, todo>>

LegacyReturn ==
    /\ pc = "returns"
    /\ IF frames = 0
       THEN Goto("toplevel") /\ UNCHANGED <<w, frames>>
       ELSE /\ w' = RegisterReturn(w)
            /\ frames' = frames - 1
            /\ UNCHANGED <<pc, ending>>
    /\ UNCHANGED <<options, source, reads, attempt, todo>>

---------------------------------------------------------------------------
\* The end of the bundle.

\* Close the <toplevel> call that start() opened.
CloseToplevel ==
    /\ pc = "toplevel"
    /\ w' = RegisterReturn(w)
    /\ Goto("finish")
    /\ UNCHANGED <<options, source, reads, attempt, emitted>>

\* A failing call of finish_trace: the session ends with that error and the
\* bundle stays in the phase it had reached.
FinishFails ==
    /\ pc' = "done"
    /\ result' = "err"
    /\ UNCHANGED <<w, cause>>

\* Mutant: the result of finish_writing_trace_events is dropped.
FinishEventsUnchecked ==
    /\ pc = "finish"
    /\ w' = Advance(w, "finished") /\ Goto("meta")
    /\ UNCHANGED <<options, source, reads, attempt, emitted>>

\* finish_trace, one call after the other.
FinishEvents ==
    /\ pc = "finish"
    /\ \/ FinishFails
       \/ CanFinish(w) /\ w' = Advance(w, "finished") /\ Goto("meta")
    /\ UNCHANGED <<options, source, reads, attempt, emitted>>

WriteMeta ==
    /\ pc = "meta"
    /\ \/ FinishFails
       \/ w' = Advance(w, "meta") /\ Goto("close")
    /\ UNCHANGED <<options, source, reads, attempt, emitted>>

\* Mutant: a session that closed its bundle succeeded.
AlwaysOk == "ok"

\* The exit status of a session whose bundle is closed: finish_with_error is
\* followed by the return of an error.
ExitStatus == IF cause = "none" THEN "ok" ELSE "err"

CloseBundle ==
    /\ pc = "close"
    /\ \/ FinishFails
       \/ /\ w' = Advance(w, "closed")
          /\ pc' = "done"
          /\ result' = ExitStatus
          /\ UNCHANGED cause
    /\ UNCHANGED <<options, source, reads, attempt, emitted>>

---------------------------------------------------------------------------
\* Somebody edits, removes or restores the source file while it is recorded.
Edit ==
    /\ pc # "done" /\ edits < MaxEdits
    /\ disk' \in (Versions \cup {NoFile}) \ {disk}
    /\ edits' = edits + 1
    /\ UNCHANGED <<pc, options, reads, attempt, w, emitted, ending>>

\* The recorder's own stages, in the order of the code.
Prepare == Validate \/ ReadSource \/ StartWriter
Tools   == Compile \/ CheckArtifacts \/ RunWitness
EmitBody   == BodyStep \/ BodyCall \/ BodyReturn \/ LeaveMain
EmitLegacy == LegacyCall \/ LegacyFlat \/ LegacyStep \/ LegacyReturns \/ LegacyReturn
Finish  == CloseToplevel \/ FinishEvents \/ WriteMeta \/ CloseBundle
Recorder == Prepare \/ Tools \/ EnterEmit \/ EmitBody \/ EmitLegacy \/ Finish

Next == Recorder \/ Edit

\* The process itself keeps running, and the tools it waits for return: there
\* is no timeout in the code, so without that assumption nothing terminates.
Fairness == WF_vars(Recorder)

Spec == Init /\ [][Next]_vars /\ Fairness

---------------------------------------------------------------------------
\* Properties.

\* The type of the state.
TypeOK ==
    /\ pc \in Stages
    /\ disabled \in BOOLEAN /\ useCpp \in BOOLEAN
    /\ {disk, text, built, body} \subseteq Versions \cup {NoFile}
    /\ edits \in 0 .. MaxEdits
    /\ attempt \in {1, 2}
    /\ w \in Writer
    /\ frames \in 0 .. MaxDepth
    /\ todo \in 0 .. MaxBody
    /\ cause \in Causes
    /\ result \in {"none", "ok", "err"}

\* A bundle whose events were finished has every call closed, <toplevel>
\* included, and none closed twice: on the success path the bodies' returns
\* and the one before finish_trace balance, on each error path the return in
\* finish_with_error does.
FinishedIsBalanced ==
    w.phase \in {"finished", "meta", "closed"} => w.depth = 0

\* The writer refuses a step only when the file grew between recorder.rs's
\* read, which states its size, and the one in emit_source_trace: without an
\* edit no step the recorder takes is past the end of the file.
RefusedOnlyIfGrown ==
    w.refused => /\ edits > 0
                 /\ {text, body} \subseteq Versions
                 /\ source_line_count(body) > source_line_count(text)

\* A refusal, which no call that steps reports, fails the recording when the
\* trace is finished: the bundle stays unfinished and the status is not ok.
RefusalFailsRecording ==
    w.refused => w.phase = "started" /\ result # "ok"

\* The Error event is the last thing a bundle says: after it nothing is
\* stepped, logged, called or returned, since every finish_with_error is
\* followed by a return of the error.
ErrorIsLast ==
    [][w.errors > 0 => /\ w'.errors = w.errors /\ w'.depth = w.depth
                       /\ w'.top = w.top /\ w'.logs = w.logs]_vars

\* The session keeps the contract of RecordingContract.
bundle == CASE w.phase = "absent" -> "absent"
            [] w.phase = "closed" -> "complete"
            [] OTHER              -> "open"

Contract == INSTANCE RecordingContract
              WITH errors <- w.errors, verdict <- result
KeepsContract == Contract!ContractSpec

\* The process ends, provided the tools it waits for do.
Termination == <>(pc = "done")

---------------------------------------------------------------------------
\* A claim of the repository that the code does not keep.

\* src/line_counts.rs:4-6: "The recorder has the text of every source file
\* it steps through, so it states each file's real size".
StatedSizeIsSteppedSize ==
    body # NoFile => w.size = source_line_count(body)
=============================================================================
