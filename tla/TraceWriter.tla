---------------------------- MODULE TraceWriter ----------------------------
(***************************************************************************)
(* The CTFS trace writer (codetracer_trace_writer_nim), which the recorder *)
(* drives and which is not part of the repository.  It is modelled from    *)
(* the calls tracer.rs and line_counts.rs make and from what the           *)
(* repository's tests observe of it (tests/test_line_count_table.rs): the  *)
(* phases a bundle goes through, the depth of open calls, the stated size  *)
(* of the one registered file, and the sticky refusal of a step past it.   *)
(* A writer is a record; every operation maps a writer to a writer.        *)
(***************************************************************************)
EXTENDS Integers

\* The phases of a bundle on disk, in order.
Phases == {"absent", "streams", "started", "finished", "meta", "closed"}

\* What a writer is: phase of the bundle, calls open, stated line count,
\* highest line a recorded step names, whether a step was refused, and how
\* many Error and circom_log special events it holds.
Writer == [phase : Phases, depth : Int, size : Nat, top : Nat,
           refused : BOOLEAN, errors : Nat, logs : Nat]

\* NimTraceWriter::new: nothing is on disk yet.
NewWriter == [phase |-> "absent", depth |-> 0, size |-> 0, top |-> 0,
              refused |-> FALSE, errors |-> 0, logs |-> 0]

\* begin_writing_trace_events: the event streams are open.
OpenStreams(w) == [w EXCEPT !.phase = "streams"]

\* register_path_with_line_count for the single path of the trace.
StateSize(w, n) == [w EXCEPT !.size = n]

\* register_step: a line past the stated size is not recorded, and the
\* refusal is sticky.
RegisterStep(w, line) ==
    IF line > w.size
    THEN [w EXCEPT !.refused = TRUE]
    ELSE [w EXCEPT !.top = IF line > w.top THEN line ELSE w.top]

\* register_call and register_return.
RegisterCall(w)   == [w EXCEPT !.depth = @ + 1]
RegisterReturn(w) == [w EXCEPT !.depth = @ - 1]

\* start: the first step and the <toplevel> call.
StartTrace(w, line) ==
    RegisterCall([RegisterStep(w, line) EXCEPT !.phase = "started"])

\* register_special_event with kind Error, and with kind EvmEvent and
\* metadata circom_log (n of them).
RegisterError(w)   == [w EXCEPT !.errors = @ + 1]
RegisterLogs(w, n) == [w EXCEPT !.logs = @ + n]

\* finish_writing_trace_events fails for good once a step was refused; the
\* later phases may fail for reasons outside the recorder.
CanFinish(w) == ~w.refused
Advance(w, phase) == [w EXCEPT !.phase = phase]
=============================================================================
