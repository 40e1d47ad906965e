------------------------- MODULE MCRecordingSession -------------------------
(***************************************************************************)
(* RecordingSession over a handful of source files: one that grows when it *)
(* is edited, one whose main template is unknown, one without a main       *)
(* component, an empty one.                                                *)
(***************************************************************************)
EXTENDS RecordingSession

\* The versions are named for what they are.
MCVersions == {"empty", "short", "long", "foreign"}

\* Newlines of each version.
MCSizeOf(v) == CASE v = "empty" -> 0 [] v = "long" -> 2 [] OTHER -> 1

\* "empty" has no component main; the others have it on their last line.
MCMainLine(v) == IF v = "empty" THEN 0 ELSE MCSizeOf(v) + 1

\* "foreign" takes its main template from an included file.
MCKnown(v) == v \in {"short", "long"}

\* "short" and "long" define the same main template.
MCParsed(t, b) == b \in {"short", "long"}
=============================================================================
