------------------------------ MODULE CallTree ------------------------------
(***************************************************************************)
(* What emitting one body promises the rest of the recording: it opens one *)
(* call for the main template, opens and closes further calls only inside  *)
(* it, in last-in first-out order, and leaves none open.                   *)
(***************************************************************************)
EXTENDS Naturals, Sequences

CONSTANT Templates

VARIABLES
    calls,   \* the calls open, outermost first
    phase    \* "before", "inside" or "after" the main template's call

treeVars == <<calls, phase>>

TreeInit == calls = <<>> /\ phase = "before"

OpenMain ==
    /\ phase = "before"
    /\ \E t \in Templates : calls' = <<t>>
    /\ phase' = "inside"

Open ==
    /\ phase = "inside"
    /\ \E t \in Templates : calls' = Append(calls, t)
    /\ UNCHANGED phase

Close ==
    /\ phase = "inside" /\ Len(calls) > 1
    /\ calls' = SubSeq(calls, 1, Len(calls) - 1)
    /\ UNCHANGED phase

CloseMain ==
    /\ phase = "inside" /\ Len(calls) = 1
    /\ calls' = <<>>
    /\ phase' = "after"

TreeNext == OpenMain \/ Open \/ Close \/ CloseMain

TreeSpec == TreeInit /\ [][TreeNext]_treeVars
=============================================================================
