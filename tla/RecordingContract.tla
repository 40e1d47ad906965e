------------------------- MODULE RecordingContract -------------------------
(***************************************************************************)
(* What `codetracer-circom-recorder record` promises about its bundle and  *)
(* its exit status, without saying how: a bundle is opened at most once,   *)
(* is completed at most once, holds at most one Error event, and the exit  *)
(* status is "ok" only with a complete bundle free of Error events (or     *)
(* with no bundle at all, when recording is disabled).                     *)
(***************************************************************************)
EXTENDS Naturals

VARIABLES
    disabled,   \* recording was disabled when the process started
    bundle,     \* "absent", "open" (partial on disk) or "complete"
    errors,     \* Error events in the bundle
    verdict     \* "none" while running, then "ok" or "err"

contractVars == <<disabled, bundle, errors, verdict>>

ContractInit ==
    /\ disabled \in BOOLEAN
    /\ bundle = "absent"
    /\ errors = 0
    /\ verdict = "none"

Running == verdict = "none"

\* Disabled: succeed and leave no bundle.
PassThrough ==
    /\ Running /\ disabled /\ bundle = "absent"
    /\ verdict' = "ok"
    /\ UNCHANGED <<disabled, bundle, errors>>

\* Fail before, or while, the bundle is opened, or give an open one up: what
\* is on disk is never complete.
GiveUp ==
    /\ Running /\ bundle # "complete"
    /\ bundle' \in {bundle, "open"}
    /\ (disabled => bundle' = "absent")
    /\ verdict' = "err"
    /\ UNCHANGED <<disabled, errors>>

\* Open the bundle.
Begin ==
    /\ Running /\ ~disabled /\ bundle = "absent"
    /\ bundle' = "open"
    /\ UNCHANGED <<disabled, errors, verdict>>

\* Record the failure that ends the session.
NoteError ==
    /\ Running /\ bundle = "open" /\ errors = 0
    /\ errors' = 1
    /\ UNCHANGED <<disabled, bundle, verdict>>

\* Complete the bundle; the exit status follows from what it holds.
Complete ==
    /\ Running /\ bundle = "open"
    /\ bundle' = "complete"
    /\ verdict' = IF errors = 0 THEN "ok" ELSE "err"
    /\ UNCHANGED <<disabled, errors>>

ContractNext == PassThrough \/ GiveUp \/ Begin \/ NoteError \/ Complete

ContractSpec == ContractInit /\ [][ContractNext]_contractVars
=============================================================================
