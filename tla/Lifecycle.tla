------------------------------ MODULE Lifecycle ------------------------------
(***************************************************************************)
(* What the engine promises about one workflow, without its statuses: the  *)
(* phases are finished one at a time and in order, a verdict is reached    *)
(* once, success only after the last phase.                                *)
(***************************************************************************)
EXTENDS Integers

CONSTANT NPhases

VARIABLES
    finished,   \* how many phases have been finished
    verdict     \* "open", "completed" or "failed"

vars == <<finished, verdict>>

Init == finished = 0 /\ verdict = "open"

\* The next phase in template order is finished.
Finish ==
    /\ verdict = "open"
    /\ finished < NPhases
    /\ finished' = finished + 1
    /\ UNCHANGED verdict

Succeed ==
    /\ verdict = "open"
    /\ finished = NPhases
    /\ verdict' = "completed"
    /\ UNCHANGED finished

\* A workflow fails with the phase it is in, never after its last phase.
Fail ==
    /\ verdict = "open"
    /\ finished < NPhases
    /\ verdict' = "failed"
    /\ UNCHANGED finished

Next == Finish \/ Succeed \/ Fail

Spec == Init /\ [][Next]_vars
=============================================================================
