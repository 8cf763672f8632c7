--------------------------- MODULE MCSupervision ---------------------------
(***************************************************************************)
(* One runtime that every phase was handed to, one retry and one reconcile *)
(* by another process: the smallest instance in which a sweep has a row to *)
(* go on with after a failure, a phase is left behind while the monitor    *)
(* still holds it, a count is written over by the older one that reconcile *)
(* had read, and a second stall finds the budget spent.  Liveness is       *)
(* checked for one phase.                                                  *)
(***************************************************************************)
EXTENDS Supervision, TLC

CONSTANTS r1, p1, NeverValue

TwoPhases == 0 .. 1
OnePhase == {0}
MCAgentOf == [q \in Phases |-> r1]
MCTier == [q \in Phases |-> "sonnet"]
MCPolicy == [max |-> 1, narrow |-> TRUE, escalateTier |-> FALSE]
=============================================================================
