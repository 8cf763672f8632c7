--------------------------- MODULE MCWorkflowLock ---------------------------
(***************************************************************************)
(* Two runs of one workflow and one of another, and two editors that ask   *)
(* before they compact.                                                    *)
(***************************************************************************)
EXTENDS WorkflowLock, TLC

CONSTANTS r1, r2, r3, w1, w2, h1, h2, NoneValue

MCOf == (r1 :> w1 @@ r2 :> w1 @@ r3 :> w2)
=============================================================================
