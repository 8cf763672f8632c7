----------------------------- MODULE MCDispatch -----------------------------
(***************************************************************************)
(* Two runs that dispatch one handoff, and a third that dispatches another.*)
(***************************************************************************)
EXTENDS Dispatch, TLC

CONSTANTS d1, d2, d3, h1, h2, NoAnswerValue

MCContent == (d1 :> h1 @@ d2 :> h1 @@ d3 :> h2)
=============================================================================
