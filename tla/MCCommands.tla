----------------------------- MODULE MCCommands -----------------------------
(***************************************************************************)
(* Two phases and the one condition that both of impl-audit's first gates  *)
(* ask for; audit_clean, which nothing can vouch for, guards the last one. *)
(***************************************************************************)
EXTENDS Commands, TLC

CONSTANTS p1, p2, NoCopyValue

MCConditions == {"verification_passed", "audit_clean"}
MCExitGate == (0 :> {"verification_passed"} @@ 1 :> {"audit_clean"})
MCEntryGate == (0 :> {} @@ 1 :> {"verification_passed"})
MCNoArtifacts == [p \in Phases |-> {}]
MCCeiling == [p \in Phases |-> 1]
Symmetry == Permutations(Procs)
=============================================================================
