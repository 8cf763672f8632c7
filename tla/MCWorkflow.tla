----------------------------- MODULE MCWorkflow -----------------------------
(***************************************************************************)
(* The impl-audit template (template.rs 380-442) with its gates, a report  *)
(* the auditor needs as a required artifact, and small ceilings.           *)
(***************************************************************************)
EXTENDS Workflow, TLC

MCConditions == {"code_diff_exists", "verification_passed", "audit_clean"}
MCExitGate ==
    (0 :> {"code_diff_exists", "verification_passed"} @@ 1 :> {"audit_clean"})
MCEntryGate == (0 :> {} @@ 1 :> {"code_diff_exists", "verification_passed"})
\* A template that enters every phase unasked.
MCOpenEntry == (0 :> {} @@ 1 :> {})
MCRequiredArtifacts == (0 :> {"plan"} @@ 1 :> {"report"})
MCToolFailureCeiling == (0 :> 2 @@ 1 :> 1)
MCRequestCeiling == (0 :> 2 @@ 1 :> 2)
=============================================================================
