------------------------------ MODULE Workflow ------------------------------
(***************************************************************************)
(* One workflow instance in memory, driven through the engine's methods by *)
(* a program that embeds it, while the evidence its gate evaluator looks   *)
(* at and the files its artifact checks look at change under it.           *)
(***************************************************************************)
EXTENDS Engine

CONSTANT MaxRetries   \* bound on increment_retry_count, which the engine leaves open

ASSUME RetryAssumption == MaxRetries \in Nat

VARIABLES
    wf,        \* the WorkflowInstance
    holds,     \* conditions the gate evaluator finds satisfied now
    present,   \* artifacts that exist on disk now
    asking     \* what an advance in progress asks next

vars == <<wf, holds, present, asking>>
env == <<holds, present>>

Init ==
    /\ wf = NewInstance
    /\ holds \in SUBSET Conditions
    /\ present \in SUBSET Artifacts
    /\ asking = "no"

-----------------------------------------------------------------------------
(* dispatch_workflow sets the status of the instance it has just built.    *)
Dispatch ==
    /\ wf = NewInstance
    /\ wf' = [wf EXCEPT !.status = "dispatched"]
    /\ UNCHANGED env

DoStartPhase ==
    /\ StartPhaseOk(wf, present)
    /\ wf' = StartPhase(wf)
    /\ UNCHANGED env

DoStartPhaseBlocked ==
    /\ StartPhaseBlocked(wf, present)
    /\ wf' = Block(wf)
    /\ UNCHANGED env

DoCompletePhase ==
    /\ IsActive(wf)
    /\ wf' = CompletePhase(wf)
    /\ UNCHANGED env

DoFailPhase ==
    /\ IsActive(wf)
    /\ wf' = FailPhase(wf)
    /\ UNCHANGED env

DoIncrementRetryCount ==
    /\ IsActive(wf)
    /\ wf.retries[wf.idx] < MaxRetries
    /\ wf' = IncrementRetryCount(wf)
    /\ UNCHANGED env

DoRecordToolFailure ==
    /\ IsActive(wf)
    /\ wf' = RecordToolFailure(wf)
    /\ UNCHANGED env

DoRecordRequest ==
    /\ IsActive(wf)
    /\ wf' = RecordRequest(wf)
    /\ UNCHANGED env

DoReconcileComplete ==
    /\ MayReconcileComplete(wf)
    /\ wf' = ReconcileComplete(wf)
    /\ UNCHANGED env

DoReconcileFail ==
    /\ MayReconcileFail(wf)
    /\ wf' = ReconcileFail(wf)
    /\ UNCHANGED env

DoCompleteWorkflow ==
    /\ CompleteWorkflowOk(wf)
    /\ wf' = CompleteWorkflow(wf)
    /\ UNCHANGED env

DoHandoffToUser ==
    /\ IsActive(wf)
    /\ wf' = HandoffToUser(wf)
    /\ UNCHANGED env

DoBreakOut ==
    /\ IsActive(wf)
    /\ wf' = BreakOut(wf)
    /\ UNCHANGED env

DoResume ==
    /\ ResumeOk(wf)
    /\ wf' = Resume(wf)
    /\ UNCHANGED env

-----------------------------------------------------------------------------
(* advance holds the instance while it asks: nobody else calls a method,   *)
(* but each answer is the world's at its own moment.                       *)

BeginAdvance ==
    /\ asking = "no"
    /\ MayLeave(wf)
    /\ asking' = "exit"
    /\ UNCHANGED <<wf, env>>

ExitGatePasses ==
    /\ asking = "exit"
    /\ CanAdvance(wf, holds)
    /\ asking' = "artifacts"
    /\ UNCHANGED <<wf, env>>

ArtifactsFound ==
    /\ asking = "artifacts"
    /\ ArtifactsPresent(wf, present)
    /\ asking' = "entry"
    /\ UNCHANGED <<wf, env>>

DoAdvanceBlocked ==
    /\ asking = "artifacts"
    /\ ~ ArtifactsPresent(wf, present)
    /\ wf' = Block(wf)
    /\ asking' = "no"
    /\ UNCHANGED env

GateRefuses ==
    /\ \/ asking = "exit" /\ ~ CanAdvance(wf, holds)
       \/ asking = "entry" /\ ~ MayEnter(wf, holds)
    /\ asking' = "no"
    /\ UNCHANGED <<wf, env>>

DoAdvance ==
    /\ asking = "entry"
    /\ MayEnter(wf, holds)
    /\ wf' = Advance(wf)
    /\ asking' = "no"
    /\ UNCHANGED env

\* Agents produce and lose evidence; files appear and are deleted.
Environment ==
    /\ holds' \in SUBSET Conditions
    /\ present' \in SUBSET Artifacts
    /\ UNCHANGED <<wf, asking>>

Call ==
    \/ Dispatch
    \/ DoStartPhase \/ DoStartPhaseBlocked
    \/ DoCompletePhase \/ DoFailPhase
    \/ DoIncrementRetryCount \/ DoRecordToolFailure \/ DoRecordRequest
    \/ DoReconcileComplete \/ DoReconcileFail
    \/ DoCompleteWorkflow
    \/ DoHandoffToUser \/ DoBreakOut \/ DoResume

Next ==
    \/ asking = "no" /\ Call /\ UNCHANGED asking
    \/ BeginAdvance \/ ExitGatePasses \/ ArtifactsFound
    \/ DoAdvance \/ DoAdvanceBlocked \/ GateRefuses
    \/ Environment

Spec == Init /\ [][Next]_vars

-----------------------------------------------------------------------------
(* The instance has the fields and the enum values of engine.rs 38-183,    *)
(* and an advance only asks about a completed phase that is not the last.  *)
TypeOK ==
    /\ wf \in Instance
    /\ holds \in SUBSET Conditions
    /\ present \in SUBSET Artifacts
    /\ asking \in {"no", "exit", "artifacts", "entry"}
    /\ asking # "no" => MayLeave(wf)

(* Whatever methods are called, in whatever order, the instance stays a    *)
(* walk through the template: everything before current_phase_idx is       *)
(* Completed, nothing after it has been touched, a Pending phase has used  *)
(* nothing of its budgets, and the transition log retells exactly the      *)
(* steps that were taken.                                                  *)
PhaseOrder ==
    /\ \A p \in Phases : p < wf.idx => wf.phase[p] = "completed"
    /\ \A p \in Phases : p > wf.idx => wf.phase[p] = "pending"
    /\ \A p \in Phases : wf.phase[p] = "pending" =>
          wf.toolFailures[p] = 0 /\ wf.requests[p] = 0
    /\ Len(wf.transitions) = wf.idx
    /\ \A i \in 1 .. Len(wf.transitions) : wf.transitions[i] = <<i - 1, i>>

(* The workflow status and the current phase's status are two fields that  *)
(* different methods write; they never tell different stories.  The one    *)
(* combination that looks odd is real: reconciliation completes a phase    *)
(* and leaves the workflow's status as it was.                             *)
StatusAgreesWithPhase ==
    LET phase == CurrentPhase(wf) IN
    /\ phase = "pending" => wf.status \in {"pending", "dispatched"}
    /\ phase = "active" => wf.status = "in_progress"
    /\ phase = "awaiting_user_input" => wf.status = "awaiting_user_input"
    /\ phase = "failed" <=> wf.status \in {"failed", "user_terminated"}
    /\ wf.status = "completed" => phase = "completed" /\ wf.idx = LastPhase

(* An Active phase is below both ceilings: the call that reaches one fails *)
(* the phase, so no sequence of tool failures, requests, pauses and        *)
(* resumes keeps a phase running past its budget.                          *)
ActivePhaseBelowCeiling ==
    \A p \in Phases : wf.phase[p] \in {"active", "awaiting_user_input"} =>
        /\ wf.toolFailures[p] = 0 \/ wf.toolFailures[p] < ToolFailureCeiling[p]
        /\ wf.requests[p] = 0 \/ wf.requests[p] < RequestCeiling[p]

(* A Completed or Failed phase keeps its status and its counts, and the    *)
(* workflow never goes back to an earlier phase.                           *)
SettledPhasesStay ==
    [][/\ wf'.idx >= wf.idx
       /\ \A p \in Phases : wf.phase[p] \in {"completed", "failed"} =>
             /\ wf'.phase[p] = wf.phase[p]
             /\ wf'.toolFailures[p] = wf.toolFailures[p]
             /\ wf'.requests[p] = wf.requests[p]
             /\ wf'.retries[p] = wf.retries[p]]_wf

(* The instance as an abstract lifecycle: the phases finished so far and   *)
(* the verdict.  A user's break-out is a failure of the workflow.          *)
PhasesFinished ==
    wf.idx + (IF CurrentPhase(wf) = "completed" THEN 1 ELSE 0)

Verdict ==
    CASE wf.status = "completed" -> "completed"
      [] wf.status \in {"failed", "user_terminated"} -> "failed"
      [] OTHER -> "open"

Lifecycle == INSTANCE Lifecycle WITH finished <- PhasesFinished, verdict <- Verdict

(* Every engine call is a step of the abstract lifecycle or invisible to   *)
(* it: phases finish one at a time and in order and a verdict is final.    *)
RefinesLifecycle == Lifecycle!Spec

-----------------------------------------------------------------------------
(* Statements of the sources that the engine does not keep.                *)

(* engine.rs 627-629: for the final phase, "if its exit gates pass, the    *)
(* workflow is marked Completed": completion would imply the exit gate of  *)
(* the last phase.                                                         *)
CompletionPassesFinalGate ==
    [][wf'.status = "completed" /\ wf.status # "completed" =>
          ExitGate[LastPhase] \subseteq holds]_wf

(* engine.rs 730: a transition is logged as "exit and entry gates          *)
(* satisfied": both are satisfied when the workflow moves.  The exit gate  *)
(* is only where the entry gate asks for the same again, as impl-audit's   *)
(* does.                                                                   *)
GatesHoldAtTheMove ==
    [][wf'.idx # wf.idx =>
          ExitGate[wf.idx] \cup EntryGate[wf'.idx] \subseteq holds]_wf

(* engine.rs 786-788: after a break-out "the workflow is terminal".        *)
UserTerminatedIsTerminal ==
    [][wf.status = "user_terminated" => wf'.status = "user_terminated"]_wf

(* engine.rs 175: blocked_on is held "when status is BlockedOnGate".       *)
BlockedOnOnlyWhenBlocked == wf.blocked => wf.status = "blocked_on_gate"
=============================================================================
