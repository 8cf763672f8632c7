------------------------------- MODULE Engine -------------------------------
(***************************************************************************)
(* The workflow engine of src/workflow/engine.rs as operators on one       *)
(* workflow instance, a record with the fields of WorkflowInstance that    *)
(* decide what may happen next.  Each method of the engine is a pair: a    *)
(* predicate that says when the method returns Ok, and the instance it     *)
(* leaves behind.  The modules that own an instance (an embedding program, *)
(* a command's private copy) turn the pairs into actions.                  *)
(***************************************************************************)
EXTENDS Integers, Sequences

CONSTANTS
    NPhases,              \* number of phases of the template
    Conditions,           \* gate conditions
    ExitGate, EntryGate,  \* conditions required to leave / to enter a phase
    Artifacts,            \* files a phase may require
    RequiredArtifacts,    \* the required ones, per phase
    ToolFailureCeiling,   \* effective ceilings, per phase
    RequestCeiling

Phases == 0 .. NPhases - 1
LastPhase == NPhases - 1

ASSUME EngineAssumption ==
    /\ NPhases \in Nat \ {0}
    /\ ExitGate \in [Phases -> SUBSET Conditions]
    /\ EntryGate \in [Phases -> SUBSET Conditions]
    /\ RequiredArtifacts \in [Phases -> SUBSET Artifacts]
    /\ ToolFailureCeiling \in [Phases -> Nat]
    /\ RequestCeiling \in [Phases -> Nat]

WorkflowStatus ==
    {"pending", "dispatched", "in_progress", "blocked_on_gate",
     "awaiting_repair", "awaiting_user_input", "user_terminated",
     "completed", "failed", "cancelled"}

PhaseStatus ==
    {"pending", "active", "awaiting_user_input", "completed", "failed",
     "skipped"}

\* The statuses the store's partial index and its queries call terminal.
TerminalStatus == {"completed", "failed", "cancelled", "user_terminated"}

Instance ==
    [status       : WorkflowStatus,
     idx          : Phases,
     phase        : [Phases -> PhaseStatus],
     toolFailures : [Phases -> Nat],
     requests     : [Phases -> Nat],
     retries      : [Phases -> Nat],
     blocked      : BOOLEAN,             \* blocked_on is Some(_)
     transitions  : Seq(Phases \X Phases)]

NewInstance ==
    [status       |-> "pending",
     idx          |-> 0,
     phase        |-> [p \in Phases |-> "pending"],
     toolFailures |-> [p \in Phases |-> 0],
     requests     |-> [p \in Phases |-> 0],
     retries      |-> [p \in Phases |-> 0],
     blocked      |-> FALSE,
     transitions  |-> <<>>]

CurrentPhase(w) == w.phase[w.idx]

\* mark_active, mark_completed and mark_failed on the current phase.
Mark(w, s) == [w EXCEPT !.phase[w.idx] = s]

MarkFailed(w) == [Mark(w, "failed") EXCEPT !.status = "failed"]

-----------------------------------------------------------------------------
(* start_phase: the artifacts that exist decide between the two outcomes.  *)

MayStart(w) == CurrentPhase(w) = "pending"

StartPhaseOk(w, present) ==
    MayStart(w) /\ RequiredArtifacts[w.idx] \subseteq present

StartPhase(w) == [Mark(w, "active") EXCEPT !.status = "in_progress"]

StartPhaseBlocked(w, present) ==
    MayStart(w) /\ ~ (RequiredArtifacts[w.idx] \subseteq present)

\* The error path of start_phase and advance that leaves a trace: blocked_on.
Block(w) == [w EXCEPT !.blocked = TRUE]

-----------------------------------------------------------------------------
(* complete_phase, fail_phase and the counters need an Active phase.       *)

IsActive(w) == CurrentPhase(w) = "active"

CompletePhase(w) == Mark(w, "completed")

FailPhase(w) == MarkFailed(w)

IncrementRetryCount(w) == [w EXCEPT !.retries[w.idx] = @ + 1]

\* Mutant: the ceiling is compared with > instead of >=.
RecordToolFailureLate(w) ==
    LET counted == [w EXCEPT !.toolFailures[w.idx] = @ + 1]
    IN  IF counted.toolFailures[w.idx] > ToolFailureCeiling[w.idx]
        THEN MarkFailed(counted)
        ELSE counted

\* A count that reaches its ceiling fails the phase and the workflow.
RecordToolFailure(w) ==
    LET counted == [w EXCEPT !.toolFailures[w.idx] = @ + 1]
    IN  IF counted.toolFailures[w.idx] >= ToolFailureCeiling[w.idx]
        THEN MarkFailed(counted)
        ELSE counted

RecordRequest(w) ==
    LET counted == [w EXCEPT !.requests[w.idx] = @ + 1]
    IN  IF counted.requests[w.idx] >= RequestCeiling[w.idx]
        THEN MarkFailed(counted)
        ELSE counted

-----------------------------------------------------------------------------
(* Reconciliation catches the current phase up with what Canopy reports.   *)

MayReconcileComplete(w) ==
    CurrentPhase(w) \in {"pending", "active", "awaiting_user_input", "completed"}

ReconcileComplete(w) == Mark(w, "completed")

\* Mutant: a late failure report is taken for a Completed phase too.
MayReconcileFailSettled(w) == CurrentPhase(w) # "skipped"

MayReconcileFail(w) ==
    CurrentPhase(w) \in {"pending", "active", "awaiting_user_input", "failed"}

ReconcileFail(w) == MarkFailed(w)

-----------------------------------------------------------------------------
(* advance: the phase and the final-phase test, then the exit gate, the    *)
(* artifacts of the next phase and its entry gate, in that order.          *)

AtFinalPhase(w) == w.idx >= LastPhase

\* Mutant: advance does not ask whether the phase has been completed.
MayLeaveUnfinished(w) == ~ AtFinalPhase(w)

MayLeave(w) == CurrentPhase(w) = "completed" /\ ~ AtFinalPhase(w)

CanAdvance(w, holds) == ExitGate[w.idx] \subseteq holds

ArtifactsPresent(w, present) == RequiredArtifacts[w.idx + 1] \subseteq present

MayEnter(w, holds) == EntryGate[w.idx + 1] \subseteq holds

\* All of them asked of one piece of evidence.
AdvanceOk(w, holds, present) ==
    /\ MayLeave(w)
    /\ CanAdvance(w, holds)
    /\ ArtifactsPresent(w, present)
    /\ MayEnter(w, holds)

Advance(w) ==
    [w EXCEPT !.idx = @ + 1,
              !.transitions = Append(@, <<w.idx, w.idx + 1>>),
              !.status = "dispatched"]

\* Mutant: complete_workflow does not ask for the last phase.
CompleteWorkflowOkAnywhere(w) == CurrentPhase(w) = "completed"

CompleteWorkflowOk(w) ==
    CurrentPhase(w) = "completed" /\ w.idx = LastPhase

CompleteWorkflow(w) == [w EXCEPT !.status = "completed"]

-----------------------------------------------------------------------------
(* HandoffToUser checkpoints.                                              *)

HandoffToUser(w) ==
    [Mark(w, "awaiting_user_input") EXCEPT !.status = "awaiting_user_input"]

BreakOut(w) == [Mark(w, "failed") EXCEPT !.status = "user_terminated"]

ResumeOk(w) ==
    /\ w.status = "awaiting_user_input"
    /\ CurrentPhase(w) = "awaiting_user_input"

Resume(w) == [Mark(w, "active") EXCEPT !.status = "in_progress"]
=============================================================================
