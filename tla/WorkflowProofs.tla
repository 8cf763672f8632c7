--------------------------- MODULE WorkflowProofs ---------------------------
(***************************************************************************)
(* Proofs about Workflow for every template, every ceiling and every       *)
(* behaviour of the environment.                                           *)
(***************************************************************************)
EXTENDS Workflow, TLAPS

-----------------------------------------------------------------------------
(* The operators of Engine.                                                *)

(* A type-correct instance stays one under the two updates every method is *)
(* built from: a mark on the current phase and a new workflow status.      *)
LEMMA MarkType ==
    ASSUME NEW w \in Instance, NEW s \in PhaseStatus
    PROVE  /\ Mark(w, s) \in Instance
           /\ Mark(w, s).phase = [w.phase EXCEPT ![w.idx] = s]
           /\ CurrentPhase(Mark(w, s)) = s
  BY DEF Mark, Instance, CurrentPhase

LEMMA StatusType ==
    ASSUME NEW w \in Instance, NEW s \in WorkflowStatus
    PROVE  [w EXCEPT !.status = s] \in Instance
  BY DEF Instance

(* A counter that goes up by one stays a counter.                          *)
LEMMA CountType ==
    ASSUME NEW f \in [Phases -> Nat], NEW p \in Phases
    PROVE  [f EXCEPT ![p] = @ + 1] \in [Phases -> Nat]
<1>1. f[p] + 1 \in Nat
  OBVIOUS
<1> QED
  BY <1>1

(* Where the engine is not at the last phase, the next index is a phase.   *)
LEMMA NextPhase ==
    ASSUME NEW w \in Instance, ~ AtFinalPhase(w)
    PROVE  w.idx \in Nat /\ w.idx + 1 \in Phases
<1>1. w.idx \in 0 .. NPhases - 1 /\ NPhases \in Nat
  BY EngineAssumption DEF Instance, Phases
<1>2. ~ (w.idx >= NPhases - 1)
  BY DEF AtFinalPhase, LastPhase
<1>3. w.idx + 1 \in 0 .. NPhases - 1
  BY <1>1, <1>2
<1> QED
  BY <1>1, <1>3 DEF Phases

(* advance leaves a type-correct instance behind.                          *)
LEMMA AdvanceType ==
    ASSUME NEW w \in Instance, ~ AtFinalPhase(w)
    PROVE  Advance(w) \in Instance
<1>1. w.idx + 1 \in Phases
  BY NextPhase
<1>2. Append(w.transitions, <<w.idx, w.idx + 1>>) \in Seq(Phases \X Phases)
  BY <1>1 DEF Instance
<1> QED
  BY <1>1, <1>2 DEF Advance, Instance, WorkflowStatus

-----------------------------------------------------------------------------
(* Types.                                                                  *)

LEMMA TypeInit == Init => TypeOK
  BY EngineAssumption DEF Init, TypeOK, NewInstance, Instance, Phases,
     WorkflowStatus, PhaseStatus

LEMMA CallType ==
    ASSUME TypeOK, Call
    PROVE  wf' \in Instance /\ UNCHANGED env
<1> USE DEF TypeOK
<1>1. CASE Dispatch
  BY <1>1, StatusType DEF Dispatch, env, WorkflowStatus
<1>2. CASE DoStartPhase
  BY <1>2, MarkType, StatusType DEF DoStartPhase, StartPhase, env, WorkflowStatus, PhaseStatus
<1>3. CASE DoStartPhaseBlocked
  BY <1>3 DEF DoStartPhaseBlocked, Block, env, Instance
<1>4. CASE DoCompletePhase
  BY <1>4, MarkType DEF DoCompletePhase, CompletePhase, env, PhaseStatus
<1>5. CASE DoFailPhase
  BY <1>5, MarkType, StatusType DEF DoFailPhase, FailPhase, MarkFailed, env, WorkflowStatus, PhaseStatus
<1>6. CASE DoIncrementRetryCount
  BY <1>6, CountType DEF DoIncrementRetryCount, IncrementRetryCount, env, Instance
<1>7. CASE DoRecordToolFailure
  <2> DEFINE counted == [wf EXCEPT !.toolFailures[wf.idx] = @ + 1]
  <2>1. counted \in Instance
    BY CountType DEF Instance
  <2> HIDE DEF counted
  <2>2. MarkFailed(counted) \in Instance
    BY <2>1, MarkType, StatusType DEF MarkFailed, WorkflowStatus, PhaseStatus
  <2>3. wf' = counted \/ wf' = MarkFailed(counted)
    BY <1>7 DEF DoRecordToolFailure, RecordToolFailure, counted
  <2> QED
    BY <1>7, <2>1, <2>2, <2>3 DEF DoRecordToolFailure, env
<1>8. CASE DoRecordRequest
  <2> DEFINE counted == [wf EXCEPT !.requests[wf.idx] = @ + 1]
  <2>1. counted \in Instance
    BY CountType DEF Instance
  <2> HIDE DEF counted
  <2>2. MarkFailed(counted) \in Instance
    BY <2>1, MarkType, StatusType DEF MarkFailed, WorkflowStatus, PhaseStatus
  <2>3. wf' = counted \/ wf' = MarkFailed(counted)
    BY <1>8 DEF DoRecordRequest, RecordRequest, counted
  <2> QED
    BY <1>8, <2>1, <2>2, <2>3 DEF DoRecordRequest, env
<1>9. CASE DoReconcileComplete
  BY <1>9, MarkType DEF DoReconcileComplete, ReconcileComplete, env, PhaseStatus
<1>10. CASE DoReconcileFail
  BY <1>10, MarkType, StatusType DEF DoReconcileFail, ReconcileFail, MarkFailed, env, WorkflowStatus, PhaseStatus
<1>13. CASE DoCompleteWorkflow
  BY <1>13, StatusType DEF DoCompleteWorkflow, CompleteWorkflow, env, WorkflowStatus
<1>14. CASE DoHandoffToUser
  BY <1>14, MarkType, StatusType DEF DoHandoffToUser, HandoffToUser, env, WorkflowStatus, PhaseStatus
<1>15. CASE DoBreakOut
  BY <1>15, MarkType, StatusType DEF DoBreakOut, BreakOut, env, WorkflowStatus, PhaseStatus
<1>16. CASE DoResume
  BY <1>16, MarkType, StatusType DEF DoResume, Resume, env, WorkflowStatus, PhaseStatus
<1> QED
  BY <1>1, <1>2, <1>3, <1>4, <1>5, <1>6, <1>7, <1>8, <1>9, <1>10,
     <1>13, <1>14, <1>15, <1>16 DEF Call

LEMMA TypeStep == TypeOK /\ [Next]_vars => TypeOK'
<1> SUFFICES ASSUME TypeOK, [Next]_vars PROVE TypeOK'
  OBVIOUS
<1> USE DEF TypeOK
<1>1. CASE asking = "no" /\ Call /\ UNCHANGED asking
  BY <1>1, CallType DEF env
<1>2. CASE BeginAdvance \/ ExitGatePasses \/ ArtifactsFound \/ GateRefuses
  BY <1>2 DEF BeginAdvance, ExitGatePasses, ArtifactsFound, GateRefuses, env
<1>3. CASE DoAdvance
  BY <1>3, AdvanceType DEF DoAdvance, MayLeave, env
<1>4. CASE DoAdvanceBlocked
  BY <1>4 DEF DoAdvanceBlocked, Block, env, Instance
<1>5. CASE Environment
  BY <1>5 DEF Environment
<1>6. CASE UNCHANGED vars
  BY <1>6 DEF vars
<1> QED
  BY <1>1, <1>2, <1>3, <1>4, <1>5, <1>6 DEF Next

(* Every state of a workflow has the types of engine.rs: no method indexes *)
(* outside the template's phases or leaves a field undefined.              *)
THEOREM TypeCorrect == Spec => []TypeOK
  BY TypeInit, TypeStep, PTL DEF Spec

-----------------------------------------------------------------------------
(* The inductive invariant.  PhaseOrder is needed by StatusAgreesWithPhase *)
(* (advance must find the next phase Pending) and by the ceilings (a phase *)
(* must start with unused budgets).                                        *)
IInv == TypeOK /\ PhaseOrder /\ StatusAgreesWithPhase /\ ActivePhaseBelowCeiling

LEMMA InvInit == Init => IInv
<1> SUFFICES ASSUME Init PROVE IInv
  OBVIOUS
<1>1. TypeOK
  BY TypeInit
<1>2. wf = NewInstance /\ 0 \in Phases
  BY EngineAssumption DEF Init, Phases
<1>3. PhaseOrder
  BY <1>2 DEF PhaseOrder, NewInstance, Phases
<1>4. StatusAgreesWithPhase
  BY <1>2 DEF StatusAgreesWithPhase, NewInstance, CurrentPhase
<1>5. ActivePhaseBelowCeiling
  BY <1>2 DEF ActivePhaseBelowCeiling, NewInstance
<1> QED
  BY <1>1, <1>3, <1>4, <1>5 DEF IInv

(* A mark and a status that belong together: the phase a method leaves     *)
(* behind and the workflow status that goes with it.                       *)
Coherent(s, t) ==
    /\ s = "active" => t = "in_progress"
    /\ s = "awaiting_user_input" => t = "awaiting_user_input"
    /\ s = "failed" <=> t \in {"failed", "user_terminated"}
    /\ t = "completed" => s = "completed" /\ wf.idx = LastPhase

SameCountsExcept(i) ==
    \A p \in Phases \ {i} :
        /\ wf'.toolFailures[p] = wf.toolFailures[p]
        /\ wf'.requests[p] = wf.requests[p]

(* The order of phases is a matter of the current phase alone when nothing *)
(* else is touched.                                                        *)
LEMMA OrderKept ==
    ASSUME wf \in Instance, PhaseOrder,
           wf'.idx = wf.idx, wf'.transitions = wf.transitions,
           SameCountsExcept(wf.idx),
           \A p \in Phases \ {wf.idx} : wf'.phase[p] = wf.phase[p],
           wf'.phase[wf.idx] = "pending" =>
              wf'.toolFailures[wf.idx] = 0 /\ wf'.requests[wf.idx] = 0
    PROVE  PhaseOrder'
<1>1. wf.idx \in Phases /\ Phases \subseteq Int
  BY DEF Instance, Phases
<1>2. \A p \in Phases : p < wf.idx \/ p > wf.idx => p \in Phases \ {wf.idx}
  BY <1>1
<1>3. \A p \in Phases : p < wf'.idx => wf'.phase[p] = "completed"
  BY <1>2 DEF PhaseOrder
<1>4. \A p \in Phases : p > wf'.idx => wf'.phase[p] = "pending"
  BY <1>2 DEF PhaseOrder
<1>5. ASSUME NEW p \in Phases, wf'.phase[p] = "pending"
      PROVE  wf'.toolFailures[p] = 0 /\ wf'.requests[p] = 0
  <2>1. CASE p = wf.idx
    BY <1>5, <2>1
  <2>2. CASE p # wf.idx
    BY <1>5, <2>2 DEF PhaseOrder, SameCountsExcept
  <2> QED BY <2>1, <2>2
<1>6. /\ Len(wf'.transitions) = wf'.idx
      /\ \A i \in 1 .. Len(wf'.transitions) : wf'.transitions[i] = <<i - 1, i>>
  BY DEF PhaseOrder
<1> QED BY <1>3, <1>4, <1>5, <1>6 DEF PhaseOrder

(* A method that marks the current phase and sets a status that belongs to *)
(* the mark keeps the invariant; a mark that leaves the phase running must *)
(* come from a phase that was Pending or running.                          *)
LEMMA MarkStep ==
    ASSUME IInv, NEW s \in PhaseStatus \ {"pending"}, NEW t \in WorkflowStatus,
           wf'.phase = [wf.phase EXCEPT ![wf.idx] = s], wf'.status = t,
           wf'.idx = wf.idx, wf'.transitions = wf.transitions,
           SameCountsExcept(wf.idx),
           Coherent(s, t),
           s \in {"active", "awaiting_user_input"} =>
              /\ CurrentPhase(wf) \in {"pending", "active", "awaiting_user_input"}
              /\ wf'.toolFailures = wf.toolFailures /\ wf'.requests = wf.requests
    PROVE  PhaseOrder' /\ StatusAgreesWithPhase' /\ ActivePhaseBelowCeiling'
<1> USE DEF IInv
<1>0. wf.idx \in Phases /\ wf.phase \in [Phases -> PhaseStatus] /\ wf \in Instance
  BY DEF TypeOK, Instance
<1>1. PhaseOrder'
  <2>1. wf'.phase[wf.idx] = s /\ \A p \in Phases \ {wf.idx} : wf'.phase[p] = wf.phase[p]
    BY <1>0
  <2> QED BY <1>0, <2>1, OrderKept
<1>2. CurrentPhase(wf') = s
  BY DEF TypeOK, CurrentPhase, Instance
<1>3. StatusAgreesWithPhase'
  BY <1>2 DEF StatusAgreesWithPhase, Coherent
<1>4. ActivePhaseBelowCeiling'
  BY DEF ActivePhaseBelowCeiling, PhaseOrder, CurrentPhase, TypeOK, Instance,
     SameCountsExcept
<1> QED
  BY <1>1, <1>3, <1>4

LEMMA MarkStatusStep ==
    ASSUME IInv, NEW s \in PhaseStatus \ {"pending"}, NEW t \in WorkflowStatus,
           wf' = [Mark(wf, s) EXCEPT !.status = t],
           Coherent(s, t),
           s \in {"active", "awaiting_user_input"} =>
              CurrentPhase(wf) \in {"pending", "active", "awaiting_user_input"}
    PROVE  PhaseOrder' /\ StatusAgreesWithPhase' /\ ActivePhaseBelowCeiling'
<1>1. wf \in Instance
  BY DEF IInv, TypeOK
<1>2. /\ wf'.status = t
      /\ wf'.phase = [wf.phase EXCEPT ![wf.idx] = s]
      /\ wf'.idx = wf.idx /\ wf'.transitions = wf.transitions
      /\ wf'.toolFailures = wf.toolFailures /\ wf'.requests = wf.requests
  BY <1>1 DEF Mark, Instance
<1>3. SameCountsExcept(wf.idx)
  BY <1>2 DEF SameCountsExcept
<1> QED
  BY <1>2, <1>3, MarkStep

(* The same for a method that leaves phases, status, index and log alone   *)
(* and at most raises a counter that stays below its ceiling.              *)
LEMMA CountStep ==
    ASSUME IInv, IsActive(wf),
           wf'.phase = wf.phase, wf'.status = wf.status, wf'.idx = wf.idx,
           wf'.transitions = wf.transitions,
           SameCountsExcept(wf.idx),
           \/ wf'.toolFailures[wf.idx] = wf.toolFailures[wf.idx]
           \/ wf'.toolFailures[wf.idx] < ToolFailureCeiling[wf.idx],
           \/ wf'.requests[wf.idx] = wf.requests[wf.idx]
           \/ wf'.requests[wf.idx] < RequestCeiling[wf.idx]
    PROVE  PhaseOrder' /\ StatusAgreesWithPhase' /\ ActivePhaseBelowCeiling'
<1> USE DEF IInv
<1>0. wf \in Instance /\ wf.phase[wf.idx] = "active"
  BY DEF TypeOK, IsActive, CurrentPhase
<1>1. PhaseOrder'
  BY <1>0, OrderKept
<1>2. StatusAgreesWithPhase'
  BY DEF StatusAgreesWithPhase, CurrentPhase
<1>3. ActivePhaseBelowCeiling'
  BY ZenonT(60) DEF ActivePhaseBelowCeiling, TypeOK, Instance, SameCountsExcept
<1> QED
  BY <1>1, <1>2, <1>3

(* Every call of a method, and every change of the environment, keeps the  *)
(* inductive invariant.                                                    *)
LEMMA InvStep == IInv /\ [Next]_vars => IInv'
<1> SUFFICES ASSUME IInv, [Next]_vars
             PROVE  PhaseOrder' /\ StatusAgreesWithPhase' /\ ActivePhaseBelowCeiling'
  BY TypeStep DEF IInv
<1>w. wf \in Instance /\ wf.idx \in Phases /\ wf.status \in WorkflowStatus
  BY DEF IInv, TypeOK, Instance
<1>s. StatusAgreesWithPhase
  BY DEF IInv
<1> USE DEF Coherent, CurrentPhase, SameCountsExcept, PhaseStatus, WorkflowStatus
<1>1. CASE Dispatch
  <2>1. /\ wf'.phase = wf.phase /\ wf'.idx = wf.idx /\ wf'.transitions = wf.transitions
        /\ wf'.toolFailures = wf.toolFailures /\ wf'.requests = wf.requests
        /\ wf'.status = "dispatched" /\ wf.phase[wf.idx] = "pending"
    BY <1>1, <1>w DEF Dispatch, NewInstance
  <2>2. PhaseOrder' /\ ActivePhaseBelowCeiling'
    BY <2>1 DEF IInv, PhaseOrder, ActivePhaseBelowCeiling
  <2>3. StatusAgreesWithPhase'
    BY <2>1 DEF StatusAgreesWithPhase
  <2> QED BY <2>2, <2>3
<1>2. CASE DoStartPhase
  <2>1. wf' = [Mark(wf, "active") EXCEPT !.status = "in_progress"]
    BY <1>2 DEF DoStartPhase, StartPhase
  <2> QED
    BY <1>2, <2>1, MarkStatusStep DEF DoStartPhase, StartPhaseOk, MayStart
<1>3. CASE DoStartPhaseBlocked \/ DoAdvanceBlocked
  <2>1. wf' = Block(wf)
    BY <1>3 DEF DoStartPhaseBlocked, DoAdvanceBlocked
  <2>2. /\ wf'.phase = wf.phase /\ wf'.idx = wf.idx /\ wf'.transitions = wf.transitions
        /\ wf'.toolFailures = wf.toolFailures /\ wf'.requests = wf.requests
        /\ wf'.status = wf.status
    BY <1>w, <2>1 DEF Block, Instance
  <2>3. PhaseOrder' /\ ActivePhaseBelowCeiling'
    BY <2>2 DEF IInv, PhaseOrder, ActivePhaseBelowCeiling
  <2>4. StatusAgreesWithPhase'
    BY <2>2, <1>s, SMTT(60) DEF StatusAgreesWithPhase
  <2> QED BY <2>3, <2>4
<1>4. CASE DoCompletePhase \/ DoReconcileComplete
  <2>1. wf' = Mark(wf, "completed") /\ CurrentPhase(wf) # "failed"
    BY <1>4 DEF DoCompletePhase, CompletePhase, IsActive, DoReconcileComplete,
       ReconcileComplete, MayReconcileComplete
  <2>2. /\ wf'.phase = [wf.phase EXCEPT ![wf.idx] = "completed"]
        /\ wf'.status = wf.status /\ wf'.idx = wf.idx
        /\ wf'.transitions = wf.transitions
        /\ wf'.toolFailures = wf.toolFailures /\ wf'.requests = wf.requests
    BY <2>1, <1>w DEF Mark, Instance
  <2> QED
    BY <2>1, <2>2, <1>w, <1>s, MarkStep DEF StatusAgreesWithPhase
<1>5. CASE DoFailPhase \/ DoReconcileFail
  <2>1. wf' = [Mark(wf, "failed") EXCEPT !.status = "failed"]
    BY <1>5 DEF DoFailPhase, FailPhase, DoReconcileFail, ReconcileFail, MarkFailed
  <2>2. Coherent("failed", "failed")
    OBVIOUS
  <2> QED
    BY <2>1, <2>2, MarkStatusStep
<1>6. CASE DoIncrementRetryCount
  <2>1. /\ wf'.phase = wf.phase /\ wf'.status = wf.status /\ wf'.idx = wf.idx
        /\ wf'.transitions = wf.transitions
        /\ wf'.toolFailures = wf.toolFailures /\ wf'.requests = wf.requests
    BY <1>6, <1>w DEF DoIncrementRetryCount, IncrementRetryCount, Instance
  <2> QED
    BY <1>6, <2>1, CountStep DEF DoIncrementRetryCount
<1>7. CASE DoRecordToolFailure
  <2> DEFINE counted == [wf EXCEPT !.toolFailures[wf.idx] = @ + 1]
  <2>1. /\ counted \in Instance
        /\ counted.phase = wf.phase /\ counted.status = wf.status
        /\ counted.idx = wf.idx /\ counted.transitions = wf.transitions
        /\ counted.requests = wf.requests
        /\ \A p \in Phases \ {wf.idx} : counted.toolFailures[p] = wf.toolFailures[p]
    BY <1>w, CountType DEF Instance
  <2>2. wf' = IF counted.toolFailures[wf.idx] >= ToolFailureCeiling[wf.idx]
              THEN MarkFailed(counted) ELSE counted
    BY <1>7 DEF DoRecordToolFailure, RecordToolFailure
  <2>3. counted.toolFailures[wf.idx] \in Nat /\ ToolFailureCeiling[wf.idx] \in Nat
    BY <2>1, <1>w, EngineAssumption DEF Instance
  <2> HIDE DEF counted
  <2>4. CASE counted.toolFailures[wf.idx] >= ToolFailureCeiling[wf.idx]
    <3>1. wf' = [Mark(counted, "failed") EXCEPT !.status = "failed"]
      BY <2>2, <2>4 DEF MarkFailed
    <3>2. /\ wf'.phase = [wf.phase EXCEPT ![wf.idx] = "failed"]
          /\ wf'.status = "failed" /\ wf'.idx = wf.idx
          /\ wf'.transitions = wf.transitions
          /\ wf'.toolFailures = counted.toolFailures /\ wf'.requests = wf.requests
      BY <3>1, <2>1, <1>w DEF Mark, Instance
    <3> QED
      BY <3>2, <2>1, MarkStep
  <2>5. CASE ~ (counted.toolFailures[wf.idx] >= ToolFailureCeiling[wf.idx])
    <3>1. wf' = counted /\ wf'.toolFailures[wf.idx] < ToolFailureCeiling[wf.idx]
      BY <2>2, <2>3, <2>5
    <3> QED
      BY <3>1, <2>1, <1>7, CountStep DEF DoRecordToolFailure
  <2> QED
    BY <2>4, <2>5
<1>8. CASE DoRecordRequest
  <2> DEFINE counted == [wf EXCEPT !.requests[wf.idx] = @ + 1]
  <2>1. /\ counted \in Instance
        /\ counted.phase = wf.phase /\ counted.status = wf.status
        /\ counted.idx = wf.idx /\ counted.transitions = wf.transitions
        /\ counted.toolFailures = wf.toolFailures
        /\ \A p \in Phases \ {wf.idx} : counted.requests[p] = wf.requests[p]
    BY <1>w, CountType DEF Instance
  <2>2. wf' = IF counted.requests[wf.idx] >= RequestCeiling[wf.idx]
              THEN MarkFailed(counted) ELSE counted
    BY <1>8 DEF DoRecordRequest, RecordRequest
  <2>3. counted.requests[wf.idx] \in Nat /\ RequestCeiling[wf.idx] \in Nat
    BY <2>1, <1>w, EngineAssumption DEF Instance
  <2> HIDE DEF counted
  <2>4. CASE counted.requests[wf.idx] >= RequestCeiling[wf.idx]
    <3>1. wf' = [Mark(counted, "failed") EXCEPT !.status = "failed"]
      BY <2>2, <2>4 DEF MarkFailed
    <3>2. /\ wf'.phase = [wf.phase EXCEPT ![wf.idx] = "failed"]
          /\ wf'.status = "failed" /\ wf'.idx = wf.idx
          /\ wf'.transitions = wf.transitions
          /\ wf'.requests = counted.requests /\ wf'.toolFailures = wf.toolFailures
      BY <3>1, <2>1, <1>w DEF Mark, Instance
    <3> QED
      BY <3>2, <2>1, MarkStep
  <2>5. CASE ~ (counted.requests[wf.idx] >= RequestCeiling[wf.idx])
    <3>1. wf' = counted /\ wf'.requests[wf.idx] < RequestCeiling[wf.idx]
      BY <2>2, <2>3, <2>5
    <3> QED
      BY <3>1, <2>1, <1>8, CountStep DEF DoRecordRequest
  <2> QED
    BY <2>4, <2>5
<1>9. CASE DoAdvance
  <2>1. /\ wf'.phase = wf.phase /\ wf'.status = "dispatched"
        /\ wf'.idx = wf.idx + 1
        /\ wf'.transitions = Append(wf.transitions, <<wf.idx, wf.idx + 1>>)
        /\ wf'.toolFailures = wf.toolFailures /\ wf'.requests = wf.requests
    BY <1>9, <1>w DEF DoAdvance, Advance, Instance
  <2>2. wf.phase[wf.idx] = "completed" /\ wf.idx \in Nat /\ wf.idx + 1 \in Phases
    BY <1>9, <1>w, NextPhase DEF DoAdvance, IInv, TypeOK, MayLeave
  <2>3. PhaseOrder
    BY DEF IInv
  <2>4. PhaseOrder'
    <3>1. \A p \in Phases : p < wf'.idx => wf'.phase[p] = "completed"
      <4> SUFFICES ASSUME NEW p \in Phases, p < wf.idx + 1 PROVE wf.phase[p] = "completed"
        BY <2>1
      <4>1. p < wf.idx \/ p = wf.idx
        BY <2>2 DEF Phases
      <4> QED
        BY <4>1, <2>2, <2>3 DEF PhaseOrder
    <3>2. \A p \in Phases : p > wf'.idx => wf'.phase[p] = "pending"
      <4> SUFFICES ASSUME NEW p \in Phases, p > wf.idx + 1 PROVE wf.phase[p] = "pending"
        BY <2>1
      <4>1. p > wf.idx
        BY <2>2 DEF Phases
      <4> QED
        BY <4>1, <2>3 DEF PhaseOrder
    <3>3. wf.transitions \in Seq(Phases \X Phases) /\ Len(wf.transitions) = wf.idx
      BY <1>w, <2>3 DEF Instance, PhaseOrder
    <3>4. /\ Len(wf'.transitions) = wf'.idx
          /\ \A i \in 1 .. Len(wf'.transitions) : wf'.transitions[i] = <<i - 1, i>>
      BY <2>1, <2>2, <2>3, <3>3, SMTT(60) DEF PhaseOrder
    <3> QED
      BY <2>1, <2>3, <3>1, <3>2, <3>4 DEF PhaseOrder
  <2>5. CurrentPhase(wf') = "pending"
    BY <2>1, <2>2, <2>3 DEF PhaseOrder
  <2>6. StatusAgreesWithPhase'
    BY <2>1, <2>5 DEF StatusAgreesWithPhase
  <2>7. ActivePhaseBelowCeiling'
    BY <2>1 DEF ActivePhaseBelowCeiling, IInv
  <2> QED
    BY <2>4, <2>6, <2>7
<1>10. CASE DoCompleteWorkflow
  BY <1>10, <1>w DEF DoCompleteWorkflow, CompleteWorkflowOk, CompleteWorkflow, Instance,
     PhaseOrder, StatusAgreesWithPhase, ActivePhaseBelowCeiling, IInv
<1>11. CASE DoHandoffToUser
  <2>1. wf' = [Mark(wf, "awaiting_user_input") EXCEPT !.status = "awaiting_user_input"]
    BY <1>11 DEF DoHandoffToUser, HandoffToUser
  <2> QED
    BY <1>11, <2>1, MarkStatusStep DEF DoHandoffToUser, IsActive
<1>12. CASE DoBreakOut
  <2>1. wf' = [Mark(wf, "failed") EXCEPT !.status = "user_terminated"]
    BY <1>12 DEF DoBreakOut, BreakOut
  <2>2. Coherent("failed", "user_terminated")
    OBVIOUS
  <2> QED
    BY <2>1, <2>2, MarkStatusStep
<1>13. CASE DoResume
  <2>1. wf' = [Mark(wf, "active") EXCEPT !.status = "in_progress"]
    BY <1>13 DEF DoResume, Resume
  <2> QED
    BY <1>13, <2>1, MarkStatusStep DEF DoResume, ResumeOk
<1>14. CASE wf' = wf
  BY <1>14 DEF PhaseOrder, StatusAgreesWithPhase,
     ActivePhaseBelowCeiling, IInv
<1> QED
  BY <1>1, <1>2, <1>3, <1>4, <1>5, <1>6, <1>7, <1>8, <1>9, <1>10, <1>11,
     <1>12, <1>13, <1>14 DEF Next, Call, BeginAdvance, ExitGatePasses, ArtifactsFound,
     GateRefuses, Environment, vars

LEMMA Invariance == Spec => []IInv
  BY InvInit, InvStep, PTL DEF Spec

(* A workflow is at every moment a walk through its template: what lies    *)
(* before current_phase_idx is Completed, what lies after it is untouched. *)
THEOREM WalksTheTemplate == Spec => []PhaseOrder
<1>1. IInv => PhaseOrder
  BY DEF IInv
<1> QED
  BY <1>1, Invariance, PTL

(* The workflow's status and its current phase's status never disagree.    *)
THEOREM StatusesAgree == Spec => []StatusAgreesWithPhase
<1>1. IInv => StatusAgreesWithPhase
  BY DEF IInv
<1> QED
  BY <1>1, Invariance, PTL

(* A running phase has not used up its tool-failure or request budget.     *)
THEOREM BudgetsKept == Spec => []ActivePhaseBelowCeiling
<1>1. IInv => ActivePhaseBelowCeiling
  BY DEF IInv
<1> QED
  BY <1>1, Invariance, PTL

-----------------------------------------------------------------------------
(* Refinement.  What a step does to the two fields the mapping reads.      *)

LEMMA LifecycleInit == Init => Lifecycle!Init
<1> SUFFICES ASSUME Init PROVE Lifecycle!Init
  OBVIOUS
<1>1. 0 \in Phases
  BY EngineAssumption DEF Phases
<1> QED
  BY <1>1 DEF Init, NewInstance, Lifecycle!Init, PhasesFinished, Verdict, CurrentPhase

(* A marked phase and a status that belongs to the mark are a step of the  *)
(* lifecycle when the phase was not settled before.                        *)
LEMMA LifecycleMark ==
    ASSUME IInv, NEW s \in PhaseStatus \ {"pending"}, NEW t \in WorkflowStatus,
           wf'.phase = [wf.phase EXCEPT ![wf.idx] = s], wf'.status = t,
           wf'.idx = wf.idx,
           Verdict \in {"open", "failed"},
           s = "completed" => t = wf.status /\ CurrentPhase(wf) # "failed",
           s = "failed" => CurrentPhase(wf) # "completed" /\ t \in {"failed", "user_terminated"},
           s \notin {"completed", "failed"} =>
              /\ CurrentPhase(wf) \notin {"completed", "failed"}
              /\ t \notin {"completed", "failed", "user_terminated"}
    PROVE  Lifecycle!Next \/ UNCHANGED Lifecycle!vars
<1>1. wf.idx \in Nat /\ wf.idx < NPhases /\ NPhases \in Nat
  BY EngineAssumption DEF IInv, TypeOK, Instance, Phases
<1>2. CurrentPhase(wf') = s
  BY DEF IInv, TypeOK, Instance, CurrentPhase
<1>3. CurrentPhase(wf) = "failed" <=> wf.status \in {"failed", "user_terminated"}
  BY DEF IInv, StatusAgreesWithPhase
<1>4. wf.status # "completed"
  BY DEF Verdict
<1>5. CASE s = "completed"
  <2>1. PhasesFinished' = wf.idx + 1 /\ Verdict' = "open" /\ Verdict = "open"
    BY <1>2, <1>3, <1>4, <1>5 DEF PhasesFinished, Verdict
  <2>2. PhasesFinished = wf.idx + 1 \/ PhasesFinished = wf.idx
    BY <1>1 DEF PhasesFinished
  <2> QED
    BY <1>1, <2>1, <2>2 DEF Lifecycle!Next, Lifecycle!Finish, Lifecycle!vars
<1>6. CASE s = "failed"
  <2>1. PhasesFinished' = wf.idx /\ PhasesFinished = wf.idx /\ Verdict' = "failed"
    BY <1>1, <1>2, <1>6 DEF PhasesFinished, Verdict
  <2> QED
    BY <1>1, <2>1 DEF Lifecycle!Next, Lifecycle!Fail, Lifecycle!vars
<1>7. CASE s \notin {"completed", "failed"}
  <2>1. PhasesFinished' = wf.idx /\ PhasesFinished = wf.idx
    BY <1>1, <1>2, <1>7 DEF PhasesFinished
  <2>2. Verdict' = "open" /\ Verdict = "open"
    BY <1>3, <1>4, <1>7 DEF Verdict
  <2> QED
    BY <2>1, <2>2 DEF Lifecycle!vars
<1> QED
  BY <1>5, <1>6, <1>7

(* A method that leaves phases, status and index alone is invisible.       *)
LEMMA LifecycleStutter ==
    ASSUME wf'.phase = wf.phase, wf'.idx = wf.idx,
           wf'.status = wf.status
              \/ {wf'.status, wf.status} \subseteq {"pending", "dispatched", "in_progress"}
    PROVE  UNCHANGED Lifecycle!vars
  BY DEF Lifecycle!vars, PhasesFinished, Verdict, CurrentPhase

(* Every method is a step of the abstract lifecycle or invisible to it.    *)
LEMMA LifecycleStep == IInv /\ [Next]_vars => [Lifecycle!Next]_Lifecycle!vars
<1> SUFFICES ASSUME IInv, [Next]_vars
             PROVE  Lifecycle!Next \/ UNCHANGED Lifecycle!vars
  OBVIOUS
<1>w. wf \in Instance /\ wf.idx \in Phases /\ wf.status \in WorkflowStatus
  BY DEF IInv, TypeOK, Instance
<1>s. StatusAgreesWithPhase
  BY DEF IInv
<1>v. CurrentPhase(wf) # "completed" \/ wf.status # "completed" => Verdict \in {"open", "failed"}
  BY <1>s DEF StatusAgreesWithPhase, Verdict
<1> USE DEF PhaseStatus, WorkflowStatus
<1>1. CASE Dispatch
  BY <1>1, <1>w, LifecycleStutter DEF Dispatch, NewInstance, Instance
<1>2. CASE DoStartPhase
  <2>1. wf' = [Mark(wf, "active") EXCEPT !.status = "in_progress"] /\ CurrentPhase(wf) = "pending"
    BY <1>2 DEF DoStartPhase, StartPhase, StartPhaseOk, MayStart
  <2>2. /\ wf'.phase = [wf.phase EXCEPT ![wf.idx] = "active"]
        /\ wf'.status = "in_progress" /\ wf'.idx = wf.idx
    BY <2>1, <1>w DEF Mark, Instance
  <2> QED
    BY <2>1, <2>2, <1>v, LifecycleMark
<1>3. CASE DoStartPhaseBlocked \/ DoAdvanceBlocked
  BY <1>3, <1>w, LifecycleStutter DEF DoStartPhaseBlocked, DoAdvanceBlocked, Block, Instance
<1>4. CASE DoCompletePhase \/ DoReconcileComplete
  <2>1. wf' = Mark(wf, "completed") /\ CurrentPhase(wf) # "failed"
    BY <1>4 DEF DoCompletePhase, CompletePhase, IsActive, DoReconcileComplete,
       ReconcileComplete, MayReconcileComplete
  <2>2. /\ wf'.phase = [wf.phase EXCEPT ![wf.idx] = "completed"]
        /\ wf'.status = wf.status /\ wf'.idx = wf.idx
    BY <2>1, <1>w DEF Mark, Instance
  <2>3. CASE CurrentPhase(wf) = "completed"
    <3>1. wf'.phase = wf.phase
      BY <2>2, <2>3, <1>w DEF CurrentPhase, Instance
    <3> QED
      BY <3>1, <2>2, LifecycleStutter
  <2>4. CASE CurrentPhase(wf) # "completed"
    BY <2>1, <2>2, <2>4, <1>v, <1>w, LifecycleMark
  <2> QED
    BY <2>3, <2>4
<1>5. CASE DoFailPhase \/ DoReconcileFail
  <2>1. /\ wf' = [Mark(wf, "failed") EXCEPT !.status = "failed"]
        /\ CurrentPhase(wf) # "completed"
    BY <1>5 DEF DoFailPhase, FailPhase, IsActive, DoReconcileFail, ReconcileFail,
       MayReconcileFail, MarkFailed
  <2>2. /\ wf'.phase = [wf.phase EXCEPT ![wf.idx] = "failed"]
        /\ wf'.status = "failed" /\ wf'.idx = wf.idx
    BY <2>1, <1>w DEF Mark, Instance
  <2> QED
    BY <2>1, <2>2, <1>v, LifecycleMark
<1>6. CASE DoIncrementRetryCount
  BY <1>6, <1>w, LifecycleStutter DEF DoIncrementRetryCount, IncrementRetryCount, Instance
<1>7. CASE DoRecordToolFailure \/ DoRecordRequest
  <2>1. CurrentPhase(wf) = "active"
    BY <1>7 DEF DoRecordToolFailure, DoRecordRequest, IsActive
  <2>2. PICK counted \in {[wf EXCEPT !.toolFailures[wf.idx] = @ + 1],
                          [wf EXCEPT !.requests[wf.idx] = @ + 1]} :
           wf' = counted \/ wf' = MarkFailed(counted)
    BY <1>7 DEF DoRecordToolFailure, RecordToolFailure, DoRecordRequest, RecordRequest
  <2>c. /\ counted.phase = wf.phase /\ counted.status = wf.status
        /\ counted.idx = wf.idx /\ DOMAIN counted = DOMAIN wf
    BY <1>w DEF Instance
  <2>m. /\ MarkFailed(counted).phase = [wf.phase EXCEPT ![wf.idx] = "failed"]
        /\ MarkFailed(counted).status = "failed"
        /\ MarkFailed(counted).idx = wf.idx
    BY <2>c, <1>w DEF MarkFailed, Mark, Instance
  <2>3. \/ /\ wf'.phase = wf.phase /\ wf'.status = wf.status /\ wf'.idx = wf.idx
        \/ /\ wf'.phase = [wf.phase EXCEPT ![wf.idx] = "failed"]
           /\ wf'.status = "failed" /\ wf'.idx = wf.idx
    BY <2>2, <2>c, <2>m
  <2>4. CASE wf'.phase = wf.phase /\ wf'.status = wf.status /\ wf'.idx = wf.idx
    BY <2>4, LifecycleStutter
  <2>5. CASE /\ wf'.phase = [wf.phase EXCEPT ![wf.idx] = "failed"]
             /\ wf'.status = "failed" /\ wf'.idx = wf.idx
    BY <2>1, <2>5, <1>v, LifecycleMark
  <2> QED
    BY <2>3, <2>4, <2>5
<1>8. CASE DoAdvance
  <2>1. /\ wf'.phase = wf.phase /\ wf'.status = "dispatched" /\ wf'.idx = wf.idx + 1
    BY <1>8, <1>w DEF DoAdvance, Advance, Instance
  <2>n. wf.phase[wf.idx] = "completed" /\ ~ AtFinalPhase(wf)
    BY <1>8 DEF DoAdvance, IInv, TypeOK, MayLeave, CurrentPhase
  <2>2. /\ wf.phase[wf.idx] = "completed" /\ wf.idx \in Nat /\ wf.idx + 1 \in Phases
        /\ wf.idx # LastPhase
    <3>1. wf.idx \in Nat /\ wf.idx + 1 \in Phases
      BY <2>n, <1>w, NextPhase
    <3>2. LastPhase \in Int
      BY EngineAssumption DEF LastPhase
    <3> QED
      BY <2>n, <3>1, <3>2 DEF AtFinalPhase
  <2>3. wf.phase[wf.idx + 1] = "pending"
    BY <2>2 DEF IInv, PhaseOrder
  <2>4. PhasesFinished' = wf.idx + 1 /\ PhasesFinished = wf.idx + 1
    BY <2>1, <2>2, <2>3 DEF PhasesFinished, CurrentPhase
  <2>5. Verdict' = "open" /\ Verdict = "open"
    BY <2>1, <2>2, <1>s DEF Verdict, StatusAgreesWithPhase, CurrentPhase
  <2> QED
    BY <2>4, <2>5 DEF Lifecycle!vars
<1>9. CASE DoCompleteWorkflow
  <2>1. /\ wf'.phase = wf.phase /\ wf'.status = "completed" /\ wf'.idx = wf.idx
        /\ CurrentPhase(wf) = "completed" /\ wf.idx = LastPhase
    BY <1>9, <1>w DEF DoCompleteWorkflow, CompleteWorkflowOk, CompleteWorkflow, Instance
  <2>2. PhasesFinished = NPhases /\ PhasesFinished' = NPhases
    BY <2>1, EngineAssumption DEF PhasesFinished, CurrentPhase, LastPhase
  <2>3. Verdict' = "completed" /\ Verdict \in {"open", "completed"}
    BY <2>1, <1>s DEF Verdict, StatusAgreesWithPhase
  <2> QED
    BY <2>2, <2>3 DEF Lifecycle!Next, Lifecycle!Succeed, Lifecycle!vars
<1>10. CASE DoHandoffToUser
  <2>1. /\ wf' = [Mark(wf, "awaiting_user_input") EXCEPT !.status = "awaiting_user_input"]
        /\ CurrentPhase(wf) = "active"
    BY <1>10 DEF DoHandoffToUser, HandoffToUser, IsActive
  <2>2. /\ wf'.phase = [wf.phase EXCEPT ![wf.idx] = "awaiting_user_input"]
        /\ wf'.status = "awaiting_user_input" /\ wf'.idx = wf.idx
    BY <2>1, <1>w DEF Mark, Instance
  <2> QED
    BY <2>1, <2>2, <1>v, LifecycleMark
<1>11. CASE DoBreakOut
  <2>1. /\ wf' = [Mark(wf, "failed") EXCEPT !.status = "user_terminated"]
        /\ CurrentPhase(wf) = "active"
    BY <1>11 DEF DoBreakOut, BreakOut, IsActive
  <2>2. /\ wf'.phase = [wf.phase EXCEPT ![wf.idx] = "failed"]
        /\ wf'.status = "user_terminated" /\ wf'.idx = wf.idx
    BY <2>1, <1>w DEF Mark, Instance
  <2> QED
    BY <2>1, <2>2, <1>v, LifecycleMark
<1>12. CASE DoResume
  <2>1. /\ wf' = [Mark(wf, "active") EXCEPT !.status = "in_progress"]
        /\ CurrentPhase(wf) = "awaiting_user_input"
    BY <1>12 DEF DoResume, Resume, ResumeOk
  <2>2. /\ wf'.phase = [wf.phase EXCEPT ![wf.idx] = "active"]
        /\ wf'.status = "in_progress" /\ wf'.idx = wf.idx
    BY <2>1, <1>w DEF Mark, Instance
  <2> QED
    BY <2>1, <2>2, <1>v, LifecycleMark
<1>13. CASE wf' = wf
  BY <1>13, LifecycleStutter
<1> QED
  BY <1>1, <1>2, <1>3, <1>4, <1>5, <1>6, <1>7, <1>8, <1>9, <1>10, <1>11,
     <1>12, <1>13 DEF Next, Call, BeginAdvance, ExitGatePasses, ArtifactsFound,
     GateRefuses, Environment, vars

(* The engine implements the abstract lifecycle for every template.        *)
THEOREM ImplementsLifecycle == Spec => RefinesLifecycle
<1>1. Init => Lifecycle!Init
  BY LifecycleInit
<1>2. IInv /\ [Next]_vars => [Lifecycle!Next]_Lifecycle!vars
  BY LifecycleStep
<1> QED
  BY <1>1, <1>2, Invariance, PTL DEF Spec, RefinesLifecycle, Lifecycle!Spec

-----------------------------------------------------------------------------
(* What a single call may not do.                                          *)

\* A phase keeps its status and its counts.
Untouched(p) ==
    /\ wf'.phase[p] = wf.phase[p]
    /\ wf'.toolFailures[p] = wf.toolFailures[p]
    /\ wf'.requests[p] = wf.requests[p]
    /\ wf'.retries[p] = wf.retries[p]

SettledNow == CurrentPhase(wf) \in {"completed", "failed"}

\* A call at the current phase, which changes nothing once that has settled.
LocalCall ==
    /\ wf'.idx = wf.idx
    /\ \A p \in Phases : p # wf.idx \/ SettledNow => Untouched(p)

\* A mark is local to the current phase, whatever status goes with it.
LEMMA MarkIsLocal ==
    ASSUME TypeOK, NEW s \in PhaseStatus, NEW t \in WorkflowStatus,
           wf' = Mark(wf, s) \/ wf' = [Mark(wf, s) EXCEPT !.status = t],
           SettledNow => CurrentPhase(wf) = s
    PROVE  LocalCall
<1>1. /\ wf'.idx = wf.idx /\ wf'.phase = [wf.phase EXCEPT ![wf.idx] = s]
      /\ wf'.toolFailures = wf.toolFailures /\ wf'.requests = wf.requests
      /\ wf'.retries = wf.retries
  BY DEF Mark, TypeOK, Instance
<1>2. \A p \in Phases : wf'.phase[p] = IF p = wf.idx THEN s ELSE wf.phase[p]
  BY <1>1 DEF TypeOK, Instance
<1> QED
  BY <1>1, <1>2 DEF LocalCall, Untouched, CurrentPhase

\* So are the counters, with or without the failure at the ceiling.
LEMMA CountIsLocal ==
    ASSUME TypeOK, ~ SettledNow,
           DoIncrementRetryCount \/ DoRecordToolFailure \/ DoRecordRequest
    PROVE  LocalCall
<1>w. wf \in Instance /\ wf.idx \in Phases
  BY DEF TypeOK, Instance
<1> DEFINE Counts(w) ==
      /\ w.idx = wf.idx
      /\ \A p \in Phases \ {wf.idx} :
            /\ w.phase[p] = wf.phase[p]
            /\ w.toolFailures[p] = wf.toolFailures[p]
            /\ w.requests[p] = wf.requests[p]
            /\ w.retries[p] = wf.retries[p]
<1>1. ASSUME NEW w \in Instance, Counts(w)
      PROVE  Counts(MarkFailed(w))
  <2>1. /\ MarkFailed(w).idx = w.idx
        /\ MarkFailed(w).phase = [w.phase EXCEPT ![w.idx] = "failed"]
        /\ MarkFailed(w).toolFailures = w.toolFailures
        /\ MarkFailed(w).requests = w.requests /\ MarkFailed(w).retries = w.retries
    BY DEF MarkFailed, Mark, Instance
  <2>2. \A p \in Phases \ {wf.idx} : MarkFailed(w).phase[p] = w.phase[p]
    BY <2>1, <1>1 DEF Instance
  <2> QED
    BY <2>1, <2>2, <1>1
<1>2. CASE DoIncrementRetryCount
  <2>1. Counts(IncrementRetryCount(wf))
    BY <1>w DEF IncrementRetryCount, Instance
  <2> QED
    BY <1>2, <2>1 DEF DoIncrementRetryCount, LocalCall, Untouched
<1>3. CASE DoRecordToolFailure
  <2> DEFINE w == [wf EXCEPT !.toolFailures[wf.idx] = @ + 1]
  <2>1. w \in Instance /\ Counts(w)
    BY <1>w, CountType DEF Instance
  <2>2. wf' = w \/ wf' = MarkFailed(w)
    BY <1>3 DEF DoRecordToolFailure, RecordToolFailure
  <2> HIDE DEF w
  <2>3. Counts(wf')
    BY <2>1, <2>2, <1>1
  <2> QED
    BY <2>3 DEF LocalCall, Untouched
<1>4. CASE DoRecordRequest
  <2> DEFINE w == [wf EXCEPT !.requests[wf.idx] = @ + 1]
  <2>1. w \in Instance /\ Counts(w)
    BY <1>w, CountType DEF Instance
  <2>2. wf' = w \/ wf' = MarkFailed(w)
    BY <1>4 DEF DoRecordRequest, RecordRequest
  <2> HIDE DEF w
  <2>3. Counts(wf')
    BY <2>1, <2>2, <1>1
  <2> QED
    BY <2>3 DEF LocalCall, Untouched
<1> QED
  BY <1>2, <1>3, <1>4

LEMMA CallsAreLocal ==
    ASSUME TypeOK, [Next]_vars, ~ DoAdvance
    PROVE  LocalCall
<1>w. wf \in Instance
  BY DEF TypeOK
<1> USE DEF PhaseStatus, WorkflowStatus
<1>1. CASE wf'.idx = wf.idx /\ \A p \in Phases : Untouched(p)
  BY <1>1 DEF LocalCall
<1>2. CASE \E s \in PhaseStatus, t \in WorkflowStatus :
              /\ wf' = Mark(wf, s) \/ wf' = [Mark(wf, s) EXCEPT !.status = t]
              /\ SettledNow => CurrentPhase(wf) = s
  BY <1>2, MarkIsLocal
<1>3. CASE Dispatch \/ DoStartPhaseBlocked \/ DoAdvanceBlocked \/ DoCompleteWorkflow
  <2>1. /\ wf'.idx = wf.idx /\ wf'.phase = wf.phase /\ wf'.toolFailures = wf.toolFailures
        /\ wf'.requests = wf.requests /\ wf'.retries = wf.retries
    BY <1>3, <1>w DEF Dispatch, DoStartPhaseBlocked, DoAdvanceBlocked, Block,
       DoCompleteWorkflow, CompleteWorkflow, Instance
  <2> QED
    BY <2>1, <1>1 DEF Untouched
<1>4. CASE DoStartPhase
  BY <1>4, <1>2 DEF DoStartPhase, StartPhase, StartPhaseOk, MayStart, SettledNow
<1>5. CASE DoCompletePhase \/ DoReconcileComplete
  BY <1>5, <1>2 DEF DoCompletePhase, CompletePhase, IsActive, DoReconcileComplete,
     ReconcileComplete, MayReconcileComplete, SettledNow
<1>6. CASE DoFailPhase \/ DoReconcileFail
  BY <1>6, <1>2 DEF DoFailPhase, FailPhase, IsActive, DoReconcileFail,
     ReconcileFail, MayReconcileFail, MarkFailed, SettledNow
<1>7. CASE DoHandoffToUser \/ DoBreakOut \/ DoResume
  BY <1>7, <1>2 DEF DoHandoffToUser, HandoffToUser, DoBreakOut, BreakOut, IsActive,
     DoResume, Resume, ResumeOk, SettledNow
<1>8. CASE DoIncrementRetryCount \/ DoRecordToolFailure \/ DoRecordRequest
  BY <1>8, CountIsLocal DEF DoIncrementRetryCount, DoRecordToolFailure, DoRecordRequest,
     IsActive, SettledNow
<1>9. CASE wf' = wf
  BY <1>9, <1>1 DEF Untouched
<1> QED
  BY <1>3, <1>4, <1>5, <1>6, <1>7, <1>8, <1>9 DEF Next, Call, BeginAdvance, ExitGatePasses,
     ArtifactsFound, GateRefuses, Environment, vars

LEMMA AdvanceMoves ==
    ASSUME TypeOK, DoAdvance
    PROVE  wf'.idx = wf.idx + 1 /\ wf.idx \in Nat /\ \A p \in Phases : Untouched(p)
<1>1. wf.idx \in Nat
  BY NextPhase DEF DoAdvance, MayLeave, TypeOK
<1>2. /\ wf'.idx = wf.idx + 1 /\ wf'.phase = wf.phase
      /\ wf'.toolFailures = wf.toolFailures
      /\ wf'.requests = wf.requests /\ wf'.retries = wf.retries
  BY DEF DoAdvance, Advance, TypeOK, Instance
<1> QED
  BY <1>1, <1>2 DEF Untouched, DoAdvance

(* No call, late reports and reconciliation included, changes the status   *)
(* or the counts of a phase that has completed or failed, or takes the     *)
(* workflow back to an earlier phase.                                      *)
THEOREM SettledStay == Spec => SettledPhasesStay
<1>1. TypeOK /\ [Next]_vars =>
        [/\ wf'.idx >= wf.idx
         /\ \A p \in Phases : wf.phase[p] \in {"completed", "failed"} =>
               /\ wf'.phase[p] = wf.phase[p]
               /\ wf'.toolFailures[p] = wf.toolFailures[p]
               /\ wf'.requests[p] = wf.requests[p]
               /\ wf'.retries[p] = wf.retries[p]]_wf
  <2> SUFFICES ASSUME TypeOK, [Next]_vars
               PROVE  /\ wf'.idx >= wf.idx
                      /\ \A p \in Phases : wf.phase[p] \in {"completed", "failed"} => Untouched(p)
    BY DEF Untouched
  <2>i. wf.idx \in Int
    BY EngineAssumption DEF TypeOK, Instance, Phases
  <2>1. CASE DoAdvance
    BY <2>1, AdvanceMoves
  <2>2. CASE ~ DoAdvance
    BY <2>2, <2>i, CallsAreLocal DEF LocalCall, SettledNow, CurrentPhase
  <2> QED
    BY <2>1, <2>2
<1> QED
  BY <1>1, TypeCorrect, PTL DEF Spec, SettledPhasesStay
=============================================================================
