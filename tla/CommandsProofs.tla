--------------------------- MODULE CommandsProofs ---------------------------
(***************************************************************************)
(* Proofs about Commands for every template, every set of processes and    *)
(* commands, and every interleaving of their steps, sweeps and crashes.    *)
(***************************************************************************)
EXTENDS Commands, TLAPS

(* The engine's updates keep a private copy a copy.                        *)
LEMMA CopyMark ==
    ASSUME NEW w \in Copy, NEW s \in PhaseStatus, NEW t \in WorkflowStatus
    PROVE  /\ Mark(w, s) \in Copy
           /\ [w EXCEPT !.status = t] \in Copy
           /\ [Mark(w, s) EXCEPT !.status = t] \in Copy
           /\ Mark(w, s).phase = [w.phase EXCEPT ![w.idx] = s]
           /\ [Mark(w, s) EXCEPT !.status = t].phase = [w.phase EXCEPT ![w.idx] = s]
           /\ Mark(w, s).idx = w.idx
           /\ [Mark(w, s) EXCEPT !.status = t].idx = w.idx
  BY DEF Mark, Copy

LEMMA CopyAdvance ==
    ASSUME NEW w \in Copy, ~ AtFinalPhase(w)
    PROVE  /\ Advance(w) \in Copy
           /\ Advance(w).phase = w.phase
           /\ Advance(w).idx = w.idx + 1
<1>1. w.idx \in 0 .. NPhases - 1 /\ NPhases \in Nat
  BY EngineAssumption DEF Copy, Phases
<1>2. ~ (w.idx >= NPhases - 1)
  BY DEF AtFinalPhase, LastPhase
<1>3. w.idx + 1 \in 0 .. NPhases - 1
  BY <1>1, <1>2
<1>4. w.idx \in Phases /\ w.idx + 1 \in Phases
  BY <1>1, <1>3 DEF Phases
<1>5. Append(w.transitions, <<w.idx, w.idx + 1>>) \in Seq(Phases \X Phases)
  BY <1>4 DEF Copy
<1> QED
  BY <1>4, <1>5 DEF Advance, Copy, WorkflowStatus

(* What reconcile_phases may conclude from a task: the copy gains at most  *)
(* the current phase, and only from a completed task; it moves at most one *)
(* phase on, and only with the evidence of the gates in between.           *)
Concludes(w, t, r) ==
    /\ r \in Copy
    /\ \A q \in Phases : r.phase[q] = "completed" =>
          w.phase[q] = "completed" \/ (q = w.idx /\ t.status = "completed")
    /\ \/ r.idx = w.idx
       \/ r.idx = w.idx + 1 /\ t.status = "completed" /\ Left(w.idx) \subseteq t.evidence

LEMMA ReconciledConcludes ==
    ASSUME NEW w \in Copy, NEW t \in Task, NEW present \in SUBSET Artifacts
    PROVE  Concludes(w, t, Reconciled(w, t, present))
<1> DEFINE r == Reconciled(w, t, present)
           done == ReconcileComplete(w)
<1> USE DEF WorkflowStatus, PhaseStatus
<1>1. CASE r = w
  BY <1>1 DEF Concludes
<1>2. CASE t.status = "cancelled" /\ r = ReconcileFail(w)
  <2>1. r = [Mark(w, "failed") EXCEPT !.status = "failed"]
    BY <1>2, SMTT(60) DEF ReconcileFail, MarkFailed
  <2> DEFINE failed == [Mark(w, "failed") EXCEPT !.status = "failed"]
  <2>m. /\ failed \in Copy /\ failed.idx = w.idx
        /\ failed.phase = [w.phase EXCEPT ![w.idx] = "failed"]
    BY CopyMark, ZenonT(60)
  <2> HIDE DEF failed
  <2>2. /\ r \in Copy /\ r.idx = w.idx
        /\ r.phase = [w.phase EXCEPT ![w.idx] = "failed"]
    BY <2>1, <2>m DEF failed
  <2>3. \A q \in Phases : r.phase[q] = "completed" => w.phase[q] = "completed"
    BY <2>2 DEF Copy
  <2> QED
    BY <2>2, <2>3 DEF Concludes
<1>d. /\ done \in Copy /\ done.idx = w.idx
      /\ done.phase = [w.phase EXCEPT ![w.idx] = "completed"]
      /\ \A q \in Phases : done.phase[q] = "completed" => w.phase[q] = "completed" \/ q = w.idx
  <2>1. /\ done \in Copy /\ done.idx = w.idx
        /\ done.phase = [w.phase EXCEPT ![w.idx] = "completed"]
    BY CopyMark DEF ReconcileComplete
  <2> QED
    BY <2>1 DEF Copy
<1> HIDE DEF done
<1>3. CASE t.status = "completed" /\ r = [done EXCEPT !.status = "completed"]
  <2>1. r \in Copy /\ r.idx = w.idx /\ r.phase = done.phase
    BY <1>3, <1>d DEF Copy
  <2> QED
    BY <1>3, <1>d, <2>1 DEF Concludes
<1>4. CASE t.status = "completed" /\ r = done
  BY <1>4, <1>d DEF Concludes
<1>5. CASE t.status = "completed" /\ AdvanceOk(done, t.evidence, present) /\ r = Advance(done)
  <2>1. r \in Copy /\ r.phase = done.phase /\ r.idx = w.idx + 1
    BY <1>5, <1>d, CopyAdvance DEF AdvanceOk, MayLeave
  <2>2. Left(w.idx) \subseteq t.evidence
    BY <1>5, <1>d DEF AdvanceOk, MayLeave, MayEnter, CanAdvance, Left
  <2> QED
    BY <1>5, <1>d, <2>1, <2>2 DEF Concludes
<1>6. \/ r = w
      \/ t.status = "cancelled" /\ r = ReconcileFail(w)
      \/ t.status = "completed" /\ r = [done EXCEPT !.status = "completed"]
      \/ t.status = "completed" /\ r = done
      \/ t.status = "completed" /\ AdvanceOk(done, t.evidence, present) /\ r = Advance(done)
  BY DEF Reconciled, CompleteWorkflow, done
<1> QED
  BY <1>1, <1>2, <1>3, <1>4, <1>5, <1>6

-----------------------------------------------------------------------------
(* Types.                                                                  *)

LEMMA IdleType == IdleProc \in Proc /\ IdleProc.copy = NoCopy /\ IdleProc.pc = "idle"
  BY DEF IdleProc, Proc

LEMMA TypeInit == Init => TypeOK
<1> SUFFICES ASSUME Init PROVE TypeOK
  OBVIOUS
<1>1. PICK i \in Phases, pair \in StoredPair :
        /\ \A q \in Phases : q < i => Left(q) \subseteq Evidenced
        /\ row = [status |-> pair[2], idx |-> i]
        /\ ph = [q \in Phases |-> IF q < i THEN "completed"
                                  ELSE IF q = i THEN pair[1] ELSE "pending"]
        /\ task = [q \in Phases |->
                     [status   |-> IF ph[q] = "completed" THEN "completed" ELSE "open",
                      stop     |-> FALSE,
                      evidence |-> IF q < i THEN Left(q) ELSE {}]]
        /\ outcome = NoOutcome
        /\ proc = [p \in Procs |-> IdleProc]
  BY DEF Init
<1>2. row \in Row
  BY <1>1 DEF Row, StoredPair, WorkflowStatus
<1>3. ph \in [Phases -> PhaseStatus]
  BY <1>1 DEF StoredPair, PhaseStatus
<1>4. task \in [Phases -> Task]
  BY <1>1 DEF Task
<1>5. outcome \in Outcome
  BY <1>1 DEF Outcome, NoOutcome, RouteStepStatus
<1>6. /\ proc \in [Procs -> Proc]
      /\ \A p \in Procs : proc[p].copy = NoCopy <=> proc[p].pc \in {"idle", "open"}
  BY <1>1, IdleType
<1> QED
  BY <1>2, <1>3, <1>4, <1>5, <1>6 DEF TypeOK

(* A process that moves to a state of its type keeps the process table.    *)
ProcsOk(f) ==
    /\ f \in [Procs -> Proc]
    /\ \A p \in Procs : f[p].copy = NoCopy <=> f[p].pc \in {"idle", "open"}

LEMMA ProcMove ==
    ASSUME TypeOK, NEW p \in Procs, NEW x \in Proc,
           x.copy = NoCopy <=> x.pc \in {"idle", "open"},
           proc' = [proc EXCEPT ![p] = x]
    PROVE  ProcsOk(proc')
  BY DEF TypeOK, ProcsOk

LEMMA ProcIdle ==
    ASSUME TypeOK, NEW p \in Procs, proc' = [proc EXCEPT ![p] = IdleProc]
    PROVE  ProcsOk(proc')
  BY IdleType, ProcMove

LEMMA BuildType ==
    ASSUME NEW s, NEW f
    PROVE  BuildOutcome(s, f) \in Outcome
<1>1. \A q \in Phases : RouteStep(f[q]) \in RouteStepStatus
  BY DEF RouteStep, RouteStepStatus
<1> QED
  BY <1>1 DEF BuildOutcome, Outcome

\* A process past its first read holds a copy.
LEMMA Holds ==
    ASSUME TypeOK, NEW p \in Procs, proc[p].pc \in {"row", "loaded", "decided"}
    PROVE  proc[p].copy \in Copy /\ proc[p] \in Proc
  BY DEF TypeOK, Proc

LEMMA TypeStep == TypeOK /\ [Next]_vars => TypeOK'
<1> SUFFICES ASSUME TypeOK, [Next]_vars PROVE TypeOK'
  OBVIOUS
<1> USE DEF TypeOK, store
<1>1. ASSUME NEW q \in Phases, AgentFinishes(q) PROVE TypeOK'
  <2>1. PICK s \in {"completed", "cancelled", "failed"}, stop \in BOOLEAN :
          task' = [task EXCEPT ![q].status = s, ![q].stop = stop]
    BY <1>1 DEF AgentFinishes
  <2> DEFINE t == [[task[q] EXCEPT !.status = s] EXCEPT !.stop = stop]
  <2>2. t \in Task /\ task' = [task EXCEPT ![q] = t]
    BY <2>1 DEF Task
  <2> HIDE DEF t
  <2>3. task' \in [Phases -> Task]
    BY <2>2
  <2> QED
    BY <1>1, <2>3 DEF AgentFinishes
<1>2. ASSUME NEW q \in Phases, AgentShows(q) PROVE TypeOK'
  BY <1>2 DEF AgentShows, Task
<1>3. ASSUME NEW p \in Procs, Begin(p) PROVE TypeOK'
  <2>1. PICK c \in CommandSet :
          proc' = [proc EXCEPT ![p] = [IdleProc EXCEPT !.pc = "open", !.cmd = c]]
    BY <1>3 DEF Begin
  <2>2. ProcsOk(proc')
    BY <2>1, ProcMove, CommandsAssumption DEF IdleProc, Proc
  <2> QED
    BY <1>3, <2>2 DEF Begin, ProcsOk
<1>4. ASSUME NEW p \in Procs, SweepQuery(p) PROVE TypeOK'
  <2>1. PICK found \in SUBSET Phases : proc' = [proc EXCEPT ![p].orphans = found]
    BY <1>4 DEF SweepQuery
  <2> DEFINE x == [proc[p] EXCEPT !.orphans = found]
  <2>2. /\ x \in Proc /\ x.copy = proc[p].copy /\ x.pc = proc[p].pc
        /\ proc' = [proc EXCEPT ![p] = x]
    BY <2>1 DEF Proc
  <2> HIDE DEF x
  <2>3. ProcsOk(proc')
    BY <2>2, ProcMove
  <2> QED
    BY <1>4, <2>3 DEF SweepQuery, ProcsOk
<1>5. ASSUME NEW p \in Procs, SweepFail(p) PROVE TypeOK'
  <2>1. PICK q \in Phases :
          /\ ph' = IF ph[q] = "active" THEN [ph EXCEPT ![q] = "failed"] ELSE ph
          /\ proc' = [proc EXCEPT ![p].orphans = @ \ {q}]
    BY <1>5 DEF SweepFail, Proc
  <2> DEFINE x == [proc[p] EXCEPT !.orphans = @ \ {q}]
  <2>2. /\ x \in Proc /\ x.copy = proc[p].copy /\ x.pc = proc[p].pc
        /\ proc' = [proc EXCEPT ![p] = x]
    BY <2>1 DEF Proc
  <2> HIDE DEF x
  <2>3. ProcsOk(proc')
    BY <2>2, ProcMove
  <2>4. ph' \in [Phases -> PhaseStatus]
    BY <2>1 DEF PhaseStatus
  <2>5. row' \in Row /\ UNCHANGED <<outcome, task>>
    BY <1>5 DEF SweepFail, Row, WorkflowStatus
  <2> QED
    BY <2>3, <2>4, <2>5 DEF ProcsOk
<1>6. ASSUME NEW p \in Procs, LoadRow(p) PROVE TypeOK'
  <2> DEFINE w == [status |-> row.status, idx |-> row.idx,
                   phase |-> NoPhases, transitions |-> <<>>]
             x == [proc[p] EXCEPT !.pc = "row", !.copy = w]
  <2>1. w \in Copy
    BY DEF Copy, NoPhases, Row, PhaseStatus
  <2>2. w # NoCopy
    BY <2>1, CommandsAssumption
  <2> HIDE DEF w
  <2>3. x \in Proc /\ x.copy = w /\ x.pc = "row"
    BY <2>1, ZenonT(60) DEF Proc
  <2>4. proc' = [proc EXCEPT ![p] = x]
    BY <1>6 DEF LoadRow, w
  <2> HIDE DEF x
  <2>5. ProcsOk(proc')
    BY <2>2, <2>3, <2>4, ProcMove
  <2> QED
    BY <1>6, <2>5 DEF LoadRow, ProcsOk
<1>7. ASSUME NEW p \in Procs, LoadPhases(p) PROVE TypeOK'
  <2> DEFINE w == [proc[p].copy EXCEPT !.phase = ph]
             x == [proc[p] EXCEPT !.pc = "loaded", !.copy = w]
  <2>1. w \in Copy
    BY <1>7, Holds DEF LoadPhases, At, Copy
  <2>2. w # NoCopy
    BY <2>1, CommandsAssumption
  <2>4. proc' = [proc EXCEPT ![p] = x]
    BY <1>7, ZenonT(60) DEF LoadPhases, Proc
  <2> HIDE DEF w
  <2>3. x \in Proc /\ x.copy = w /\ x.pc = "loaded"
    BY <2>1, ZenonT(60) DEF Proc
  <2> HIDE DEF x
  <2>5. ProcsOk(proc')
    BY <2>2, <2>3, <2>4, ProcMove
  <2> QED
    BY <1>7, <2>5 DEF LoadPhases, ProcsOk
<1>8. ASSUME NEW p \in Procs, AskCanopy(p) PROVE TypeOK'
  <2>1. PICK present \in SUBSET Artifacts :
          proc' = [proc EXCEPT ![p].pc = "decided",
                               ![p].copy = Reconciled(proc[p].copy, task[proc[p].copy.idx], present)]
    BY <1>8 DEF AskCanopy
  <2> DEFINE w == Reconciled(proc[p].copy, task[proc[p].copy.idx], present)
             x == [proc[p] EXCEPT !.pc = "decided", !.copy = w]
  <2>2. proc[p].copy \in Copy /\ task[proc[p].copy.idx] \in Task
    BY <1>8, Holds DEF AskCanopy, At, Copy
  <2>3. w \in Copy /\ w # NoCopy
    BY <2>2, ReconciledConcludes, CommandsAssumption DEF Concludes
  <2>4. proc' = [proc EXCEPT ![p] = x]
    BY <2>1 DEF Proc
  <2> HIDE DEF w
  <2>5. x \in Proc /\ x.copy = w /\ x.pc = "decided"
    BY <2>3, ZenonT(60) DEF Proc
  <2> HIDE DEF x
  <2>6. ProcsOk(proc')
    BY <2>3, <2>4, <2>5, ProcMove
  <2> QED
    BY <1>8, <2>6 DEF AskCanopy, ProcsOk
<1>9. ASSUME NEW p \in Procs, CommitReconcile(p) PROVE TypeOK'
  <2>1. ProcsOk(proc')
    BY <1>9, ProcIdle DEF CommitReconcile
  <2>2. proc[p].copy \in Copy
    BY <1>9, Holds DEF CommitReconcile, At
  <2> QED
    BY <1>9, <2>1, <2>2 DEF CommitReconcile, ProcsOk, Copy, Row
<1>10. ASSUME NEW p \in Procs, Complete(p) PROVE TypeOK'
  <2>1. ProcsOk(proc')
    BY <1>10, ProcIdle DEF Complete
  <2>2. proc[p].copy \in Copy
    BY <1>10, Holds DEF Complete, Running, At
  <2>3. CompleteWorkflow(proc[p].copy) \in Copy
    BY <2>2, CopyMark DEF CompleteWorkflow, WorkflowStatus, PhaseStatus
  <2>4. outcome' \in Outcome
    BY <1>10, BuildType DEF Complete
  <2> QED
    BY <1>10, <2>1, <2>3, <2>4 DEF Complete, ProcsOk, Copy, Row, WorkflowStatus
<1>11. ASSUME NEW p \in Procs, Fail(p) PROVE TypeOK'
  <2>1. ProcsOk(proc')
    BY <1>11, ProcIdle DEF Fail
  <2>2. proc[p].copy \in Copy
    BY <1>11, Holds DEF Fail, Running, At
  <2>3. FailPhase(proc[p].copy) \in Copy
    BY <2>2, CopyMark DEF FailPhase, MarkFailed, WorkflowStatus, PhaseStatus
  <2>4. outcome' \in Outcome
    BY <1>11, BuildType DEF Fail
  <2> QED
    BY <1>11, <2>1, <2>3, <2>4 DEF Fail, ProcsOk, Copy, Row, WorkflowStatus
<1>12. ASSUME NEW p \in Procs, Cancel(p) PROVE TypeOK'
  <2>1. ProcsOk(proc')
    BY <1>12, ProcIdle DEF Cancel
  <2>2. proc[p].copy \in Copy
    BY <1>12, Holds DEF Cancel, Running, At
  <2>3. outcome' \in Outcome
    BY <1>12, BuildType DEF Cancel
  <2> QED
    BY <1>12, <2>1, <2>2, <2>3 DEF Cancel, ProcsOk, Copy, Row, WorkflowStatus
<1>13. ASSUME NEW p \in Procs, ResumeCommand(p) PROVE TypeOK'
  <2>1. ProcsOk(proc')
    BY <1>13, ProcIdle DEF ResumeCommand
  <2>2. proc[p].copy \in Copy
    BY <1>13, Holds DEF ResumeCommand, Running, At
  <2>3. Resume(proc[p].copy) \in Copy
    BY <2>2, CopyMark DEF Resume, WorkflowStatus, PhaseStatus
  <2>4. /\ Resume(proc[p].copy).status \in WorkflowStatus
        /\ CurrentPhase(Resume(proc[p].copy)) \in PhaseStatus
    BY <2>3 DEF Copy, CurrentPhase
  <2>5. row' \in Row
    BY <1>13, <2>4 DEF ResumeCommand, Row
  <2>6. ph' \in [Phases -> PhaseStatus]
    BY <1>13, <2>4 DEF ResumeCommand
  <2> QED
    BY <1>13, <2>1, <2>5, <2>6 DEF ResumeCommand, ProcsOk
<1>14. ASSUME NEW p \in Procs, Refuse(p) \/ Crash(p) PROVE TypeOK'
  <2>1. ProcsOk(proc')
    BY <1>14, ProcIdle DEF Refuse, Crash
  <2> QED
    BY <1>14, <2>1 DEF Refuse, Crash, ProcsOk
<1>15. CASE UNCHANGED vars
  BY <1>15 DEF vars
<1> QED
  BY <1>1, <1>2, <1>3, <1>4, <1>5, <1>6, <1>7, <1>8, <1>9, <1>10, <1>11,
     <1>12, <1>13, <1>14, <1>15 DEF Next, Step

(* The rows can always be parsed back, and a process has a copy exactly    *)
(* between its reads and its write.                                        *)
THEOREM TypeCorrect == Spec => []TypeOK
  BY TypeInit, TypeStep, PTL DEF Spec

-----------------------------------------------------------------------------
(* What is on record has been earned.                                      *)

Earned(q) == task[q].status = "completed" /\ Left(q) \subseteq task[q].evidence

EverythingEarned ==
    \A q \in Phases : /\ task[q].status = "completed"
                      /\ q < LastPhase => Left(q) \subseteq task[q].evidence

CopyEarned(w) ==
    /\ \A q \in Phases : w.phase[q] = "completed" => task[q].status = "completed"
    /\ \A q \in Phases : q < w.idx => Earned(q)

(* The inductive invariant: what a process has read, however stale or torn *)
(* and whatever it has concluded from it, has been earned too, so whatever *)
(* it writes back has been.                                                *)
IInv ==
    /\ TypeOK
    /\ CompletedPhasesEarned /\ AdvancedOnEvidence /\ CompletedOutcomeEarned
    /\ \A p \in Procs : proc[p].copy # NoCopy => CopyEarned(proc[p].copy)

LEMMA InvInit == Init => IInv
<1> SUFFICES ASSUME Init PROVE IInv
  OBVIOUS
<1>1. CompletedPhasesEarned /\ AdvancedOnEvidence
  BY DEF Init, CompletedPhasesEarned, AdvancedOnEvidence, Phases
<1>2. CompletedOutcomeEarned
  BY DEF Init, CompletedOutcomeEarned, NoOutcome
<1>3. \A p \in Procs : proc[p].copy = NoCopy
  BY IdleType DEF Init
<1> QED
  BY <1>1, <1>2, <1>3, TypeInit DEF IInv

\* Canopy takes nothing back.
TaskGrows ==
    \A q \in Phases :
        /\ task[q].status = "completed" => task'[q].status = "completed"
        /\ task[q].evidence \subseteq task'[q].evidence

(* A step keeps the invariant when all it leaves behind was earned before. *)
LEMMA EarnStep ==
    ASSUME IInv, TypeOK', TaskGrows,
           \A q \in Phases : ph'[q] = "completed" => task[q].status = "completed",
           \A q \in Phases : q < row'.idx => Earned(q),
           outcome'.verdict = "completed" => EverythingEarned,
           \A p \in Procs : proc'[p].copy # NoCopy => CopyEarned(proc'[p].copy)
    PROVE  IInv'
<1>1. CompletedPhasesEarned'
  BY DEF CompletedPhasesEarned, TaskGrows
<1>2. \A q \in Phases : Earned(q) => Earned(q)'
  BY DEF Earned, TaskGrows, Left
<1>3. AdvancedOnEvidence'
  BY <1>2 DEF AdvancedOnEvidence, Earned, Left
<1>4. CompletedOutcomeEarned'
  BY DEF CompletedOutcomeEarned, EverythingEarned, TaskGrows, Left
<1>5. \A p \in Procs : (proc[p].copy # NoCopy => CopyEarned(proc[p].copy))'
  BY <1>2 DEF CopyEarned, TaskGrows
<1> QED
  BY <1>1, <1>3, <1>4, <1>5 DEF IInv

(* A step of one process that leaves the store alone: its next copy was    *)
(* earned, the others' copies are as they were.                            *)
LEMMA CopyStep ==
    ASSUME IInv, TypeOK', NEW p \in Procs, UNCHANGED <<row, ph, outcome, task>>,
           \A o \in Procs \ {p} : proc'[o] = proc[o],
           proc'[p].copy # NoCopy => CopyEarned(proc'[p].copy)
    PROVE  IInv'
<1>1. TaskGrows
  BY DEF TaskGrows
<1>2. \A o \in Procs : proc'[o].copy # NoCopy => CopyEarned(proc'[o].copy)
  BY DEF IInv
<1> QED
  BY <1>1, <1>2, EarnStep DEF IInv, CompletedPhasesEarned, AdvancedOnEvidence,
     CompletedOutcomeEarned, EverythingEarned, Earned

(* A process that writes an earned instance and goes idle.                 *)
LEMMA WriteStep ==
    ASSUME IInv, TypeOK', NEW p \in Procs, UNCHANGED task,
           proc' = [proc EXCEPT ![p] = IdleProc],
           \A q \in Phases : ph'[q] = "completed" => task[q].status = "completed",
           \A q \in Phases : q < row'.idx => Earned(q),
           outcome'.verdict = "completed" => EverythingEarned
    PROVE  IInv'
<1>1. TaskGrows
  BY DEF TaskGrows
<1>2. \A o \in Procs : proc'[o].copy # NoCopy => CopyEarned(proc'[o].copy)
  BY IdleType DEF IInv, TypeOK
<1> QED
  BY <1>1, <1>2, EarnStep

LEMMA InvStep == IInv /\ [Next]_vars => IInv'
<1> SUFFICES ASSUME IInv, [Next]_vars PROVE IInv'
  OBVIOUS
<1>t. TypeOK /\ TypeOK'
  BY TypeStep DEF IInv
<1>c. /\ \A q \in Phases : ph[q] = "completed" => task[q].status = "completed"
      /\ \A q \in Phases : q < row.idx => Earned(q)
      /\ outcome.verdict = "completed" => EverythingEarned
      /\ \A p \in Procs : proc[p].copy # NoCopy => CopyEarned(proc[p].copy)
  BY DEF IInv, CompletedPhasesEarned, AdvancedOnEvidence, CompletedOutcomeEarned,
     EverythingEarned, Earned
<1>h. ASSUME NEW p \in Procs, proc[p].pc \in {"row", "loaded", "decided"}
      PROVE  proc[p].copy \in Copy /\ CopyEarned(proc[p].copy)
  BY <1>t, <1>c, <1>h, Holds, CommandsAssumption
<1> USE DEF store, At, Running
<1>1. ASSUME NEW q \in Phases, AgentFinishes(q) \/ AgentShows(q) PROVE IInv'
  <2>1. TaskGrows
    BY <1>1, <1>t DEF AgentFinishes, AgentShows, TaskGrows, TypeOK, Task
  <2>2. UNCHANGED <<row, ph, outcome, proc>>
    BY <1>1 DEF AgentFinishes, AgentShows
  <2> QED
    BY <2>1, <2>2, <1>t, <1>c, EarnStep
<1>2. ASSUME NEW p \in Procs, Begin(p) PROVE IInv'
  <2>1. /\ \A o \in Procs \ {p} : proc'[o] = proc[o]
        /\ proc'[p].copy = NoCopy
    BY <1>2, <1>t, IdleType DEF Begin, TypeOK, IdleProc
  <2> QED
    BY <1>2, <2>1, <1>t, CopyStep DEF Begin
<1>3. ASSUME NEW p \in Procs, SweepQuery(p) PROVE IInv'
  <2>1. /\ \A o \in Procs \ {p} : proc'[o] = proc[o]
        /\ proc'[p].copy = proc[p].copy
    BY <1>3, <1>t DEF SweepQuery, TypeOK, Proc
  <2> QED
    BY <1>3, <2>1, <1>t, <1>c, CopyStep DEF SweepQuery
<1>4. ASSUME NEW p \in Procs, SweepFail(p) PROVE IInv'
  <2>1. UNCHANGED <<outcome, task>> /\ row'.idx = row.idx
    BY <1>4, <1>t DEF SweepFail, TypeOK, Row
  <2>2. \A o \in Procs : proc'[o].copy = proc[o].copy
    BY <1>4, <1>t DEF SweepFail, TypeOK, Proc
  <2>3. \A q \in Phases : ph'[q] = "completed" => ph[q] = "completed"
    BY <1>4, <1>t DEF SweepFail, TypeOK
  <2>4. TaskGrows
    BY <2>1 DEF TaskGrows
  <2> QED
    BY <2>1, <2>2, <2>3, <2>4, <1>t, <1>c, EarnStep
<1>5. ASSUME NEW p \in Procs, LoadRow(p) PROVE IInv'
  <2> DEFINE w == [status |-> row.status, idx |-> row.idx,
                   phase |-> NoPhases, transitions |-> <<>>]
  <2>1. /\ \A o \in Procs \ {p} : proc'[o] = proc[o]
        /\ proc'[p].copy = w
    BY <1>5, <1>t DEF LoadRow, TypeOK, Proc
  <2>2. CopyEarned(w)
    BY <1>c DEF CopyEarned, NoPhases
  <2> HIDE DEF w
  <2> QED
    BY <1>5, <2>1, <2>2, <1>t, CopyStep DEF LoadRow
<1>6. ASSUME NEW p \in Procs, LoadPhases(p) PROVE IInv'
  <2> DEFINE w == [proc[p].copy EXCEPT !.phase = ph]
  <2>1. proc[p].copy \in Copy /\ CopyEarned(proc[p].copy)
    BY <1>6, <1>h DEF LoadPhases
  <2>2. /\ \A o \in Procs \ {p} : proc'[o] = proc[o]
        /\ proc'[p].copy = w
    BY <1>6, <1>t DEF LoadPhases, TypeOK, Proc
  <2>3. w.phase = ph /\ w.idx = proc[p].copy.idx
    BY <2>1 DEF Copy
  <2> HIDE DEF w
  <2>4. CopyEarned(w)
    BY <2>1, <2>3, <1>c DEF CopyEarned
  <2> QED
    BY <1>6, <2>2, <2>4, <1>t, CopyStep DEF LoadPhases
<1>7. ASSUME NEW p \in Procs, AskCanopy(p) PROVE IInv'
  <2> DEFINE w == proc[p].copy
  <2>1. w \in Copy /\ CopyEarned(w) /\ w.idx \in Phases /\ task[w.idx] \in Task
    BY <1>7, <1>h, <1>t DEF AskCanopy, Copy, TypeOK
  <2>2. PICK present \in SUBSET Artifacts :
          proc' = [proc EXCEPT ![p].pc = "decided",
                               ![p].copy = Reconciled(w, task[w.idx], present)]
    BY <1>7 DEF AskCanopy
  <2> DEFINE r == Reconciled(w, task[w.idx], present)
  <2>3. /\ \A o \in Procs \ {p} : proc'[o] = proc[o]
        /\ proc'[p].copy = r
    BY <2>2, <1>t DEF TypeOK, Proc
  <2>4. Concludes(w, task[w.idx], r)
    BY <2>1, ReconciledConcludes
  <2> HIDE DEF r
  <2>5. \A q \in Phases : r.phase[q] = "completed" => task[q].status = "completed"
    BY <2>1, <2>4 DEF Concludes, CopyEarned
  <2>6. \A q \in Phases : q < r.idx => Earned(q)
    <3>1. CASE r.idx = w.idx
      BY <3>1, <2>1 DEF CopyEarned
    <3>2. CASE r.idx = w.idx + 1 /\ Earned(w.idx)
      <4>1. \A q \in Phases : q < w.idx + 1 => q < w.idx \/ q = w.idx
        BY <2>1 DEF Phases
      <4> QED
        BY <3>2, <4>1, <2>1 DEF CopyEarned
    <3> QED
      BY <3>1, <3>2, <2>4 DEF Concludes, Earned
  <2>7. CopyEarned(r)
    BY <2>5, <2>6 DEF CopyEarned
  <2> QED
    BY <1>7, <2>3, <2>7, <1>t, CopyStep DEF AskCanopy
<1>8. ASSUME NEW p \in Procs, CommitReconcile(p) PROVE IInv'
  <2>1. CopyEarned(proc[p].copy)
    BY <1>8, <1>h DEF CommitReconcile
  <2> QED
    BY <1>8, <2>1, <1>t, <1>c, WriteStep DEF CommitReconcile, CopyEarned
<1>9. ASSUME NEW p \in Procs, Complete(p) PROVE IInv'
  <2> DEFINE w == proc[p].copy
             done == CompleteWorkflow(w)
  <2>1. w \in Copy /\ CopyEarned(w)
    BY <1>9, <1>h DEF Complete
  <2>2. done.idx = w.idx /\ done.phase = w.phase
    BY <2>1 DEF CompleteWorkflow, Copy
  <2>3. w.idx = LastPhase /\ w.phase[w.idx] = "completed" /\ w.idx \in Phases
    BY <1>9, <2>1 DEF Complete, MayComplete, CompleteWorkflowOk, CurrentPhase, Copy
  <2>4. row'.idx = w.idx /\ ph' = w.phase
    BY <1>9, <2>2 DEF Complete
  <2>5. EverythingEarned
    <3>1. \A q \in Phases : q < LastPhase \/ q = LastPhase
      BY EngineAssumption DEF Phases, LastPhase
    <3> QED
      BY <3>1, <2>1, <2>3 DEF CopyEarned, Earned, EverythingEarned
  <2>6. UNCHANGED task /\ proc' = [proc EXCEPT ![p] = IdleProc]
    BY <1>9 DEF Complete
  <2> HIDE DEF w, done
  <2>7. /\ \A q \in Phases : ph'[q] = "completed" => task[q].status = "completed"
        /\ \A q \in Phases : q < row'.idx => Earned(q)
    BY <2>1, <2>4 DEF CopyEarned
  <2> QED
    BY <2>5, <2>6, <2>7, <1>t, WriteStep
<1>10. ASSUME NEW p \in Procs, Fail(p) PROVE IInv'
  <2> DEFINE w == proc[p].copy
             done == FailPhase(w)
  <2>1. w \in Copy /\ CopyEarned(w)
    BY <1>10, <1>h DEF Fail
  <2>2. done = [Mark(w, "failed") EXCEPT !.status = "failed"]
    BY DEF FailPhase, MarkFailed
  <2>3. /\ done.idx = w.idx /\ done.phase = [w.phase EXCEPT ![w.idx] = "failed"]
        /\ done.status = "failed"
    BY <2>1, <2>2 DEF Mark, Copy
  <2>4. \A q \in Phases : done.phase[q] = "completed" => w.phase[q] = "completed"
    BY <2>1, <2>3 DEF Copy
  <2>5. row'.idx = w.idx /\ ph' = done.phase /\ outcome'.verdict = "failed"
    BY <1>10, <2>3 DEF Fail, BuildOutcome
  <2> HIDE DEF done
  <2> QED
    BY <1>10, <2>1, <2>4, <2>5, <1>t, WriteStep DEF Fail, CopyEarned
<1>11. ASSUME NEW p \in Procs, Cancel(p) PROVE IInv'
  <2>1. CopyEarned(proc[p].copy)
    BY <1>11, <1>h DEF Cancel
  <2>2. outcome'.verdict = "cancelled"
    BY <1>11 DEF Cancel, BuildOutcome
  <2> QED
    BY <1>11, <2>1, <2>2, <1>t, <1>c, WriteStep DEF Cancel, CopyEarned
<1>12. ASSUME NEW p \in Procs, ResumeCommand(p) PROVE IInv'
  <2> DEFINE w == Resume(proc[p].copy)
  <2>1. proc[p].copy \in Copy
    BY <1>12, <1>h DEF ResumeCommand
  <2>m. /\ w.phase = [proc[p].copy.phase EXCEPT ![proc[p].copy.idx] = "active"]
        /\ w.idx = proc[p].copy.idx
    BY <2>1, CopyMark DEF Resume, WorkflowStatus, PhaseStatus
  <2>2. CurrentPhase(w) = "active"
    BY <2>1, <2>m DEF CurrentPhase, Copy
  <2>3. row'.idx = row.idx
    BY <1>12, <1>t DEF ResumeCommand, TypeOK, Row
  <2>4. \A q \in Phases : ph'[q] = "completed" => ph[q] = "completed"
    BY <1>12, <2>2, <1>t DEF ResumeCommand, TypeOK
  <2> QED
    BY <1>12, <2>3, <2>4, <1>t, <1>c, WriteStep DEF ResumeCommand
<1>13. ASSUME NEW p \in Procs, Refuse(p) \/ Crash(p) PROVE IInv'
  BY <1>13, <1>t, <1>c, WriteStep DEF Refuse, Crash
<1>14. CASE UNCHANGED vars
  <2>1. TaskGrows
    BY <1>14 DEF vars, TaskGrows
  <2> QED
    BY <1>14, <2>1, <1>t, <1>c, EarnStep DEF vars
<1> QED
  BY <1>1, <1>2, <1>3, <1>4, <1>5, <1>6, <1>7, <1>8, <1>9, <1>10, <1>11,
     <1>12, <1>13, <1>14 DEF Next, Step

LEMMA Invariance == Spec => []IInv
  BY InvInit, InvStep, PTL DEF Spec

(* No interleaving of commands, sweeps and crashes, on any number of       *)
(* processes, puts a phase on record as completed whose agent has not      *)
(* finished.                                                               *)
THEOREM PhasesEarned == Spec => []CompletedPhasesEarned
<1>1. IInv => CompletedPhasesEarned
  BY DEF IInv
<1> QED
  BY <1>1, Invariance, PTL

(* None of them lets a workflow past a phase without the evidence of the   *)
(* gates in between.                                                       *)
THEOREM AdvanceEarned == Spec => []AdvancedOnEvidence
<1>1. IInv => AdvancedOnEvidence
  BY DEF IInv
<1> QED
  BY <1>1, Invariance, PTL

(* None of them records a completed outcome before all the work is done.   *)
THEOREM OutcomeEarned == Spec => []CompletedOutcomeEarned
<1>1. IInv => CompletedOutcomeEarned
  BY DEF IInv
<1> QED
  BY <1>1, Invariance, PTL

-----------------------------------------------------------------------------
(* One command at a time.                                                  *)

\* A walk through the template: what StoreOrder says of the rows, and that a
\* completed workflow stands on a completed phase.
Ordered(w) ==
    /\ \A q \in Phases : q < w.idx => w.phase[q] = "completed"
    /\ \A q \in Phases : q > w.idx => w.phase[q] = "pending"
    /\ w.status \in {"completed", "failed"} => w.phase[w.idx] = w.status

Stored == [status |-> row.status, idx |-> row.idx, phase |-> ph]

\* The copy tells what the rows tell.
Fresh(w) == w.status = row.status /\ w.idx = row.idx /\ w.phase = ph

(* With no one else at work a process decides on what is still in the      *)
(* store, and what it is about to write is a walk again; of a workflow     *)
(* that is completed or failed it writes back what it has read.            *)
Current(p) ==
    LET w == proc[p].copy IN
    /\ At(p, "open") => \A q \in proc[p].orphans : q = row.idx /\ ph[q] = "active"
    /\ At(p, "row") => w.status = row.status /\ w.idx = row.idx
    /\ At(p, "loaded") => Fresh(w)
    /\ At(p, "decided") =>
          /\ Ordered(w)
          /\ row.status \in {"completed", "failed"} => Fresh(w)

SerialInv ==
    /\ TypeOK
    /\ Ordered(Stored)
    /\ OutcomeAgrees
    /\ \A p \in Procs : Current(p)

(* What reconcile_phases makes of a walk is a walk, and it leaves a        *)
(* workflow with a verdict alone.                                          *)
LEMMA ReconciledOrdered ==
    ASSUME NEW w \in Copy, NEW t \in Task, NEW present \in SUBSET Artifacts, Ordered(w)
    PROVE  /\ Ordered(Reconciled(w, t, present))
           /\ w.status \in {"completed", "failed"} => Reconciled(w, t, present) = w
<1> DEFINE r == Reconciled(w, t, present)
           done == ReconcileComplete(w)
<1>i. w.idx \in Phases /\ \A q \in Phases : q \in Int
  BY EngineAssumption DEF Copy, Phases
<1>d. /\ done \in Copy /\ done.idx = w.idx /\ done.status = w.status
      /\ done.phase = [w.phase EXCEPT ![w.idx] = "completed"]
  BY DEF ReconcileComplete, Mark, Copy, PhaseStatus
<1>e. /\ \A q \in Phases : q <= w.idx => done.phase[q] = "completed"
      /\ \A q \in Phases : q > w.idx => done.phase[q] = "pending"
  <2>1. ASSUME NEW q \in Phases
        PROVE  /\ q <= w.idx => done.phase[q] = "completed"
               /\ q > w.idx => done.phase[q] = "pending"
    <3>1. done.phase[q] = IF q = w.idx THEN "completed" ELSE w.phase[q]
      BY <1>d DEF Copy
    <3>2. q \in Int /\ w.idx \in Int
      BY <1>i
    <3> HIDE DEF done
    <3> QED
      BY <3>1, <3>2 DEF Ordered
  <2> QED
    BY <2>1
<1>c. \/ r = w
      \/ ~ Settled(w) /\ r = ReconcileFail(w)
      \/ ~ Settled(w) /\ r = done
      \/ ~ Settled(w) /\ r = [done EXCEPT !.status = "completed"]
      \/ ~ Settled(w) /\ r = Advance(done)
  BY DEF Reconciled, CompleteWorkflow
<1>s. Settled(w) \/ w.status \notin {"completed", "failed"}
  BY DEF Ordered, Settled, CurrentPhase
<1> HIDE DEF r, done
<1> SUFFICES Ordered(r) /\ (w.status \in {"completed", "failed"} => r = w)
  BY DEF r
<1>1. CASE r = w
  BY <1>1
<1>2. CASE ~ Settled(w) /\ r = ReconcileFail(w)
  <2>1. /\ r.idx = w.idx /\ r.status = "failed"
        /\ r.phase = [w.phase EXCEPT ![w.idx] = "failed"]
    BY <1>2 DEF ReconcileFail, MarkFailed, Mark, Copy
  <2>2. \A q \in Phases : r.phase[q] = IF q = w.idx THEN "failed" ELSE w.phase[q]
    BY <2>1 DEF Copy
  <2>3. Ordered(r)
    BY <2>1, <2>2, <1>i DEF Ordered
  <2> QED
    BY <2>3, <1>2, <1>s
<1>3. CASE ~ Settled(w) /\ (r = done \/ r = [done EXCEPT !.status = "completed"])
  <2>1. /\ r.idx = w.idx /\ r.phase = done.phase
        /\ r.status \in {w.status, "completed"}
    BY <1>3, <1>d DEF Copy
  <2>2. Ordered(r)
    BY <2>1, <1>3, <1>s, <1>e, <1>i DEF Ordered
  <2> QED
    BY <2>2, <1>3, <1>s
<1>4. CASE ~ Settled(w) /\ r = Advance(done)
  <2>1. r.idx = w.idx + 1 /\ r.phase = done.phase /\ r.status = "dispatched"
    BY <1>4, <1>d DEF Advance, Copy
  <2>2. \A q \in Phases : /\ q < w.idx + 1 => q <= w.idx
                          /\ q > w.idx + 1 => q > w.idx
    BY <1>i
  <2>3. Ordered(r)
    BY <2>1, <2>2, <1>e DEF Ordered
  <2> QED
    BY <2>3, <1>4, <1>s
<1> QED
  BY <1>1, <1>2, <1>3, <1>4, <1>c

LEMMA SerialInit == Init => SerialInv
<1> SUFFICES ASSUME Init PROVE SerialInv
  OBVIOUS
<1>1. PICK i \in Phases, pair \in StoredPair :
        /\ row = [status |-> pair[2], idx |-> i]
        /\ ph = [q \in Phases |-> IF q < i THEN "completed"
                                  ELSE IF q = i THEN pair[1] ELSE "pending"]
        /\ outcome = NoOutcome
        /\ proc = [p \in Procs |-> IdleProc]
  BY DEF Init
<1>i. \A q \in Phases : q \in Int
  BY EngineAssumption DEF Phases
<1>2. Ordered(Stored)
  BY <1>1, <1>i DEF Ordered, Stored, StoredPair
<1>3. OutcomeAgrees
  BY <1>1 DEF OutcomeAgrees, NoOutcome
<1>4. \A p \in Procs : Current(p)
  BY <1>1, IdleType DEF Current, At
<1> QED
  BY <1>2, <1>3, <1>4, TypeInit DEF SerialInv

(* A process that goes idle leaves everyone idle, whatever it has written. *)
LEMMA AllIdle ==
    ASSUME TypeOK, OneAtATime, NEW p \in Procs, ~ At(p, "idle"),
           proc' = [proc EXCEPT ![p] = IdleProc]
    PROVE  \A o \in Procs : Current(o)'
<1>1. ASSUME NEW o \in Procs PROVE proc'[o].pc = "idle"
  BY IdleType DEF TypeOK, OneAtATime, At
<1> QED
  BY <1>1 DEF Current, At

(* A process at work is alone: what the others hold matters to no one.     *)
LEMMA OthersIdle ==
    ASSUME TypeOK, OneAtATime, NEW p \in Procs, ~ At(p, "idle"),
           \A o \in Procs \ {p} : proc'[o] = proc[o],
           Current(p)'
    PROVE  \A o \in Procs : Current(o)'
<1>1. ASSUME NEW o \in Procs \ {p} PROVE proc'[o].pc = "idle"
  BY DEF OneAtATime, At
<1> QED
  BY <1>1 DEF Current, At

(* The rows as records, for the steps that leave them alone.               *)
LEMMA StoredSame ==
    ASSUME SerialInv, UNCHANGED <<row, ph, outcome>>
    PROVE  Ordered(Stored)' /\ OutcomeAgrees'
  BY DEF SerialInv, Ordered, Stored, OutcomeAgrees

\* The verdict that a step may not touch.
Kept == row.status \in {"completed", "failed"} =>
            row'.status = row.status /\ outcome' = outcome

(* A step that touches neither a verdict nor an outcome, and moves no      *)
(* workflow that has a verdict, keeps the two in agreement.                *)
LEMMA AgreeStep ==
    ASSUME SerialInv, Kept, outcome' = outcome,
           row'.idx = row.idx \/ row.status \notin {"completed", "failed"}
    PROVE  OutcomeAgrees'
<1>1. CASE row.status \notin {"completed", "failed"}
  <2>1. outcome.verdict \notin {"completed", "failed"}
    BY <1>1 DEF SerialInv, OutcomeAgrees
  <2> QED
    BY <2>1 DEF OutcomeAgrees
<1>2. CASE row.status \in {"completed", "failed"}
  BY <1>2 DEF SerialInv, OutcomeAgrees, Kept
<1> QED
  BY <1>1, <1>2

LEMMA SerialStep == SerialInv /\ OneAtATime /\ [Next]_vars => SerialInv' /\ Kept
<1> SUFFICES ASSUME SerialInv, OneAtATime, [Next]_vars PROVE SerialInv' /\ Kept
  OBVIOUS
<1>t. TypeOK /\ TypeOK'
  BY TypeStep DEF SerialInv
<1>o. Ordered(Stored) /\ OutcomeAgrees
  BY DEF SerialInv
<1>i. row.idx \in Phases /\ \A q \in Phases : q \in Int
  BY <1>t, EngineAssumption DEF TypeOK, Row, Phases
<1>r. /\ \A q \in Phases : q < row.idx => ph[q] = "completed"
      /\ \A q \in Phases : q > row.idx => ph[q] = "pending"
      /\ row.status \in {"completed", "failed"} => ph[row.idx] = row.status
  BY <1>o DEF Ordered, Stored
<1>a. \A q \in Phases : ph[q] = "active" => q = row.idx
  BY <1>r, <1>i
<1> SUFFICES /\ Ordered(Stored)' /\ OutcomeAgrees' /\ Kept
             /\ \A o \in Procs : Current(o)'
  BY <1>t DEF SerialInv
<1> USE DEF store, At, Running
<1>1. ASSUME NEW q \in Phases, AgentFinishes(q) \/ AgentShows(q)
      PROVE  Ordered(Stored)' /\ OutcomeAgrees' /\ Kept /\ \A o \in Procs : Current(o)'
  <2>1. UNCHANGED <<row, ph, outcome, proc>>
    BY <1>1 DEF AgentFinishes, AgentShows
  <2>2. \A o \in Procs : Current(o)'
    BY <2>1 DEF SerialInv, Current, Fresh, Ordered
  <2> QED
    BY <2>1, <2>2, StoredSame DEF Kept
<1>2. ASSUME NEW p \in Procs, Begin(p)
      PROVE  Ordered(Stored)' /\ OutcomeAgrees' /\ Kept /\ \A o \in Procs : Current(o)'
  <2>1. UNCHANGED <<row, ph, outcome, task>>
    BY <1>2 DEF Begin
  <2>2. /\ \A o \in Procs \ {p} : proc'[o] = proc[o]
        /\ proc'[p].pc = "open" /\ proc'[p].orphans = {}
    BY <1>2, <1>t DEF Begin, TypeOK, IdleProc
  <2>3. Current(p)'
    BY <2>2 DEF Current
  <2>4. ASSUME NEW o \in Procs \ {p} PROVE Current(o)'
    BY <2>1, <2>2 DEF SerialInv, Current, Fresh, Ordered
  <2> QED
    BY <2>1, <2>3, <2>4, StoredSame DEF Kept
<1>3. ASSUME NEW p \in Procs, SweepQuery(p)
      PROVE  Ordered(Stored)' /\ OutcomeAgrees' /\ Kept /\ \A o \in Procs : Current(o)'
  <2>1. UNCHANGED <<row, ph, outcome, task>>
    BY <1>3 DEF SweepQuery
  <2>2. PICK found \in SUBSET {q \in Phases : ph[q] = "active"} :
          proc' = [proc EXCEPT ![p].orphans = found]
    BY <1>3 DEF SweepQuery
  <2>3. /\ \A o \in Procs \ {p} : proc'[o] = proc[o]
        /\ proc'[p].pc = "open" /\ proc'[p].orphans = found
    BY <1>3, <2>2, <1>t DEF SweepQuery, TypeOK, Proc
  <2>4. Current(p)'
    BY <2>1, <2>3, <1>a DEF Current
  <2> QED
    BY <1>3, <2>1, <2>3, <2>4, <1>t, OthersIdle, StoredSame DEF Kept, SweepQuery
<1>4. ASSUME NEW p \in Procs, SweepFail(p)
      PROVE  Ordered(Stored)' /\ OutcomeAgrees' /\ Kept /\ \A o \in Procs : Current(o)'
  <2>1. PICK q \in proc[p].orphans :
          /\ ph' = IF ph[q] = "active" THEN [ph EXCEPT ![q] = "failed"] ELSE ph
          /\ proc' = [proc EXCEPT ![p].orphans = @ \ {q}]
    BY <1>4 DEF SweepFail
  <2>2. /\ row' = IF row.status \in {"completed", "cancelled", "user_terminated"}
                  THEN row ELSE [row EXCEPT !.status = "failed"]
        /\ UNCHANGED <<outcome, task>> /\ proc[p].pc = "open"
    BY <1>4 DEF SweepFail
  <2>3. q = row.idx /\ ph[q] = "active" /\ proc[p].orphans = {q}
    BY <2>1, <2>2 DEF SerialInv, Current
  <2>4. row.status \notin {"completed", "failed"}
    BY <2>3, <1>r
  <2>5. /\ row'.idx = row.idx
        /\ row'.status \in {"failed", row.status}
        /\ ph' = [ph EXCEPT ![row.idx] = "failed"]
    BY <2>1, <2>2, <2>3, <1>t DEF TypeOK, Row
  <2>6. \A k \in Phases : ph'[k] = IF k = row.idx THEN "failed" ELSE ph[k]
    BY <2>5, <1>t DEF TypeOK
  <2>7. Ordered(Stored)'
    BY <2>4, <2>5, <2>6, <1>r, <1>i DEF Ordered, Stored
  <2>8. /\ \A o \in Procs \ {p} : proc'[o] = proc[o]
        /\ proc'[p].pc = "open" /\ proc'[p].orphans = {}
    BY <2>1, <2>2, <2>3, <1>t DEF TypeOK, Proc
  <2>9. Current(p)'
    BY <2>8 DEF Current
  <2>10. Kept
    BY <2>4 DEF Kept
  <2> QED
    BY <2>2, <2>4, <2>7, <2>8, <2>9, <2>10, <1>t, OthersIdle, AgreeStep
<1>5. ASSUME NEW p \in Procs, LoadRow(p)
      PROVE  Ordered(Stored)' /\ OutcomeAgrees' /\ Kept /\ \A o \in Procs : Current(o)'
  <2>1. UNCHANGED <<row, ph, outcome, task>> /\ proc[p].pc = "open"
    BY <1>5 DEF LoadRow
  <2>2. /\ \A o \in Procs \ {p} : proc'[o] = proc[o]
        /\ proc'[p].pc = "row"
        /\ proc'[p].copy.status = row.status /\ proc'[p].copy.idx = row.idx
    BY <1>5, <1>t DEF LoadRow, TypeOK, Proc
  <2>3. Current(p)'
    BY <2>1, <2>2 DEF Current
  <2> QED
    BY <2>1, <2>2, <2>3, <1>t, OthersIdle, StoredSame DEF Kept
<1>6. ASSUME NEW p \in Procs, LoadPhases(p)
      PROVE  Ordered(Stored)' /\ OutcomeAgrees' /\ Kept /\ \A o \in Procs : Current(o)'
  <2>1. UNCHANGED <<row, ph, outcome, task>> /\ proc[p].pc = "row"
    BY <1>6 DEF LoadPhases
  <2>2. proc[p].copy \in Copy /\ proc[p].copy.status = row.status /\ proc[p].copy.idx = row.idx
    BY <2>1, <1>t, Holds DEF SerialInv, Current
  <2>3. /\ \A o \in Procs \ {p} : proc'[o] = proc[o]
        /\ proc'[p].pc = "loaded"
        /\ proc'[p].copy = [proc[p].copy EXCEPT !.phase = ph]
    BY <1>6, <1>t DEF LoadPhases, TypeOK, Proc
  <2>4. Current(p)'
    BY <2>1, <2>2, <2>3 DEF Current, Fresh, Copy
  <2> QED
    BY <2>1, <2>3, <2>4, <1>t, OthersIdle, StoredSame DEF Kept
<1>h. ASSUME NEW p \in Procs, proc[p].pc = "loaded"
      PROVE  proc[p].copy \in Copy /\ Fresh(proc[p].copy) /\ Ordered(proc[p].copy)
  BY <1>h, <1>t, <1>r, Holds DEF SerialInv, Current, Fresh, Ordered
<1>7. ASSUME NEW p \in Procs, AskCanopy(p)
      PROVE  Ordered(Stored)' /\ OutcomeAgrees' /\ Kept /\ \A o \in Procs : Current(o)'
  <2> DEFINE w == proc[p].copy
  <2>1. UNCHANGED <<row, ph, outcome, task>> /\ proc[p].pc = "loaded"
    BY <1>7 DEF AskCanopy
  <2>2. w \in Copy /\ Fresh(w) /\ Ordered(w) /\ task[w.idx] \in Task
    BY <2>1, <1>h, <1>t DEF TypeOK, Copy
  <2>3. PICK present \in SUBSET Artifacts :
          proc' = [proc EXCEPT ![p].pc = "decided",
                               ![p].copy = Reconciled(w, task[w.idx], present)]
    BY <1>7 DEF AskCanopy
  <2> DEFINE r == Reconciled(w, task[w.idx], present)
  <2>4. /\ \A o \in Procs \ {p} : proc'[o] = proc[o]
        /\ proc'[p].pc = "decided" /\ proc'[p].copy = r
    BY <2>3, <1>t DEF TypeOK, Proc
  <2>5. Ordered(r) /\ (w.status \in {"completed", "failed"} => r = w)
    BY <2>2, ReconciledOrdered
  <2> HIDE DEF w, r
  <2>6. Current(p)'
    BY <2>1, <2>2, <2>4, <2>5 DEF Current, Fresh, Ordered
  <2> QED
    BY <2>1, <2>4, <2>6, <1>t, OthersIdle, StoredSame DEF Kept
<1>8. ASSUME NEW p \in Procs, CommitReconcile(p)
      PROVE  Ordered(Stored)' /\ OutcomeAgrees' /\ Kept /\ \A o \in Procs : Current(o)'
  <2> DEFINE w == proc[p].copy
  <2>1. /\ row' = [status |-> w.status, idx |-> w.idx] /\ ph' = w.phase
        /\ proc' = [proc EXCEPT ![p] = IdleProc] /\ UNCHANGED <<outcome, task>>
        /\ proc[p].pc = "decided"
    BY <1>8 DEF CommitReconcile
  <2>2. Ordered(w) /\ (row.status \in {"completed", "failed"} => Fresh(w))
    BY <2>1 DEF SerialInv, Current
  <2> HIDE DEF w
  <2>3. Ordered(Stored)'
    BY <2>1, <2>2 DEF Ordered, Stored
  <2>4. Kept /\ (row'.idx = row.idx \/ row.status \notin {"completed", "failed"})
    BY <2>1, <2>2 DEF Kept, Fresh
  <2> QED
    BY <2>1, <2>3, <2>4, <1>t, AllIdle, AgreeStep
<1>9. ASSUME NEW p \in Procs, Complete(p)
      PROVE  Ordered(Stored)' /\ OutcomeAgrees' /\ Kept /\ \A o \in Procs : Current(o)'
  <2> DEFINE w == proc[p].copy
             done == CompleteWorkflow(w)
  <2>1. /\ row' = [status |-> "completed", idx |-> done.idx] /\ ph' = done.phase
        /\ outcome' = BuildOutcome(done.status, done.phase)
        /\ proc' = [proc EXCEPT ![p] = IdleProc]
        /\ proc[p].pc = "loaded" /\ ~ AlreadyTerminal(w) /\ CompleteWorkflowOk(w)
    BY <1>9 DEF Complete, MayComplete
  <2>2. w \in Copy /\ Fresh(w) /\ Ordered(w)
    BY <2>1, <1>h
  <2>3. done.idx = w.idx /\ done.phase = w.phase /\ done.status = "completed"
    BY <2>2 DEF CompleteWorkflow, Copy
  <2>4. w.idx = LastPhase /\ w.phase[w.idx] = "completed" /\ w.idx = row.idx
    BY <2>1, <2>2 DEF CompleteWorkflowOk, CurrentPhase, Fresh
  <2> HIDE DEF w, done
  <2>5. \A q \in Phases : w.phase[q] = "completed"
    <3>1. \A q \in Phases : q < LastPhase \/ q = LastPhase
      BY EngineAssumption DEF Phases, LastPhase
    <3> QED
      BY <3>1, <2>2, <2>4 DEF Ordered
  <2>6. Ordered(Stored)'
    BY <2>1, <2>2, <2>3, <2>4 DEF Ordered, Stored
  <2>7. row.status \notin {"completed", "failed"}
    BY <2>1, <2>2 DEF AlreadyTerminal, Fresh
  <2>8. outcome'.verdict = "completed" /\ \A q \in Phases : outcome'.route[q] = "completed"
    BY <2>1, <2>3, <2>5 DEF BuildOutcome, RouteStep
  <2>9. OutcomeAgrees'
    BY <2>1, <2>8 DEF OutcomeAgrees
  <2> QED
    BY <2>1, <2>6, <2>7, <2>9, <1>t, AllIdle DEF Kept
<1>10. ASSUME NEW p \in Procs, Fail(p)
      PROVE  Ordered(Stored)' /\ OutcomeAgrees' /\ Kept /\ \A o \in Procs : Current(o)'
  <2> DEFINE w == proc[p].copy
             done == FailPhase(w)
  <2>1. /\ row' = [status |-> "failed", idx |-> done.idx] /\ ph' = done.phase
        /\ outcome' = BuildOutcome(done.status, done.phase)
        /\ proc' = [proc EXCEPT ![p] = IdleProc]
        /\ proc[p].pc = "loaded" /\ ~ AlreadyTerminal(w)
    BY <1>10 DEF Fail, MayFail
  <2>2. w \in Copy /\ Fresh(w) /\ Ordered(w)
    BY <2>1, <1>h
  <2>3. /\ done.idx = w.idx /\ done.status = "failed"
        /\ done.phase = [w.phase EXCEPT ![w.idx] = "failed"]
    BY <2>2 DEF FailPhase, MarkFailed, Mark, Copy
  <2>4. w.idx = row.idx
    BY <2>2 DEF Fresh
  <2>5. /\ \A q \in Phases : done.phase[q] = IF q = row.idx THEN "failed" ELSE w.phase[q]
        /\ \A q \in Phases : q < row.idx => done.phase[q] = "completed"
        /\ \A q \in Phases : q > row.idx => done.phase[q] = "pending"
        /\ done.phase[row.idx] = "failed"
    BY <2>2, <2>3, <2>4, <1>i DEF Copy, Ordered
  <2> HIDE DEF w, done
  <2>6. Ordered(Stored)'
    BY <2>1, <2>3, <2>4, <2>5 DEF Ordered, Stored
  <2>7. row.status \notin {"completed", "failed"}
    BY <2>1, <2>2 DEF AlreadyTerminal, Fresh
  <2>8. /\ outcome'.verdict = "failed"
        /\ \A q \in Phases : outcome'.route[q] = RouteStep(done.phase[q])
    BY <2>1, <2>3 DEF BuildOutcome
  <2>9. \A q \in Phases : q = row.idx \/ q < row.idx \/ q > row.idx
    BY <1>i
  <2>10. OutcomeAgrees'
    BY <2>1, <2>3, <2>4, <2>5, <2>8, <2>9, <1>i DEF OutcomeAgrees, RouteStep
  <2> QED
    BY <2>1, <2>6, <2>7, <2>10, <1>t, AllIdle DEF Kept
<1>11. ASSUME NEW p \in Procs, Cancel(p)
      PROVE  Ordered(Stored)' /\ OutcomeAgrees' /\ Kept /\ \A o \in Procs : Current(o)'
  <2>1. /\ row' = [status |-> "cancelled", idx |-> proc[p].copy.idx]
        /\ outcome' = BuildOutcome("cancelled", ph) /\ UNCHANGED <<ph, task>>
        /\ proc' = [proc EXCEPT ![p] = IdleProc]
        /\ proc[p].pc = "loaded" /\ MayCancel(proc[p].copy)
    BY <1>11 DEF Cancel
  <2>2. proc[p].copy.idx = row.idx /\ row.status \notin {"completed", "failed"}
    BY <2>1, <1>h DEF Fresh, MayCancel
  <2>3. Ordered(Stored)'
    BY <2>1, <2>2, <1>r DEF Ordered, Stored
  <2>4. OutcomeAgrees'
    BY <2>1 DEF OutcomeAgrees, BuildOutcome
  <2> QED
    BY <2>1, <2>2, <2>3, <2>4, <1>t, AllIdle DEF Kept
<1>12. ASSUME NEW p \in Procs, ResumeCommand(p)
      PROVE  Ordered(Stored)' /\ OutcomeAgrees' /\ Kept /\ \A o \in Procs : Current(o)'
  <2> DEFINE w == Resume(proc[p].copy)
  <2>1. /\ row' = [row EXCEPT !.status = w.status]
        /\ ph' = [ph EXCEPT ![w.idx] = CurrentPhase(w)]
        /\ proc' = [proc EXCEPT ![p] = IdleProc] /\ UNCHANGED <<outcome, task>>
        /\ proc[p].pc = "loaded" /\ ResumeOk(proc[p].copy)
    BY <1>12 DEF ResumeCommand
  <2>2. proc[p].copy \in Copy /\ Fresh(proc[p].copy)
    BY <2>1, <1>h
  <2>3. /\ w.idx = proc[p].copy.idx /\ w.status = "in_progress"
        /\ w.phase = [proc[p].copy.phase EXCEPT ![proc[p].copy.idx] = "active"]
    BY <2>2 DEF Resume, Mark, Copy
  <2>4. w.idx = row.idx /\ CurrentPhase(w) = "active"
    BY <2>2, <2>3 DEF CurrentPhase, Fresh, Copy
  <2>5. row.status = "awaiting_user_input"
    BY <2>1, <2>2 DEF ResumeOk, Fresh
  <2> HIDE DEF w
  <2>6. row'.idx = row.idx /\ row'.status = "in_progress"
    BY <2>1, <2>3, <1>t DEF TypeOK, Row
  <2>7. \A q \in Phases : ph'[q] = IF q = row.idx THEN "active" ELSE ph[q]
    BY <2>1, <2>4, <1>t DEF TypeOK
  <2>8. Ordered(Stored)'
    BY <2>6, <2>7, <1>r, <1>i DEF Ordered, Stored
  <2>9. Kept
    BY <2>5 DEF Kept
  <2> QED
    BY <2>1, <2>5, <2>8, <2>9, <1>t, AllIdle, AgreeStep
<1>13. ASSUME NEW p \in Procs, Refuse(p) \/ Crash(p)
      PROVE  Ordered(Stored)' /\ OutcomeAgrees' /\ Kept /\ \A o \in Procs : Current(o)'
  <2>1. /\ UNCHANGED <<row, ph, outcome, task>> /\ proc[p].pc # "idle"
        /\ proc' = [proc EXCEPT ![p] = IdleProc]
    BY <1>13 DEF Refuse, Crash
  <2> QED
    BY <2>1, <1>t, AllIdle, StoredSame DEF Kept
<1>14. CASE UNCHANGED vars
  <2>1. \A o \in Procs : Current(o)'
    BY <1>14 DEF vars, SerialInv, Current, Fresh, Ordered
  <2> QED
    BY <1>14, <2>1, StoredSame DEF vars, Kept
<1> QED
  BY <1>1, <1>2, <1>3, <1>4, <1>5, <1>6, <1>7, <1>8, <1>9, <1>10, <1>11,
     <1>12, <1>13, <1>14 DEF Next, Step

LEMMA SerialInvariance == Spec /\ []OneAtATime => []SerialInv
<1>1. SerialInv /\ OneAtATime /\ [Next]_vars => SerialInv'
  BY SerialStep
<1> QED
  BY SerialInit, <1>1, PTL DEF Spec

(* One command at a time, with sweeps before each and crashes anywhere,    *)
(* the rows are a walk through the template, and a failed workflow has a   *)
(* failed current phase.                                                   *)
THEOREM SerialOrder == Spec /\ []OneAtATime => []StoreOrder
<1>1. SerialInv => StoreOrder
  BY DEF SerialInv, Ordered, Stored, StoreOrder
<1> QED
  BY <1>1, SerialInvariance, PTL

(* One command at a time, the outcome row tells of the workflow row what   *)
(* became of it, and of its phases which were worked on.                   *)
THEOREM SerialOutcome == Spec /\ []OneAtATime => []OutcomeAgrees
<1>1. SerialInv => OutcomeAgrees
  BY DEF SerialInv
<1> QED
  BY <1>1, SerialInvariance, PTL

(* One command at a time, a verdict of completed or failed is final, and   *)
(* so is the outcome recorded with it.                                     *)
THEOREM SerialVerdict == Spec /\ []OneAtATime => VerdictKept
<1>1. SerialInv /\ OneAtATime /\ [Next]_vars =>
        [row.status \in {"completed", "failed"} =>
            row'.status = row.status /\ outcome' = outcome]_store
  BY SerialStep DEF Kept
<1> QED
  BY <1>1, SerialInvariance, PTL DEF Spec, VerdictKept
=============================================================================
