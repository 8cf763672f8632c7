------------------------------ MODULE Commands ------------------------------
(***************************************************************************)
(* The commands of src/commands that act on one dispatched workflow, run   *)
(* by any number of operating-system processes over one SQLite file, with  *)
(* the Canopy tasks the workflow's phases were handed to.                  *)
(*                                                                         *)
(* A process opens the store, which may first run one pass of the sweeper, *)
(* then reads the workflows row and the phase_states rows in two SELECTs,  *)
(* decides on its private copy (reconcile asks Canopy in between), and     *)
(* writes in one transaction.  Nothing ties the read to the write, so the  *)
(* steps of other processes fall in between.  A process may die anywhere;  *)
(* SQLite keeps a transaction whole or drops it.                           *)
(***************************************************************************)
EXTENDS Engine

CONSTANTS
    Procs,        \* processes
    CommandSet,   \* the commands they run
    NoCopy        \* the private copy of a process that has read nothing

AllCommands == {"complete", "fail", "cancel", "reconcile", "resume"}

VARIABLES
    row,      \* the workflows row: status and current_phase_idx
    ph,       \* the phase_states rows: one status per phase
    outcome,  \* the workflow_outcomes row: terminal status and route taken
    task,     \* per phase, its Canopy task
    proc      \* per process: where it is, its command, its private copy

vars == <<row, ph, outcome, task, proc>>
store == <<row, ph, outcome>>

\* What EvidenceGateEvaluator can find satisfied; the audit conditions and
\* every custom one are refused whatever the task says.
Evidenced == Conditions \cap {"code_diff_exists", "verification_passed"}

Row == [status : WorkflowStatus, idx : Phases]

Task == [status   : {"open", "completed", "cancelled", "failed"},
         stop     : BOOLEAN,          \* the completion signal wants a stop
         evidence : SUBSET Evidenced]

\* What get_workflow returns: transitions are not read back.
Copy == [status : WorkflowStatus, idx : Phases, phase : [Phases -> PhaseStatus],
         transitions : Seq(Phases \X Phases)]

NoPhases == [p \in Phases |-> "pending"]

RouteStepStatus == {"absent", "completed", "skipped", "failed"}

NoOutcome == [verdict |-> "none", route |-> [p \in Phases |-> "absent"]]

Outcome == [verdict : {"none", "completed", "failed", "cancelled"},
            route   : [Phases -> RouteStepStatus]]

IdleProc == [pc |-> "idle", cmd |-> "none", orphans |-> {}, copy |-> NoCopy]

Proc == [pc      : {"idle", "open", "row", "loaded", "decided"},
         cmd     : AllCommands \cup {"none"},
         orphans : SUBSET Phases,
         copy    : Copy \cup {NoCopy}]

ASSUME CommandsAssumption ==
    /\ CommandSet \subseteq AllCommands
    /\ NoCopy \notin Copy

-----------------------------------------------------------------------------
(* A workflow in any of the shapes the engine and dispatch leave in the    *)
(* store (Workflow!PhaseOrder and Workflow!StatusAgreesWithPhase): a       *)
(* dispatched, running, paused, completed or broken-out current phase; a   *)
(* completed phase is one whose agent has finished, and one the workflow   *)
(* has left has shown what the gates ask for.                              *)
StoredPair ==
    {<<"pending", "dispatched">>, <<"active", "in_progress">>,
     <<"awaiting_user_input", "awaiting_user_input">>,
     <<"completed", "in_progress">>, <<"failed", "user_terminated">>}

Left(q) == ExitGate[q] \cup EntryGate[q + 1]

Init ==
    \E i \in Phases, pair \in StoredPair :
        /\ \A q \in Phases : q < i => Left(q) \subseteq Evidenced
        /\ row = [status |-> pair[2], idx |-> i]
        /\ ph = [q \in Phases |-> IF q < i THEN "completed"
                                  ELSE IF q = i THEN pair[1] ELSE "pending"]
        /\ task = [q \in Phases |->
                     [status   |-> IF ph[q] = "completed" THEN "completed" ELSE "open",
                      stop     |-> FALSE,
                      evidence |-> IF q < i THEN Left(q) ELSE {}]]
        /\ outcome = NoOutcome
        /\ proc = [p \in Procs |-> IdleProc]

-----------------------------------------------------------------------------
(* Canopy.  Tasks are finished by agents, in any order; evidence is        *)
(* attached to a task, before or after it is finished, and stays.          *)

AgentFinishes(q) ==
    /\ task[q].status = "open"
    /\ \E s \in {"completed", "cancelled", "failed"}, stop \in BOOLEAN :
          /\ stop => s = "completed"
          /\ task' = [task EXCEPT ![q].status = s, ![q].stop = stop]
    /\ UNCHANGED <<store, proc>>

AgentShows(q) ==
    /\ \E c \in Evidenced \ task[q].evidence :
          task' = [task EXCEPT ![q].evidence = @ \cup {c}]
    /\ UNCHANGED <<store, proc>>

-----------------------------------------------------------------------------
(* Opening the store: main.rs starts a sweeper and waits for its pass.     *)

At(p, pc) == proc[p].pc = pc

Begin(p) ==
    /\ At(p, "idle")
    /\ \E c \in CommandSet :
          proc' = [proc EXCEPT ![p] = [IdleProc EXCEPT !.pc = "open", !.cmd = c]]
    /\ UNCHANGED <<store, task>>

\* One of the pass's two queries: active phases of runtimes found offline.
SweepQuery(p) ==
    /\ At(p, "open")
    /\ proc[p].orphans = {}
    /\ \E found \in SUBSET {q \in Phases : ph[q] = "active"} :
          /\ found # {}
          /\ proc' = [proc EXCEPT ![p].orphans = found]
    /\ UNCHANGED <<store, task>>

\* fail_phase: each of the two UPDATEs has its own condition.
SweepFail(p) ==
    /\ At(p, "open")
    /\ \E q \in proc[p].orphans :
          /\ ph' = IF ph[q] = "active" THEN [ph EXCEPT ![q] = "failed"] ELSE ph
          /\ proc' = [proc EXCEPT ![p].orphans = @ \ {q}]
    /\ row' = IF row.status \in {"completed", "cancelled", "user_terminated"}
              THEN row ELSE [row EXCEPT !.status = "failed"]
    /\ UNCHANGED <<outcome, task>>

-----------------------------------------------------------------------------
(* get_workflow: two SELECTs outside any transaction.                      *)

LoadRow(p) ==
    /\ At(p, "open")
    /\ proc[p].orphans = {}
    /\ proc' = [proc EXCEPT ![p].pc = "row",
                            ![p].copy = [status |-> row.status, idx |-> row.idx,
                                         phase |-> NoPhases, transitions |-> <<>>]]
    /\ UNCHANGED <<store, task>>

LoadPhases(p) ==
    /\ At(p, "row")
    /\ proc' = [proc EXCEPT ![p].pc = "loaded", ![p].copy.phase = ph]
    /\ UNCHANGED <<store, task>>

-----------------------------------------------------------------------------
(* reconcile_phases decides on the copy; Canopy is asked unless the        *)
(* current phase has settled.  A stop signal is honoured before advance;   *)
(* files may or may not be where the next phase wants them.                *)

Settled(w) == CurrentPhase(w) \in {"completed", "failed", "skipped"}

\* Mutant: a completed task advances the workflow without its evidence.
ReconciledTrusting(w, t, present) ==
    IF Settled(w) THEN w
    ELSE CASE t.status = "completed" ->
                LET done == ReconcileComplete(w) IN
                IF t.stop THEN [done EXCEPT !.status = "completed"]
                ELSE IF AtFinalPhase(done) THEN CompleteWorkflow(done)
                ELSE Advance(done)
           [] t.status = "cancelled" -> ReconcileFail(w)
           [] OTHER -> w

\* Mutant: a task that is no longer open counts as completed.
ReconciledClosed(w, t, present) ==
    IF Settled(w) THEN w
    ELSE CASE t.status # "open" ->
                LET done == ReconcileComplete(w) IN
                IF t.stop THEN [done EXCEPT !.status = "completed"]
                ELSE IF AdvanceOk(done, t.evidence, present) THEN Advance(done)
                ELSE IF AtFinalPhase(done) THEN CompleteWorkflow(done)
                ELSE done
           [] OTHER -> w

Reconciled(w, t, present) ==
    IF Settled(w) THEN w
    ELSE CASE t.status = "completed" ->
                LET done == ReconcileComplete(w) IN
                IF t.stop THEN [done EXCEPT !.status = "completed"]
                ELSE IF AdvanceOk(done, t.evidence, present) THEN Advance(done)
                ELSE IF AtFinalPhase(done) THEN CompleteWorkflow(done)
                ELSE done
           [] t.status = "cancelled" -> ReconcileFail(w)
           [] OTHER -> w

AskCanopy(p) ==
    /\ At(p, "loaded")
    /\ proc[p].cmd = "reconcile"
    /\ \E present \in SUBSET Artifacts :
          LET w == proc[p].copy IN
          proc' = [proc EXCEPT ![p].pc = "decided",
                               ![p].copy = Reconciled(w, task[w.idx], present)]
    /\ UNCHANGED <<store, task>>

\* Mutant: reconcile forgets to write the phases it has decided on.
CommitReconcileNoPhases(p) ==
    /\ At(p, "decided")
    /\ row' = [status |-> proc[p].copy.status, idx |-> proc[p].copy.idx]
    /\ proc' = [proc EXCEPT ![p] = IdleProc]
    /\ UNCHANGED <<ph, outcome, task>>

\* Mutant: reconcile forgets update_current_phase_idx.
CommitReconcileNoIdx(p) ==
    /\ At(p, "decided")
    /\ row' = [row EXCEPT !.status = proc[p].copy.status]
    /\ ph' = proc[p].copy.phase
    /\ proc' = [proc EXCEPT ![p] = IdleProc]
    /\ UNCHANGED <<outcome, task>>

CommitReconcile(p) ==
    /\ At(p, "decided")
    /\ row' = [status |-> proc[p].copy.status, idx |-> proc[p].copy.idx]
    /\ ph' = proc[p].copy.phase
    /\ proc' = [proc EXCEPT ![p] = IdleProc]
    /\ UNCHANGED <<outcome, task>>

-----------------------------------------------------------------------------
(* WorkflowOutcome::build on the instance in hand.                         *)

RouteStep(s) ==
    CASE s = "pending" -> "absent"
      [] s \in {"completed", "skipped"} -> s
      [] OTHER -> "failed"

BuildOutcome(status, phases) ==
    [verdict |-> IF status \in {"completed", "cancelled"} THEN status ELSE "failed",
     route   |-> [q \in Phases |-> RouteStep(phases[q])]]

Running(p, c) == At(p, "loaded") /\ proc[p].cmd = c

\* complete and fail answer an already terminal workflow without a write.
AlreadyTerminal(w) == w.status \in {"completed", "cancelled", "failed"}

MayComplete(w) == ~ AlreadyTerminal(w) /\ CompleteWorkflowOk(w)

Complete(p) ==
    LET done == CompleteWorkflow(proc[p].copy) IN
    /\ Running(p, "complete")
    /\ MayComplete(proc[p].copy)
    /\ row' = [status |-> "completed", idx |-> done.idx]
    /\ ph' = done.phase
    /\ outcome' = BuildOutcome(done.status, done.phase)
    /\ proc' = [proc EXCEPT ![p] = IdleProc]
    /\ UNCHANGED task

MayFail(w) == ~ AlreadyTerminal(w) /\ IsActive(w)

Fail(p) ==
    LET done == FailPhase(proc[p].copy) IN
    /\ Running(p, "fail")
    /\ MayFail(proc[p].copy)
    /\ row' = [status |-> "failed", idx |-> done.idx]
    /\ ph' = done.phase
    /\ outcome' = BuildOutcome(done.status, done.phase)
    /\ proc' = [proc EXCEPT ![p] = IdleProc]
    /\ UNCHANGED task

\* Mutant: only a second cancellation is refused.
MayCancelSettled(w) == w.status # "cancelled"

MayCancel(w) == w.status \notin {"completed", "failed", "cancelled"}

\* The phases are left alone and the outcome is built from a fresh read of
\* them, inside the transaction.
Cancel(p) ==
    /\ Running(p, "cancel")
    /\ MayCancel(proc[p].copy)
    /\ row' = [status |-> "cancelled", idx |-> proc[p].copy.idx]
    /\ outcome' = BuildOutcome("cancelled", ph)
    /\ proc' = [proc EXCEPT ![p] = IdleProc]
    /\ UNCHANGED <<ph, task>>

\* Only the status and the current phase are written; the index is not.
ResumeCommand(p) ==
    LET w == Resume(proc[p].copy) IN
    /\ Running(p, "resume")
    /\ ResumeOk(proc[p].copy)
    /\ row' = [row EXCEPT !.status = w.status]
    /\ ph' = [ph EXCEPT ![w.idx] = CurrentPhase(w)]
    /\ proc' = [proc EXCEPT ![p] = IdleProc]
    /\ UNCHANGED <<outcome, task>>

\* A no-op answer, an engine error, get_task failing for reconcile.
Refuse(p) ==
    LET w == proc[p].copy IN
    /\ \/ Running(p, "complete") /\ ~ MayComplete(w)
       \/ Running(p, "fail") /\ ~ MayFail(w)
       \/ Running(p, "cancel") /\ ~ MayCancel(w)
       \/ Running(p, "resume") /\ ~ ResumeOk(w)
       \/ Running(p, "reconcile") /\ ~ Settled(w)
    /\ proc' = [proc EXCEPT ![p] = IdleProc]
    /\ UNCHANGED <<store, task>>

\* The process dies, or its transaction finds the database busy too long.
Crash(p) ==
    /\ ~ At(p, "idle")
    /\ proc' = [proc EXCEPT ![p] = IdleProc]
    /\ UNCHANGED <<store, task>>

Step(p) ==
    \/ SweepQuery(p) \/ SweepFail(p)
    \/ LoadRow(p) \/ LoadPhases(p)
    \/ AskCanopy(p) \/ CommitReconcile(p)
    \/ Complete(p) \/ Fail(p) \/ Cancel(p) \/ ResumeCommand(p)
    \/ Refuse(p)

Next ==
    \/ \E q \in Phases : AgentFinishes(q) \/ AgentShows(q)
    \/ \E p \in Procs : Begin(p) \/ Step(p) \/ Crash(p)

Spec == Init /\ [][Next]_vars

\* Someone keeps running reconcile, and it does not die or lose Canopy at
\* the same place every time.
ReconcileFairness ==
    \A p \in Procs :
        /\ WF_vars(Begin(p)) /\ WF_vars(SweepFail(p))
        /\ SF_vars(LoadRow(p)) /\ SF_vars(LoadPhases(p))
        /\ SF_vars(AskCanopy(p)) /\ SF_vars(CommitReconcile(p))

FairSpec == Spec /\ ReconcileFairness

-----------------------------------------------------------------------------
(* The rows have the values the schema's readers parse, and a process has  *)
(* a copy exactly between its reads and its write.                         *)
TypeOK ==
    /\ row \in Row
    /\ ph \in [Phases -> PhaseStatus]
    /\ outcome \in Outcome
    /\ task \in [Phases -> Task]
    /\ proc \in [Procs -> Proc]
    /\ \A p \in Procs : proc[p].copy = NoCopy <=> proc[p].pc \in {"idle", "open"}

(* Whatever commands, sweeps and crashes interleave, no phase is on record *)
(* as completed unless the agent it was handed to finished it: stale       *)
(* copies and torn reads can undo progress, never invent it.               *)
CompletedPhasesEarned ==
    \A q \in Phases : ph[q] = "completed" => task[q].status = "completed"

(* Under the same interleavings, the workflow is never past a phase whose  *)
(* task has not shown the evidence of its exit gate and of the next entry  *)
(* gate: the auditor does not start on unverified work.                    *)
AdvancedOnEvidence ==
    \A q \in Phases : q < row.idx =>
        /\ task[q].status = "completed"
        /\ Left(q) \subseteq task[q].evidence

(* A completed outcome, the record the learning loop reads, is only ever   *)
(* written for a workflow whose agents all finished with their evidence.   *)
CompletedOutcomeEarned ==
    outcome.verdict = "completed" =>
        \A q \in Phases :
            /\ task[q].status = "completed"
            /\ q < LastPhase => Left(q) \subseteq task[q].evidence

\* No command begins, and no pass of a sweeper with it, before the last one
\* is over: what a lone user at a terminal does.
OneAtATime == \A p, q \in Procs : ~ At(p, "idle") /\ ~ At(q, "idle") => p = q

(* One command at a time, the rows of a workflow are a walk through its    *)
(* template, whatever crashes in between, and a failed row has a failed    *)
(* current phase.                                                          *)
StoreOrder ==
    /\ \A q \in Phases : q < row.idx => ph[q] = "completed"
    /\ \A q \in Phases : q > row.idx => ph[q] = "pending"
    /\ row.status = "failed" => ph[row.idx] = "failed"

(* One command at a time, completed and failed are final, and so is the    *)
(* outcome recorded with them.                                             *)
VerdictKept ==
    [][row.status \in {"completed", "failed"} =>
          row'.status = row.status /\ outcome' = outcome]_store

(* One command at a time, the outcome row and the workflow row agree, and  *)
(* the route it reports is the one that was taken.                         *)
OutcomeAgrees ==
    /\ outcome.verdict = "completed" =>
          /\ row.status = "completed"
          /\ \A q \in Phases : outcome.route[q] = "completed"
    /\ outcome.verdict = "failed" =>
          /\ row.status = "failed"
          /\ \A q \in Phases : outcome.route[q] =
                IF q < row.idx THEN "completed"
                ELSE IF q = row.idx THEN "failed" ELSE "absent"

AllWorkDone == \A q \in Phases : task[q].status = "completed"

EvidenceComplete ==
    \A q \in Phases \ {LastPhase} : Left(q) \subseteq task[q].evidence

\* Agents who finish do so with their evidence and do not ask to stop.
FinishedWithEvidence ==
    \A q \in Phases : task[q].status = "completed" =>
        /\ ~ task[q].stop
        /\ q < LastPhase => Left(q) \subseteq task[q].evidence

NeverLost == row.status \notin {"failed", "user_terminated"}

OnlyReconcile == \A p \in Procs : proc[p].cmd \in {"none", "reconcile"}

(* Reconcile, run again and again by one process at a time and with no     *)
(* other command, carries a workflow whose agents finish with their        *)
(* evidence to completed, however often it dies on the way.  A workflow    *)
(* that starts from a phase already completed is left out: reconcile never *)
(* advances that one.                                                      *)
FinishedWorkIsRecognised ==
    /\ ph[row.idx] # "completed"
    /\ [](OnlyReconcile /\ NeverLost /\ FinishedWithEvidence)
    /\ <>AllWorkDone
    => <>[](row.status = "completed")

-----------------------------------------------------------------------------
(* Statements of the sources that the commands do not keep.                *)

(* store.rs 375-376: completed, failed, cancelled and user_terminated are  *)
(* terminal states: no command makes a live workflow of one in them again. *)
TerminalStaysTerminal ==
    [][row.status \in TerminalStatus => row'.status \in TerminalStatus]_row

(* The same lines: nor is one of these states replaced by another.         *)
TerminalStatusesStay ==
    [][row.status \in TerminalStatus => row'.status = row.status]_row

(* complete.rs 36-37, fail.rs 36-37: an already terminal workflow gets "an *)
(* informative no-op instead of overwriting the outcome".                  *)
OutcomeNotOverwritten ==
    [][outcome # NoOutcome => outcome' = outcome]_outcome

(* outcomes.rs 3-5: an outcome is persisted "for any terminal workflow     *)
(* transition (completed, failed, or cancelled)".                          *)
TerminalHasOutcome ==
    row.status \in {"completed", "failed", "cancelled"} => outcome # NoOutcome

(* main.rs 57-58: reconcile is "safe to call repeatedly": with nothing but *)
(* reconcile running, finished work is recognised all the same.            *)
ReconcileSafeToRepeat == FinishedWorkIsRecognised

(* dispatch/mod.rs 319-320: "advance failures due to gate conditions are   *)
(* treated as non-terminal": evidence that arrives late still moves the    *)
(* workflow on.                                                            *)
GateFailureNotTerminal ==
    /\ ph[row.idx] # "completed"
    /\ [](NeverLost /\ \A q \in Phases : ~ task[q].stop)
    /\ <>(AllWorkDone /\ EvidenceComplete)
    => <>[](row.status = "completed")

(* dispatch/mod.rs 329-330: phases before current_phase_idx are already in *)
(* a terminal state, phases after it are not yet active.                   *)
OnlyCurrentPhaseOpen ==
    \A q \in Phases :
        /\ q < row.idx => ph[q] \in {"completed", "failed", "skipped"}
        /\ q > row.idx => ph[q] = "pending"

(* sweeper.rs 363-365: the sweeper fails "an active phase", and "both the  *)
(* phase state and the parent workflow status are updated atomically".     *)
FailedWithItsPhase == row.status = "failed" => ph[row.idx] = "failed"

(* dispatch/mod.rs 298-299: a task that is "cancelled/failed" marks the    *)
(* phase Failed and the workflow Failed.                                   *)
FailedTaskFailsWorkflow ==
    [](\A q \in Phases : task[q].status # "completed")
        /\ <>(\A q \in Phases : task[q].status = "failed")
    => <>(row.status \in TerminalStatus)
=============================================================================
