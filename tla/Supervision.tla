---------------------------- MODULE Supervision -----------------------------
(***************************************************************************)
(* The sweeper and the progress monitor over the same phase rows.          *)
(*                                                                         *)
(* A program embedding src/monitor polls the current phase: it reads the   *)
(* workflow, lets check_progress ask Canopy twice (the task, then the      *)
(* handoff's completeness), and gives the signal to handle_signal, which   *)
(* decides a recovery and writes the retry it hands out as a whole phase   *)
(* row.  The program may keep its instance for the next poll or read it    *)
(* again.  Other processes reconcile the workflow: each reads all its      *)
(* rows, asks Canopy, and writes them back whole, counts included, in one  *)
(* transaction.  Sweeps and heartbeats fall between any two of all these   *)
(* steps.                                                                  *)
(***************************************************************************)
EXTENDS Sweeper, Recovery

CONSTANTS
    Reconcilers,       \* processes that run the command reconcile
    MaxReconciles,     \* bound on the commands each of them runs
    LastPhase,         \* phases are 0 .. LastPhase
    Tier,              \* agent_tier of each phase
    MonitorHeartbeat,  \* MonitorConfig.heartbeat_timeout
    ProgressTimeout    \* MonitorConfig.progress_timeout

ASSUME SupervisionAssumption ==
    /\ MaxReconciles \in Nat
    /\ LastPhase \in Nat /\ Phases = 0 .. LastPhase
    /\ Tier \in [Phases -> AgentTier]
    /\ MonitorHeartbeat \in Nat /\ ProgressTimeout \in Nat

VARIABLES
    idx,      \* workflows.current_phase_idx
    started,  \* phase_states.started_at
    retries,  \* phase_states.retry_count
    mon,      \* the monitoring program
    rec,      \* the reconciling processes
    handed,   \* retries handed out so far, per phase (history)
    lost      \* retries reconcile has taken off the row, per phase (history)

monitorVars == <<idx, started, retries, mon, rec, handed, lost>>
vars == <<sweeperVars, monitorVars>>

TaskStatus == {"pending", "assigned", "in_progress", "completed", "failed", "cancelled"}

PhaseStatus == {"pending", "active", "completed", "failed"}

\* The whole instance, as reconcile reads and writes it.
Rows == [idx : Phases, status : {"live", "failed"}, phase : [Phases -> PhaseStatus],
         started : [Phases -> Time], retries : [Phases -> Nat]]

Reconciler == [pc : {"idle", "loaded", "decided"}, rows : Rows, run : 0 .. MaxReconciles]

\* The instance in hand, as far as the monitor looks at it.
Copy == [idx : Phases, status : PhaseStatus, started : Time, retries : Nat]

Mon == [pc     : {"idle", "loaded", "asked", "signalled"},
        at     : Time,              \* now, as check_progress was given it
        copy   : Copy,
        signal : Signal]            \* until the next check replaces it

NoCopy == [idx |-> 0, status |-> "pending", started |-> 0, retries |-> 0]

Idle == [pc |-> "idle", at |-> 0, copy |-> NoCopy, signal |-> "healthy"]

\* What the tables hold now.
Stored == [idx |-> idx, status |-> status, phase |-> phase,
           started |-> started, retries |-> retries]

Blank == [idx |-> 0, status |-> "live", phase |-> [q \in Phases |-> "pending"],
          started |-> [q \in Phases |-> 0], retries |-> [q \in Phases |-> 0]]

Init ==
    /\ SweeperInit
    /\ idx = 0
    /\ started = [q \in Phases |-> 0]
    /\ retries = [q \in Phases |-> 0]
    /\ mon = Idle
    /\ rec = [p \in Reconcilers |-> [pc |-> "idle", rows |-> Blank, run |-> 0]]
    /\ handed = [q \in Phases |-> 0]
    /\ lost = [q \in Phases |-> 0]

-----------------------------------------------------------------------------
(* Around the monitor: the other writers of the rows.                      *)

\* start_phase, saved.
StartPhase ==
    /\ phase[idx] = "pending"
    /\ phase' = [phase EXCEPT ![idx] = "active"]
    /\ started' = [started EXCEPT ![idx] = now]
    /\ UNCHANGED <<now, faults, registry, status, sweep,
                   idx, retries, mon, rec, handed, lost>>

\* get_workflow; that its two queries may disagree is left to module Commands.
ReconcileLoad(p) ==
    /\ rec[p].pc = "idle"
    /\ rec[p].run < MaxReconciles
    /\ rec' = [rec EXCEPT ![p] = [pc |-> "loaded", rows |-> Stored, run |-> @.run + 1]]
    /\ UNCHANGED <<sweeperVars, idx, started, retries, mon, handed, lost>>

\* The current phase ends; one that was never started is started on the way.
Settle(r, s) ==
    [r EXCEPT !.phase[r.idx] = s,
              !.started[r.idx] = IF r.phase[r.idx] = "pending" THEN now ELSE @]

\* What reconcile_phases makes of the instance: it leaves one whose phase has
\* ended or whose task goes on; a failed task fails it; a completed one
\* completes the phase, and then the gates hold the workflow, the agent's
\* signal or the last phase ends it, or it advances.
Outcomes(r) ==
    LET done == Settle(r, "completed")
        next == IF r.idx < LastPhase THEN r.idx + 1 ELSE r.idx
    IN  IF r.phase[r.idx] \in {"completed", "failed"} THEN {r}
        ELSE {r, [Settle(r, "failed") EXCEPT !.status = "failed"], done}
             \cup {[done EXCEPT !.status = "live", !.idx = i] : i \in {r.idx, next}}

ReconcileDecide(p) ==
    /\ rec[p].pc = "loaded"
    /\ \E r \in Outcomes(rec[p].rows) :
          rec' = [rec EXCEPT ![p].pc = "decided", ![p].rows = r]
    /\ UNCHANGED <<sweeperVars, idx, started, retries, mon, handed, lost>>

\* Every phase row, the status and the index: all written back as they were read
\* but for what was decided.
ReconcileCommit(p) ==
    LET r == rec[p].rows IN
    /\ rec[p].pc = "decided"
    /\ phase' = r.phase /\ started' = r.started /\ retries' = r.retries
    /\ status' = r.status /\ idx' = r.idx
    /\ lost' = [q \in Phases |-> lost[q] + IF r.retries[q] < retries[q]
                                           THEN retries[q] - r.retries[q] ELSE 0]
    /\ rec' = [rec EXCEPT ![p].pc = "idle", ![p].rows = Blank]
    /\ UNCHANGED <<now, faults, registry, sweep, mon, handed>>

\* Canopy does not answer, the transaction fails, or the process dies.
ReconcileGivesUp(p) ==
    /\ rec[p].pc # "idle"
    /\ rec' = [rec EXCEPT ![p].pc = "idle", ![p].rows = Blank]
    /\ UNCHANGED <<sweeperVars, idx, started, retries, mon, handed, lost>>

-----------------------------------------------------------------------------
(* check_progress.                                                         *)

At(pc) == mon.pc = pc

MonitorStep == UNCHANGED <<sweeperVars, idx, started, retries, rec, handed, lost>>

Load ==
    /\ At("idle")
    /\ mon' = [mon EXCEPT !.pc = "loaded",
                  !.copy = [idx |-> idx, status |-> phase[idx],
                            started |-> started[idx], retries |-> retries[idx]]]
    /\ MonitorStep

Signalled(signal) ==
    [mon EXCEPT !.pc = "signalled", !.at = now, !.signal = signal]

Unstarted == {"pending", "assigned"}

\* Agents change a task at any time, so Canopy may answer any status.  The
\* two final ones it looks for come first, then the heartbeat of a task that
\* no agent has taken up; a cancelled task is neither.
AskTask ==
    /\ At("loaded")
    /\ mon.copy.status = "active"
    /\ \E s \in TaskStatus :
          mon' = IF s = "completed" THEN Signalled("phase_complete")
                 ELSE IF s = "failed" THEN Signalled("failed")
                 ELSE IF s \in Unstarted /\ mon.copy.started + MonitorHeartbeat < now
                      THEN Signalled("heartbeat_timeout")
                 ELSE [mon EXCEPT !.pc = "asked", !.at = now]
    /\ MonitorStep

\* The handoff has all, none or some of its items completed.
ProgressSignal(items) ==
    IF items = "all" THEN "phase_complete"
    ELSE IF mon.at <= mon.copy.started + ProgressTimeout THEN "healthy"
    ELSE IF items = "none" THEN "no_code_diff"
    ELSE "no_paste_marker_progress"

AskCompleteness ==
    /\ At("asked")
    /\ \E items \in {"all", "none", "some"} :
          mon' = [mon EXCEPT !.pc = "signalled", !.signal = ProgressSignal(items)]
    /\ MonitorStep

\* The phase is not active, or Canopy does not answer.
CheckFails ==
    /\ At("loaded") \/ At("asked")
    /\ mon' = Idle
    /\ MonitorStep

-----------------------------------------------------------------------------
(* handle_signal.  What it decides on is the count of the copy.            *)

Decision == DecideRecovery(mon.signal, mon.copy.retries, Tier[mon.copy.idx])

Counted == [mon.copy EXCEPT !.retries = @ + 1]

\* The caller polls again with the same instance, or reads it again.
Return(copy) ==
    \/ mon' = Idle
    \/ mon' = [mon EXCEPT !.pc = "loaded", !.copy = copy]

\* Mutant: the retry is handed out before it is counted.
HandleRetryUncounted ==
    /\ At("signalled")
    /\ Decision.kind = "retry"
    /\ phase' = [phase EXCEPT ![mon.copy.idx] = mon.copy.status]
    /\ handed' = [handed EXCEPT ![mon.copy.idx] = @ + 1]
    /\ Return(mon.copy)
    /\ UNCHANGED <<now, faults, registry, status, sweep, idx, started, retries, rec, lost>>

\* increment_retry_count, and upsert_phase_state of the whole copy.
HandleRetry ==
    LET q == mon.copy.idx IN
    /\ At("signalled")
    /\ Decision.kind = "retry"
    /\ phase' = [phase EXCEPT ![q] = mon.copy.status]
    /\ started' = [started EXCEPT ![q] = mon.copy.started]
    /\ retries' = [retries EXCEPT ![q] = mon.copy.retries + 1]
    /\ handed' = [handed EXCEPT ![q] = @ + 1]
    /\ Return(Counted)
    /\ UNCHANGED <<now, faults, registry, status, sweep, idx, rec, lost>>

\* The write fails after the copy has been counted; no retry is handed out.
HandleRetryFails ==
    /\ At("signalled")
    /\ Decision.kind = "retry"
    /\ Busy
    /\ Return(Counted)
    /\ UNCHANGED <<now, registry, phase, status, sweep,
                   idx, started, retries, rec, handed, lost>>

\* complete_phase on the copy; nothing is written.
HandleComplete ==
    /\ At("signalled")
    /\ mon.signal = "phase_complete"
    /\ Return([mon.copy EXCEPT !.status = "completed"])
    /\ MonitorStep

\* Escalate, or Cancel of a healthy phase: nothing changes.
HandleOther ==
    /\ At("signalled")
    /\ mon.signal # "phase_complete"
    /\ Decision.kind # "retry"
    /\ Return(mon.copy)
    /\ MonitorStep

Monitor ==
    \/ Load \/ AskTask \/ AskCompleteness \/ CheckFails
    \/ HandleRetry \/ HandleRetryFails \/ HandleComplete \/ HandleOther

Reconciling(p) ==
    ReconcileLoad(p) \/ ReconcileDecide(p) \/ ReconcileCommit(p) \/ ReconcileGivesUp(p)

Environment == StartPhase \/ \E p \in Reconcilers : Reconciling(p)

Next ==
    \/ SweeperNext /\ UNCHANGED monitorVars
    \/ Monitor
    \/ Environment

Spec == Init /\ [][Next]_vars

\* The thread runs, and a stopped sweeper is followed by another one.
FairSpec ==
    /\ Spec
    /\ WF_vars(Thread /\ UNCHANGED monitorVars)
    /\ WF_vars(Restart /\ UNCHANGED monitorVars)

-----------------------------------------------------------------------------
(* The rows, the thread and the monitor hold values of their types; only a *)
(* runtime that is offline has a time at which it went offline, so that    *)
(* garbage collection can find it.                                         *)
TypeOK ==
    /\ now \in Time /\ faults \in 0 .. MaxFaults
    /\ registry \in [Runtimes -> Entry]
    /\ phase \in [Phases -> PhaseStatus]
    /\ status \in {"live", "failed"}
    /\ sweep \in Sweep
    /\ idx \in Phases
    /\ started \in [Phases -> Time]
    /\ retries \in [Phases -> Nat]
    /\ mon \in Mon
    /\ rec \in [Reconcilers -> Reconciler]
    /\ handed \in [Phases -> Nat] /\ lost \in [Phases -> Nat]
    /\ \A r \in Runtimes : registry[r].status = "offline" <=> registry[r].gone # Never

(* No count goes beyond the policy's, whatever stale instance it was       *)
(* written from.  Every retry handed out is in the row the next process    *)
(* will read, but for those a reconcile that had read the row before it    *)
(* was counted has written off: each of these costs one retry more than    *)
(* the policy allows, and nothing else does.                               *)
BudgetHonoured ==
    \A q \in Phases : handed[q] <= retries[q] + lost[q] /\ retries[q] <= Policy.max

(* A runtime is offline only if its last heartbeat was overdue when the    *)
(* sweep that marked it began, or came in during that very sweep: the      *)
(* unprotected gap between list and mark never costs more than that.       *)
OfflineOverdueOrRacing ==
    \A r \in Runtimes : registry[r].status = "offline" =>
        \/ registry[r].beat + Timeout < registry[r].gone
        \/ registry[r].beat >= registry[r].gone

Orphan(q) == phase[q] = "active" /\ registry[AgentOf[q]].status = "offline"

(* Once sweepers are no longer stopped, an active phase of an offline      *)
(* runtime is failed (or its runtime comes back, or is forgotten), however *)
(* many sweeps crash, find the database busy or lose to a retry that       *)
(* writes the phase back to active.                                        *)
OrphansAreFailed ==
    <>[](~ sweep.stop) => \A q \in Phases : Orphan(q) ~> ~ Orphan(q)

(* Dropping the handle always gets its thread back: a sweep that is under  *)
(* way, busy or asleep sees the flag and exits, or its process has died.   *)
StopIsHonoured == sweep.stop ~> ~ sweep.stop

-----------------------------------------------------------------------------
(* Statements of the sources that the code does not keep.                  *)

(* sweeper.rs 74-75: an offline runtime "has not sent a heartbeat within   *)
(* HEARTBEAT_TIMEOUT".                                                     *)
OfflineIsSilent ==
    \A r \in Runtimes :
        registry[r].status = "offline" => registry[r].beat + Timeout < now

(* retry.rs 21: max_retries is the "maximum number of retries before       *)
(* escalating".                                                            *)
RetriesCapped == \A q \in Phases : handed[q] <= Policy.max

(* monitor/mod.rs 46-47: the monitor waits heartbeat_timeout for a         *)
(* heartbeat before it declares a stall: after one such stall of a phase,  *)
(* and the retry it led to, the next is at least that much later.          *)
StallsApart ==
    [][/\ mon.signal = "heartbeat_timeout" /\ mon'.signal = "heartbeat_timeout"
       /\ mon'.at # mon.at /\ mon'.copy.idx = mon.copy.idx
       => mon.at + MonitorHeartbeat < mon'.at]_mon
=============================================================================
