------------------------- MODULE SupervisionProofs --------------------------
(***************************************************************************)
(* What the sweeper, the monitor and the processes that reconcile keep for *)
(* any number of runtimes, phases and processes, any timeouts and any      *)
(* policy: a phase is handed more retries than its budget only for counts  *)
(* that a reconcile has written off, and no runtime is offline whose       *)
(* heartbeat was neither overdue nor racing the sweep.                     *)
(*                                                                         *)
(* The argument for the budget: what has been handed out is in the row, or *)
(* in what has been written off; the same holds of the monitor's copy,     *)
(* which was read from the row and counts what it hands out itself.  For   *)
(* the runtimes: what pass 1 has listed and not yet marked was overdue at  *)
(* the sweep's time, or has sent a heartbeat since.                        *)
(***************************************************************************)
EXTENDS Supervision, TLAPS

SweeperTypes ==
    /\ now \in Time /\ faults \in 0 .. MaxFaults
    /\ registry \in [Runtimes -> Entry]
    /\ phase \in [Phases -> PhaseStatus]
    /\ status \in {"live", "failed"}
    /\ sweep \in Sweep

OfflineKnown ==
    \A r \in Runtimes : registry[r].status = "offline" <=> registry[r].gone # Never

MonitorTypes ==
    /\ idx \in Phases
    /\ started \in [Phases -> Time]
    /\ retries \in [Phases -> Nat]
    /\ mon \in Mon
    /\ rec \in [Reconcilers -> Reconciler]
    /\ handed \in [Phases -> Nat] /\ lost \in [Phases -> Nat]

\* What the sweep has listed is overdue, or has been heard of since.
Racing(r) == registry[r].beat + Timeout < sweep.at \/ registry[r].beat >= sweep.at

ListedRacing ==
    /\ sweep.at <= now
    /\ sweep.stale # {} => In("mark")
    /\ \A r \in sweep.stale : Racing(r)

\* The copy counts what was handed out, but for what has been written off.
CopyCounts ==
    ~ At("idle") => handed[mon.copy.idx] <= mon.copy.retries + lost[mon.copy.idx]

\* No reconcile holds a count beyond the policy's.
RowsCapped ==
    \A p \in Reconcilers : \A q \in Phases : rec[p].rows.retries[q] <= Policy.max

SweeperInv == SweeperTypes /\ OfflineKnown /\ ListedRacing /\ OfflineOverdueOrRacing

MonitorInv == MonitorTypes /\ CopyCounts /\ RowsCapped /\ BudgetHonoured

-----------------------------------------------------------------------------
(* Lemmas about a sweep's record.                                          *)

LEMMA Zeros == 0 \in 0 .. Interval /\ 0 \in Time
  BY SweeperAssumption DEF Time

LEMMA Records ==
  /\ Started \in Sweep /\ Started.at = 0 /\ Started.stale = {}
  /\ Started.pass = "flag" /\ Started.stop = FALSE
  BY SweeperAssumption DEF Started, Sweep, Pass, Time

LEMMA GoType ==
  ASSUME sweep \in Sweep, NEW p \in Pass
  PROVE  /\ Go(p) \in Sweep /\ Go(p).at = sweep.at /\ Go(p).stale = sweep.stale
         /\ Go(p).pass = p
  BY DEF Go, Sweep

LEMMA FinishedType ==
  ASSUME sweep \in Sweep
  PROVE  /\ Finished \in Sweep /\ Finished.at = 0 /\ Finished.stale = {}
         /\ Finished.pass = "sleep"
<1>1. Finished = [Started EXCEPT !.pass = "sleep", !.stop = sweep.stop]
  BY DEF Finished
<1>2. sweep.stop \in BOOLEAN
  BY DEF Sweep
<1>. QED
  BY <1>1, <1>2, Records DEF Sweep, Pass

LEMMA TimeType == \A t \in Time : t \in Nat /\ 0 <= t
  BY SweeperAssumption DEF Time

LEMMA BusyType == ASSUME faults \in 0 .. MaxFaults, Busy PROVE faults' \in 0 .. MaxFaults
  BY SweeperAssumption DEF Busy

-----------------------------------------------------------------------------
(* The sweeper.  Most of its steps leave the rows as they are: what they   *)
(* must keep is said of the next record alone.                             *)

LEMMA SweepOnly ==
  ASSUME SweeperInv, sweep' \in Sweep, sweep'.at <= now,
         faults' \in 0 .. MaxFaults, UNCHANGED <<now, registry, phase, status>>,
         sweep'.stale # {} => sweep'.pass = "mark",
         \A r \in sweep'.stale : \/ registry[r].beat + Timeout < sweep'.at
                                 \/ registry[r].beat >= sweep'.at
  PROVE  SweeperInv'
<1>1. SweeperTypes'
  BY DEF SweeperInv, SweeperTypes
<1>2. OfflineKnown' /\ OfflineOverdueOrRacing'
  BY DEF SweeperInv, OfflineKnown, OfflineOverdueOrRacing
<1>3. ListedRacing'
  BY DEF ListedRacing, Racing, In
<1>. QED
  BY <1>1, <1>2, <1>3 DEF SweeperInv

\* The steps of pass, flag and sleep that keep the list or forget it.
LEMMA PassStep ==
  ASSUME SweeperInv,
         \/ RequestStop \/ Restart \/ Begin \/ SleepStep \/ Wake \/ Exit
         \/ QueryOrphans \/ ListOffline \/ QueryReconcile
         \/ ListFails \/ QueryFails \/ ReconcileFails \/ GcFails \/ Crash
  PROVE  SweeperInv'
<1>. USE DEF SweeperInv
<1>1. /\ sweep \in Sweep /\ now \in Time /\ sweep.at <= now /\ sweep.at \in Nat
      /\ (sweep.stale # {} => sweep.pass = "mark") /\ 0 <= now /\ now \in Nat
      /\ \A r \in sweep.stale : Racing(r)
  BY TimeType DEF SweeperTypes, ListedRacing, In, Sweep
<1>2. faults' \in 0 .. MaxFaults
  BY BusyType DEF SweeperTypes, RequestStop, Restart, Begin, SleepStep, Wake, Exit, QueryOrphans,
     ListOffline, QueryReconcile, ListFails, QueryFails, ReconcileFails, GcFails, Crash
<1>3. UNCHANGED <<now, registry, phase, status>>
  BY DEF RequestStop, Restart, Begin, SleepStep, Wake, Exit, QueryOrphans,
     ListOffline, QueryReconcile, ListFails, QueryFails, ReconcileFails, GcFails, Crash
<1>4. ASSUME sweep'.at = sweep.at, sweep'.stale = sweep.stale, sweep' \in Sweep,
             sweep'.stale # {} => sweep'.pass = "mark"
      PROVE  SweeperInv'
  BY <1>1, <1>2, <1>3, <1>4, SweepOnly DEF Racing
<1>5. ASSUME sweep'.at \in {0, now}, sweep'.stale = {}, sweep' \in Sweep
      PROVE  SweeperInv'
  BY <1>1, <1>2, <1>3, <1>5, SweepOnly
<1>6. CASE RequestStop
  <2>1. sweep' = [sweep EXCEPT !.stop = TRUE]
    BY <1>6 DEF RequestStop
  <2>2. /\ sweep' \in Sweep /\ sweep'.at = sweep.at /\ sweep'.stale = sweep.stale
        /\ sweep'.pass = sweep.pass
    BY <2>1, <1>1 DEF Sweep
  <2>. QED
    BY <2>2, <1>1, <1>4
<1>7. CASE Restart \/ Crash
  BY <1>7, <1>5, Records DEF Restart, Crash
<1>8. CASE Begin
  <2>1. sweep' = [Started EXCEPT !.pass = "list", !.at = now]
    BY <1>8 DEF Begin
  <2>2. sweep' \in Sweep /\ sweep'.at = now /\ sweep'.stale = {}
    BY <2>1, <1>1, Records DEF Sweep, Pass
  <2>. QED
    BY <2>2, <1>5
<1>9. CASE SleepStep
  <2>1. sweep' = [sweep EXCEPT !.slept = sweep.slept + 1] /\ sweep.slept < Interval
        /\ sweep.pass = "sleep"
    BY <1>9 DEF SleepStep, In
  <2>2. sweep.slept \in 0 .. Interval
    BY <1>1 DEF Sweep
  <2>3. sweep.slept + 1 \in 0 .. Interval
    BY <2>1, <2>2, SweeperAssumption
  <2>4. /\ sweep' \in Sweep /\ sweep'.at = sweep.at /\ sweep'.stale = sweep.stale
        /\ sweep'.pass = sweep.pass
    BY <2>1, <2>3, <1>1 DEF Sweep
  <2>. QED
    BY <2>4, <1>1, <1>4
<1>10. CASE Wake
  <2>1. sweep' = [sweep EXCEPT !.pass = "flag", !.slept = 0] /\ sweep.pass = "sleep"
    BY <1>10 DEF Wake, In
  <2>2. sweep' \in Sweep /\ sweep'.at = sweep.at /\ sweep'.stale = sweep.stale
    BY <2>1, <1>1, Zeros DEF Sweep, Pass
  <2>. QED
    BY <2>1, <2>2, <1>1, <1>4
<1>11. CASE Exit
  BY <1>11, <1>1, <1>4, GoType DEF Exit, In, Pass
<1>12. CASE QueryOrphans
  <2>1. sweep' = [sweep EXCEPT !.pass = "fail", !.todo = OrphansOf(sweep.newly)]
        /\ sweep.stale = {}
    BY <1>12 DEF QueryOrphans
  <2>2. OrphansOf(sweep.newly) \in SUBSET Phases
    BY DEF OrphansOf
  <2>3. sweep' \in Sweep /\ sweep'.at = sweep.at /\ sweep'.stale = sweep.stale
    BY <2>1, <2>2, <1>1 DEF Sweep, Pass
  <2>. QED
    BY <2>1, <2>3, <1>1, <1>4
<1>13. CASE ListOffline
  <2>. DEFINE offline == {r \in Runtimes : registry[r].status = "offline"}
  <2>1. sweep' = [sweep EXCEPT !.pass = IF offline = {} THEN "gc" ELSE "query",
                               !.newly = offline]
    BY <1>13 DEF ListOffline
  <2>2. offline \in SUBSET Runtimes /\ sweep.stale = {}
    BY <1>13, <1>1 DEF ListOffline, In
  <2>. HIDE DEF offline
  <2>3. sweep' \in Sweep /\ sweep'.at = sweep.at /\ sweep'.stale = sweep.stale
    BY <2>1, <2>2, <1>1 DEF Sweep, Pass
  <2>. QED
    BY <2>2, <2>3, <1>1, <1>4
<1>14. CASE QueryReconcile
  <2>1. sweep' = [sweep EXCEPT !.pass = "reconcile", !.todo = OrphansOf(sweep.newly)]
        /\ sweep.pass = "query"
    BY <1>14 DEF QueryReconcile, In
  <2>2. OrphansOf(sweep.newly) \in SUBSET Phases
    BY DEF OrphansOf
  <2>3. sweep' \in Sweep /\ sweep'.at = sweep.at /\ sweep'.stale = sweep.stale
    BY <2>1, <2>2, <1>1 DEF Sweep, Pass
  <2>. QED
    BY <2>1, <2>3, <1>1, <1>4
<1>15. CASE ListFails \/ GcFails
  BY <1>15, <1>1, <1>5, FinishedType DEF ListFails, GcFails
<1>16. CASE QueryFails
  BY <1>16, <1>1, <1>4, GoType DEF QueryFails, Pass
<1>17. CASE ReconcileFails
  BY <1>17, <1>1, <1>4, GoType DEF ReconcileFails, In, Pass
<1>. QED
  BY <1>6, <1>7, <1>8, <1>9, <1>10, <1>11, <1>12, <1>13, <1>14, <1>15, <1>16, <1>17

\* Listing, and the rows that could not be written.
LEMMA ListStep ==
  ASSUME SweeperInv,
         \/ List
         \/ \E r \in Runtimes : MarkFails(r)
         \/ \E q \in Phases : FailOrphanFails(q)
  PROVE  SweeperInv'
<1>. USE DEF SweeperInv
<1>1. /\ sweep \in Sweep /\ now \in Time /\ sweep.at <= now
      /\ (sweep.stale # {} => sweep.pass = "mark")
      /\ \A r \in sweep.stale : Racing(r)
  BY DEF SweeperTypes, ListedRacing, In
<1>2. CASE List
  <2>. DEFINE stale == {r \in Runtimes : IsStale(r)}
  <2>1. sweep' = [sweep EXCEPT !.pass = "mark", !.stale = stale]
    BY <1>2 DEF List
  <2>2. stale \in SUBSET Runtimes
    OBVIOUS
  <2>3. \A r \in stale : registry[r].beat + Timeout < sweep.at
    BY DEF IsStale
  <2>. HIDE DEF stale
  <2>4. sweep' \in Sweep /\ sweep'.at = sweep.at /\ sweep'.stale = stale /\ sweep'.pass = "mark"
    BY <2>1, <2>2, <1>1 DEF Sweep, Pass
  <2>. QED
    BY <2>3, <2>4, <1>1, <1>2, SweepOnly DEF List, SweeperTypes
<1>3. ASSUME NEW r \in Runtimes, MarkFails(r) PROVE SweeperInv'
  <2>1. sweep' = [sweep EXCEPT !.stale = sweep.stale \ {r}]
    BY <1>3 DEF MarkFails
  <2>2. sweep.stale \ {r} \in SUBSET Runtimes
    BY <1>1 DEF Sweep
  <2>3. /\ sweep' \in Sweep /\ sweep'.at = sweep.at /\ sweep'.pass = sweep.pass
        /\ sweep'.stale \subseteq sweep.stale
    BY <2>1, <2>2, <1>1 DEF Sweep
  <2>4. faults' \in 0 .. MaxFaults
    BY <1>3, BusyType DEF MarkFails, SweeperTypes
  <2>. QED
    BY <2>3, <2>4, <1>1, <1>3, SweepOnly DEF MarkFails, Racing
<1>4. ASSUME NEW q \in Phases, FailOrphanFails(q) PROVE SweeperInv'
  <2>. DEFINE todo == IF In("fail") THEN sweep.todo \ {q} ELSE {}
              pass == IF In("fail") THEN sweep.pass ELSE "gc"
  <2>1. sweep' = [sweep EXCEPT !.todo = todo, !.pass = pass]
    BY <1>4 DEF FailOrphanFails
  <2>2. todo \in SUBSET Phases /\ pass \in Pass /\ sweep.stale = {}
    BY <1>1, <1>4 DEF Sweep, Pass, In, FailOrphanFails
  <2>. HIDE DEF todo, pass
  <2>3. sweep' \in Sweep /\ sweep'.at = sweep.at /\ sweep'.stale = {}
    BY <2>1, <2>2, <1>1 DEF Sweep
  <2>4. faults' \in 0 .. MaxFaults
    BY <1>4, BusyType DEF FailOrphanFails, SweeperTypes
  <2>. QED
    BY <2>3, <2>4, <1>1, <1>4, SweepOnly DEF FailOrphanFails
<1>. QED
  BY <1>2, <1>3, <1>4

\* The clock goes on: what was heard of before has been heard of still.
LEMMA TickStep == ASSUME SweeperInv, Tick PROVE SweeperInv'
<1>. USE DEF SweeperInv, Tick
<1>1. SweeperTypes'
  BY SweeperAssumption DEF SweeperTypes, Time
<1>2. OfflineKnown' /\ OfflineOverdueOrRacing'
  BY DEF OfflineKnown, OfflineOverdueOrRacing
<1>3. ListedRacing'
  BY TimeType DEF ListedRacing, Racing, In, SweeperTypes, Sweep
<1>. QED
  BY <1>1, <1>2, <1>3

\* A heartbeat is not earlier than the sweep it races.
LEMMA HeartbeatStep ==
  ASSUME SweeperInv, NEW r \in Runtimes, UpsertHeartbeat(r)
  PROVE  SweeperInv'
<1>. DEFINE e == [status |-> "online", beat |-> now, gone |-> Never]
<1>0. /\ registry' = [registry EXCEPT ![r] = e]
      /\ UNCHANGED <<now, faults, phase, status, sweep>>
  BY DEF UpsertHeartbeat
<1>1. e \in Entry /\ registry' \in [Runtimes -> Entry]
  BY <1>0 DEF SweeperInv, SweeperTypes, Entry, RuntimeStatus
<1>2. \A s \in Runtimes : registry'[s] = IF s = r THEN e ELSE registry[s]
  BY <1>0 DEF SweeperInv, SweeperTypes
<1>3. e.status = "online" /\ e.beat = now /\ e.gone = Never
  OBVIOUS
<1>. HIDE DEF e
<1>4. SweeperTypes'
  BY <1>0, <1>1 DEF SweeperInv, SweeperTypes
<1>5. OfflineKnown' /\ OfflineOverdueOrRacing'
  BY <1>2, <1>3 DEF SweeperInv, OfflineKnown, OfflineOverdueOrRacing
<1>6. sweep.stale \subseteq Runtimes
  BY DEF SweeperInv, SweeperTypes, Sweep
<1>7. ListedRacing'
  BY <1>0, <1>2, <1>3, <1>6 DEF SweeperInv, ListedRacing, Racing, In
<1>. QED
  BY <1>4, <1>5, <1>7 DEF SweeperInv

\* Marking: the runtime was overdue at the sweep's time, or is racing it.
LEMMA MarkStep ==
  ASSUME SweeperInv, NEW r \in Runtimes, MarkOffline(r)
  PROVE  SweeperInv'
<1>. DEFINE e == [registry[r] EXCEPT !.status = "offline", !.gone = sweep.at]
<1>0. /\ registry' = IF registry[r].status # "online" THEN registry
                     ELSE [registry EXCEPT ![r] = e]
      /\ sweep' = [sweep EXCEPT !.stale = sweep.stale \ {r}, !.newly = sweep.newly \cup {r}]
      /\ r \in sweep.stale /\ sweep.pass = "mark"
      /\ UNCHANGED <<now, faults, phase, status>>
  <2>1. /\ registry' = IF registry[r].status # "online" THEN registry
                       ELSE [registry EXCEPT ![r].status = "offline", ![r].gone = sweep.at]
        /\ sweep' = [sweep EXCEPT !.stale = sweep.stale \ {r}, !.newly = sweep.newly \cup {r}]
        /\ r \in sweep.stale /\ sweep.pass = "mark"
        /\ UNCHANGED <<now, faults, phase, status>>
    BY DEF MarkOffline, In
  <2>2. [registry EXCEPT ![r].status = "offline", ![r].gone = sweep.at] = [registry EXCEPT ![r] = e]
    BY DEF SweeperInv, SweeperTypes, Entry
  <2>. QED
    BY <2>1, <2>2
<1>1. /\ registry[r] \in Entry /\ sweep \in Sweep /\ sweep.at \in Time /\ sweep.at \in Nat
      /\ sweep.at # Never /\ sweep.stale \subseteq Runtimes /\ sweep.newly \subseteq Runtimes
  BY TimeType, SweeperAssumption DEF SweeperInv, SweeperTypes, Sweep
<1>2. /\ e \in Entry /\ e.status = "offline" /\ e.gone = sweep.at /\ e.beat = registry[r].beat
  BY <1>1 DEF Entry, RuntimeStatus
<1>. HIDE DEF e
<1>3. \A s \in Runtimes : \/ registry'[s] = registry[s]
                          \/ s = r /\ registry'[s] = e
  BY <1>0 DEF SweeperInv, SweeperTypes
<1>4. /\ sweep' \in Sweep /\ sweep'.at = sweep.at /\ sweep'.pass = "mark"
      /\ sweep'.stale \subseteq sweep.stale
  BY <1>0, <1>1 DEF Sweep
<1>5. SweeperTypes'
  BY <1>0, <1>2, <1>4 DEF SweeperInv, SweeperTypes
<1>6. OfflineKnown'
  BY <1>1, <1>2, <1>3 DEF SweeperInv, OfflineKnown
<1>7. OfflineOverdueOrRacing'
  BY <1>0, <1>2, <1>3 DEF SweeperInv, OfflineOverdueOrRacing, ListedRacing, Racing
<1>8. ListedRacing'
  BY <1>0, <1>1, <1>2, <1>3, <1>4 DEF SweeperInv, ListedRacing, Racing, In
<1>. QED
  BY <1>5, <1>6, <1>7, <1>8 DEF SweeperInv

LEMMA GcStep == ASSUME SweeperInv, Gc PROVE SweeperInv'
<1>0. /\ registry' = [r \in Runtimes |-> IF Collectable(r) THEN NoEntry ELSE registry[r]]
      /\ sweep' = Finished
      /\ UNCHANGED <<now, faults, phase, status>>
  BY DEF Gc
<1>1. /\ NoEntry \in Entry /\ NoEntry.status = "absent" /\ NoEntry.gone = Never
  BY Zeros DEF NoEntry, Entry, RuntimeStatus
<1>2. \A r \in Runtimes : registry'[r] \in {NoEntry, registry[r]}
  BY <1>0
<1>3. registry' \in [Runtimes -> Entry]
  BY <1>0, <1>1, <1>2 DEF SweeperInv, SweeperTypes
<1>4. SweeperTypes'
  BY <1>0, <1>3, FinishedType DEF SweeperInv, SweeperTypes
<1>5. OfflineKnown' /\ OfflineOverdueOrRacing'
  BY <1>1, <1>2 DEF SweeperInv, OfflineKnown, OfflineOverdueOrRacing
<1>6. ListedRacing'
  BY <1>0, FinishedType, TimeType DEF SweeperInv, SweeperTypes, ListedRacing, In
<1>. QED
  BY <1>4, <1>5, <1>6 DEF SweeperInv

LEMMA OrphanStep ==
  ASSUME SweeperInv, NEW q \in Phases, FailOrphan(q)
  PROVE  SweeperInv'
<1>0. /\ phase' = IF phase[q] = "active" THEN [phase EXCEPT ![q] = "failed"] ELSE phase
      /\ status' = "failed"
      /\ sweep' = [sweep EXCEPT !.todo = sweep.todo \ {q}]
      /\ UNCHANGED <<now, faults, registry>>
  BY DEF FailOrphan, FailPhase
<1>1. /\ sweep' \in Sweep /\ sweep'.at = sweep.at /\ sweep'.pass = sweep.pass
      /\ sweep'.stale = sweep.stale
  BY <1>0 DEF SweeperInv, SweeperTypes, Sweep
<1>2. SweeperTypes'
  BY <1>0, <1>1 DEF SweeperInv, SweeperTypes, PhaseStatus
<1>3. OfflineKnown' /\ OfflineOverdueOrRacing'
  BY <1>0 DEF SweeperInv, OfflineKnown, OfflineOverdueOrRacing
<1>4. ListedRacing'
  BY <1>0, <1>1 DEF SweeperInv, ListedRacing, Racing, In
<1>. QED
  BY <1>2, <1>3, <1>4 DEF SweeperInv

LEMMA SweeperStep == ASSUME SweeperInv, SweeperNext PROVE SweeperInv'
  BY PassStep, ListStep, TickStep, HeartbeatStep, MarkStep, GcStep, OrphanStep
  DEF SweeperNext, Thread, ThreadFault

-----------------------------------------------------------------------------
(* The monitor.                                                            *)

\* What the sweeper's invariant needs of a step that is not the sweeper's.
LEMMA PhaseOnly ==
  ASSUME SweeperInv, UNCHANGED <<now, registry, sweep>>, status' \in {"live", "failed"},
         faults' \in 0 .. MaxFaults, phase' \in [Phases -> PhaseStatus]
  PROVE  SweeperInv'
<1>1. SweeperTypes'
  BY DEF SweeperInv, SweeperTypes
<1>2. OfflineKnown' /\ OfflineOverdueOrRacing'
  BY DEF SweeperInv, OfflineKnown, OfflineOverdueOrRacing
<1>3. ListedRacing'
  BY DEF SweeperInv, ListedRacing, Racing, In
<1>. QED
  BY <1>1, <1>2, <1>3 DEF SweeperInv

\* A decision to retry is only taken below the budget.
LEMMA RetryBelowBudget ==
  ASSUME NEW signal, NEW retried \in Nat, NEW tier,
         DecideRecovery(signal, retried, tier).kind = "retry"
  PROVE  retried + 1 <= Policy.max
<1>1. Policy.max \in Nat
  BY PolicyAssumption DEF RetryPolicy
<1>2. ~ Spent(retried)
  BY DEF DecideRecovery, Cancel, Escalate
<1>. QED
  BY <1>1, <1>2 DEF Spent

LEMMA CopyType ==
  ASSUME MonitorTypes
  PROVE  /\ mon.copy \in Copy /\ mon.copy.idx \in Phases /\ mon.copy.retries \in Nat
         /\ mon.copy.status \in PhaseStatus /\ mon.copy.started \in Time
         /\ mon.signal \in Signal /\ mon.at \in Time
  BY DEF MonitorTypes, Mon, Copy

LEMMA IdleType == Idle \in Mon /\ Idle.pc = "idle"
<1>1. 0 \in Phases
  BY SupervisionAssumption
<1>. QED
  BY <1>1, Zeros DEF Idle, Mon, NoCopy, Copy, PhaseStatus, Signal

LEMMA ReturnType ==
  ASSUME MonitorTypes, NEW c \in Copy, Return(c)
  PROVE  mon' \in Mon /\ (mon'.pc = "idle" \/ (mon'.pc = "loaded" /\ mon'.copy = c))
  BY IdleType DEF MonitorTypes, Return, Mon

LEMMA CountedType ==
  ASSUME MonitorTypes
  PROVE  /\ Counted \in Copy /\ Counted.idx = mon.copy.idx
         /\ Counted.retries = mon.copy.retries + 1
  BY CopyType DEF Counted, Copy

\* The steps that write no row.
LEMMA MonOnly ==
  ASSUME MonitorInv, mon' \in Mon, UNCHANGED <<idx, started, retries, rec, handed, lost>>,
         mon'.pc # "idle" =>
            handed[mon'.copy.idx] <= mon'.copy.retries + lost[mon'.copy.idx]
  PROVE  MonitorInv'
  BY DEF MonitorInv, MonitorTypes, CopyCounts, RowsCapped, BudgetHonoured, At

LEMMA CheckStep ==
  ASSUME MonitorInv, now \in Time, phase \in [Phases -> PhaseStatus],
         Load \/ AskTask \/ AskCompleteness \/ CheckFails
  PROVE  MonitorInv'
<1>. USE DEF MonitorInv
<1>1. /\ mon \in Mon /\ mon.copy \in Copy
      /\ UNCHANGED <<idx, started, retries, rec, handed, lost>>
  BY CopyType DEF MonitorTypes, MonitorStep, Load, AskTask, AskCompleteness, CheckFails
<1>2. CASE Load
  <2>. DEFINE c == [idx |-> idx, status |-> phase[idx],
                    started |-> started[idx], retries |-> retries[idx]]
  <2>1. mon' = [mon EXCEPT !.pc = "loaded", !.copy = c]
    BY <1>2 DEF Load
  <2>2. c \in Copy /\ c.idx = idx /\ c.retries = retries[idx] /\ retries[idx] \in Nat
    BY DEF MonitorTypes, Copy
  <2>. HIDE DEF c
  <2>3. mon' \in Mon /\ mon'.copy = c
    BY <2>1, <2>2, <1>1 DEF Mon
  <2>4. handed[idx] <= retries[idx] + lost[idx]
    BY DEF MonitorTypes, BudgetHonoured
  <2>. QED
    BY <2>2, <2>3, <2>4, <1>1, MonOnly
<1>3. CASE AskTask
  <2>1. PICK p \in {"asked", "signalled"}, signal \in Signal :
             mon' = [mon EXCEPT !.pc = p, !.at = now, !.signal = signal]
    <3>1. mon' \in {Signalled("phase_complete"), Signalled("failed"),
                    Signalled("heartbeat_timeout"),
                    [mon EXCEPT !.pc = "asked", !.at = now]}
      BY <1>3 DEF AskTask
    <3>2. [mon EXCEPT !.pc = "asked", !.at = now]
              = [mon EXCEPT !.pc = "asked", !.at = now, !.signal = mon.signal]
      BY <1>1 DEF Mon
    <3>3. mon.signal \in Signal
      BY <1>1 DEF Mon
    <3>. QED
      BY <3>1, <3>2, <3>3 DEF Signalled, Signal, StallReason
  <2>2. mon' \in Mon /\ mon'.copy = mon.copy
    BY <2>1, <1>1 DEF Mon
  <2>3. ~ At("idle")
    BY <1>3 DEF AskTask, At
  <2>. QED
    BY <2>2, <2>3, <1>1, MonOnly DEF CopyCounts
<1>4. CASE AskCompleteness
  <2>1. PICK signal \in Signal : mon' = [mon EXCEPT !.pc = "signalled", !.signal = signal]
    BY <1>4 DEF AskCompleteness, ProgressSignal, Signal, StallReason
  <2>2. mon' \in Mon /\ mon'.copy = mon.copy
    BY <2>1, <1>1 DEF Mon
  <2>3. ~ At("idle")
    BY <1>4 DEF AskCompleteness, At
  <2>. QED
    BY <2>2, <2>3, <1>1, MonOnly DEF CopyCounts
<1>5. CASE CheckFails
  BY <1>5, <1>1, IdleType, MonOnly DEF CheckFails
<1>. QED
  BY <1>2, <1>3, <1>4, <1>5

\* The retry is written with its count before it is handed out.
LEMMA RetryStep == ASSUME MonitorInv, HandleRetry PROVE MonitorInv'
<1>. DEFINE q == mon.copy.idx
            n == mon.copy.retries
<1>1. /\ q \in Phases /\ n \in Nat /\ mon.copy.started \in Time
      /\ handed[q] \in Nat /\ lost[q] \in Nat /\ handed[q] <= n + lost[q]
  BY CopyType DEF MonitorInv, MonitorTypes, CopyCounts, HandleRetry, At
<1>2. n + 1 <= Policy.max
  BY <1>1, RetryBelowBudget DEF HandleRetry, Decision
<1>3. /\ started' = [started EXCEPT ![q] = mon.copy.started]
      /\ retries' = [retries EXCEPT ![q] = n + 1]
      /\ handed' = [handed EXCEPT ![q] = handed[q] + 1]
      /\ idx' = idx /\ rec' = rec /\ lost' = lost /\ Return(Counted)
  BY DEF HandleRetry
<1>4. /\ mon' \in Mon
      /\ mon'.pc = "idle" \/ (mon'.copy.idx = q /\ mon'.copy.retries = n + 1)
  BY <1>3, CountedType, ReturnType DEF MonitorInv
<1>. HIDE DEF q, n
<1>5. MonitorTypes'
  BY <1>1, <1>3, <1>4 DEF MonitorInv, MonitorTypes
<1>6. CopyCounts' /\ RowsCapped'
  BY <1>1, <1>3, <1>4 DEF MonitorInv, MonitorTypes, CopyCounts, RowsCapped, At
<1>7. BudgetHonoured'
  <2>. SUFFICES ASSUME NEW p \in Phases
                PROVE  handed'[p] <= retries'[p] + lost'[p] /\ retries'[p] <= Policy.max
    BY DEF BudgetHonoured
  <2>1. CASE p = q
    BY <2>1, <1>1, <1>2, <1>3 DEF MonitorInv, MonitorTypes
  <2>2. CASE p # q
    BY <2>2, <1>3 DEF MonitorInv, MonitorTypes, BudgetHonoured
  <2>. QED
    BY <2>1, <2>2
<1>. QED
  BY <1>5, <1>6, <1>7 DEF MonitorInv

LEMMA HandleStep ==
  ASSUME MonitorInv, HandleRetryFails \/ HandleComplete \/ HandleOther
  PROVE  MonitorInv'
<1>. USE DEF MonitorInv
<1>1. /\ ~ At("idle") /\ UNCHANGED <<idx, started, retries, rec, handed, lost>>
  BY DEF HandleRetryFails, HandleComplete, HandleOther, MonitorStep, At
<1>2. /\ mon.copy \in Copy /\ mon.copy.idx \in Phases /\ mon.copy.retries \in Nat
      /\ handed[mon.copy.idx] \in Nat /\ lost[mon.copy.idx] \in Nat
      /\ handed[mon.copy.idx] <= mon.copy.retries + lost[mon.copy.idx]
  BY <1>1, CopyType DEF CopyCounts, MonitorTypes
<1>3. PICK c \in Copy : /\ Return(c) /\ c.idx = mon.copy.idx
                        /\ c.retries \in {mon.copy.retries, mon.copy.retries + 1}
  <2>1. CASE HandleRetryFails
    BY <2>1, CountedType DEF HandleRetryFails
  <2>2. CASE HandleComplete
    <3>. DEFINE d == [mon.copy EXCEPT !.status = "completed"]
    <3>1. d \in Copy /\ d.idx = mon.copy.idx /\ d.retries = mon.copy.retries
      BY <1>2 DEF Copy, PhaseStatus
    <3>. QED
      BY <2>2, <3>1 DEF HandleComplete
  <2>3. CASE HandleOther
    BY <2>3, <1>2 DEF HandleOther
  <2>. QED
    BY <2>1, <2>2, <2>3
<1>4. mon' \in Mon /\ (mon'.pc = "idle" \/ mon'.copy = c)
  BY <1>3, ReturnType
<1>. QED
  BY <1>1, <1>2, <1>3, <1>4, MonOnly

-----------------------------------------------------------------------------
(* The processes that reconcile.                                           *)

LEMMA BlankType ==
  Blank \in Rows /\ \A q \in Phases : Blank.retries[q] <= Policy.max
<1>1. 0 \in Phases /\ Policy.max \in Nat
  BY SupervisionAssumption, PolicyAssumption DEF RetryPolicy
<1>. QED
  BY <1>1, Zeros DEF Blank, Rows, PhaseStatus

LEMMA SettleType ==
  ASSUME now \in Time, NEW r \in Rows, NEW s \in PhaseStatus
  PROVE  /\ Settle(r, s) \in Rows /\ Settle(r, s).retries = r.retries
         /\ Settle(r, s).idx = r.idx
  BY DEF Settle, Rows

\* What is decided leaves the counts as they were read.
LEMMA OutcomesType ==
  ASSUME now \in Time, NEW r \in Rows, NEW o \in Outcomes(r)
  PROVE  o \in Rows /\ o.retries = r.retries
<1>. DEFINE done == Settle(r, "completed")
            gone == Settle(r, "failed")
            next == IF r.idx < LastPhase THEN r.idx + 1 ELSE r.idx
<1>1. /\ done \in Rows /\ done.retries = r.retries /\ done.idx = r.idx
      /\ gone \in Rows /\ gone.retries = r.retries
  BY SettleType DEF PhaseStatus
<1>2. r.idx \in Phases /\ next \in Phases
  BY SupervisionAssumption DEF Rows
<1>3. \/ o \in {r, [gone EXCEPT !.status = "failed"], done}
      \/ \E i \in {r.idx, next} : o = [done EXCEPT !.status = "live", !.idx = i]
  BY DEF Outcomes
<1>. HIDE DEF done, gone, next
<1>4. CASE o = [gone EXCEPT !.status = "failed"]
  BY <1>4, <1>1 DEF Rows
<1>5. ASSUME NEW i \in Phases, o = [done EXCEPT !.status = "live", !.idx = i]
      PROVE  o \in Rows /\ o.retries = r.retries
  BY <1>5, <1>1 DEF Rows
<1>. QED
  BY <1>1, <1>2, <1>3, <1>4, <1>5

\* The steps of a reconcile that write no row.
LEMMA RecOnly ==
  ASSUME MonitorInv, UNCHANGED <<idx, started, retries, mon, handed, lost>>,
         rec' \in [Reconcilers -> Reconciler], RowsCapped'
  PROVE  MonitorInv'
  BY DEF MonitorInv, MonitorTypes, CopyCounts, BudgetHonoured, At

LEMMA ReconcileStep ==
  ASSUME MonitorInv, now \in Time, phase \in [Phases -> PhaseStatus],
         status \in {"live", "failed"}, NEW p \in Reconcilers,
         ReconcileLoad(p) \/ ReconcileDecide(p) \/ ReconcileGivesUp(p)
  PROVE  MonitorInv'
<1>1. /\ rec \in [Reconcilers -> Reconciler]
      /\ rec[p].rows \in Rows /\ rec[p].run \in 0 .. MaxReconciles
      /\ \A q \in Phases : rec[p].rows.retries[q] <= Policy.max
      /\ UNCHANGED <<idx, started, retries, mon, handed, lost>>
  BY DEF MonitorInv, MonitorTypes, RowsCapped, Reconciler,
         ReconcileLoad, ReconcileDecide, ReconcileGivesUp
<1>2. ASSUME NEW e \in Reconciler, rec' = [rec EXCEPT ![p] = e],
             \A q \in Phases : e.rows.retries[q] <= Policy.max
      PROVE  MonitorInv'
  <2>1. rec' \in [Reconcilers -> Reconciler]
    BY <1>1, <1>2
  <2>2. RowsCapped'
    BY <1>1, <1>2 DEF MonitorInv, RowsCapped
  <2>. QED
    BY <1>1, <2>1, <2>2, RecOnly
<1>3. CASE ReconcileLoad(p)
  <2>. DEFINE e == [pc |-> "loaded", rows |-> Stored, run |-> rec[p].run + 1]
  <2>1. rec' = [rec EXCEPT ![p] = e] /\ rec[p].run < MaxReconciles
    BY <1>3 DEF ReconcileLoad
  <2>2. Stored \in Rows /\ Stored.retries = retries
    BY DEF Stored, Rows, MonitorInv, MonitorTypes
  <2>3. e \in Reconciler
    BY <1>1, <2>1, <2>2, SupervisionAssumption DEF Reconciler
  <2>4. \A q \in Phases : e.rows.retries[q] <= Policy.max
    BY <2>2 DEF MonitorInv, BudgetHonoured
  <2>. HIDE DEF e
  <2>. QED
    BY <1>2, <2>1, <2>3, <2>4
<1>4. CASE ReconcileDecide(p)
  <2>1. PICK r \in Outcomes(rec[p].rows) :
             rec' = [rec EXCEPT ![p].pc = "decided", ![p].rows = r]
    BY <1>4 DEF ReconcileDecide
  <2>. DEFINE e == [rec[p] EXCEPT !.pc = "decided", !.rows = r]
  <2>2. rec' = [rec EXCEPT ![p] = e]
    BY <1>1, <2>1 DEF Reconciler
  <2>3. r \in Rows /\ r.retries = rec[p].rows.retries
    BY <1>1, OutcomesType
  <2>4. e \in Reconciler /\ e.rows = r
    BY <1>1, <2>3 DEF Reconciler
  <2>. HIDE DEF e
  <2>. QED
    BY <1>1, <1>2, <2>2, <2>3, <2>4
<1>5. CASE ReconcileGivesUp(p)
  <2>. DEFINE e == [rec[p] EXCEPT !.pc = "idle", !.rows = Blank]
  <2>1. rec' = [rec EXCEPT ![p] = e]
    BY <1>1, <1>5 DEF ReconcileGivesUp, Reconciler
  <2>2. e \in Reconciler /\ e.rows = Blank
    BY <1>1, BlankType DEF Reconciler
  <2>. HIDE DEF e
  <2>. QED
    BY <1>2, <2>1, <2>2, BlankType
<1>. QED
  BY <1>3, <1>4, <1>5

\* What a commit takes off a count it adds to what is written off.
LEMMA CommitStep ==
  ASSUME MonitorInv, NEW p \in Reconcilers, ReconcileCommit(p)
  PROVE  MonitorInv'
<1>. DEFINE r == rec[p].rows
            e == [rec[p] EXCEPT !.pc = "idle", !.rows = Blank]
<1>1. /\ started' = r.started /\ retries' = r.retries /\ idx' = r.idx
      /\ mon' = mon /\ handed' = handed /\ rec' = [rec EXCEPT ![p] = e]
      /\ lost' = [q \in Phases |-> lost[q] + IF r.retries[q] < retries[q]
                                             THEN retries[q] - r.retries[q] ELSE 0]
  BY DEF ReconcileCommit, MonitorInv, MonitorTypes, Reconciler
<1>2. /\ rec \in [Reconcilers -> Reconciler] /\ rec[p] \in Reconciler
      /\ r.retries \in [Phases -> Nat] /\ r.started \in [Phases -> Time] /\ r.idx \in Phases
      /\ retries \in [Phases -> Nat] /\ lost \in [Phases -> Nat]
      /\ handed \in [Phases -> Nat] /\ mon \in Mon
      /\ \A q \in Phases : r.retries[q] <= Policy.max
  BY DEF MonitorInv, MonitorTypes, RowsCapped, Reconciler, Rows
<1>3. e \in Reconciler /\ e.rows = Blank
  BY <1>2, BlankType DEF Reconciler
<1>. HIDE DEF r, e
<1>4. \A q \in Phases : /\ lost'[q] \in Nat /\ lost[q] <= lost'[q]
                        /\ retries[q] + lost[q] <= retries'[q] + lost'[q]
  BY <1>1, <1>2
<1>5. MonitorTypes'
  <2>1. lost' \in [Phases -> Nat]
    BY <1>1, <1>4
  <2>. QED
    BY <1>1, <1>2, <1>3, <2>1 DEF MonitorTypes
<1>6. CopyCounts'
  <2>. SUFFICES ASSUME mon.pc # "idle"
                PROVE  handed[mon.copy.idx] <= mon.copy.retries + lost'[mon.copy.idx]
    BY <1>1 DEF CopyCounts, At
  <2>. DEFINE i == mon.copy.idx
              n == mon.copy.retries
  <2>1. i \in Phases /\ n \in Nat /\ handed[i] <= n + lost[i]
    BY CopyType DEF MonitorInv, CopyCounts, At
  <2>2. lost[i] \in Nat /\ handed[i] \in Nat
    BY <1>2, <2>1
  <2>. HIDE DEF i, n
  <2>3. handed[i] <= n + lost'[i]
    BY <1>4, <2>1, <2>2
  <2>. QED
    BY <2>3 DEF i, n
<1>7. RowsCapped'
  BY <1>1, <1>2, <1>3, BlankType DEF MonitorInv, RowsCapped
<1>8. BudgetHonoured'
  <2>. SUFFICES ASSUME NEW q \in Phases
                PROVE  handed'[q] <= retries'[q] + lost'[q] /\ retries'[q] <= Policy.max
    BY DEF BudgetHonoured
  <2>1. handed[q] <= retries[q] + lost[q]
    BY DEF MonitorInv, BudgetHonoured
  <2>2. handed[q] \in Nat /\ retries[q] \in Nat /\ lost[q] \in Nat /\ retries'[q] \in Nat
    BY <1>1, <1>2
  <2>. QED
    BY <1>1, <1>2, <1>4, <2>1, <2>2
<1>. QED
  BY <1>5, <1>6, <1>7, <1>8 DEF MonitorInv

LEMMA StartStep == ASSUME MonitorInv, now \in Time, StartPhase PROVE MonitorInv'
<1>1. /\ started' = [started EXCEPT ![idx] = now]
      /\ UNCHANGED <<idx, retries, mon, rec, handed, lost>>
  BY DEF StartPhase
<1>2. started' \in [Phases -> Time]
  BY <1>1 DEF MonitorInv, MonitorTypes
<1>. QED
  BY <1>1, <1>2 DEF MonitorInv, MonitorTypes, CopyCounts, RowsCapped, BudgetHonoured, At

-----------------------------------------------------------------------------
(* Both together.                                                          *)

SupervisionInv == SweeperInv /\ MonitorInv

LEMMA InitSupervision == Init => SupervisionInv
<1>. SUFFICES ASSUME Init PROVE SupervisionInv
  OBVIOUS
<1>1. /\ now = 0 /\ faults = 0 /\ status = "live" /\ sweep = Started
      /\ registry = [r \in Runtimes |-> NoEntry]
      /\ phase = [q \in Phases |-> "pending"]
  BY DEF Init, SweeperInit
<1>2. /\ idx = 0 /\ mon = Idle /\ started = [q \in Phases |-> 0]
      /\ retries = [q \in Phases |-> 0]
      /\ handed = [q \in Phases |-> 0] /\ lost = [q \in Phases |-> 0]
      /\ rec = [p \in Reconcilers |-> [pc |-> "idle", rows |-> Blank, run |-> 0]]
  BY DEF Init
<1>3. NoEntry \in Entry /\ NoEntry.status = "absent" /\ NoEntry.gone = Never
  BY Zeros DEF NoEntry, Entry, RuntimeStatus
<1>4. SweeperTypes
  BY <1>1, <1>3, Zeros, Records, SweeperAssumption DEF SweeperTypes, PhaseStatus
<1>5. OfflineKnown /\ OfflineOverdueOrRacing
  BY <1>1, <1>3 DEF OfflineKnown, OfflineOverdueOrRacing
<1>6. ListedRacing
  BY <1>1, Records DEF ListedRacing
<1>7. MonitorTypes
  BY <1>2, Zeros, IdleType, BlankType, SupervisionAssumption DEF MonitorTypes, Reconciler
<1>8. CopyCounts /\ RowsCapped
  BY <1>2, IdleType, BlankType DEF CopyCounts, RowsCapped, At
<1>9. BudgetHonoured
  BY <1>2, PolicyAssumption DEF BudgetHonoured, RetryPolicy
<1>. QED
  BY <1>4, <1>5, <1>6, <1>7, <1>8, <1>9 DEF SupervisionInv, SweeperInv, MonitorInv

LEMMA SupervisionStep == SupervisionInv /\ [Next]_vars => SupervisionInv'
<1>. SUFFICES ASSUME SupervisionInv, [Next]_vars PROVE SupervisionInv'
  OBVIOUS
<1>0. /\ SweeperInv /\ MonitorInv /\ now \in Time /\ faults \in 0 .. MaxFaults
      /\ phase \in [Phases -> PhaseStatus] /\ status \in {"live", "failed"}
  BY DEF SupervisionInv, SweeperInv, SweeperTypes
<1>1. CASE SweeperNext /\ UNCHANGED monitorVars
  <2>1. SweeperInv'
    BY <1>0, <1>1, SweeperStep
  <2>2. MonitorInv'
    BY <1>0, <1>1 DEF monitorVars, MonitorInv, MonitorTypes, CopyCounts, RowsCapped,
                      BudgetHonoured, At
  <2>. QED
    BY <2>1, <2>2 DEF SupervisionInv
<1>2. CASE Load \/ AskTask \/ AskCompleteness \/ CheckFails
  <2>1. SweeperInv'
    BY <1>0, <1>2, PhaseOnly DEF Load, AskTask, AskCompleteness, CheckFails, MonitorStep, sweeperVars
  <2>. QED
    BY <2>1, <1>0, <1>2, CheckStep DEF SupervisionInv
<1>3. CASE HandleRetry
  <2>1. phase' \in [Phases -> PhaseStatus]
    BY <1>0, <1>3, CopyType DEF HandleRetry, MonitorInv
  <2>2. SweeperInv'
    BY <1>0, <1>3, <2>1, PhaseOnly DEF HandleRetry
  <2>. QED
    BY <2>2, <1>0, <1>3, RetryStep DEF SupervisionInv
<1>4. CASE HandleRetryFails \/ HandleComplete \/ HandleOther
  <2>1. SweeperInv'
    BY <1>0, <1>4, PhaseOnly, BusyType
    DEF HandleRetryFails, HandleComplete, HandleOther, MonitorStep, sweeperVars
  <2>. QED
    BY <2>1, <1>0, <1>4, HandleStep DEF SupervisionInv
<1>5. CASE StartPhase
  <2>1. phase' \in [Phases -> PhaseStatus]
    BY <1>0, <1>5 DEF StartPhase, PhaseStatus
  <2>2. SweeperInv'
    BY <1>0, <1>5, <2>1, PhaseOnly DEF StartPhase
  <2>. QED
    BY <2>2, <1>0, <1>5, StartStep DEF SupervisionInv
<1>7. ASSUME NEW p \in Reconcilers,
             ReconcileLoad(p) \/ ReconcileDecide(p) \/ ReconcileGivesUp(p)
      PROVE  SupervisionInv'
  <2>1. SweeperInv'
    BY <1>0, <1>7, PhaseOnly DEF ReconcileLoad, ReconcileDecide, ReconcileGivesUp, sweeperVars
  <2>. QED
    BY <2>1, <1>0, <1>7, ReconcileStep DEF SupervisionInv
<1>8. ASSUME NEW p \in Reconcilers, ReconcileCommit(p) PROVE SupervisionInv'
  <2>1. rec[p].rows.phase \in [Phases -> PhaseStatus] /\ rec[p].rows.status \in {"live", "failed"}
    BY <1>0 DEF MonitorInv, MonitorTypes, Reconciler, Rows
  <2>2. SweeperInv'
    BY <1>0, <1>8, <2>1, PhaseOnly DEF ReconcileCommit
  <2>. QED
    BY <2>2, <1>0, <1>8, CommitStep DEF SupervisionInv
<1>6. CASE UNCHANGED vars
  <2>1. SweeperInv'
    BY <1>0, <1>6, PhaseOnly DEF vars, sweeperVars
  <2>2. MonitorInv'
    BY <1>0, <1>6 DEF vars, monitorVars, MonitorInv, MonitorTypes, CopyCounts, RowsCapped,
                      BudgetHonoured, At
  <2>. QED
    BY <2>1, <2>2 DEF SupervisionInv
<1>. QED
  BY <1>1, <1>2, <1>3, <1>4, <1>5, <1>6, <1>7, <1>8 DEF Next, Monitor, Environment, Reconciling

(* Type correctness of the rows, the sweeper thread and the monitor, for   *)
(* any runtimes, phases, timeouts and policy.                              *)
THEOREM TypeCorrect == Spec => []TypeOK
<1>1. SupervisionInv => TypeOK
  BY DEF SupervisionInv, SweeperInv, MonitorInv, SweeperTypes, MonitorTypes, OfflineKnown, TypeOK
<1>. QED
  BY InitSupervision, SupervisionStep, <1>1, PTL DEF Spec

(* No count goes beyond the policy, and every retry handed out is on       *)
(* record or was written off by a reconcile that had read an older count:  *)
(* for any number of processes that reconcile, whatever fails between.     *)
THEOREM BudgetKept == Spec => []BudgetHonoured
<1>1. SupervisionInv => BudgetHonoured
  BY DEF SupervisionInv, MonitorInv
<1>. QED
  BY InitSupervision, SupervisionStep, <1>1, PTL DEF Spec

(* No sweep, interrupted or not, marks a runtime offline whose heartbeat   *)
(* was in time when the sweep began, unless a newer one raced the sweep.   *)
THEOREM OfflineJustified == Spec => []OfflineOverdueOrRacing
<1>1. SupervisionInv => OfflineOverdueOrRacing
  BY DEF SupervisionInv, SweeperInv
<1>. QED
  BY InitSupervision, SupervisionStep, <1>1, PTL DEF Spec

-----------------------------------------------------------------------------
(* The typed decisions, decide_recovery_typed, agree with the policy but   *)
(* for one kind: a task that is too large is narrowed and tried once, even *)
(* where the policy allows no retries at all.                              *)
THEOREM TypedBudget ==
  ASSUME NEW kind \in FailureKind, NEW retried \in Nat,
         DecideRecoveryTyped(kind, retried).kind = "retry"
  PROVE  retried < Policy.max \/ (kind = "task_too_large" /\ retried = 0)
<1>1. Policy.max \in Nat
  BY PolicyAssumption DEF RetryPolicy
<1>2. kind \notin {"spec_ambiguity", "contract_mismatch", "scope_violation", "missing_dependency"}
  BY DEF DecideRecoveryTyped, Escalate, Cancel
<1>3. CASE kind = "task_too_large"
  BY <1>3 DEF DecideRecoveryTyped, Escalate
<1>4. CASE kind # "task_too_large"
  <2>1. DecideRecoveryTyped(kind, retried) =
          (IF Spent(retried) THEN Escalate ELSE Retry(FALSE, NoTier))
    BY <1>2, <1>4 DEF DecideRecoveryTyped
  <2>2. ASSUME Spent(retried) PROVE FALSE
    <3>1. DecideRecoveryTyped(kind, retried).kind = "escalate"
      BY <2>1, <2>2 DEF Escalate
    <3>. QED
      BY <3>1
  <2>. QED
    BY <1>1, <2>2 DEF Spent
<1>. QED
  BY <1>3, <1>4
=============================================================================
