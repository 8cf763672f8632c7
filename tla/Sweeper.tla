------------------------------ MODULE Sweeper -------------------------------
(***************************************************************************)
(* The runtime registry and the background sweeper of src/sweeper.rs.      *)
(*                                                                         *)
(* Runtimes are expected to send heartbeats, an UPSERT each.  A sweeper    *)
(* thread repeats run_sweep, which takes the time once and then makes four *)
(* passes, each a query followed by one transaction per row found: nothing *)
(* ties a query to the writes after it, so heartbeats, other writers of    *)
(* the phase rows and a crash fall in between.  Any SQLite call may find   *)
(* the database busy; the sweep then goes on with its next row or pass.    *)
(***************************************************************************)
EXTENDS Naturals

CONSTANTS
    Runtimes,      \* runtime ids
    Phases,        \* phases of the one workflow
    AgentOf,       \* the agent_id of each phase row
    Timeout,       \* heartbeat_timeout
    Retention,     \* gc_retention
    Interval,      \* sweep_interval, in steps of the thread's sleep
    MaxTime,       \* bound on the clock
    MaxFaults,     \* bound on busy databases and crashes
    Never          \* a timestamp column that is NULL

ASSUME SweeperAssumption ==
    /\ AgentOf \in [Phases -> Runtimes]
    /\ Timeout \in Nat /\ Retention \in Nat /\ Interval \in Nat
    /\ MaxTime \in Nat /\ MaxFaults \in Nat
    /\ Never \notin Nat

VARIABLES
    now,       \* the wall clock
    faults,    \* busy databases and crashes so far
    registry,  \* the runtimes table
    phase,     \* phase_states.status
    status,    \* workflows.status, failed or not
    sweep      \* the sweeper thread

sweeperVars == <<now, faults, registry, phase, status, sweep>>

Time == 0 .. MaxTime

RuntimeStatus == {"absent", "online", "offline"}

\* beat is last_heartbeat, gone is went_offline_at.
Entry == [status : RuntimeStatus, beat : Time, gone : Time \cup {Never}]

NoEntry == [status |-> "absent", beat |-> 0, gone |-> Never]

Pass == {"flag", "list", "mark", "fail", "offline", "query", "reconcile", "gc",
         "sleep", "exited"}

Sweep == [pass  : Pass,
          stop  : BOOLEAN,            \* stop_flag
          slept : 0 .. Interval,
          at    : Time,               \* now, as run_sweep took it
          stale : SUBSET Runtimes,    \* listed as online, heartbeat too old
          newly : SUBSET Runtimes,    \* newly_offline, then all offline ids
          todo  : SUBSET Phases]      \* orphans still to be failed

Started == [pass |-> "flag", stop |-> FALSE, slept |-> 0, at |-> 0,
            stale |-> {}, newly |-> {}, todo |-> {}]

SweeperInit ==
    /\ now = 0
    /\ faults = 0
    /\ registry = [r \in Runtimes |-> NoEntry]
    /\ phase = [q \in Phases |-> "pending"]
    /\ status = "live"
    /\ sweep = Started

In(pass) == sweep.pass = pass

Go(pass) == [sweep EXCEPT !.pass = pass]

\* run_sweep has returned: what it knew is gone, the flag is not.
Finished == [Started EXCEPT !.pass = "sleep", !.stop = sweep.stop]

Busy == faults < MaxFaults /\ faults' = faults + 1

-----------------------------------------------------------------------------
(* What happens around the sweeper.                                        *)

Tick ==
    /\ now < MaxTime
    /\ now' = now + 1
    /\ UNCHANGED <<faults, registry, phase, status, sweep>>

UpsertHeartbeat(r) ==
    /\ registry' = [registry EXCEPT ![r] =
                      [status |-> "online", beat |-> now, gone |-> Never]]
    /\ UNCHANGED <<now, faults, phase, status, sweep>>

\* The process dies in the middle of anything, and another one is started.
Crash ==
    /\ Busy
    /\ sweep' = Started
    /\ UNCHANGED <<now, registry, phase, status>>

-----------------------------------------------------------------------------
(* The thread: sweep, sleep in small steps, until the owner of the handle  *)
(* drops it.  The drop sets the flag and joins the thread; a later command *)
(* starts another sweeper.                                                 *)

RequestStop ==
    /\ ~ sweep.stop
    /\ sweep' = [sweep EXCEPT !.stop = TRUE]
    /\ UNCHANGED <<now, faults, registry, phase, status>>

\* Mutant: the flag is not looked at between two sweeps.
BeginAnyway ==
    /\ In("flag")
    /\ sweep' = [sweep EXCEPT !.pass = "list", !.at = now]
    /\ UNCHANGED <<now, faults, registry, phase, status>>

Begin ==
    /\ In("flag")
    /\ ~ sweep.stop
    /\ sweep' = [Started EXCEPT !.pass = "list", !.at = now]
    /\ UNCHANGED <<now, faults, registry, phase, status>>

SleepStep ==
    /\ In("sleep")
    /\ sweep.slept < Interval /\ ~ sweep.stop
    /\ sweep' = [sweep EXCEPT !.slept = @ + 1]
    /\ UNCHANGED <<now, faults, registry, phase, status>>

Wake ==
    /\ In("sleep")
    /\ sweep.slept = Interval \/ sweep.stop
    /\ sweep' = [sweep EXCEPT !.pass = "flag", !.slept = 0]
    /\ UNCHANGED <<now, faults, registry, phase, status>>

Exit ==
    /\ In("flag")
    /\ sweep.stop
    /\ sweep' = Go("exited")
    /\ UNCHANGED <<now, faults, registry, phase, status>>

Restart ==
    /\ In("exited")
    /\ sweep' = Started
    /\ UNCHANGED <<now, faults, registry, phase, status>>

-----------------------------------------------------------------------------
(* Pass 1, heartbeat timeout: list, then mark the stale ones one by one.   *)

\* Mutant: a heartbeat exactly heartbeat_timeout ago is already missed.
IsStaleOnTime(r) ==
    registry[r].status = "online" /\ registry[r].beat + Timeout <= sweep.at

IsStale(r) ==
    registry[r].status = "online" /\ registry[r].beat + Timeout < sweep.at

List ==
    /\ In("list")
    /\ sweep' = [sweep EXCEPT !.pass = "mark", !.stale = {r \in Runtimes : IsStale(r)}]
    /\ UNCHANGED <<now, faults, registry, phase, status>>

ListFails ==
    /\ In("list")
    /\ Busy
    /\ sweep' = Finished
    /\ UNCHANGED <<now, registry, phase, status>>

\* UPDATE ... WHERE status != 'offline': the heartbeat is not looked at again.
MarkOffline(r) ==
    /\ In("mark")
    /\ r \in sweep.stale
    /\ registry' = IF registry[r].status # "online" THEN registry
                   ELSE [registry EXCEPT ![r].status = "offline", ![r].gone = sweep.at]
    /\ sweep' = [sweep EXCEPT !.stale = @ \ {r}, !.newly = @ \cup {r}]
    /\ UNCHANGED <<now, faults, phase, status>>

MarkFails(r) ==
    /\ In("mark")
    /\ r \in sweep.stale
    /\ Busy
    /\ sweep' = [sweep EXCEPT !.stale = @ \ {r}]
    /\ UNCHANGED <<now, registry, phase, status>>

-----------------------------------------------------------------------------
(* Pass 2, orphan failure, and fail_phase: two UPDATEs in one transaction, *)
(* each with its own condition.                                            *)

OrphansOf(runtimes) == {q \in Phases : phase[q] = "active" /\ AgentOf[q] \in runtimes}

QueryOrphans ==
    /\ In("mark")
    /\ sweep.stale = {}
    /\ sweep' = [sweep EXCEPT !.pass = "fail", !.todo = OrphansOf(sweep.newly)]
    /\ UNCHANGED <<now, faults, registry, phase, status>>

QueryFails ==
    /\ In("mark")
    /\ sweep.stale = {}
    /\ sweep.newly # {}
    /\ Busy
    /\ sweep' = Go("offline")
    /\ UNCHANGED <<now, registry, phase, status>>

FailPhase(q) ==
    /\ phase' = IF phase[q] = "active" THEN [phase EXCEPT ![q] = "failed"] ELSE phase
    /\ status' = "failed"

FailOrphan(q) ==
    /\ In("fail") \/ In("reconcile")
    /\ q \in sweep.todo
    /\ FailPhase(q)
    /\ sweep' = [sweep EXCEPT !.todo = @ \ {q}]
    /\ UNCHANGED <<now, faults, registry>>

\* Pass 2 goes on with the next orphan, pass 3 gives up its remaining ones.
FailOrphanFails(q) ==
    /\ In("fail") \/ In("reconcile")
    /\ q \in sweep.todo
    /\ Busy
    /\ sweep' = [sweep EXCEPT !.todo = IF In("fail") THEN @ \ {q} ELSE {},
                              !.pass = IF In("fail") THEN @ ELSE "gc"]
    /\ UNCHANGED <<now, registry, phase, status>>

-----------------------------------------------------------------------------
(* Pass 3, reconciliation: the offline runtimes of the table this time.    *)

\* Mutant: only the runtimes of pass 1 are reconciled.
ListNewlyOffline ==
    /\ In("offline") \/ (In("fail") /\ sweep.todo = {})
    /\ sweep' = Go(IF sweep.newly = {} THEN "gc" ELSE "query")
    /\ UNCHANGED <<now, faults, registry, phase, status>>

ListOffline ==
    /\ In("offline") \/ (In("fail") /\ sweep.todo = {})
    /\ LET offline == {r \in Runtimes : registry[r].status = "offline"} IN
       sweep' = [sweep EXCEPT !.pass = IF offline = {} THEN "gc" ELSE "query",
                              !.newly = offline]
    /\ UNCHANGED <<now, faults, registry, phase, status>>

QueryReconcile ==
    /\ In("query")
    /\ sweep' = [sweep EXCEPT !.pass = "reconcile", !.todo = OrphansOf(sweep.newly)]
    /\ UNCHANGED <<now, faults, registry, phase, status>>

ReconcileFails ==
    /\ In("offline") \/ In("query")
    /\ Busy
    /\ sweep' = Go("gc")
    /\ UNCHANGED <<now, registry, phase, status>>

-----------------------------------------------------------------------------
(* Pass 4, garbage collection, whatever became of pass 3.                  *)

\* NULL compares as unknown, so a row without went_offline_at stays.
Collectable(r) ==
    /\ registry[r].status = "offline"
    /\ registry[r].gone # Never
    /\ registry[r].gone + Retention < sweep.at

Gc ==
    /\ In("gc") \/ (In("reconcile") /\ sweep.todo = {})
    /\ registry' = [r \in Runtimes |-> IF Collectable(r) THEN NoEntry ELSE registry[r]]
    /\ sweep' = Finished
    /\ UNCHANGED <<now, faults, phase, status>>

GcFails ==
    /\ In("gc") \/ (In("reconcile") /\ sweep.todo = {})
    /\ Busy
    /\ sweep' = Finished
    /\ UNCHANGED <<now, registry, phase, status>>

Thread ==
    \/ Begin \/ SleepStep \/ Wake \/ Exit
    \/ List \/ QueryOrphans \/ ListOffline \/ QueryReconcile \/ Gc
    \/ \E r \in Runtimes : MarkOffline(r)
    \/ \E q \in Phases : FailOrphan(q)

ThreadFault ==
    \/ ListFails \/ QueryFails \/ ReconcileFails \/ GcFails \/ Crash
    \/ \E r \in Runtimes : MarkFails(r)
    \/ \E q \in Phases : FailOrphanFails(q)

SweeperNext ==
    \/ Tick \/ RequestStop \/ Restart \/ Thread \/ ThreadFault
    \/ \E r \in Runtimes : UpsertHeartbeat(r)
=============================================================================
