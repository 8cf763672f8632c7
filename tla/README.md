# Hymenium, specified in TLA+

Hymenium is a workflow orchestrator for coding agents: it reads a handoff
document, creates tasks for an implementer and an auditor in Canopy (another
program), follows their progress through a template of phases with gates, and
records an outcome. A second, independent part runs workflow files as graphs of
shell commands. All of it is command-line processes over one SQLite file, lock
files and calls to other processes, so most of what can go wrong is between
processes. This directory holds TLA+ modules translated from the Rust source,
TLC configurations that check them on small instances, and TLAPS proofs that
hold for every value of the constants.

Line numbers below and in `PROJECT.json` refer to the repository's files.

## 1. Inventory

| Component | State it keeps | Operations | What makes it correct |
|---|---|---|---|
| Workflow engine `workflow/engine.rs` | `WorkflowInstance`: status, current phase, per-phase status and counters, transition log, `blocked_on` | `start_phase`, `complete_phase`, `fail_phase`, `advance`, `complete_workflow`, `record_*`, `reconcile_*`, hand-off to the user and resume | phases in order, each gate passed, two status fields that agree, budgets kept, verdict final |
| Templates, gates `workflow/template.rs`, `workflow/gate.rs` | none (configuration, pure evaluation) | evaluate the conditions of a gate | an unsupported condition is refused, never assumed |
| Store `store.rs` | SQLite: workflows, phase states, transitions, outcomes | two-step read, transactions, find-or-insert | one live workflow per handoff, writes whole or not at all |
| Commands `commands/*.rs` | a private copy between a read and a write | complete, fail, cancel, reconcile, resume, dispatch, status | progress is never invented; verdict and outcome agree |
| Reconciliation `dispatch/mod.rs` | none | ask Canopy, catch up, advance, finish | finished work is recognised |
| Dispatch `dispatch/orchestrate.rs` | tasks created so far | parent, subtasks, assignment, compensation | a stored workflow has its tasks; a failed dispatch cleans up |
| Canopy clients `dispatch/cli.rs`, `capability_client.rs` | capability lease, a child process, a killer thread | choose an endpoint, run a process or ask a socket with a time limit | asked at most once, "ok" only of what was done, no thread left behind |
| Sweeper `sweeper.rs` | runtime registry, a thread and its stop flag | heartbeats; mark offline, fail orphaned phases, reconcile, collect garbage | only overdue runtimes are offline, every lasting orphan fails, the thread stops |
| DAG executor `workflow/dag/` | Kahn's lists, waves, results | sort, choose a wave, join, skip | cycles refused, trigger rules honoured, every node at most once, the run ends |
| Workflow lock `workflow_lock.rs` | a lock file per workflow id | acquire, release, scan and remove stale locks | compaction is blocked while a workflow runs, and not for ever after |
| Monitor, retry `monitor/`, `retry.rs`, `failure.rs` | the caller's instance of the workflow | poll, signal, decide a recovery, count and save a retry | the retry budget, whatever the instance has missed |
| Handoff parsing `parser/` | none | lines into sections and steps, or an error | steps are read as they were written |
| Decomposition `decompose/`, `commands/decompose.rs` | files in the handoff's directory | split steps into pieces, render and write each | no step lost or doubled, dependent steps together, pieces full, written when it says so |
| Context compression `context.rs`, `orchestrate.rs` 317-423 | a conversation | prune to a budget, make tool calls and results agree | a valid conversation within its budget, nothing lost silently |
| Error classification, status listing, task packets, mock client | none | text in, text out | |

How they interact. A command opens the store, and opening it starts a sweeper and
waits for it (`main.rs` 223-230), so every command may first fail orphaned phases.
It then reads the workflow in two SELECTs outside a transaction, decides on its
private copy with the engine's methods, possibly asks Canopy in between, and
writes in one transaction. Nothing ties the read to the write. Dispatch talks to
Canopy first and to the store afterwards. `hymenium run` shares nothing with the
store: its only shared state is the lock file that the compaction hook of the
editor reads.

What is hard: commands of several processes interleaving between read and
write; a torn read; a sweep in the middle; a process dying anywhere; a Canopy call
that was carried out but never answered; evidence that arrives after the task was
closed; waves of tasks joined in any order; parallel edges in a workflow file;
several runs and hooks on one lock path; a heartbeat, a sweep, a monitor's old copy and a
command over the same phase row; a killer thread that holds nothing but a pid, and pipes that a process of the child's may
keep; pieces written one by one over those of another run; a conversation compressed more than once.
`PROJECT.json` lists these as hazards, each
at the line where it bites, with the properties that cover it.

## 2. Modules

In the order they were planned and built:

| Module | Models | Runs | Proofs |
|---|---|---|---|
| `Engine` | each engine method as a pair of operators on an instance: when it returns Ok, and the instance it leaves | (used by the next two) | `WorkflowProofs` (its first lemmas) |
| `Workflow` | one instance in memory under any sequence of engine calls | `engine` | `WorkflowProofs` |
| `Lifecycle` | the abstract promise: phases finish in order, one verdict | `engine` (`RefinesLifecycle`) | `WorkflowProofs!ImplementsLifecycle` |
| `Commands` | processes, store, sweep, Canopy's tasks | `commands`, `commands_one`, `commands_revive` | `CommandsProofs` |
| `Dispatch` | racing dispatches, compensation, unique index | `dispatch` | `DispatchProofs` |
| `DagExecutor` | Kahn's sort and the waves | `dag` | `DagProofs` |
| `WorkflowLock` | lock files, runs, hooks | `lock` | `LockProofs` |
| `Sweeper` | runtime registry, the passes of a sweep, its thread | (extended by `Supervision`) | `SupervisionProofs` |
| `Recovery` | both recovery ladders, as operators | (extended by `Supervision`) | `SupervisionProofs!TypedBudget` |
| `Supervision` | sweeper, monitor and reconciling processes over the same phase rows | `supervision`, `sweeper` | `SupervisionProofs` |
| `CanopyRequest` | the abstract promise: a request is carried out at most once and answered truthfully | `canopy` (`RefinesRequest`) | `CanopyProofs!ImplementsRequest` |
| `CanopyCall` | one call: endpoint, child, killer thread, socket | `canopy` | `CanopyProofs` |
| `Handoff` | the parser, lines to steps | (extended by `Decompose`) | `HandoffProofs` |
| `Decompose` | splitting steps into pieces, rendering a piece | (extended by `DecomposeCommand`) | `HandoffProofs` |
| `DecomposeCommand` | overlapping runs of the command over one directory | `handoff` | `HandoffProofs` |
| `Context` | compression of conversations, the description of a dispatch | `context` | `HandoffProofs` |

`MC*` modules give the constants their values. Definitions marked *Mutant* are
plausible bugs, each placed before the definition it would replace; they are part of
no specification and show that the property beside them in `PROJECT.json` can fail.

Where modules meet: `Workflow` and `Commands` are built from `Engine`'s operators.
`Dispatch` takes a call to Canopy as one step that is answered, refused or lost after
it was done; `CanopyRequest` states that, and `CanopyCall` implements it.
`Supervision` composes `Sweeper` and `Recovery` on the phase rows. `Commands` keeps its
own, coarser sweep (any active phase may be an orphan), which covers whatever the
registry of `Sweeper` finds. `DecomposeCommand` runs `Handoff` on documents, `Decompose`
on their steps, and `Handoff` again on what was rendered.

What would come next: a composition of `Dispatch` and `Commands` over one store; an
abstract specification of the store's promise (progress of tasks and evidence) that
`Commands` implements.

### Correspondence with the code

**Engine, Workflow.** An instance is a record of the fields of `WorkflowInstance`
that decide what may happen next. Timestamps, agents, reasons and messages are left
out. A gate is the set of conditions it requires; an evaluator is the set `holds` of
conditions it finds satisfied; required artifacts are checked against `present`.
Both change at any time (`Environment`), and `advance` meets them one after another:
`asking` is what it asks next, the exit gate, the artifacts or the entry gate, while the
caller holds the instance and no other method runs. The other methods ask one thing at
most and are one step each. A method that returns an error without changing the instance
has no action, but for `advance` (`GateRefuses`); the one error path that leaves a trace
(`blocked_on`) has `DoStartPhaseBlocked` and `DoAdvanceBlocked`. `MaxRetries` bounds
`increment_retry_count`, which the engine leaves unbounded. The statuses
`BlockedOnGate`, `AwaitingRepair` and `Skipped` are never assigned by the code.

**Commands.** `row`, `ph`, `outcome` are the rows of one workflow; `task` is what
Canopy knows of the phases' tasks; `proc` is each process: `open` (store opened, a
sweep may run), `row` (first SELECT done), `loaded` (both done), `decided` (reconcile
has asked Canopy). `SweepQuery` chooses any non-empty set of active phases: which
runtimes are offline is the registry's business. `SweepFail` is `fail_phase` with the
separate conditions of its two UPDATEs. `Reconciled` is `reconcile_phases` with
`force_advance = false`, the only value a command passes. `EvidenceGateEvaluator` can
vouch for two conditions (`Evidenced`); every other one it refuses. Initial states
are the shapes the engine and dispatch leave in the store. Left out: the transition
log, the publication of an outcome to Canopy after the commit, failure kinds and
confidence of outcomes, resume's own message.

**Dispatch.** One run is a process that creates a parent, then one subtask per
phase, cancels the created ones when one fails, assigns the first, and then finds or
inserts its row. Each call to Canopy is answered, refused, or lost after it was done
(the time limit at `cli.rs` 399 kills the child). `Settle` and `Revive` are what
other commands do to the rows meanwhile; `Revive` is real (see `commands_revive`).

**DagExecutor.** `Init` ranges over all workflow files with `N` nodes and at most
`MaxEdges` edges, which is what `validate_dag` lets through (it does not look for
parallel edges or self-loops). `topo` is the sorted list, `ready` and `running` are
positions in it, so that a node listed twice is two tasks as in the code. `due` are
the pairs the skip loop still has to look at, taken in order. A node is of kind `command`
(a shell or other command without an idle timeout, which is the default), `timed` (one
with), `prompt` (not run yet, so it answers at once) or `approval` (it reads a line from the
terminal); `Bounded` are the tasks that answer by themselves. A panic of a task
aborts the run (`JoinError`); in release builds, which abort on panic, the process
just ends. Left out: substitution of outputs, environments (the file's `env` is applied
after the command line's, `executor.rs` 123-124).

**WorkflowLock.** Inodes are named by the run that created them, since the
temporary path of a workflow is shared by its runs: opening it truncates whatever file
is there, and a rename publishes whatever is there. `Write` over another run's text
may leave a tail that does not parse. Every file operation may fail, the error
is logged, and the run goes on and later removes the lock path all the same. A
process id is its run; reuse of ids is not modelled.

**Sweeper.** `registry` is the runtimes table, `sweep` is the thread: its stop flag, the
time its sweep took, the pass it is in and the rows it has still to handle. Each pass is
a query and then one write per row, as in `run_sweep`; every statement may find the
database busy (`MaxFaults` bounds those and crashes together), and the sweep goes on
with its next row or pass as the code does. `Tick` moves the clock, up to `MaxTime`.
`RequestStop` is `stop` or `drop`; `Restart` is another process opening the store.

**Recovery, Supervision.** `DecideRecovery` and `DecideRecoveryTyped` are the two
ladders, reasons left out. The monitor is library code: a caller loads an instance, asks
(`AskTask`, `AskCompleteness`), and handles the signal; then it polls again with what it
holds or reads it again (`Return`). `HandleRetry` writes the whole phase row from the
copy, which may bring a failed phase back to active; `HandleRetryFails` is the write that
fails after the count in memory. `Reconcilers` are processes that run `hymenium reconcile`,
`MaxReconciles` times each: `ReconcileLoad` reads the instance, `ReconcileDecide` is
`reconcile_phases` with whatever Canopy, the gates and the agent's signal say (`Outcomes`),
and `ReconcileCommit` upserts every phase row whole, with the status, the time of start and
the retry count it was read with, and sets status and index. That a read may itself be torn
is left to `Commands`. `handed` counts the retries handed out, `lost` those that a commit has
taken off a row; neither is read by the code. One monitor is modelled; two would share no
count.

**CanopyCall.** One call of the client, from choosing a route to the answer. A lease or
registry entry is whether it is of the capability, usable, and its endpoint. The child
works (Canopy carries the request out), exits or is killed; its pid is free from the
moment it is reaped. `Mishaps` names what the environment may do besides: a wait that
fails, and a descendant that inherits the pipes (`ChildForks`): the caller reads them to
their end without a time limit, so it waits for a process that no kill of the child touches,
until that ends (`DescendantEnds`). A socket's time limit is for each read: a server that
sends a piece of a line (`SocketDribble`) starts it anew (`ReadOn`). The request is taken to fit the pipe, so
that writing it does not block (a description is at most 64 words).

**Handoff, Decompose, DecomposeCommand.** A document is a sequence of lines by kind, so
the parser's prefix tests are choices of a record; a line with two readings (a bare
`Context`, a heading in a code block) has a kind of its own. A line of white space (`space`)
is not empty to a test at the margin and is blank to `trim`; an `indented` line holds the
line it would be without its indentation, which is what `trim` makes of it when a
description begins with it (`Trimmed`). Efforts are minutes, and
their sums wrap at `Word` as u64 does in a release build. A run reads the file, parses,
splits, and then empties and fills one file per piece; an author may change the
handoff at any time, and two runs may overlap. `std::fs::write` truncates when it opens and
then writes from the start whatever is there by then: over another run's text it may leave
that text's end (`Over`), and a write that fails may have written a part (`PartOver`). What
is neither nothing nor one text is `Torn`.

**Context.** A message is its role, the number of its words, and the call it makes or
answers; four tokens are charged for a message and one for each word. `Selected` folds
`PruneStep` over the messages in the order of priority (`Newest` on the focus topic, then the
others), `Prune` keeps what was selected in its place, and `Retained` folds `RetainStep` over
what is left. A text, a call or a result may be on the focus topic, a stub never is.
Conversations start empty or as the messages dispatch makes of a handoff.

## 3. What the runs check

| Run | Bounds | Shows |
|---|---|---|
| `engine` | impl-audit template (2 phases, its gates), one required artifact per phase, ceilings 1 and 2, 1 retry | every sequence of engine calls, with a world that changes while `advance` asks, keeps phases in order, settled phases alone and budgets kept, and implements `Lifecycle` |
| `commands` | 2 processes, every command but `fail`, 2 phases | completed phases, advances and completed outcomes are earned by the agents' tasks under every interleaving, torn read, sweep and crash |
| `commands_one` | 1 process, all 5 commands | with one command at a time the rows are a walk of the template, completed and failed final, the outcome agrees with the rows, and repeated reconciles finish work whose evidence came in time |
| `dispatch` | 3 runs (2 of one handoff), 3 phases | one live workflow per handoff, runs agree on it, stored workflows have open tasks, compensation forgets nothing it knew of |
| `dag` | all files of 3 nodes, up to 3 edges, kinds timed, prompt and approval | sort refuses exactly the cyclic files (without parallel edges), trigger rules, results that were relied on stand, a run ends unless unbounded tasks hold it up |
| `lock` | 2 runs of one workflow and 1 of another, 1 hook | a lone run keeps its lock, no scan that it outlives allows compaction, abandoned locks go |
| `supervision` | 2 phases, 1 runtime, 1 reconcile, clock 0-2, 1 fault, 1 retry | no count passes the policy's, and retries handed out are on record but for those a reconcile wrote off, whatever is stale, lost or failed; a runtime is offline only if overdue or heard of during the very sweep |
| `sweeper` | 1 phase, 1 runtime, 1 reconcile, clock 0-1, 2 faults, an interval of 1 sleep | every lasting orphan fails, and a thread that is told to stop ends |
| `canopy` | a call of each route, up to 2 leases and 1 registry entry, a failing wait, a descendant, a dribbling socket | a call implements `CanopyRequest`, ends its killer, and returns unless a descendant or a dribbling socket holds it for good |
| `handoff` | 2 overlapping runs; 384 handoffs of 3 steps (every dependency between them, 2 placings in projects, 3 sets of estimates) and 15 odd ones | each step in one piece, dependent steps together, pieces filled to the limit, "ok" means written, a piece whose descriptions begin as text is read back with its steps |
| `context` | conversations of up to 4 messages (lengths 0 and 3, on the topic or not, 2 call ids), 8 handoffs, 6 budgets | calls and results complete, the report accounts for every message, the budget is kept and used |
| `commands_revive` | 1 process, cancel and reconcile | a documented statement that the code breaks (below) |

Why the bounds are enough. Two phases give a first, a last, and a move between
them; impl-audit, the default template, has two. Two processes give every pair of a
stale copy and a foreign write; the theorems cover any number of them and every
command (`fail` writes the same whole instance as reconcile does for a cancelled task;
it runs in `commands_one`). Three phases in
`dispatch` give compensation a first, a middle and a last subtask. Three edges are the
most an acyclic file of three nodes can have without a parallel edge; a prompt is skipped,
a timed command succeeds or fails and always answers, an approval also may panic or never
answer, and a command without a timeout is an approval without the panic. Three runs give `lock` a run alone in its
workflow beside two that share everything. One hook is enough there for the runs;
the theorems are for any number of hooks.

One runtime is enough for `supervision`: rows of different runtimes share nothing but the
sweep that handles them, and the theorems are for any number. A clock of 0 to 2 with a
timeout of 0 or 1 has a heartbeat before, at and after its deadline. One reconcile is one
instance read before and written after whatever the monitor and a sweep do in between; a
second could write off once more, and `BudgetKept` is for any number. In `handoff` three
steps give every shape of dependency, chains and cycles included; four and five steps are
among the odd ones, for a piece that is full. In `context` four messages give a pair, a
stray result and a text, or a pair and its compressed rest; the budgets lie below, at and
above the four tokens of a message, and around one and two long messages.

Type invariants are not among the runs' properties where TLAPS proves them
(`TypeCorrect` of each proof module); so are `StatusAgreesWithPhase`, `RunOnce` and
`SkippedNeverStarted`.

Deadlock is checked except in `dispatch`, whose runs end, `dag`, whose executor
ends, and `handoff`, whose runs end.

### Fairness and liveness

- `Commands!ReconcileFairness`: someone keeps running `reconcile` (weak fairness of
  `Begin`), a started sweep goes on, and the later steps are strongly fair, because a
  crash or an unreachable Canopy can interrupt any of them but not every time. The
  code never retries by itself: hymenium is meant to be run again and again
  (`main.rs` 57-58). `FinishedWorkIsRecognised` then says that a workflow whose
  agents all finish with evidence becomes completed for good. Its premises are needed:
  a workflow that starts from a completed phase never advances again, nor one whose
  evidence comes after its task is closed (`GateFailureNotTerminal`).
- `DagExecutor`: weak fairness of the executor's own steps, and of joining a task of a
  prompt or of a command with an idle timeout (`Bounded`). Nothing is assumed of commands
  without one, which is the default (`node.rs` 98-99), nor of approvals, which read the
  terminal (`executor.rs` 366-377): `Terminates` says that a run ends or that only such tasks
  are left in its wave (`HeldUp`), on cyclic files and parallel edges too.
- `WorkflowLock`: the editor keeps calling the hook and the hook runs to its end.
  Nothing is assumed of the runs, which may crash or hang; `StaleLocksGo` only speaks of
  runs that are over.
- `Supervision`: weak fairness of the sweeper's thread, and of `Restart`: hymenium is run
  again, and opening its store starts a sweeper. Faults are finitely many, so a sweep
  gets through in the end. `OrphansAreFailed` needs that sweepers are no longer stopped,
  since a stop may otherwise fall into every sweep; it allows the runtime to come back or
  to be forgotten.
- `CanopyCall`: both threads run and clocks reach their timeouts. Canopy owes nothing:
  `CallReturns` holds though the child hangs for ever. Nor does anyone else: a descendant may
  hold the pipes for good and a server may dribble for ever, and `CallReturns` names these
  two as all that can keep a call.

### Disagreements between code and documentation

`commands_revive` is a run that ends in a counterexample to `TerminalStaysTerminal`: a
workflow is cancelled, the agent finishes its task all the same, and reconcile advances the
workflow and makes it dispatched again (`reconcile.rs` 61 against `store.rs` 375-376:
terminal states).

Further statements that the code does not keep are definitions at the end of each module.
Those with a configuration end in a counterexample when it is run with its MC module:

| Statement, module | Configuration | What the source says |
|---|---|---|
| `UserTerminatedIsTerminal`, `Workflow` | `MCWorkflowTerminal.cfg` | `engine.rs` 786-788: after a break-out "the workflow is terminal" (a late failure report makes it failed) |
| `GatesHoldAtTheMove`, `Workflow` | `MCWorkflowGates.cfg` | `engine.rs` 730: a phase is left with "exit and entry gates satisfied" (evidence found for the exit gate may be gone by the move; the entry gate of impl-audit asks for it again, so the template of this run has none) |
| `OutcomeNotOverwritten`, `Commands` | `MCCommandsOverwrite.cfg` | `complete.rs` 36-37: an outcome is not overwritten (complete and cancel overlap) |
| `ReconcileSafeToRepeat`, `Commands` | `MCCommandsRepeat.cfg` | `main.rs` 57-58: reconcile is safe to repeat (two at once, one with a torn read, stall a workflow) |
| `NoRedispatch`, `Dispatch` | `MCDispatchAgain.cfg` | `commands/dispatch.rs` 40-41: a live handoff is not dispatched again (its tasks are created again) |
| `CycleDetection`, `DagExecutor` | `MCDagCycles.cfg` | `executor.rs` 111: the sort detects cycles (with parallel edges its length says nothing) |
| `ActiveRunSignals`, `WorkflowLock` | `MCLockShared.cfg` | `workflow_lock.rs` 3-5: a run's lock signals it (another run of the same workflow removes it) |
| `OfflineIsSilent`, `Supervision` | `MCSweepLive.cfg` | `sweeper.rs` 74-75: an offline runtime has sent no heartbeat in time (one between list and mark is overwritten) |
| `RetriesCapped`, `Supervision` | `MCSupervisionBudget.cfg` | `retry.rs` 21: the policy's maximum is that of the retries handed out (a reconcile that read the row before one was counted writes the old count back) |
| `KillsOnlyItsChild`, `CanopyCall` | `MCCanopyKill.cfg` | `cli.rs` 373-375: cancelling prevents a kill of a reused pid (the timeout may fall between reaping and cancelling) |
| `NothingBlocks`, `CanopyCall` | `MCCanopyBlocks.cfg` | `cli.rs` 346-348: a hanging canopy cannot block (the socket's time limit is per read, and a descendant may hold the pipes) |
| `EveryStepSurvives`, `DecomposeCommand` | `MCDecomposeIndented.cfg` | `render.rs` 1 and 7: a piece stands alone (a description that begins with an indented field, heading or rule loses the indentation, `markdown.rs` 495, and is read as one) |
| `PiecesOrdered`, `DecomposeCommand` | `MCDecomposeOrdered.cfg` | `decompose/mod.rs` 3-6: pieces form a dependency graph (two projects can depend on one another) |
| `CompletionPassesFinalGate`, `Workflow` | | `engine.rs` 627-629: the last exit gate passes before completion (it is never asked) |
| `TerminalStatusesStay`, `Commands` | | `store.rs` 375-376: the four terminal states are final (cancel makes `user_terminated` cancelled, `cancel.rs` 49) |
| `PiecesAreHandoffs`, `DecomposeCommand` | | `render.rs` 7: a piece is a "standalone handoff" (it has no "What needs doing", which the parser asks for) |
| `BlockedOnOnlyWhenBlocked`, `Workflow` | | `engine.rs` 175: `blocked_on` goes with the status `BlockedOnGate` (no code assigns it) |
| `TerminalHasOutcome`, `Commands` | | `outcomes.rs` 3-5: every terminal transition has an outcome (reconcile and the sweep write none) |
| `GateFailureNotTerminal`, `Commands` | | `dispatch/mod.rs` 319-320 (evidence after the task is closed is never looked at) |
| `OnlyCurrentPhaseOpen`, `Commands` | | `dispatch/mod.rs` 329-330: only the current phase is open |
| `FailedWithItsPhase`, `Commands` | | `sweeper.rs` 363-365: phase and workflow fail together |
| `FailedTaskFailsWorkflow`, `Commands` | | `dispatch/mod.rs` 298-299: a failed task fails the workflow (only cancelled does) |
| `NoOrphanedSubtasks`, `Dispatch` | | `orchestrate.rs` 173: no orphans are left in Canopy |
| `FiresAtOnce`, `DagExecutor` | | `node.rs` 151: a one_success node "fires as soon as any predecessor succeeds" (it waits for the rest of the wave) |
| `LocksAreWhole`, `WorkflowLock` | | `workflow_lock.rs` 74-75: the lock path always names a whole lock |
| `StallsApart`, `Supervision` | | `monitor/mod.rs` 46-47: a heartbeat timeout is waited for between stalls (a retry does not move `started_at`) |

Met while modelling, and part of what the modules do: two steps of one number keep only the
later one's dependencies (`DependentStepsTogether` is about unique numbers); sums of efforts
wrap (and panic in a debug build); overlapping runs over different handoffs can leave a file
with one text and the end of another though both answered "ok"; a heading inside a code block
ends a step, and a bare "Context" reads as a heading; pieces of an earlier run stay beside the
new ones, and a piece may be named like its source; a warning about an estimate is given twice;
a stub costs nine tokens that no budget covers; a real result that comes after its call was
stubbed is dropped as a second one.

## 4. What is proved

From `EngineAssumption`, `RetryAssumption`, `CommandsAssumption`, `DispatchAssumption`,
`DagAssumption`, `LockAssumption`, `SweeperAssumption`, `PolicyAssumption`,
`SupervisionAssumption`, `CanopyCallAssumption`, `ContextAssumption` and `DecomposeAssumption`
(types of the constants, at least one phase, null values that are no data) TLAPS proves, for any
template, number of processes, file size and so on:

- **Engine** (`WorkflowProofs`): `TypeOK`, `PhaseOrder`, `StatusAgreesWithPhase`,
  `ActivePhaseBelowCeiling`, and that `Workflow` implements `Lifecycle`. The four are
  inductive only together: that a method acts on a phase below its ceiling needs the
  fact that untouched phases are pending with zero counts, which needs the order of
  phases. The refinement maps each engine call to finishing the next phase, a verdict,
  or nothing. `SettledPhasesStay` follows from the same invariant: every engine call but
  `advance` is a local one, which touches the current phase only and nothing once that has
  settled (`LocalCall`), and `advance`, which no call interrupts while it asks, moves the
  index only.
- **Commands** (`CommandsProofs`): `TypeOK`, `CompletedPhasesEarned`,
  `AdvancedOnEvidence`, `CompletedOutcomeEarned`. The strengthening says of every
  private copy what the properties say of the rows: whatever mixture of old and new a
  process has read, a phase it holds completed was completed by its agent, and its
  index has the evidence behind it. That is monotone in what Canopy knows, which is
  why staleness can undo progress but never invent it.
  With one command at a time (`OneAtATime`, a hypothesis of the theorems: `[]OneAtATime` is
  what a lone user does, for any number of processes that take turns) `StoreOrder`,
  `OutcomeAgrees` and `VerdictKept` hold too. Their invariant, `SerialInv`, ties the only
  private copy to the rows it was read from, says how far it may have run ahead of them
  between decision and write, and keeps each shape of the rows together with its outcome.
- **Dispatch** (`DispatchProofs`): all six properties of the run. The invariant
  relates each position in the command to what exists in Canopy by then.
- **DAG** (`DagProofs`): the seven safety properties. For the sort: a node not yet
  listed keeps exactly its unlisted predecessors, so a finished sort that lists all
  nodes orders every edge forward, and a set of nodes left over without a first one is
  a cycle; the converse takes a least position. For the waves: results that a started
  node relied on are final, and what is chosen next is computed from all of them.
- **Lock** (`LockProofs`): `TypeOK`, `LoneRunKeepsItsLock`, `CompactionBlocked`. The
  invariant follows one run through its own steps; other workflows write other files,
  and a hook that stands at the run's path has read the run's own text, so it will
  judge it alive.

- **Canopy** (`CanopyProofs`): `TypeOK`, `NoKillerLeft`, and that `CanopyCall` implements
  `CanopyRequest`, for any calls, leases, registries and mishaps. The invariant ties the
  killer's place and the child's to the caller's: a child is started once, works at most
  once, and one that ended well has worked. A read of a task maps to the abstract request
  with its answer hidden, since trying two routes for it is harmless.
- **Supervision** (`SupervisionProofs`): `TypeOK`, `BudgetHonoured` and
  `OfflineOverdueOrRacing`, for any runtimes, phases, timeouts, policy and number of
  faults and number of reconciling processes. The budget is inductive with the same bound on
  the monitor's copy: every retry handed out is in its count or has been written off, because
  only the monitor raises a count and it counts before it hands out. Reconcile may write any
  older count back, never a larger one than the policy's (its copies are bounded too), and
  what it takes off a row is in `lost`. For the runtimes: what a sweep has listed and not yet marked was overdue at the
  sweep's time, or has been heard of since. `TypedBudget` compares the two recovery
  ladders: the typed one keeps the policy's maximum but for `task_too_large`.

- **Context** (`HandoffProofs`): `PairsComplete`, `NothingLost` and `FitsTheBudget`, for any
  conversation, handoff and budget. The invariant is only that a conversation is a sequence
  of messages; what the properties say is true of every compression, and is proved of the
  passes one after the other (`PruneFacts`, `SanitizeFacts`, `SanitizeMatched`,
  `CompressedFacts`). The passes are folds. The library's folds choose a solution of a
  recursion over sets of positions, so it is first proved that there is one (`FoldExists`),
  and that folding a sequence takes its members in order (`FoldChain`); every fold of
  `Context` then has a lemma that gives its intermediate results (`RetainedSteps`,
  `SelectedSteps`, `TotalSteps` ...), and facts about it are proved by induction over their
  number, with the set of good numbers in place of a predicate (`Induction`). Of the
  selection: what is kept and what is removed make up what has been looked at (`Booked`), and
  what was removed did not fit beside what was kept so far (`Choosing`), which only grows.
  Of the pairs: what `retain_and_prune` lets through is `Matched` at any moment, a result only
  after its call, and the stubs answer exactly the calls without a result.
- **Handoff, Decompose, DecomposeCommand** (`HandoffProofs`): `EveryStepInOnePiece`,
  `DependentStepsTogether`, `PiecesFilledToTheLimit`, `StepsSurvive` and `OkMeansWritten`,
  for any number of runs over any handoffs (`IsDraft`: the numbers read are numbers, the
  projects named are known, titles have slugs), any limits and either setting of both options.
  *Parsing*: `parse_step` is a fold of `StepLine` over the lines of a step, so a step it
  returns has the type the rest relies on (`StepLineType`, `ParseStepType`, `ExtractTyped`).
  *Partition*: a sequence `Lists` a set if it has each member once. A project group lists its
  steps, chunks and pieces list what they are made from, and flattening sequences that list
  disjoint sets lists their union (`FlattenLists`), through each of grouping, chunking and
  packing.
  *Union-find*: `find` is a recursive function, which is only worth reasoning about where it
  ends. `Forest` says that the numbers can be ranked so that parents rank higher; then `Root`
  satisfies its equation and is idempotent (`RootFacts`). `Union` keeps a forest and merges
  exactly two classes (`UnionForest`, `UnionRoots`), so that after all edges, in whatever
  order a hash map gives them, the ends of each have one root (`BoundRoots`). Pieces are
  unions of classes within a project (`RowsApart`, `TiedTogether`).
  *Rendering*: the parser is followed over what the renderer writes. A step that was parsed
  and whose description begins as text (`BeginsPlainly`) is `Renderable`: no line of it is a
  heading or a rule, since either would have ended it, and none of its description switches
  the region (`ReadingStep`, `TrimmedFacts`, `ParsedRenderable`). The premise is needed for
  the first line alone, which `trim` moves to the margin; the other lines are written as they
  were read. `parse_step`
  over the five parts of a rendered step reads the description back line by line (`Told`),
  keeps it at the head of what it reads next (`Kept`: the files and the commands of the
  verification run on into it, which is why the property says prefix and not equality), and
  meets the one line that opens the checklist before the first box (`Ticked`), so that
  `BlockReread`. Of a whole piece, a step ends just before the next one's heading or the
  completion protocol's (`StepEndIs`, `Laid`), so the parser finds these blocks and no others
  (`DocumentSteps`, `RenderSteps`).
  *Full pieces* (`Packing`): its hypothesis `NothingWraps` is that the estimates of no handoff
  add up to more than a u64 holds. It is needed: `pack_chunks` adds u64s, a release build lets
  them wrap, and a piece whose running load has wrapped takes chunks it should not. TLC
  checks that the drafts of `MCDecomposeCommand` satisfy it, and it holds of any handoff a person writes. The
  load the property speaks of is a sum over positions (`LoadParts`, `LoadWithin`); what
  `pack_chunks` weighs a chunk by, its effort or its length, is the chunk's load
  (`EffortIsLoad`, `LengthIsLoad`). Along the chunks, `Stowed` says that the pieces so far are
  full and that the running load is that of the open one (`StowedStep`, `PackFilled`). A chunk
  holds one class of the union-find, and the steps of a class hang together: a set of steps
  that is closed under the dependencies is closed under having one root (`RootsConnected`).
  Across project groups nothing is left to show, since the first piece of the next group is of
  another project (`FullStep`, `SplitFilled`).
  *The command*: `CommandInv` is `CommandTypeOK` (what a run has read and made is what the
  program makes of some handoff), `Consistent` (where a run is against what it has to write),
  `Written` (a piece that is done is on disk under its name unless another run has reached
  that name), `AllCame` (a file holds nothing whole but what a run that has reached it would
  write there) and `Flawed` (why a file may be empty, and why it may be torn: a run failed
  there, or runs of different handoffs met). They need each other: what a run fills it emptied
  itself, unless another run has reached the file, and if it then mixes with a text there,
  `AllCame` says whose it is. What a run has reached only grows (`ReachedOnward`), so a step of
  one run cannot take back the excuse of another.

Only model-checked: liveness (`FinishedWorkIsRecognised`, `Terminates`, `StaleLocksGo`,
`OrphansAreFailed`, `StopIsHonoured`, `CallReturns`), which is out of the prover's reach. No module
declares a recursive operator.

## 5. What is not modelled

- Error classification (a ladder of string tests that feeds a log line), status
  listing, task packets and the mock client: text or data in, text out, without state the
  other parts depend on.
- The characters within a line of a handoff, the fields of JSON requests and replies,
  arguments and environments of child processes.
- Code that no command calls (`force_advance = true`, `orchestrate::cancel_task`,
  `is_active_lock`, `read_active_lock`), except the engine's methods, which are its
  public interface.
- SQLite itself: a transaction is one step, the partial unique index is a guard, and a
  busy database is a crash of the command.
