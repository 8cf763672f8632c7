------------------------------ MODULE Dispatch ------------------------------
(***************************************************************************)
(* hymenium dispatch: orchestrate.rs creates a parent task and one subtask *)
(* per phase in Canopy, assigns the first, and only then does the command  *)
(* look in the store whether the handoff already has a live workflow.      *)
(*                                                                         *)
(* Every run of the command is a process of its own with a fresh workflow  *)
(* id, so a dispatch and the workflow it would create share a name.  Each  *)
(* call to Canopy is another process that may refuse, or may do its work   *)
(* and be killed at the timeout before it answers.                         *)
(***************************************************************************)
EXTENDS Naturals

CONSTANTS
    Dispatches,  \* runs of the command, and the ids of their workflows
    Handoffs,    \* handoff contents, up to their SHA-256
    Content,     \* the handoff each run reads
    NPhases,     \* phases of the template
    NoAnswer     \* what a run has before the store answers

Phases == 0 .. NPhases - 1

ASSUME DispatchAssumption ==
    /\ NPhases \in Nat \ {0}       \* a template without phases is refused
    /\ Content \in [Dispatches -> Handoffs]
    /\ NoAnswer \notin Dispatches

VARIABLES
    proc,     \* per run: where it is and what it holds in memory
    parent,   \* Canopy: runs whose parent task exists
    sub,      \* Canopy: the subtask of each run and phase
    assigned, \* Canopy: runs whose first subtask was assigned
    rows,     \* the store: the workflows row of each id
    history   \* the store: "initial dispatch" transitions of each id

vars == <<proc, parent, sub, assigned, rows, history>>
canopy == <<parent, sub, assigned>>
store == <<rows, history>>

Reply == {"ok", "refused", "lost"}

Proc == [pc     : {"idle", "subtasks", "cleanup", "cleaned", "assign", "insert",
                   "transition", "done", "failed"},
         made   : 0 .. NPhases,       \* created_task_ids, in order of creation
         swept  : 0 .. NPhases,       \* how many of them cleanup has tried
         warned : SUBSET Phases,      \* those it could not cancel
         answer : Dispatches \cup {NoAnswer}]

Init ==
    /\ proc = [d \in Dispatches |->
                 [pc |-> "idle", made |-> 0, swept |-> 0, warned |-> {},
                  answer |-> NoAnswer]]
    /\ parent = {}
    /\ sub = [d \in Dispatches |-> [q \in Phases |-> "none"]]
    /\ assigned = {}
    /\ rows = [d \in Dispatches |-> "none"]
    /\ history = [d \in Dispatches |-> 0]

At(d, pc) == proc[d].pc = pc

-----------------------------------------------------------------------------
(* dispatch_workflow.                                                      *)

CreateParent(d) ==
    /\ At(d, "idle")
    /\ \E reply \in Reply :
          /\ parent' = IF reply = "refused" THEN parent ELSE parent \cup {d}
          /\ proc' = [proc EXCEPT ![d].pc =
                        IF reply = "ok" THEN "subtasks" ELSE "failed"]
    /\ UNCHANGED <<sub, assigned, store>>

\* Mutant: a subtask that could not be created is skipped.
CreateSubtaskSkipping(d) ==
    /\ At(d, "subtasks")
    /\ \E reply \in Reply :
          /\ sub' = IF reply = "refused" THEN sub
                    ELSE [sub EXCEPT ![d][proc[d].made] = "open"]
          /\ proc' = [proc EXCEPT
                ![d].made = @ + 1,
                ![d].pc = IF proc[d].made + 1 < NPhases THEN "subtasks" ELSE "assign"]
    /\ UNCHANGED <<parent, assigned, store>>

CreateSubtask(d) ==
    /\ At(d, "subtasks")
    /\ \E reply \in Reply :
          /\ sub' = IF reply = "refused" THEN sub
                    ELSE [sub EXCEPT ![d][proc[d].made] = "open"]
          /\ proc' = [proc EXCEPT
                ![d].made = IF reply = "ok" THEN @ + 1 ELSE @,
                ![d].pc = IF reply # "ok" THEN "cleanup"
                          ELSE IF proc[d].made + 1 < NPhases THEN "subtasks"
                          ELSE "assign"]
    /\ UNCHANGED <<parent, assigned, store>>

\* Mutant: a cancellation that fails ends the compensation.
CancelCreatedGivingUp(d) ==
    LET q == proc[d].swept IN
    /\ At(d, "cleanup")
    /\ q < proc[d].made
    /\ \E reply \in Reply :
          /\ sub' = IF reply = "refused" THEN sub
                    ELSE [sub EXCEPT ![d][q] = "cancelled"]
          /\ proc' = [proc EXCEPT ![d].swept = IF reply = "ok" THEN @ + 1 ELSE proc[d].made,
                                  ![d].warned = IF reply = "ok" THEN @ ELSE @ \cup {q}]
    /\ UNCHANGED <<parent, assigned, store>>

\* The compensation: best effort, one call per subtask it knows of.
CancelCreated(d) ==
    LET q == proc[d].swept IN
    /\ At(d, "cleanup")
    /\ q < proc[d].made
    /\ \E reply \in Reply :
          /\ sub' = IF reply = "refused" THEN sub
                    ELSE [sub EXCEPT ![d][q] = "cancelled"]
          /\ proc' = [proc EXCEPT ![d].swept = @ + 1,
                                  ![d].warned = IF reply = "ok" THEN @ ELSE @ \cup {q}]
    /\ UNCHANGED <<parent, assigned, store>>

\* The original error is propagated; the parent task is left alive.
GiveUp(d) ==
    /\ At(d, "cleanup")
    /\ proc[d].swept = proc[d].made
    /\ proc' = [proc EXCEPT ![d].pc = "cleaned"]
    /\ UNCHANGED <<canopy, store>>

\* A failed assignment ends the command with its subtasks left as they are.
AssignFirst(d) ==
    /\ At(d, "assign")
    /\ \E reply \in Reply :
          /\ assigned' = IF reply = "refused" THEN assigned ELSE assigned \cup {d}
          /\ proc' = [proc EXCEPT ![d].pc =
                        IF reply = "ok" THEN "insert" ELSE "failed"]
    /\ UNCHANGED <<parent, sub, store>>

-----------------------------------------------------------------------------
(* find_and_insert_workflow_by_hash and the transition after it.           *)

\* The live workflows of d's handoff: the partial unique index is over them.
LiveFor(d) == {w \in Dispatches : rows[w] = "live" /\ Content[w] = Content[d]}

\* Mutant: no unique index, every dispatch inserts.
FindOrInsertUnindexed(d) ==
    /\ At(d, "insert")
    /\ rows' = [rows EXCEPT ![d] = "live"]
    /\ proc' = [proc EXCEPT ![d].pc = "transition", ![d].answer = d]
    /\ UNCHANGED <<canopy, history>>

\* Mutant: the run answers its own workflow, inserted or not.
FindOrInsertOwn(d) ==
    /\ At(d, "insert")
    /\ rows' = IF LiveFor(d) = {} THEN [rows EXCEPT ![d] = "live"] ELSE rows
    /\ proc' = [proc EXCEPT ![d].pc = "transition", ![d].answer = d]
    /\ UNCHANGED <<canopy, history>>

\* INSERT OR IGNORE, the phase rows, and the SELECT, in one transaction.
FindOrInsert(d) ==
    /\ At(d, "insert")
    /\ rows' = IF LiveFor(d) = {} THEN [rows EXCEPT ![d] = "live"] ELSE rows
    /\ \E w \in IF LiveFor(d) = {} THEN {d} ELSE LiveFor(d) :
          proc' = [proc EXCEPT ![d].pc = "transition", ![d].answer = w]
    /\ UNCHANGED <<canopy, history>>

\* Mutant: the transition is recorded for the workflow the run made up.
RecordTransitionOwn(d) ==
    /\ At(d, "transition")
    /\ history' = [history EXCEPT ![d] = @ + 1]
    /\ proc' = [proc EXCEPT ![d].pc = "done"]
    /\ UNCHANGED <<canopy, rows>>

RecordTransition(d) ==
    /\ At(d, "transition")
    /\ history' = [history EXCEPT ![proc[d].answer] = @ + 1]
    /\ proc' = [proc EXCEPT ![d].pc = "done"]
    /\ UNCHANGED <<canopy, rows>>

-----------------------------------------------------------------------------
(* What happens around a dispatch.                                         *)

\* The run dies, or one of its two transactions finds the store busy.
Crash(d) ==
    /\ ~ \E pc \in {"done", "failed", "cleaned"} : At(d, pc)
    /\ proc' = [proc EXCEPT ![d].pc = "failed", ![d].answer = NoAnswer]
    /\ UNCHANGED <<canopy, store>>

\* Another command, or a sweep, ends the workflow (module Commands).
Settle(w) ==
    /\ rows[w] = "live"
    /\ rows' = [rows EXCEPT ![w] = "terminal"]
    /\ UNCHANGED <<proc, canopy, history>>

\* reconcile brings an ended workflow back (Commands!TerminalStatusesStay);
\* the unique index refuses the UPDATE when the handoff has another one.
Revive(w) ==
    /\ rows[w] = "terminal"
    /\ LiveFor(w) = {}
    /\ rows' = [rows EXCEPT ![w] = "live"]
    /\ UNCHANGED <<proc, canopy, history>>

Run(d) ==
    \/ CreateParent(d) \/ CreateSubtask(d)
    \/ CancelCreated(d) \/ GiveUp(d)
    \/ AssignFirst(d) \/ FindOrInsert(d) \/ RecordTransition(d)

Next == \E d \in Dispatches : Run(d) \/ Crash(d) \/ Settle(d) \/ Revive(d)

Spec == Init /\ [][Next]_vars

-----------------------------------------------------------------------------
(* A run has the store's answer exactly from its transaction on, and never *)
(* cancels more subtasks than it knows of.                                 *)
TypeOK ==
    /\ proc \in [Dispatches -> Proc]
    /\ parent \in SUBSET Dispatches
    /\ sub \in [Dispatches -> [Phases -> {"none", "open", "cancelled"}]]
    /\ assigned \in SUBSET Dispatches
    /\ rows \in [Dispatches -> {"none", "live", "terminal"}]
    /\ history \in [Dispatches -> Nat]
    /\ \A d \in Dispatches :
          /\ proc[d].swept <= proc[d].made
          /\ proc[d].answer = NoAnswer <=> proc[d].pc \notin {"transition", "done"}

(* However many runs dispatch the same handoff at once, and whatever ends  *)
(* and revives workflows meanwhile, a handoff has at most one live         *)
(* workflow.                                                               *)
OneLiveWorkflow ==
    \A w, x \in Dispatches :
        rows[w] = "live" /\ rows[x] = "live" /\ Content[w] = Content[x] => w = x

(* A workflow in the store has a Canopy task for each of its phases, the   *)
(* first one assigned, and no compensation has cancelled any of them: what *)
(* reconcile will ask Canopy about is there.                               *)
StoredWorkflowsHaveTasks ==
    \A w \in Dispatches : rows[w] # "none" =>
        /\ w \in parent /\ w \in assigned
        /\ \A q \in Phases : sub[w][q] = "open"

(* A run that gives up after a subtask could not be created has cancelled  *)
(* every subtask it knew of, or has warned about it.                       *)
CompensationComplete ==
    \A d \in Dispatches : At(d, "cleaned") =>
        \A q \in 0 .. proc[d].made - 1 :
            sub[d][q] = "cancelled" \/ q \in proc[d].warned

(* The workflow a run answers is a stored one of the same handoff, and a   *)
(* run that ends well has left its first transition in the history; no     *)
(* history is kept for a workflow that was never stored.                   *)
AnswersAreRecorded ==
    /\ \A d \in Dispatches : proc[d].pc \in {"transition", "done"} =>
          /\ rows[proc[d].answer] # "none"
          /\ Content[proc[d].answer] = Content[d]
          /\ At(d, "done") => history[proc[d].answer] > 0
    /\ \A w \in Dispatches : history[w] > 0 => rows[w] # "none"

(* Two runs of the same handoff are answered the same workflow, unless the *)
(* first one's had ended when the second was answered.                     *)
DispatchesConverge ==
    [][\A d, e \in Dispatches :
          /\ Content[d] = Content[e]
          /\ proc[d].answer # NoAnswer
          /\ proc[e].answer = NoAnswer
          /\ proc'[e].answer # NoAnswer
          => proc'[e].answer = proc[d].answer \/ rows[proc[d].answer] = "terminal"]_vars

-----------------------------------------------------------------------------
(* Statements of the sources that dispatch does not keep.                  *)

(* commands/dispatch.rs 40-41: if a non-terminal workflow with the same    *)
(* content exists, the command "returns that existing workflow without     *)
(* re-dispatching".                                                        *)
NoRedispatch ==
    [][\A d \in parent' \ parent : LiveFor(d) = {}]_vars

(* dispatch/orchestrate.rs 173: created subtasks are cancelled "to prevent *)
(* orphans in Canopy".                                                     *)
NoOrphanedSubtasks ==
    \A d \in Dispatches : At(d, "cleaned") =>
        \A q \in Phases : sub[d][q] = "open" => q \in proc[d].warned
=============================================================================
