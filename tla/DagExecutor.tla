---------------------------- MODULE DagExecutor ----------------------------
(***************************************************************************)
(* One `hymenium run`: the nodes and edges of a workflow file that         *)
(* validate_dag let through are sorted by Kahn's algorithm, then executed  *)
(* in waves.  Every node that is ready runs at once; when the whole wave   *)
(* has been joined, predecessors that a one_success node no longer needs   *)
(* are marked skipped, and the next wave is chosen.                        *)
(***************************************************************************)
EXTENDS Naturals, Sequences, FiniteSets

CONSTANTS
    N,         \* nodes are numbered in the order of the file
    MaxEdges,  \* bound on the length of the edge list
    Kinds      \* node kinds in use

Nodes == 1 .. N

Edge == [from : Nodes, to : Nodes]

EdgeLists == UNION {[1 .. k -> Edge] : k \in 0 .. MaxEdges}

TriggerRule == {"all_success", "one_success"}

NodeStatus == {"success", "failed", "skipped"}

\* A command of a file has an idle timeout only if the file gives it one.
Kind == {"command", "timed", "prompt", "approval"}

\* What executing a node of a kind can answer: a command exits, times out or
\* cannot be started; an approval is given or not; a prompt is not run yet.
Answers(kind) == IF kind = "prompt" THEN {"skipped"} ELSE {"success", "failed"}

ASSUME DagAssumption ==
    /\ N \in Nat
    /\ MaxEdges \in Nat
    /\ Kinds \subseteq Kind

VARIABLES
    edges, rule, kind,  \* the workflow file
    st,                 \* where the executor is
    incoming,           \* Kahn: predecessors not yet removed, per node
    queue, topo,        \* Kahn: nodes to pop, nodes popped
    out,                \* Kahn: edges of the last popped node left to follow
    ready, running,     \* positions in topo: the wave, those not yet joined
    due,                \* (position, edge) pairs left to look at for skips
    results, completed, skipped

file == <<edges, rule, kind>>
sort == <<incoming, queue, topo, out>>
wave == <<ready, running, due>>
outcome == <<results, completed, skipped>>
vars == <<file, st, sort, wave, outcome>>

Preds(n) == {edges[k].from : k \in {i \in DOMAIN edges : edges[i].to = n}}

Sources == {n \in Nodes : Preds(n) = {}}

\* S as a sequence, in the order of the file.
Listings(S) ==
    {s \in [1 .. Cardinality(S) -> S] : \A i, j \in DOMAIN s : i < j => s[i] < s[j]}

Init ==
    /\ edges \in EdgeLists
    /\ rule \in [Nodes -> TriggerRule]
    /\ kind \in [Nodes -> Kinds]
    /\ st = "sort"
    /\ incoming = [n \in Nodes |-> Preds(n)]
    /\ queue \in Listings(Sources)
    /\ topo = <<>>
    /\ out = {}
    /\ ready = {}
    /\ running = {}
    /\ due = {}
    /\ results = [n \in Nodes |-> "none"]
    /\ completed = {}
    /\ skipped = {}

-----------------------------------------------------------------------------
(* Kahn's algorithm.  retain removes every copy of the popped node, so a   *)
(* second edge between two nodes finds the list empty and pushes again.    *)

Pop ==
    /\ st = "sort"
    /\ out = {}
    /\ queue # <<>>
    /\ topo' = Append(topo, Head(queue))
    /\ queue' = Tail(queue)
    /\ out' = {k \in DOMAIN edges : edges[k].from = Head(queue)}
    /\ UNCHANGED <<file, st, incoming, wave, outcome>>

Follow ==
    /\ st = "sort"
    /\ \E k \in out :
          LET n == edges[k].from
              m == edges[k].to
          IN
          /\ \A j \in out : k <= j
          /\ out' = out \ {k}
          /\ incoming' = [incoming EXCEPT ![m] = @ \ {n}]
          /\ queue' = IF incoming[m] \ {n} = {} THEN Append(queue, m) ELSE queue
    /\ UNCHANGED <<file, st, topo, wave, outcome>>

\* Mutant: the length test that detects cycles is missing.
SortedUnchecked ==
    /\ st = "sort"
    /\ out = {}
    /\ queue = <<>>
    /\ st' = "loop"
    /\ UNCHANGED <<file, sort, wave, outcome>>

\* A list longer than the node set also makes the count in the error message
\* underflow, which panics in a debug build: the run is over either way.
Sorted ==
    /\ st = "sort"
    /\ out = {}
    /\ queue = <<>>
    /\ st' = IF Len(topo) = N THEN "loop" ELSE "cycle"
    /\ UNCHANGED <<file, sort, wave, outcome>>

-----------------------------------------------------------------------------
(* Choosing a wave.                                                        *)

Succeeded(n) == results[n] = "success"

\* Mutant: predecessors without a result are not counted.
TriggeredEarly(n) ==
    \/ Preds(n) = {}
    \/ /\ rule[n] = "all_success"
       /\ \A p \in Preds(n) : results[p] # "none" => Succeeded(p)
    \/ /\ rule[n] = "one_success"
       /\ \E p \in Preds(n) : Succeeded(p)

\* Mutant: one_success waits for every predecessor.
TriggeredByAll(n) == \A p \in Preds(n) : Succeeded(p)

Triggered(n) ==
    \/ Preds(n) = {}
    \/ /\ rule[n] = "all_success"
       /\ \A p \in Preds(n) : Succeeded(p)
    \/ /\ rule[n] = "one_success"
       /\ \E p \in Preds(n) : Succeeded(p)

\* Mutant: a completed node is not passed over.
IsReadyAgain(n) == n \notin skipped /\ Triggered(n)

IsReady(n) == n \notin completed \cup skipped /\ Triggered(n)

Pick ==
    LET next == {i \in DOMAIN topo : IsReady(topo[i])} IN
    /\ st = "loop"
    /\ due = {}
    /\ ready' = next
    /\ running' = next
    /\ st' = IF next = {} THEN "done" ELSE "running"
    /\ UNCHANGED <<file, sort, due, outcome>>

-----------------------------------------------------------------------------
(* Running a wave.  Tasks are joined in any order.                         *)

\* The successors that the loop after the wave looks at.
SkipCandidates(res) ==
    {d \in ready \X DOMAIN edges :
        /\ res[topo[d[1]]] = "success"
        /\ edges[d[2]].from = topo[d[1]]
        /\ rule[edges[d[2]].to] = "one_success"}

Join(i) ==
    LET n == topo[i] IN
    /\ st = "running"
    /\ i \in running
    /\ \E s \in Answers(kind[n]) :
          /\ results' = [results EXCEPT ![n] = s]
          /\ running' = running \ {i}
          /\ IF running' = {}
             THEN st' = "loop" /\ due' = SkipCandidates(results')
             ELSE UNCHANGED <<st, due>>
    /\ completed' = completed \cup {n}
    /\ UNCHANGED <<file, sort, ready, skipped>>

\* A command with an idle timeout is given up, a prompt is not run: the
\* executor waits for nobody.
Bounded(i) == kind[topo[i]] \in {"timed", "prompt"}

\* A task panics (println! of an approval on a closed stdout): run_inner
\* returns, and dropping the join set kills the other nodes' processes.
JoinError(i) ==
    /\ st = "running"
    /\ i \in running
    /\ kind[topo[i]] = "approval"
    /\ st' = "aborted"
    /\ running' = {}
    /\ UNCHANGED <<file, sort, ready, due, outcome>>

-----------------------------------------------------------------------------
(* After a wave, node by node and edge by edge: when a node that succeeded *)
(* satisfies a one_success node, the other predecessors of that node that  *)
(* have not run are marked skipped.                                        *)

Before(a, b) == a[1] < b[1] \/ (a[1] = b[1] /\ a[2] <= b[2])

\* Mutant: predecessors that have run are marked as well.
SkippableAny(n, succ) == {p \in Preds(succ) : p # n /\ p \notin skipped}

Skippable(n, succ) == {p \in Preds(succ) : p # n /\ p \notin completed \cup skipped}

SkipOthers ==
    /\ st = "loop"
    /\ \E d \in due :
          LET n == topo[d[1]]
              succ == edges[d[2]].to
              others == IF succ \in completed \cup skipped THEN {}
                        ELSE Skippable(n, succ)
          IN
          /\ \A e \in due : Before(d, e)
          /\ due' = due \ {d}
          /\ skipped' = skipped \cup others
          /\ results' = [m \in Nodes |-> IF m \in others THEN "skipped" ELSE results[m]]
    /\ UNCHANGED <<file, st, sort, ready, running, completed>>

Finished == st \in {"done", "cycle", "aborted"}

Executor ==
    \/ Pop \/ Follow \/ Sorted
    \/ Pick \/ SkipOthers

Next ==
    \/ Executor
    \/ \E i \in running : Join(i) \/ JoinError(i)

\* The executor goes on, and what has a timeout comes to an end; a command
\* without one and the operator at an approval owe no answer.
Spec ==
    /\ Init /\ [][Next]_vars
    /\ WF_vars(Executor)
    /\ WF_vars(\E i \in running : Bounded(i) /\ Join(i))

-----------------------------------------------------------------------------
(* Node sets and lists are over the file's nodes, and the executor is      *)
(* waiting for a wave exactly while some node of it has not been joined.   *)
TypeOK ==
    /\ edges \in EdgeLists
    /\ rule \in [Nodes -> TriggerRule]
    /\ kind \in [Nodes -> Kinds]
    /\ st \in {"sort", "loop", "running", "done", "cycle", "aborted"}
    /\ incoming \in [Nodes -> SUBSET Nodes]
    /\ queue \in Seq(Nodes)
    /\ topo \in Seq(Nodes)
    /\ out \subseteq DOMAIN edges
    /\ ready \subseteq DOMAIN topo
    /\ running \subseteq ready
    /\ due \subseteq ready \X DOMAIN edges
    /\ results \in [Nodes -> NodeStatus \cup {"none"}]
    /\ completed \subseteq Nodes
    /\ skipped \subseteq Nodes
    /\ st = "running" <=> running # {}

DistinctEdges ==
    \A j, k \in DOMAIN edges : edges[j] = edges[k] => j = k

\* A set of nodes none of which can be the first of them to run.
HasCycle ==
    \E S \in (SUBSET Nodes) \ {{}} :
        \A n \in S : \E k \in DOMAIN edges : edges[k].to = n /\ edges[k].from \in S

(* Without parallel edges, the run is refused for a cycle exactly when the *)
(* file has one, self-loops included.                                      *)
CyclesRefused ==
    DistinctEdges /\ st # "sort" => (st = "cycle" <=> HasCycle)

Started == completed \cup {topo[i] : i \in running}

(* A node's process is started only when its trigger rule is satisfied by  *)
(* results that still stand, whatever ran beside it and was skipped since. *)
TriggersHonoured ==
    \A n \in Started :
        /\ rule[n] = "all_success" => \A p \in Preds(n) : Succeeded(p)
        /\ rule[n] = "one_success" /\ Preds(n) # {} => \E p \in Preds(n) : Succeeded(p)

(* Without parallel edges, no node's command is run a second time, in the  *)
(* same wave or a later one.                                               *)
RunOnce ==
    DistinctEdges =>
        \A i, j \in running :
            /\ results[topo[i]] = "none"
            /\ i # j => topo[i] # topo[j]

(* A node marked skipped is neither running nor ever started: skipping     *)
(* comes between waves and looks at what has completed.                    *)
SkippedNeverStarted == skipped \cap Started = {}

(* A recorded result is never replaced: what later nodes substituted for   *)
(* $node.output is what the run reports.                                   *)
ResultsStand ==
    [][DistinctEdges =>
        \A n \in Nodes : results[n] # "none" => results'[n] = results[n]]_vars

(* When a run without parallel edges ends, a node that neither ran nor was *)
(* given up for a one_success successor is one whose trigger rule the      *)
(* others' final results refuse: waves leave nothing behind.               *)
NothingLeftBehind ==
    DistinctEdges /\ st = "done" =>
        \A n \in Nodes \ (completed \cup skipped) :
            /\ Preds(n) # {}
            /\ rule[n] = "all_success" => \E p \in Preds(n) : ~ Succeeded(p)
            /\ rule[n] = "one_success" => \A p \in Preds(n) : ~ Succeeded(p)

\* A wave of which only tasks are left that nothing but their own end ends.
HeldUp == running # {} /\ \A i \in running : ~ Bounded(i)

(* Every run ends, on files with cycles and parallel edges too, or is held *)
(* up for good by commands without a timeout and by approvals: the sort,   *)
(* the waves and the skips never go round without end, and a run all of    *)
(* whose tasks are bounded ends.                                           *)
Terminates == <>[](Finished \/ HeldUp)

-----------------------------------------------------------------------------
(* Statements of the sources that the executor does not keep.              *)

(* executor.rs 111: "if not all nodes are in topological order, there's a  *)
(* cycle": the sort refuses the cyclic files and no others.                *)
CycleDetection == st # "sort" => (st = "cycle" <=> HasCycle)

(* node.rs 151: a one_success node "fires as soon as any predecessor       *)
(* succeeds": it does not wait for the rest of a wave.                     *)
FiresAtOnce ==
    \A i \in running, n \in Nodes :
        rule[n] = "one_success" /\ (\E p \in Preds(n) : Succeeded(p)) => n \in Started
=============================================================================
