----------------------------- MODULE CanopyCall -----------------------------
(***************************************************************************)
(* One call of the Canopy client, src/dispatch/cli.rs and                  *)
(* capability_client.rs, as processes and threads.                         *)
(*                                                                         *)
(* create_task first looks for a typed endpoint in the capability leases   *)
(* and the installed registry; get_task first tries Canopy's socket; every *)
(* other call, and these two when that fails early enough, run the canopy  *)
(* binary.  A killer thread waits for the timeout or for the caller to     *)
(* cancel it; the caller reads the child's pipes to their end, reaps the   *)
(* child, cancels the killer and joins it.  The pid the killer was given   *)
(* is free, and may be anyone's, from the moment the child is reaped.      *)
(***************************************************************************)
EXTENDS Naturals, Sequences

CONSTANTS
    Calls,       \* the calls that are made
    Leases,      \* what the lease directory may hold, in its order
    Registries,  \* what the capability registry may be
    Mishaps      \* which of the rarer things the environment does

AllCalls == {"create_task", "create_subtask", "assign_task", "cancel_task",
             "check_completeness", "import_handoff", "get_task"}

\* The calls whose answer is made from the child's output.
Parsed == {"check_completeness", "import_handoff", "get_task"}

AllMishaps == {"descendant", "wait_fails"}

\* A candidate endpoint: its transport, and what its command is.
Command == {"none", "gone", "there"}
Candidate == [transport : {"cli", "socket", "stdio", "tcp"}, command : Command]
NoCandidate == [transport |-> "none", command |-> "none"]

Lease == [cap : BOOLEAN, expired : BOOLEAN, candidate : Candidate]
Entry == [cap : BOOLEAN, missing : BOOLEAN, candidate : Candidate]

\* An absent registry is readable and empty.
Registry == [readable : BOOLEAN, entries : Seq(Entry)]

ASSUME CanopyCallAssumption ==
    /\ Calls \subseteq AllCalls
    /\ Leases \subseteq Seq(Lease)
    /\ Registries \subseteq Registry
    /\ Mishaps \subseteq AllMishaps

VARIABLES
    call,    \* the call in progress
    leases, registry,
    caller,  \* the calling thread
    route,   \* the program it runs
    child,   \* the child process: status, and whether its pipes are held
    pid,     \* whose the child's pid is
    killer,  \* the killer thread
    stray,   \* the killer has hit a process that is not the child
    taken,   \* how often Canopy has carried the request out
    answer   \* what the call returns

vars == <<call, leases, registry, caller, route, child, pid, killer, stray,
          taken, answer>>
input == <<call, leases, registry>>

\* A reply is of use to the caller or not: an object with a task_id, a task,
\* a report; or an error object, another shape, no JSON.
Output == {"good", "bad"}

Exit == {"ok", "nonzero", "killed"}

Child == [is     : {"none", "running", "zombie", "reaped"},
          worked : BOOLEAN,
          exit   : Exit,
          output : Output,
          held   : BOOLEAN]   \* a descendant keeps the pipes open

NoChild == [is |-> "none", worked |-> FALSE, exit |-> "ok", output |-> "bad",
            held |-> FALSE]

Init ==
    /\ call \in Calls
    /\ leases \in Leases
    /\ registry \in Registries
    /\ caller = "start"
    /\ route = "none"
    /\ child = NoChild
    /\ pid = "none"
    /\ killer = "none"
    /\ stray = FALSE
    /\ taken = 0
    /\ answer = "none"

At(pc) == caller = pc

Return(reply) == caller' = "returned" /\ answer' = reply

-----------------------------------------------------------------------------
(* resolve_capability: the first lease of the capability that has not      *)
(* expired, else the first entry of the registry that is not missing.      *)

First(s, Test(_)) ==
    LET hits == SelectSeq(s, Test) IN
    IF hits = <<>> THEN NoCandidate ELSE Head(hits).candidate

LiveLease(l) == l.cap /\ ~ l.expired

Installed(e) == e.cap /\ ~ e.missing

\* A lease directory that cannot be read is an empty one; a registry that
\* cannot be read ends the resolution with nothing.
ResolveCapability ==
    LET leased == First(leases, LiveLease) IN
    IF leased # NoCandidate THEN leased
    ELSE IF registry.readable THEN First(registry.entries, Installed)
    ELSE NoCandidate

Typed(candidate) == candidate.transport = "cli" /\ candidate.command # "none"

\* resolve_capability, the transport match, and the path check of
\* send_dispatch_request; whatever is not typed is left to the adapter.
ChooseEndpoint ==
    LET candidate == ResolveCapability IN
    /\ At("start")
    /\ call = "create_task"
    /\ IF Typed(candidate) /\ candidate.command = "gone"
       THEN Return("error") /\ UNCHANGED route
       ELSE /\ caller' = "spawn"
            /\ route' = IF Typed(candidate) THEN "typed" ELSE "cli"
            /\ UNCHANGED answer
    /\ UNCHANGED <<input, child, pid, killer, stray, taken>>

ChooseBinary ==
    /\ At("start")
    /\ call \notin {"create_task", "get_task"}
    /\ caller' = "spawn"
    /\ route' = "cli"
    /\ UNCHANGED <<input, child, pid, killer, stray, taken, answer>>

-----------------------------------------------------------------------------
(* get_task over the socket.  Any failure, Canopy's own errors included,   *)
(* goes on with the binary; the timeout is per read, not per reply.        *)

ChooseSocket ==
    /\ At("start")
    /\ call = "get_task"
    /\ \/ caller' = "socket" /\ route' = "socket"
       \/ caller' = "spawn" /\ route' = "cli"   \* no path, or no server
    /\ UNCHANGED <<input, child, pid, killer, stray, taken, answer>>

SocketReply ==
    /\ At("socket")
    /\ \E output \in Output :
          IF output = "good"
          THEN Return("ok") /\ UNCHANGED route
          ELSE caller' = "spawn" /\ route' = "cli" /\ UNCHANGED answer
    /\ UNCHANGED <<input, child, pid, killer, stray, taken>>

\* A piece of a line arrives; the next read has the whole timeout again.
SocketDribble ==
    /\ At("socket")
    /\ caller' = "dribbled"
    /\ UNCHANGED <<input, route, child, pid, killer, stray, taken, answer>>

ReadOn ==
    /\ At("dribbled")
    /\ caller' = "socket"
    /\ UNCHANGED <<input, route, child, pid, killer, stray, taken, answer>>

SocketTimeout ==
    /\ At("socket")
    /\ caller' = "spawn"
    /\ route' = "cli"
    /\ UNCHANGED <<input, child, pid, killer, stray, taken, answer>>

-----------------------------------------------------------------------------
(* run, and send_dispatch_request: the same, but for the request that goes *)
(* to the child's standard input before anything watches the clock.        *)

\* No such binary, or fork and exec fail.
SpawnFails ==
    /\ At("spawn")
    /\ Return("error")
    /\ UNCHANGED <<input, route, child, pid, killer, stray, taken>>

Spawn ==
    /\ At("spawn")
    /\ child' = [NoChild EXCEPT !.is = "running"]
    /\ pid' = "child"
    /\ caller' = IF route = "typed" THEN "write" ELSE "arm"
    /\ UNCHANGED <<input, route, killer, stray, taken, answer>>

WriteRequest ==
    /\ At("write")
    /\ caller' = "arm"
    /\ UNCHANGED <<input, route, child, pid, killer, stray, taken, answer>>

\* The pipe is closed at the other end; the child is neither killed nor
\* waited for, and may have read the request.
WriteFails ==
    /\ At("write")
    /\ Return("error")
    /\ UNCHANGED <<input, route, child, pid, killer, stray, taken>>

Arm ==
    /\ At("arm")
    /\ killer' = "armed"
    /\ caller' = "wait"
    /\ UNCHANGED <<input, route, child, pid, stray, taken, answer>>

\* wait_with_output: the pipes at their end, for which the child has to be
\* gone and whoever else holds them too, then the child's status.
Reap ==
    /\ At("wait")
    /\ child.is = "zombie" /\ ~ child.held
    /\ child' = [child EXCEPT !.is = "reaped"]
    /\ pid' = "free"
    /\ caller' = "cancel"
    /\ UNCHANGED <<input, route, killer, stray, taken, answer>>

\* The early return drops the channel, which the killer takes for a timeout.
WaitFails ==
    /\ At("wait")
    /\ "wait_fails" \in Mishaps
    /\ Return("error")
    /\ killer' = IF killer = "armed" THEN "due" ELSE killer
    /\ UNCHANGED <<input, route, child, pid, stray, taken>>

CancelKiller ==
    /\ At("cancel")
    /\ killer' = IF killer = "armed" THEN "over" ELSE killer
    /\ caller' = "join"
    /\ UNCHANGED <<input, route, child, pid, stray, taken, answer>>

\* A typed endpoint that succeeds without a task_id is an error, the binary
\* is believed; reports and tasks have to parse.
Understood ==
    child.output = "good" \/ (route = "cli" /\ call \notin Parsed)

\* Mutant: a typed endpoint that fails leaves the task to the adapter.
JoinFallBack ==
    /\ At("join")
    /\ killer = "over"
    /\ IF child.exit = "ok" /\ Understood
       THEN Return("ok") /\ UNCHANGED route
       ELSE IF route = "typed"
            THEN caller' = "spawn" /\ route' = "cli" /\ UNCHANGED answer
            ELSE Return("error") /\ UNCHANGED route
    /\ UNCHANGED <<input, child, pid, killer, stray, taken>>

\* Mutant: the killer is left to itself.
JoinNot ==
    /\ At("join")
    /\ Return(IF child.exit = "ok" /\ Understood THEN "ok" ELSE "error")
    /\ UNCHANGED <<input, route, child, pid, killer, stray, taken>>

Join ==
    /\ At("join")
    /\ killer = "over"
    /\ Return(IF child.exit = "ok" /\ Understood THEN "ok" ELSE "error")
    /\ UNCHANGED <<input, route, child, pid, killer, stray, taken>>

-----------------------------------------------------------------------------
(* The killer thread.                                                      *)

\* Mutant: the clock starts when the child has exited.
KillerTimeoutLate ==
    /\ killer = "armed"
    /\ child.is # "running"
    /\ killer' = "due"
    /\ UNCHANGED <<input, caller, route, child, pid, stray, taken, answer>>

KillerTimeout ==
    /\ killer = "armed"
    /\ killer' = "due"
    /\ UNCHANGED <<input, caller, route, child, pid, stray, taken, answer>>

\* libc_kill: SIGKILL to whoever has the pid now.
Kill ==
    /\ killer = "due"
    /\ killer' = "over"
    /\ child' = IF pid = "child" /\ child.is = "running"
                THEN [child EXCEPT !.is = "zombie", !.exit = "killed"] ELSE child
    /\ stray' = (stray \/ pid = "other")
    /\ UNCHANGED <<input, caller, route, pid, taken, answer>>

-----------------------------------------------------------------------------
(* The canopy process, and the operating system.                           *)

ChildWorks ==
    /\ child.is = "running"
    /\ ~ child.worked
    /\ child' = [child EXCEPT !.worked = TRUE]
    /\ taken' = taken + 1
    /\ UNCHANGED <<input, caller, route, pid, killer, stray, answer>>

\* A process of the child's own inherits its pipes, and may outlive it,
\* killed or not.
ChildForks ==
    /\ child.is = "running"
    /\ "descendant" \in Mishaps
    /\ child' = [child EXCEPT !.held = TRUE]
    /\ UNCHANGED <<input, caller, route, pid, killer, stray, taken, answer>>

DescendantEnds ==
    /\ child.held
    /\ child' = [child EXCEPT !.held = FALSE]
    /\ UNCHANGED <<input, caller, route, pid, killer, stray, taken, answer>>

\* Canopy succeeds only when it has done what it was asked.
ChildExits ==
    /\ child.is = "running"
    /\ \E exit \in {"ok", "nonzero"}, output \in Output :
          /\ exit = "ok" => child.worked
          /\ child' = [child EXCEPT !.is = "zombie", !.exit = exit, !.output = output]
    /\ UNCHANGED <<input, caller, route, pid, killer, stray, taken, answer>>

PidReused ==
    /\ pid = "free"
    /\ pid' = "other"
    /\ UNCHANGED <<input, caller, route, child, killer, stray, taken, answer>>

\* The call has returned, and nothing it started is left to move.
Done ==
    /\ At("returned")
    /\ killer \notin {"armed", "due"}
    /\ child.is # "running"
    /\ UNCHANGED vars

Caller ==
    \/ ChooseEndpoint \/ ChooseBinary \/ ChooseSocket \/ ReadOn
    \/ Spawn \/ WriteRequest \/ Arm \/ Reap \/ CancelKiller \/ Join

Killer == KillerTimeout \/ Kill

Next ==
    \/ Caller \/ Killer
    \/ SocketReply \/ SocketDribble \/ SocketTimeout
    \/ SpawnFails \/ WriteFails \/ WaitFails
    \/ ChildWorks \/ ChildForks \/ ChildExits \/ DescendantEnds \/ PidReused
    \/ Done

Spec == Init /\ [][Next]_vars

\* The two threads run and clocks reach their timeouts; Canopy owes nothing.
Threads == WF_vars(Caller) /\ WF_vars(Killer) /\ WF_vars(SocketTimeout)

FairSpec == Spec /\ Threads

-----------------------------------------------------------------------------
(* A pid is the child's until it is reaped, and a reaped child's exit      *)
(* decides the answer only after the killer has been armed and ended.      *)
TypeOK ==
    /\ caller \in {"start", "socket", "dribbled", "spawn", "write", "arm", "wait",
                   "cancel", "join", "returned"}
    /\ route \in {"none", "socket", "typed", "cli"}
    /\ child \in Child
    /\ pid \in {"none", "child", "free", "other"}
    /\ killer \in {"none", "armed", "due", "over"}
    /\ stray \in BOOLEAN
    /\ taken \in Nat
    /\ answer \in {"none", "ok", "error"}
    /\ answer = "none" <=> caller # "returned"
    /\ pid = "child" <=> child.is \in {"running", "zombie"}

Writes == call # "get_task"

\* Reading a task twice, once over each route, does no harm.
R == INSTANCE CanopyRequest WITH
        taken <- IF Writes THEN taken ELSE IF answer = "ok" THEN 1 ELSE 0,
        answer <- IF Writes THEN answer ELSE "none"

(* Whatever endpoint is chosen, whenever the child works, hangs, dies or   *)
(* is killed, a call asks Canopy at most once, and reports success only of *)
(* what Canopy has done: what module Dispatch takes a reply to mean.       *)
RefinesRequest == R!Spec

(* A call that comes back from waiting for its child has reaped it and has *)
(* ended its killer: no thread is left to shoot later, at whoever has the  *)
(* pid then.                                                               *)
NoKillerLeft ==
    answer # "none" /\ child.is = "reaped" => killer = "over"

(* Canopy may hang for ever and a call still returns: the killer bounds    *)
(* the wait, the socket's timeout each read.  Two things can keep it, and  *)
(* nothing else: a process of the child's that holds the pipes for good,   *)
(* and a server that goes on sending pieces of a line.                     *)
CallReturns ==
    \/ <>(answer # "none")
    \/ <>[](child.held /\ child.is = "zombie")
    \/ []<>At("dribbled")

-----------------------------------------------------------------------------
(* Statements of the sources that the calls do not keep.                   *)

(* cli.rs 373-375, capability_client.rs 411-413: the cancellation channel  *)
(* prevents the killer from shooting at a reused pid.                      *)
KillsOnlyItsChild == ~ stray

(* cli.rs 346-348: "a hanging canopy process cannot block orchestration    *)
(* indefinitely"; 163-165: the socket "cannot block longer than the CLI    *)
(* path would".  A process the child leaves on its pipes and a server that *)
(* sends a line byte by byte can: the exceptions of CallReturns.           *)
NothingBlocks == <>(answer # "none")
=============================================================================
