---------------------------- MODULE WorkflowLock ----------------------------
(***************************************************************************)
(* The lock file by which a running workflow keeps the compaction hook of  *)
(* its editor from interrupting it.  hymenium run writes it beside its     *)
(* name and renames it into place; hymenium hook pre-compact reads every   *)
(* lock it finds, blocks on one whose process is alive, and removes the    *)
(* others.  Nothing but the file system coordinates them, and a path names *)
(* whatever file (inode) was last put there.                               *)
(***************************************************************************)
CONSTANTS
    Runs,       \* runs of hymenium run, their process ids, the inodes they create
    Workflows,  \* workflow ids: a lock path and a temporary path each
    Of,         \* the workflow a run executes
    Hooks,      \* callers of the compaction hook
    None        \* no file, no run

ASSUME LockAssumption ==
    /\ Of \in [Runs -> Workflows]
    /\ None \notin Runs \cup Workflows
    /\ {"empty", "torn"} \cap Runs = {}

VARIABLES
    run,      \* per run: where it is, its open file, whether it got its lock
    tmp,      \* per workflow, the inode its temporary path names
    lock,     \* per workflow, the inode its lock path names
    content,  \* per inode: the run whose lock it holds, or no parsable lock
    hook      \* per hook: where its scan is

vars == <<run, tmp, lock, content, hook>>
files == <<tmp, lock, content>>

Content == Runs \cup {"empty", "torn"}

IdleHook == [pc |-> "idle", left |-> {}, at |-> None, seen |-> None, watch |-> {}]

Init ==
    /\ run = [r \in Runs |-> [pc |-> "idle", fd |-> None, ok |-> FALSE]]
    /\ tmp = [w \in Workflows |-> None]
    /\ lock = [w \in Workflows |-> None]
    /\ content = [i \in Runs |-> "empty"]
    /\ hook = [h \in Hooks |-> IdleHook]

At(r, pc) == run[r].pc = pc

Alive(r) == ~ At(r, "idle") /\ ~ At(r, "over")

-----------------------------------------------------------------------------
(* acquire_lock.  An error is logged and the workflow runs all the same.   *)

Unlocked(r) == [run EXCEPT ![r].pc = "running"]

\* Mutant: the lock file is written in place.
CreateInPlace(r) ==
    LET w == Of[r]
        i == IF lock[w] = None THEN r ELSE lock[w]
    IN
    /\ At(r, "idle")
    /\ run' = [run EXCEPT ![r].pc = "write", ![r].fd = i]
    /\ tmp' = [tmp EXCEPT ![w] = i]
    /\ lock' = [lock EXCEPT ![w] = i]
    /\ content' = [content EXCEPT ![i] = "empty"]
    /\ UNCHANGED hook

\* Opening an existing temporary file empties it; it stays the same file.
Create(r) ==
    LET w == Of[r]
        i == IF tmp[w] = None THEN r ELSE tmp[w]
    IN
    /\ At(r, "idle")
    /\ \/ /\ run' = [run EXCEPT ![r].pc = "write", ![r].fd = i]
          /\ tmp' = [tmp EXCEPT ![w] = i]
          /\ content' = [content EXCEPT ![i] = "empty"]
       \/ run' = Unlocked(r) /\ UNCHANGED <<tmp, content>>
    /\ UNCHANGED <<lock, hook>>

\* Written over a longer lock of another run, the text does not parse.
Write(r) ==
    LET i == run[r].fd IN
    /\ At(r, "write")
    /\ \/ /\ run' = [run EXCEPT ![r].pc = "rename"]
          /\ \E c \in {r} \cup (IF content[i] = "empty" THEN {} ELSE {"torn"}) :
                content' = [content EXCEPT ![i] = c]
       \/ run' = Unlocked(r) /\ content' = [content EXCEPT ![i] = "torn"]
    /\ UNCHANGED <<tmp, lock, hook>>

\* Whatever file has the temporary name is moved, if there is one.
Rename(r) ==
    LET w == Of[r] IN
    /\ At(r, "rename")
    /\ \/ /\ tmp[w] # None
          /\ lock' = [lock EXCEPT ![w] = tmp[w]]
          /\ tmp' = [tmp EXCEPT ![w] = None]
          /\ run' = [run EXCEPT ![r].pc = "running", ![r].ok = TRUE]
       \/ run' = Unlocked(r) /\ UNCHANGED <<tmp, lock>>
    /\ UNCHANGED <<content, hook>>

-----------------------------------------------------------------------------
(* release_lock, whatever the run ended with, and whoever wrote the file.  *)

CheckExists(r) ==
    /\ At(r, "running")
    /\ run' = [run EXCEPT ![r].pc = IF lock[Of[r]] = None THEN "over" ELSE "release"]
    /\ UNCHANGED <<files, hook>>

Remove(r) ==
    /\ At(r, "release")
    /\ lock' \in {[lock EXCEPT ![Of[r]] = None], lock}
    /\ run' = [run EXCEPT ![r].pc = "over"]
    /\ UNCHANGED <<tmp, content, hook>>

\* Killed, or a panic, which release builds abort on: nothing is cleaned up.
Crash(r) ==
    /\ Alive(r)
    /\ run' = [run EXCEPT ![r].pc = "over"]
    /\ UNCHANGED <<files, hook>>

-----------------------------------------------------------------------------
(* find_any_active_lock, run by the hook command.                          *)

Hears(h, pc) == hook[h].pc = pc

\* A run that holds its lock and whose workflow nobody else has started.
AloneInWorkflow(r) == \A s \in Runs \ {r} : Of[s] = Of[r] => At(s, "idle")

Protected(r) == At(r, "running") /\ run[r].ok /\ AloneInWorkflow(r)

\* watch is a history variable: the runs protected when the scan began.
ScanBegin(h) ==
    /\ Hears(h, "idle")
    /\ hook' = [hook EXCEPT ![h].pc = "scan", ![h].left = Workflows,
                            ![h].watch = {r \in Runs : Protected(r)}]
    /\ UNCHANGED <<run, files>>

\* Locks are met in any order; one that is gone cannot be read.
ScanRead(h) ==
    /\ Hears(h, "scan")
    /\ \E w \in hook[h].left :
          hook' = [hook EXCEPT
              ![h].left = @ \ {w},
              ![h].pc = IF lock[w] = None THEN "scan" ELSE "judge",
              ![h].at = IF lock[w] = None THEN None ELSE w,
              ![h].seen = IF lock[w] = None THEN None ELSE content[lock[w]]]
    /\ UNCHANGED <<run, files>>

\* Mutant: a lock that does not parse is passed over.
ScanJudgeLenient(h) ==
    LET r == hook[h].seen IN
    /\ Hears(h, "judge")
    /\ hook' = IF r \in Runs /\ Alive(r) THEN [hook EXCEPT ![h] = IdleHook]
               ELSE IF r \in Runs THEN [hook EXCEPT ![h].pc = "remove"]
               ELSE [hook EXCEPT ![h].pc = "scan", ![h].at = None, ![h].seen = None]
    /\ UNCHANGED <<run, files>>

\* A live lock ends the scan: compaction is blocked.
ScanJudge(h) ==
    LET r == hook[h].seen IN
    /\ Hears(h, "judge")
    /\ hook' = IF r \in Runs /\ Alive(r) THEN [hook EXCEPT ![h] = IdleHook]
               ELSE [hook EXCEPT ![h].pc = "remove"]
    /\ UNCHANGED <<run, files>>

\* Mutant: the scan ends at the first stale lock.
ScanRemoveLast(h) ==
    /\ Hears(h, "remove")
    /\ lock' = [lock EXCEPT ![hook[h].at] = None]
    /\ hook' = [hook EXCEPT ![h].pc = "scan", ![h].left = {},
                            ![h].at = None, ![h].seen = None]
    /\ UNCHANGED <<run, tmp, content>>

\* The path is removed, whatever file it names by now.
ScanRemove(h) ==
    /\ Hears(h, "remove")
    /\ lock' = [lock EXCEPT ![hook[h].at] = None]
    /\ hook' = [hook EXCEPT ![h].pc = "scan", ![h].at = None, ![h].seen = None]
    /\ UNCHANGED <<run, tmp, content>>

\* Nothing alive was found: compaction is allowed.
ScanEnd(h) ==
    /\ Hears(h, "scan")
    /\ hook[h].left = {}
    /\ hook' = [hook EXCEPT ![h] = IdleHook]
    /\ UNCHANGED <<run, files>>

Scan(h) == ScanRead(h) \/ ScanJudge(h) \/ ScanRemove(h) \/ ScanEnd(h)

Next ==
    \/ \E r \in Runs : \/ Create(r) \/ Write(r) \/ Rename(r)
                       \/ CheckExists(r) \/ Remove(r) \/ Crash(r)
    \/ \E h \in Hooks : ScanBegin(h) \/ Scan(h)

Spec == Init /\ [][Next]_vars

\* The editor keeps asking before it compacts, and the hook answers.
FairSpec == Spec /\ \A h \in Hooks : WF_vars(ScanBegin(h)) /\ WF_vars(Scan(h))

-----------------------------------------------------------------------------
(* Paths name files that some run of their workflow created, a hook holds  *)
(* a lock's text exactly while it judges it.                               *)
TypeOK ==
    /\ run \in [Runs -> [pc : {"idle", "write", "rename", "running", "release", "over"},
                         fd : Runs \cup {None}, ok : BOOLEAN]]
    /\ tmp \in [Workflows -> Runs \cup {None}]
    /\ lock \in [Workflows -> Runs \cup {None}]
    /\ content \in [Runs -> Content]
    /\ hook \in [Hooks -> [pc : {"idle", "scan", "judge", "remove"},
                           left : SUBSET Workflows,
                           at : Workflows \cup {None},
                           seen : Content \cup {None},
                           watch : SUBSET Runs]]
    /\ \A w \in Workflows : tmp[w] # None => Of[tmp[w]] = w
    /\ \A w \in Workflows : lock[w] # None => Of[lock[w]] = w
    /\ \A r \in Runs : At(r, "write") => run[r].fd # None
    /\ \A h \in Hooks : hook[h].at # None <=> hook[h].pc \in {"judge", "remove"}

(* However many hooks scan at once and remove what they take for stale, a  *)
(* run that has its lock, in a workflow nobody else has started, keeps it: *)
(* the file is in place and names a live process.                          *)
LoneRunKeepsItsLock ==
    \A r \in Runs : Protected(r) =>
        lock[Of[r]] # None /\ content[lock[Of[r]]] = r

(* A hook does not allow compaction while such a run goes on from the      *)
(* beginning of its scan to the end, however many stale locks it meets.    *)
CompactionBlocked ==
    \A h \in Hooks : Hears(h, "scan") /\ hook[h].left = {} =>
        ~ \E r \in hook[h].watch : Protected(r)

(* Locks left by crashed runs, whole or torn, do not outlive the runs for  *)
(* good: hooks remove them, so compaction is not blocked for ever.         *)
StaleLocksGo ==
    <>[](\A r \in Runs : ~ Alive(r)) => <>[](\A w \in Workflows : lock[w] = None)

-----------------------------------------------------------------------------
(* Statements of the sources that the lock does not keep.                  *)

(* workflow_lock.rs 3-5: while a workflow is being executed, a lock file   *)
(* signals it: with two runs of one workflow, the lock goes with the first *)
(* to finish, or with a hook that has judged an earlier one.               *)
ActiveRunSignals ==
    \A r \in Runs : At(r, "running") /\ run[r].ok => lock[Of[r]] # None

(* workflow_lock.rs 74-75: the temporary file and its rename "ensure       *)
(* consistency": what the lock path names is always a whole lock.          *)
LocksAreWhole ==
    \A w \in Workflows : lock[w] # None => content[lock[w]] \in Runs
=============================================================================
