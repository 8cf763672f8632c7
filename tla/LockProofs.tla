----------------------------- MODULE LockProofs -----------------------------
(***************************************************************************)
(* What the lock file promises, for any number of runs, workflows and      *)
(* hooks: a run that is alone in its workflow is never robbed of its lock, *)
(* and no hook allows compaction over its head.                            *)
(***************************************************************************)
EXTENDS WorkflowLock, TLAPS

\* r has not yet had the chance to put its lock in place.
Early(r) == run[r].pc \in {"idle", "write", "rename"}

\* A run writes only to files created by runs of its own workflow.
OwnFiles ==
    \A r \in Runs :
        /\ run[r].fd # None => Of[run[r].fd] = Of[r]
        /\ Early(r) => ~ run[r].ok

\* The two paths of a workflow that one run alone has started.
LoneFiles(r) ==
    LET w == Of[r] IN
    /\ At(r, "idle") => tmp[w] = None
    /\ Early(r) => lock[w] = None
    /\ At(r, "write") => run[r].fd = r /\ tmp[w] = r /\ content[r] = "empty"
    /\ At(r, "rename") => tmp[w] = r /\ content[r] = r
    /\ At(r, "running") /\ run[r].ok => lock[w] = r /\ content[r] = r

LoneRuns == \A r \in Runs : AloneInWorkflow(r) => LoneFiles(r)

\* A hook at a lone run's lock has read that run's own text.
HookReads(h, r) ==
    hook[h].at = Of[r] =>
        /\ ~ Early(r)
        /\ Protected(r) => Hears(h, "judge") /\ hook[h].seen = r

HooksRead == \A h \in Hooks, r \in Runs : AloneInWorkflow(r) => HookReads(h, r)

\* A lone run that was there when the scan began is still ahead of it.
HookAhead(h, r) ==
    r \in hook[h].watch =>
        /\ ~ Early(r)
        /\ Protected(r) => Of[r] \in hook[h].left \/ hook[h].at = Of[r]

HooksAhead == \A h \in Hooks, r \in Runs : HookAhead(h, r)

LockInv == TypeOK /\ OwnFiles /\ LoneRuns /\ HooksRead /\ HooksAhead

-----------------------------------------------------------------------------
LEMMA InitLock == Init => LockInv
<1>. SUFFICES ASSUME Init PROVE LockInv
  OBVIOUS
<1>. USE LockAssumption DEF Init, IdleHook
<1>1. TypeOK
  BY DEF TypeOK, At, Content
<1>2. OwnFiles
  BY DEF OwnFiles, Early
<1>3. LoneRuns
  BY DEF LoneRuns, LoneFiles, Early, At
<1>4. HooksRead
  BY DEF HooksRead, HookReads
<1>5. HooksAhead
  BY DEF HooksAhead, HookAhead
<1>. QED
  BY <1>1, <1>2, <1>3, <1>4, <1>5 DEF LockInv

(***************************************************************************)
(* Type correctness.  A hook's scan is a record of its own: a step of the  *)
(* hook replaces it by another well-typed one and leaves the runs alone.   *)
(***************************************************************************)
RunTyped ==
    /\ run \in [Runs -> [pc : {"idle", "write", "rename", "running", "release", "over"},
                         fd : Runs \cup {None}, ok : BOOLEAN]]
    /\ \A r \in Runs : At(r, "write") => run[r].fd # None

FilesTyped ==
    /\ tmp \in [Workflows -> Runs \cup {None}]
    /\ lock \in [Workflows -> Runs \cup {None}]
    /\ content \in [Runs -> Content]
    /\ \A w \in Workflows : tmp[w] # None => Of[tmp[w]] = w
    /\ \A w \in Workflows : lock[w] # None => Of[lock[w]] = w

ScanRecord ==
    [pc : {"idle", "scan", "judge", "remove"}, left : SUBSET Workflows,
     at : Workflows \cup {None}, seen : Content \cup {None}, watch : SUBSET Runs]

ScanTyped(s) ==
    s \in ScanRecord /\ (s.at # None <=> s.pc \in {"judge", "remove"})

HooksTyped == hook \in [Hooks -> ScanRecord] /\ \A h \in Hooks : ScanTyped(hook[h])

LEMMA TypeParts == TypeOK <=> RunTyped /\ FilesTyped /\ HooksTyped
BY DEF TypeOK, RunTyped, FilesTyped, HooksTyped, ScanTyped, ScanRecord

LEMMA ScanStep ==
    ASSUME HooksTyped, NEW h \in Hooks, NEW s, ScanTyped(s),
           hook' = [hook EXCEPT ![h] = s]
    PROVE  HooksTyped'
BY DEF HooksTyped, ScanTyped

LEMMA NextTyped == TypeOK /\ [Next]_vars => TypeOK'
<1>. SUFFICES ASSUME RunTyped, FilesTyped, HooksTyped, [Next]_vars
              PROVE  RunTyped' /\ FilesTyped' /\ HooksTyped'
  BY TypeParts, PTL
<1>. USE LockAssumption
<1>1. ASSUME NEW r \in Runs, Create(r)
      PROVE  RunTyped' /\ FilesTyped' /\ HooksTyped'
  <2>1. UNCHANGED <<lock, hook>>
    BY <1>1 DEF Create
  <2>2. CASE run' = Unlocked(r) /\ UNCHANGED <<tmp, content>>
    <3>1. RunTyped'
      BY <1>1, <2>2 DEF Create, Unlocked, RunTyped, At
    <3>. QED
      BY <2>1, <2>2, <3>1 DEF FilesTyped, HooksTyped, ScanTyped
  <2>3. ASSUME NEW i, i = IF tmp[Of[r]] = None THEN r ELSE tmp[Of[r]],
               run' = [run EXCEPT ![r].pc = "write", ![r].fd = i],
               tmp' = [tmp EXCEPT ![Of[r]] = i],
               content' = [content EXCEPT ![i] = "empty"]
        PROVE  RunTyped' /\ FilesTyped' /\ HooksTyped'
    <3>1. i \in Runs /\ i # None /\ Of[i] = Of[r]
      BY <2>3 DEF FilesTyped
    <3>2. RunTyped'
      <4> DEFINE x == [run[r] EXCEPT !.pc = "write", !.fd = i]
      <4>1. run' = [run EXCEPT ![r] = x]
        BY <2>3 DEF RunTyped
      <4>2. /\ x \in [pc : {"idle", "write", "rename", "running", "release", "over"},
                      fd : Runs \cup {None}, ok : BOOLEAN]
            /\ x.fd # None
        BY <3>1, ZenonT(60) DEF RunTyped
      <4> HIDE DEF x
      <4>. QED
        BY <4>1, <4>2 DEF RunTyped, At
    <3>3. FilesTyped'
      BY <2>1, <2>3, <3>1 DEF FilesTyped, Content
    <3>. QED
      BY <2>1, <3>2, <3>3 DEF HooksTyped, ScanTyped
  <2>. QED
    BY <1>1, <2>2, <2>3 DEF Create
<1>2. ASSUME NEW r \in Runs, Write(r)
      PROVE  RunTyped' /\ FilesTyped' /\ HooksTyped'
  BY <1>2 DEF Write, Unlocked, RunTyped, FilesTyped, HooksTyped, ScanTyped, At, Content
<1>3. ASSUME NEW r \in Runs, Rename(r)
      PROVE  RunTyped' /\ FilesTyped' /\ HooksTyped'
  <2>1. UNCHANGED <<content, hook>>
    BY <1>3 DEF Rename
  <2>2. RunTyped'
    BY <1>3 DEF Rename, Unlocked, RunTyped, At
  <2>3. FilesTyped'
    BY <1>3, <2>1 DEF Rename, FilesTyped
  <2>. QED
    BY <2>1, <2>2, <2>3 DEF HooksTyped, ScanTyped
<1>4. ASSUME NEW r \in Runs, CheckExists(r) \/ Remove(r) \/ Crash(r)
      PROVE  RunTyped' /\ FilesTyped' /\ HooksTyped'
  <2>1. UNCHANGED <<tmp, content, hook>>
    BY <1>4 DEF CheckExists, Remove, Crash, files
  <2>2. \/ run' = [run EXCEPT ![r].pc = "over"]
        \/ run' = [run EXCEPT ![r].pc = "release"]
    BY <1>4 DEF CheckExists, Remove, Crash
  <2>3. UNCHANGED lock \/ lock' = [lock EXCEPT ![Of[r]] = None]
    BY <1>4 DEF CheckExists, Remove, Crash, files
  <2>4. RunTyped'
    BY <2>2, SMTT(60) DEF RunTyped, At
  <2>. QED
    BY <2>1, <2>3, <2>4 DEF FilesTyped, HooksTyped, ScanTyped
<1>5. ASSUME NEW h \in Hooks, Scan(h) \/ ScanBegin(h) PROVE RunTyped'
  BY <1>5, ZenonT(60) DEF Scan, ScanBegin, ScanRead, ScanJudge, ScanRemove, ScanEnd, RunTyped, At
<1>6. ASSUME NEW h \in Hooks, Scan(h) \/ ScanBegin(h) PROVE FilesTyped'
  <2>1. UNCHANGED <<tmp, content>>
    BY <1>6, ZenonT(60) DEF Scan, ScanBegin, ScanRead, ScanJudge, ScanRemove, ScanEnd, files
  <2>2. UNCHANGED lock \/ lock' = [lock EXCEPT ![hook[h].at] = None]
    BY <1>6 DEF Scan, ScanBegin, ScanRead, ScanJudge, ScanRemove, ScanEnd, files
  <2>. QED
    BY <2>1, <2>2 DEF FilesTyped
<1>7. ASSUME NEW h \in Hooks, Scan(h) \/ ScanBegin(h) PROVE HooksTyped'
  <2>. DEFINE old == hook[h]
  <2>1. ScanTyped(old) /\ hook \in [Hooks -> ScanRecord]
    BY DEF HooksTyped
  <2>2. CASE ScanBegin(h)
    <3>. DEFINE watched == {r \in Runs : Protected(r)}
                new == [old EXCEPT !.pc = "scan", !.left = Workflows, !.watch = watched]
    <3>1. watched \in SUBSET Runs
      OBVIOUS
    <3>2. hook' = [hook EXCEPT ![h] = new] /\ old.pc = "idle"
      BY <2>1, <2>2 DEF ScanBegin, Hears
    <3>. HIDE DEF watched
    <3>3. ScanTyped(new)
      BY <2>1, <3>1, <3>2 DEF ScanTyped, ScanRecord
    <3>. QED
      BY <3>2, <3>3, ScanStep
  <2>3. CASE ScanRead(h)
    <3>1. PICK w \in old.left :
            hook' = [hook EXCEPT ![h].left = @ \ {w},
                         ![h].pc = IF lock[w] = None THEN "scan" ELSE "judge",
                         ![h].at = IF lock[w] = None THEN None ELSE w,
                         ![h].seen = IF lock[w] = None THEN None ELSE content[lock[w]]]
      BY <2>3 DEF ScanRead
    <3>. DEFINE new == [old EXCEPT !.left = @ \ {w},
                            !.pc = IF lock[w] = None THEN "scan" ELSE "judge",
                            !.at = IF lock[w] = None THEN None ELSE w,
                            !.seen = IF lock[w] = None THEN None ELSE content[lock[w]]]
    <3>2. hook' = [hook EXCEPT ![h] = new]
      BY <2>1, <3>1
    <3>3. w \in Workflows /\ old.left \ {w} \in SUBSET Workflows
      BY <2>1 DEF ScanTyped, ScanRecord
    <3>4. lock[w] # None => content[lock[w]] \in Content
      BY <3>3 DEF FilesTyped
    <3>5. ScanTyped(new)
      BY <2>1, <3>3, <3>4, ZenonT(60) DEF ScanTyped, ScanRecord
    <3>. QED
      BY <3>2, <3>5, ScanStep
  <2>4. CASE ScanJudge(h)
    <3>. DEFINE new == IF old.seen \in Runs /\ Alive(old.seen) THEN IdleHook
                       ELSE [old EXCEPT !.pc = "remove"]
    <3>1. hook' = [hook EXCEPT ![h] = new] /\ old.pc = "judge"
      BY <2>1, <2>4 DEF ScanJudge, Hears
    <3>2. ScanTyped(new)
      BY <2>1, <3>1 DEF ScanTyped, ScanRecord, IdleHook
    <3>. QED
      BY <3>1, <3>2, ScanStep
  <2>5. CASE ScanRemove(h)
    <3>. DEFINE new == [old EXCEPT !.pc = "scan", !.at = None, !.seen = None]
    <3>1. hook' = [hook EXCEPT ![h] = new]
      BY <2>1, <2>5 DEF ScanRemove
    <3>2. ScanTyped(new)
      BY <2>1 DEF ScanTyped, ScanRecord
    <3>. QED
      BY <3>1, <3>2, ScanStep
  <2>6. CASE ScanEnd(h)
    <3>1. ScanTyped(IdleHook)
      BY DEF ScanTyped, ScanRecord, IdleHook
    <3>. QED
      BY <2>6, <3>1, ScanStep DEF ScanEnd
  <2>. QED
    BY <1>7, <2>2, <2>3, <2>4, <2>5, <2>6 DEF Scan
<1>8. CASE UNCHANGED vars
  BY <1>8 DEF vars, RunTyped, FilesTyped, HooksTyped, ScanTyped, At
<1>. QED
  BY <1>1, <1>2, <1>3, <1>4, <1>5, <1>6, <1>7, <1>8 DEF Next

(***************************************************************************)
(* What one step does to the facts the invariant is made of.               *)
(***************************************************************************)

RunStep(r) ==
    Create(r) \/ Write(r) \/ Rename(r) \/ CheckExists(r) \/ Remove(r) \/ Crash(r)

HookStep(h) == ScanBegin(h) \/ Scan(h)

LEMMA NextSplit ==
    [Next]_vars => \/ \E r \in Runs : RunStep(r)
                   \/ \E h \in Hooks : HookStep(h)
                   \/ UNCHANGED vars
BY DEF Next, RunStep, HookStep

LEMMA RunsKeepHooks == ASSUME NEW r \in Runs, RunStep(r) PROVE UNCHANGED hook
BY SMTT(60) DEF RunStep, Create, Write, Rename, CheckExists, Remove, Crash

LEMMA HooksKeepRuns ==
    ASSUME HooksTyped, NEW h \in Hooks, HookStep(h)
    PROVE  /\ UNCHANGED <<run, tmp, content>>
           /\ \A g \in Hooks \ {h} : hook'[g] = hook[g]
<1>. USE DEF HookStep, Scan, ScanBegin, ScanRead, ScanJudge, ScanRemove, ScanEnd, files
<1>1. UNCHANGED <<run, tmp, content>>
  BY ZenonT(60)
<1>2. \A g \in Hooks \ {h} : hook'[g] = hook[g]
  BY DEF HooksTyped
<1>. QED
  BY <1>1, <1>2, ZenonT(60)

\* A run leaves its early states by renaming or by giving up on the lock.
LEMMA RunsProceed ==
    ASSUME RunTyped, HooksTyped, [Next]_vars, NEW r \in Runs
    PROVE  /\ AloneInWorkflow(r)' => AloneInWorkflow(r)
           /\ Early(r)' => Early(r)
           /\ Protected(r)' => Protected(r) \/ Early(r)
<1>1. ASSUME NEW s \in Runs, RunStep(s)
      PROVE  /\ \A q \in Runs : At(q, "idle")' => At(q, "idle")
             /\ Early(r)' => Early(r)
             /\ At(r, "running")' => At(r, "running") \/ Early(r)
             /\ ~ Early(r) => run'[r].ok = run[r].ok
  BY <1>1 DEF RunStep, Create, Write, Rename, CheckExists, Remove, Crash, RunTyped, At,
              Unlocked, Early
<1>2. ASSUME NEW h \in Hooks, HookStep(h) PROVE UNCHANGED run
  BY <1>2, HooksKeepRuns
<1>3. \A q \in Runs : At(q, "idle")' => At(q, "idle")
  BY <1>1, <1>2, NextSplit DEF vars, At
<1>4. AloneInWorkflow(r)' => AloneInWorkflow(r)
  BY <1>3 DEF AloneInWorkflow
<1>5. Early(r)' => Early(r)
  BY <1>1, <1>2, NextSplit DEF vars, Early
<1>6. At(r, "running")' /\ run'[r].ok => Early(r) \/ (At(r, "running") /\ run[r].ok)
  BY <1>1, <1>2, NextSplit DEF vars, At
<1>. QED
  BY <1>4, <1>5, <1>6 DEF Protected

-----------------------------------------------------------------------------
LEMMA NextOwnFiles == RunTyped /\ FilesTyped /\ HooksTyped /\ OwnFiles /\ [Next]_vars => OwnFiles'
<1>. SUFFICES ASSUME RunTyped, FilesTyped, HooksTyped, OwnFiles, [Next]_vars PROVE OwnFiles'
  OBVIOUS
<1>1. ASSUME NEW r \in Runs, Create(r) PROVE OwnFiles'
  BY <1>1, LockAssumption DEF Create, Unlocked, OwnFiles, RunTyped, FilesTyped, Early, At
<1>2. ASSUME NEW r \in Runs, Write(r) \/ Rename(r) PROVE OwnFiles'
  BY <1>2 DEF Write, Rename, Unlocked, OwnFiles, RunTyped, Early, At
<1>3. ASSUME NEW r \in Runs, CheckExists(r) \/ Remove(r) \/ Crash(r) PROVE OwnFiles'
  BY <1>3 DEF CheckExists, Remove, Crash, OwnFiles, RunTyped, Early, At
<1>4. ASSUME NEW h \in Hooks, HookStep(h) PROVE OwnFiles'
  BY <1>4, HooksKeepRuns DEF OwnFiles, Early
<1>5. CASE UNCHANGED vars
  BY <1>5 DEF vars, OwnFiles, Early
<1>. QED
  BY <1>1, <1>2, <1>3, <1>4, <1>5, NextSplit DEF RunStep

\* The steps of other runs of other workflows touch neither path nor file.
LEMMA NextLoneRuns ==
    RunTyped /\ FilesTyped /\ HooksTyped /\ OwnFiles /\ LoneRuns /\ HooksRead /\ [Next]_vars
        => LoneRuns'
<1>. SUFFICES ASSUME RunTyped, FilesTyped, HooksTyped, OwnFiles, LoneRuns, HooksRead,
                     [Next]_vars, NEW r \in Runs, AloneInWorkflow(r)'
              PROVE  LoneFiles(r)'
  BY DEF LoneRuns
<1>. USE LockAssumption
<1>1. AloneInWorkflow(r) /\ LoneFiles(r)
  BY RunsProceed DEF LoneRuns
<1>2. CASE Create(r)
  BY <1>1, <1>2 DEF Create, Unlocked, LoneFiles, OwnFiles, RunTyped, FilesTyped, Early, At
<1>3. CASE Write(r)
  BY <1>1, <1>3 DEF Write, Unlocked, LoneFiles, OwnFiles, RunTyped, FilesTyped, Early, At
<1>4. CASE Rename(r)
  BY <1>1, <1>4 DEF Rename, Unlocked, LoneFiles, OwnFiles, RunTyped, FilesTyped, Early, At
<1>5. CASE CheckExists(r) \/ Remove(r) \/ Crash(r)
  BY <1>1, <1>5 DEF CheckExists, Remove, Crash, files, LoneFiles, OwnFiles, RunTyped,
                    FilesTyped, Early, At
<1>6. ASSUME NEW s \in Runs, s # r, RunStep(s) PROVE LoneFiles(r)'
  <2>1. Of[s] # Of[r]
    <3>1. (At(s, "idle") /\ At(s, "idle")') \/ Of[s] # Of[r]
      BY <1>1, <1>6 DEF AloneInWorkflow
    <3>2. ~ (At(s, "idle") /\ At(s, "idle")')
      BY <1>6 DEF RunStep, Create, Write, Rename, CheckExists, Remove, Crash, RunTyped,
                  Unlocked, At, Alive
    <3>. QED
      BY <3>1, <3>2
  <2>2. run'[r] = run[r] /\ tmp'[Of[r]] = tmp[Of[r]] /\ lock'[Of[r]] = lock[Of[r]]
    BY <1>6, <2>1 DEF RunStep, Create, Write, Rename, CheckExists, Remove, Crash, files,
                      RunTyped, FilesTyped, Unlocked
  <2>3. content'[r] = content[r]
    <3>1. CASE Create(s)
      BY <2>1, <3>1 DEF Create, FilesTyped
    <3>2. CASE Write(s)
      BY <2>1, <3>2, SMTT(60) DEF Write, FilesTyped, RunTyped, OwnFiles
    <3>. QED
      BY <1>6, <3>1, <3>2 DEF RunStep, Rename, CheckExists, Remove, Crash, files
  <2>. QED
    BY <1>1, <2>2, <2>3 DEF LoneFiles, Early, At
<1>7. ASSUME NEW h \in Hooks, HookStep(h) PROVE LoneFiles(r)'
  <2>1. UNCHANGED <<run, tmp, content>>
    BY <1>7, HooksKeepRuns
  <2>2. CASE UNCHANGED lock
    BY <1>1, <2>1, <2>2 DEF LoneFiles, Early, At
  <2>3. CASE ScanRemove(h)
    <3>1. lock' = [lock EXCEPT ![hook[h].at] = None] /\ Hears(h, "remove")
      BY <2>3 DEF ScanRemove
    <3>2. CASE hook[h].at = Of[r]
      <4>1. ~ Protected(r)
        BY <1>1, <3>1, <3>2 DEF HooksRead, HookReads, Hears
      <4>. QED
        BY <1>1, <2>1, <3>1, <3>2, <4>1 DEF LoneFiles, Early, At, Protected, FilesTyped
    <3>3. CASE hook[h].at # Of[r]
      BY <1>1, <2>1, <3>1, <3>3 DEF LoneFiles, Early, At, FilesTyped
    <3>. QED
      BY <3>2, <3>3
  <2>. QED
    BY <1>7, <2>2, <2>3 DEF HookStep, Scan, ScanBegin, ScanRead, ScanJudge, ScanEnd, files
<1>8. CASE UNCHANGED vars
  BY <1>1, <1>8 DEF vars, LoneFiles, Early, At
<1>. QED
  BY <1>2, <1>3, <1>4, <1>5, <1>6, <1>7, <1>8, NextSplit DEF RunStep

-----------------------------------------------------------------------------
\* What the scan of a hook is after each of its steps.
LEMMA ScanCases ==
    ASSUME HooksTyped, NEW h \in Hooks, HookStep(h)
    PROVE  \/ /\ Hears(h, "idle") /\ Hears(h, "scan")'
              /\ hook'[h].left = Workflows /\ hook'[h].at = None
              /\ hook'[h].watch = {r \in Runs : Protected(r)}
           \/ /\ Hears(h, "scan") /\ hook[h].at = None
              /\ hook'[h].watch = hook[h].watch
              /\ \E w \in hook[h].left :
                    /\ hook'[h].left = hook[h].left \ {w}
                    /\ \/ lock[w] = None /\ Hears(h, "scan")' /\ hook'[h].at = None
                       \/ /\ lock[w] # None /\ Hears(h, "judge")' /\ hook'[h].at = w
                          /\ hook'[h].seen = content[lock[w]]
           \/ /\ Hears(h, "judge") /\ Hears(h, "remove")'
              /\ ~ (hook[h].seen \in Runs /\ Alive(hook[h].seen))
              /\ hook'[h].at = hook[h].at /\ hook'[h].left = hook[h].left
              /\ hook'[h].watch = hook[h].watch
           \/ /\ Hears(h, "remove") /\ Hears(h, "scan")'
              /\ hook'[h].at = None /\ hook'[h].left = hook[h].left
              /\ hook'[h].watch = hook[h].watch
           \/ hook'[h] = IdleHook
<1>. USE DEF Hears, HooksTyped, ScanTyped, ScanRecord
<1>1. CASE ScanBegin(h)
  BY <1>1 DEF ScanBegin
<1>2. CASE ScanRead(h)
  BY <1>2 DEF ScanRead
<1>3. CASE ScanJudge(h)
  BY <1>3 DEF ScanJudge
<1>4. CASE ScanRemove(h)
  BY <1>4 DEF ScanRemove
<1>5. CASE ScanEnd(h)
  BY <1>5 DEF ScanEnd
<1>. QED
  BY <1>1, <1>2, <1>3, <1>4, <1>5 DEF HookStep, Scan

LEMMA NextHooks ==
    RunTyped /\ FilesTyped /\ HooksTyped /\ LoneRuns /\ HooksRead /\ HooksAhead /\ [Next]_vars
        => HooksRead' /\ HooksAhead'
<1>. SUFFICES ASSUME RunTyped, FilesTyped, HooksTyped, LoneRuns, HooksRead, HooksAhead,
                     [Next]_vars, NEW h \in Hooks, NEW r \in Runs
              PROVE  /\ AloneInWorkflow(r)' => HookReads(h, r)'
                     /\ HookAhead(h, r)'
  BY DEF HooksRead, HooksAhead
<1>. USE LockAssumption
<1>1. /\ AloneInWorkflow(r)' => AloneInWorkflow(r)
      /\ Early(r)' => Early(r)
      /\ Protected(r)' => Protected(r) \/ Early(r)
  BY RunsProceed
<1>2. /\ AloneInWorkflow(r) => LoneFiles(r) /\ HookReads(h, r)
      /\ HookAhead(h, r)
      /\ Protected(r) => AloneInWorkflow(r)
  BY DEF LoneRuns, HooksRead, HooksAhead, Protected
<1>3. CASE hook'[h] = hook[h]
  <2>1. AloneInWorkflow(r)' => HookReads(h, r)'
    BY <1>1, <1>2, <1>3 DEF HookReads, Hears
  <2>2. HookAhead(h, r)'
    BY <1>1, <1>2, <1>3 DEF HookAhead
  <2>. QED
    BY <2>1, <2>2
<1>4. CASE HookStep(h)
  <2>0. Of[r] \in Workflows /\ Of[r] # None /\ r # None
    OBVIOUS
  <2>1. UNCHANGED <<run, content>>
    BY <1>4, HooksKeepRuns
  <2>2. (Protected(r)' <=> Protected(r)) /\ (Early(r)' <=> Early(r))
    BY <2>1 DEF Protected, Early, At, AloneInWorkflow
  <2>3. Protected(r) => ~ Early(r) /\ Alive(r) /\ lock[Of[r]] = r /\ content[r] = r
    BY <1>2 DEF Protected, LoneFiles, Early, At, Alive
  <2>4. AloneInWorkflow(r)' => HookReads(h, r)'
    <3>. SUFFICES ASSUME AloneInWorkflow(r), hook'[h].at = Of[r]
                  PROVE  ~ Early(r) /\ (Protected(r) => Hears(h, "judge")' /\ hook'[h].seen = r)
      BY <1>1, <2>2 DEF HookReads
    <3>1. CASE Hears(h, "scan")
      <4>1. lock[Of[r]] # None /\ Hears(h, "judge")' /\ hook'[h].seen = content[lock[Of[r]]]
        BY <1>4, <2>0, <3>1, ScanCases DEF Hears, IdleHook
      <4>. QED
        BY <1>2, <2>3, <4>1 DEF LoneFiles
    <3>2. CASE Hears(h, "judge")
      <4>1. hook[h].at = Of[r] /\ ~ (hook[h].seen \in Runs /\ Alive(hook[h].seen))
        BY <1>4, <2>0, <3>2, ScanCases DEF Hears, IdleHook
      <4>. QED
        BY <1>2, <2>3, <4>1 DEF HookReads
    <3>. QED
      BY <1>4, <2>0, <3>1, <3>2, ScanCases DEF Hears, IdleHook
  <2>5. HookAhead(h, r)'
    <3>. SUFFICES ASSUME r \in hook'[h].watch
                  PROVE  ~ Early(r) /\ (Protected(r) => Of[r] \in hook'[h].left
                                                        \/ hook'[h].at = Of[r])
      BY <2>2 DEF HookAhead
    <3>1. CASE Hears(h, "idle") /\ Hears(h, "scan")'
      BY <1>4, <2>0, <2>3, <3>1, ScanCases DEF Hears, IdleHook
    <3>2. CASE Hears(h, "scan")
      <4>1. r \in hook[h].watch /\ hook[h].at = None
        BY <1>4, <3>2, ScanCases DEF Hears, IdleHook
      <4>2. ~ Early(r) /\ (Protected(r) => Of[r] \in hook[h].left)
        BY <1>2, <2>0, <4>1 DEF HookAhead
      <4>3. PICK w \in hook[h].left :
              /\ hook'[h].left = hook[h].left \ {w}
              /\ lock[w] # None => hook'[h].at = w
        BY <1>4, <3>2, <4>1, ScanCases DEF Hears, IdleHook
      <4>. QED
        BY <2>0, <2>3, <4>2, <4>3
    <3>3. CASE Hears(h, "judge") /\ Hears(h, "remove")'
      <4>1. r \in hook[h].watch /\ hook'[h].left = hook[h].left /\ hook'[h].at = hook[h].at
        BY <1>4, <3>3, ScanCases DEF Hears, IdleHook
      <4>. QED
        BY <1>2, <4>1 DEF HookAhead
    <3>4. CASE Hears(h, "remove") /\ Hears(h, "scan")'
      <4>1. r \in hook[h].watch /\ hook'[h].left = hook[h].left
        BY <1>4, <3>4, ScanCases DEF Hears, IdleHook
      <4>2. Protected(r) => hook[h].at # Of[r]
        BY <1>2, <3>4 DEF HookReads, Hears
      <4>. QED
        BY <1>2, <4>1, <4>2 DEF HookAhead
    <3>. QED
      BY <1>4, <3>1, <3>2, <3>3, <3>4, ScanCases DEF Hears, IdleHook
  <2>. QED
    BY <2>4, <2>5
<1>. QED
  <2>1. ASSUME NEW s \in Runs, RunStep(s) PROVE hook'[h] = hook[h]
    BY <2>1, RunsKeepHooks
  <2>2. ASSUME NEW g \in Hooks, g # h, HookStep(g) PROVE hook'[h] = hook[h]
    BY <2>2, HooksKeepRuns
  <2>3. UNCHANGED vars => hook'[h] = hook[h]
    BY DEF vars
  <2>. QED
    BY <1>3, <1>4, <2>1, <2>2, <2>3, NextSplit

-----------------------------------------------------------------------------
(* The inductive invariant: own files, lone runs' paths, hooks' readings.  *)
THEOREM Locked == Spec => []LockInv
<1>1. LockInv /\ [Next]_vars => LockInv'
  BY NextTyped, NextOwnFiles, NextLoneRuns, NextHooks, TypeParts DEF LockInv
<1>. QED
  BY InitLock, <1>1, PTL DEF Spec

(* Paths name files of their own workflow, and scans are well formed.      *)
THEOREM TypeCorrect == Spec => []TypeOK
<1>1. LockInv => TypeOK
  BY DEF LockInv
<1>. QED
  BY Locked, <1>1, PTL

(* No hook, and no number of them, takes the lock of a run that is alone   *)
(* in its workflow.                                                        *)
THEOREM LockKept == Spec => []LoneRunKeepsItsLock
<1>1. LockInv => LoneRunKeepsItsLock
  BY LockAssumption DEF LockInv, LoneRuns, LoneFiles, LoneRunKeepsItsLock, Protected
<1>. QED
  BY Locked, <1>1, PTL

(* No scan that such a run outlives ends by allowing compaction.           *)
THEOREM NoCompaction == Spec => []CompactionBlocked
<1>1. LockInv => CompactionBlocked
  <2>. SUFFICES ASSUME LockInv, NEW h \in Hooks, Hears(h, "scan"), hook[h].left = {},
                       NEW r \in hook[h].watch, Protected(r)
                PROVE  FALSE
    BY DEF CompactionBlocked
  <2>1. hook[h].at = None /\ r \in Runs
    BY DEF LockInv, TypeOK, Hears
  <2>2. HookAhead(h, r) /\ Of[r] # None
    BY <2>1, LockAssumption DEF LockInv, HooksAhead
  <2>. QED
    BY <2>1, <2>2 DEF HookAhead
<1>. QED
  BY Locked, <1>1, PTL
=============================================================================
