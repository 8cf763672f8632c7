--------------------------- MODULE DispatchProofs ---------------------------
(***************************************************************************)
(* The properties of module Dispatch, for any number of runs, handoffs and *)
(* phases, by one inductive invariant.                                     *)
(***************************************************************************)
EXTENDS Dispatch, TLAPS

\* What a run has done to Canopy and the store by the time it is at its pc.
Created(d) ==
    /\ At(d, "idle") => proc[d].made = 0
    /\ At(d, "subtasks") =>
          /\ d \in parent
          /\ proc[d].made < NPhases
          /\ \A q \in Phases : q < proc[d].made => sub[d][q] = "open"
    /\ proc[d].pc \in {"assign", "insert"} =>
          d \in parent /\ \A q \in Phases : sub[d][q] = "open"
    /\ At(d, "insert") => d \in assigned

Cleaned(d) ==
    /\ proc[d].pc \in {"idle", "subtasks"} => proc[d].swept = 0
    /\ proc[d].pc \in {"cleanup", "cleaned"} =>
          \A q \in Phases : q < proc[d].swept =>
              sub[d][q] = "cancelled" \/ q \in proc[d].warned
    /\ At(d, "cleaned") => proc[d].swept = proc[d].made

Stored(d) ==
    rows[d] # "none" =>
        /\ proc[d].pc \in {"transition", "done", "failed"}
        /\ d \in parent /\ d \in assigned
        /\ \A q \in Phases : sub[d][q] = "open"

Progress == \A d \in Dispatches : Created(d) /\ Cleaned(d) /\ Stored(d)

IInv == TypeOK /\ OneLiveWorkflow /\ AnswersAreRecorded /\ Progress

-----------------------------------------------------------------------------
(* A phase below the number of created subtasks is a phase.                *)
LEMMA PhaseBounds ==
    ASSUME NEW n \in 0 .. NPhases
    PROVE  /\ n < NPhases => n \in Phases /\ n + 1 \in 0 .. NPhases
           /\ \A q \in Phases : q < n + 1 => q < n \/ q = n
           /\ \A q \in Phases : q < NPhases
           /\ \A q \in 0 .. n - 1 : q \in Phases /\ q < n
BY DispatchAssumption DEF Phases

(* The initial state satisfies the inductive invariant.                    *)
LEMMA InitIInv == Init => IInv
BY DispatchAssumption
   DEF Init, IInv, TypeOK, OneLiveWorkflow, AnswersAreRecorded, Progress,
       Created, Cleaned, Stored, Proc, At, Phases

-----------------------------------------------------------------------------
\* What TypeOK says of one run.
RunOK(r) ==
    /\ r \in Proc
    /\ r.swept <= r.made
    /\ r.answer = NoAnswer <=> r.pc \notin {"transition", "done"}

(* A step that gives one run a well-typed record keeps them all so.        *)
LEMMA OneRunMoves ==
    ASSUME TypeOK, NEW d \in Dispatches, NEW r, RunOK(r),
           proc' = [proc EXCEPT ![d] = r]
    PROVE  /\ proc' \in [Dispatches -> Proc]
           /\ \A e \in Dispatches :
                 /\ proc'[e].swept <= proc'[e].made
                 /\ proc'[e].answer = NoAnswer
                       <=> proc'[e].pc \notin {"transition", "done"}
BY SMTT(60) DEF TypeOK, RunOK

(* The counters of a run may grow by one while they stay in the template.  *)
LEMMA CountersMove ==
    ASSUME NEW r, RunOK(r)
    PROVE  /\ \A n \in {r.made, r.made + 1}, pc \in {"subtasks", "cleanup", "assign"} :
                 n \in 0 .. NPhases /\ r.answer = NoAnswer
                    => RunOK([r EXCEPT !.made = n, !.pc = pc])
           /\ \A W \in SUBSET Phases :
                 r.swept < r.made => RunOK([r EXCEPT !.swept = r.swept + 1, !.warned = W])
<1>1. r \in Proc /\ r.swept <= r.made /\ (r.answer = NoAnswer <=> r.pc \notin {"transition", "done"})
  BY DEF RunOK
<1>2. r.made \in 0 .. NPhases /\ r.swept \in 0 .. NPhases
  BY <1>1 DEF Proc
<1>3. ASSUME NEW n \in {r.made, r.made + 1}, NEW pc \in {"subtasks", "cleanup", "assign"},
             n \in 0 .. NPhases, r.answer = NoAnswer
      PROVE  RunOK([r EXCEPT !.made = n, !.pc = pc])
  <2>1. [r EXCEPT !.made = n, !.pc = pc] \in Proc
    BY <1>1, <1>3 DEF Proc
  <2>2. r.swept <= n
    BY <1>1, <1>2, DispatchAssumption
  <2>3. [r EXCEPT !.made = n, !.pc = pc].swept = r.swept
    BY <1>1 DEF Proc
  <2>4. [r EXCEPT !.made = n, !.pc = pc].made = n
    BY <1>1 DEF Proc
  <2> QED BY <1>1, <1>3, <2>1, <2>2, <2>3, <2>4 DEF RunOK, Proc
<1>4. ASSUME NEW W \in SUBSET Phases, r.swept < r.made
      PROVE  RunOK([r EXCEPT !.swept = r.swept + 1, !.warned = W])
  <2>1. r.swept + 1 \in 0 .. NPhases /\ r.swept + 1 <= r.made
    BY <1>2, <1>4, DispatchAssumption
  <2>2. [r EXCEPT !.swept = r.swept + 1, !.warned = W] \in Proc
    BY <1>1, <2>1 DEF Proc
  <2> QED BY <1>1, <2>1, <2>2 DEF RunOK, Proc
<1> QED BY <1>3, <1>4

(* Every step keeps the types: a run's counters stay within the template.  *)
LEMMA TypeStep == IInv /\ [Next]_vars => TypeOK'
<1> SUFFICES ASSUME IInv, [Next]_vars PROVE TypeOK'
  OBVIOUS
<1>0. TypeOK
  BY DEF IInv
<1>a. \A d \in Dispatches : RunOK(proc[d])
  BY <1>0 DEF TypeOK, RunOK
<1>1. ASSUME NEW d \in Dispatches, CreateParent(d) PROVE TypeOK'
  <2>1. PICK pc \in {"subtasks", "failed"} :
          proc' = [proc EXCEPT ![d] = [proc[d] EXCEPT !.pc = pc]]
    BY <1>1, <1>0 DEF CreateParent, TypeOK
  <2>2. RunOK([proc[d] EXCEPT !.pc = pc])
    BY <1>1, <1>a, SMTT(60) DEF CreateParent, RunOK, Proc, At
  <2> QED BY <1>0, <1>1, <2>1, <2>2, OneRunMoves DEF CreateParent, TypeOK, store
<1>2. ASSUME NEW d \in Dispatches, CreateSubtask(d) PROVE TypeOK'
  <2>1. proc[d].made \in Phases /\ proc[d].made + 1 \in 0 .. NPhases
    BY <1>2, <1>a, PhaseBounds DEF CreateSubtask, IInv, Progress, Created, RunOK, Proc
  <2>2. PICK n \in {proc[d].made, proc[d].made + 1},
             pc \in {"subtasks", "cleanup", "assign"} :
          proc' = [proc EXCEPT ![d] = [proc[d] EXCEPT !.made = n, !.pc = pc]]
    BY <1>2, <1>0, ZenonT(60) DEF CreateSubtask, TypeOK
  <2>3. proc[d].answer = NoAnswer
    BY <1>2, <1>a DEF CreateSubtask, RunOK, At
  <2>4. RunOK([proc[d] EXCEPT !.made = n, !.pc = pc])
    <3>1. n \in 0 .. NPhases
      BY <1>a, <2>1 DEF RunOK, Proc
    <3> QED BY <1>a, <2>3, <3>1, CountersMove, ZenonT(60)
  <2>5. sub' \in [Dispatches -> [Phases -> {"none", "open", "cancelled"}]]
    BY <1>2, <1>0, <2>1 DEF CreateSubtask, TypeOK
  <2> QED BY <1>0, <1>2, <2>2, <2>4, <2>5, OneRunMoves
             DEF CreateSubtask, TypeOK, store
<1>3. ASSUME NEW d \in Dispatches, CancelCreated(d) PROVE TypeOK'
  <2>1. proc[d].swept \in Phases
    BY <1>3, <1>a, DispatchAssumption DEF CancelCreated, RunOK, Proc, Phases
  <2>2. PICK W \in SUBSET Phases :
          proc' = [proc EXCEPT ![d] =
                     [proc[d] EXCEPT !.swept = proc[d].swept + 1, !.warned = W]]
    <3>1. proc[d].warned \in SUBSET Phases
      BY <1>a DEF RunOK, Proc
    <3>2. PICK reply \in Reply :
            proc' = [proc EXCEPT
                ![d].swept = @ + 1,
                ![d].warned = IF reply = "ok" THEN @ ELSE @ \cup {proc[d].swept}]
      BY <1>3 DEF CancelCreated
    <3>3. (IF reply = "ok" THEN proc[d].warned ELSE proc[d].warned \cup {proc[d].swept})
             \in SUBSET Phases
      BY <2>1, <3>1
    <3> QED BY <1>0, <3>2, <3>3 DEF TypeOK
  <2>3. RunOK([proc[d] EXCEPT !.swept = proc[d].swept + 1, !.warned = W])
    <3>1. proc[d].swept < proc[d].made
      BY <1>3 DEF CancelCreated
    <3> QED BY <1>a, <3>1, CountersMove
  <2>4. sub' \in [Dispatches -> [Phases -> {"none", "open", "cancelled"}]]
    BY <1>3, <1>0, <2>1 DEF CancelCreated, TypeOK
  <2> QED BY <1>0, <1>3, <2>2, <2>3, <2>4, OneRunMoves
             DEF CancelCreated, TypeOK, store
<1>4. ASSUME NEW d \in Dispatches, GiveUp(d) PROVE TypeOK'
  <2>1. proc' = [proc EXCEPT ![d] = [proc[d] EXCEPT !.pc = "cleaned"]]
    BY <1>4, <1>0 DEF GiveUp, TypeOK
  <2>2. RunOK([proc[d] EXCEPT !.pc = "cleaned"])
    BY <1>4, <1>a DEF GiveUp, RunOK, Proc, At
  <2> QED BY <1>0, <1>4, <2>1, <2>2, OneRunMoves DEF GiveUp, TypeOK, canopy, store
<1>5. ASSUME NEW d \in Dispatches, AssignFirst(d) PROVE TypeOK'
  <2>1. PICK pc \in {"insert", "failed"} :
          proc' = [proc EXCEPT ![d] = [proc[d] EXCEPT !.pc = pc]]
    BY <1>5, <1>0 DEF AssignFirst, TypeOK
  <2>2. RunOK([proc[d] EXCEPT !.pc = pc])
    BY <1>5, <1>a DEF AssignFirst, RunOK, Proc, At
  <2> QED BY <1>0, <1>5, <2>1, <2>2, OneRunMoves DEF AssignFirst, TypeOK, store
<1>6. ASSUME NEW d \in Dispatches, FindOrInsert(d) PROVE TypeOK'
  <2>1. PICK w \in Dispatches :
          proc' = [proc EXCEPT ![d] = [proc[d] EXCEPT !.pc = "transition", !.answer = w]]
    BY <1>6, <1>0, ZenonT(60) DEF FindOrInsert, LiveFor, TypeOK
  <2>2. RunOK([proc[d] EXCEPT !.pc = "transition", !.answer = w])
    BY <1>a, DispatchAssumption, ZenonT(60) DEF RunOK, Proc
  <2> QED BY <1>0, <1>6, <2>1, <2>2, OneRunMoves DEF FindOrInsert, TypeOK, canopy
<1>7. ASSUME NEW d \in Dispatches, RecordTransition(d) PROVE TypeOK'
  <2>1. proc' = [proc EXCEPT ![d] = [proc[d] EXCEPT !.pc = "done"]]
    BY <1>7, <1>0 DEF RecordTransition, TypeOK
  <2>2. RunOK([proc[d] EXCEPT !.pc = "done"])
    BY <1>7, <1>a DEF RecordTransition, RunOK, Proc, At
  <2>3. history' \in [Dispatches -> Nat]
    <3>1. proc[d].answer \in Dispatches
      BY <1>7, <1>a DEF RecordTransition, RunOK, Proc, At
    <3>2. history[proc[d].answer] + 1 \in Nat
      BY <1>0, <3>1 DEF TypeOK
    <3> QED BY <1>7, <1>0, <3>1, <3>2 DEF RecordTransition, TypeOK
  <2> QED BY <1>0, <1>7, <2>1, <2>2, <2>3, OneRunMoves
             DEF RecordTransition, TypeOK, canopy
<1>8. ASSUME NEW d \in Dispatches, Crash(d) PROVE TypeOK'
  <2>1. proc' = [proc EXCEPT ![d] = [proc[d] EXCEPT !.pc = "failed", !.answer = NoAnswer]]
    BY <1>8, <1>0 DEF Crash, TypeOK
  <2>2. RunOK([proc[d] EXCEPT !.pc = "failed", !.answer = NoAnswer])
    BY <1>a DEF RunOK, Proc
  <2> QED BY <1>0, <1>8, <2>1, <2>2, OneRunMoves DEF Crash, TypeOK, canopy, store
<1>9. ASSUME NEW w \in Dispatches, Settle(w) \/ Revive(w) PROVE TypeOK'
  BY <1>9, <1>0 DEF Settle, Revive, TypeOK, canopy
<1>10. CASE UNCHANGED vars
  BY <1>10, <1>0, SMTT(60) DEF vars, TypeOK
<1> QED
  BY <1>1, <1>2, <1>3, <1>4, <1>5, <1>6, <1>7, <1>8, <1>9, <1>10 DEF Next, Run
-----------------------------------------------------------------------------
(* The rows change in three ways: an insert or a revival of a workflow     *)
(* whose handoff has no live one, and a workflow's end.                    *)
LEMMA RowSteps ==
    ASSUME IInv, [Next]_vars
    PROVE  \/ rows' = rows
           \/ \E w \in Dispatches :
                 /\ LiveFor(w) = {}
                 /\ rows' = [rows EXCEPT ![w] = "live"]
                 /\ FindOrInsert(w) \/ rows[w] = "terminal"
           \/ \E w \in Dispatches :
                 rows[w] = "live" /\ rows' = [rows EXCEPT ![w] = "terminal"]
BY ZenonT(60) DEF Next, Run, CreateParent, CreateSubtask, CancelCreated, GiveUp, AssignFirst,
       FindOrInsert, RecordTransition, Crash, Settle, Revive, vars, store

(* Every step keeps at most one live workflow per handoff.                 *)
LEMMA OneLiveStep == IInv /\ [Next]_vars => OneLiveWorkflow'
<1> SUFFICES ASSUME IInv, [Next]_vars PROVE OneLiveWorkflow'
  OBVIOUS
<1>0. /\ rows \in [Dispatches -> {"none", "live", "terminal"}]
      /\ OneLiveWorkflow
  BY DEF IInv, TypeOK
<1>1. CASE rows' = rows
  BY <1>0, <1>1 DEF OneLiveWorkflow
<1>2. ASSUME NEW w \in Dispatches, LiveFor(w) = {},
             rows' = [rows EXCEPT ![w] = "live"]
      PROVE  OneLiveWorkflow'
  BY <1>0, <1>2 DEF OneLiveWorkflow, LiveFor
<1>3. ASSUME NEW w \in Dispatches, rows' = [rows EXCEPT ![w] = "terminal"]
      PROVE  OneLiveWorkflow'
  BY <1>0, <1>3 DEF OneLiveWorkflow
<1> QED BY <1>1, <1>2, <1>3, RowSteps

(* Every step keeps the runs' answers stored and their history recorded:   *)
(* a row, once there, is never deleted.                                    *)
LEMMA AnswersStep == IInv /\ [Next]_vars => AnswersAreRecorded'
<1> SUFFICES ASSUME IInv, [Next]_vars PROVE AnswersAreRecorded'
  OBVIOUS
<1>0. /\ proc \in [Dispatches -> Proc]
      /\ rows \in [Dispatches -> {"none", "live", "terminal"}]
      /\ history \in [Dispatches -> Nat]
      /\ AnswersAreRecorded
  BY DEF IInv, TypeOK
<1>1. \A w \in Dispatches : rows[w] # "none" => rows'[w] # "none"
  BY <1>0, RowSteps
<1>2. \A d \in Dispatches :
        proc[d].pc \in {"transition", "done"} => proc[d].answer \in Dispatches
  BY <1>0 DEF IInv, TypeOK, Proc
<1>3. ASSUME NEW d \in Dispatches, FindOrInsert(d) PROVE AnswersAreRecorded'
  <2>1. PICK w \in IF LiveFor(d) = {} THEN {d} ELSE LiveFor(d) :
          proc' = [proc EXCEPT ![d].pc = "transition", ![d].answer = w]
    BY <1>3 DEF FindOrInsert
  <2>2. w \in Dispatches /\ Content[w] = Content[d]
    BY <2>1 DEF LiveFor
  <2>3. rows'[w] # "none"
    BY <1>0, <1>3, <2>1 DEF FindOrInsert, LiveFor
  <2>4. proc'[d].pc = "transition" /\ proc'[d].answer = w
    BY <1>0, <2>1 DEF Proc
  <2>5. \A e \in Dispatches : e # d => proc'[e] = proc[e]
    BY <1>0, <2>1
  <2>6. history' = history
    BY <1>3 DEF FindOrInsert
  <2> QED BY <1>0, <1>1, <1>2, <2>2, <2>3, <2>4, <2>5, <2>6
             DEF AnswersAreRecorded, At
<1>4. ASSUME NEW d \in Dispatches, RecordTransition(d) PROVE AnswersAreRecorded'
  <2>1. proc[d].pc = "transition" /\ proc[d].answer \in Dispatches
    BY <1>2, <1>4 DEF RecordTransition, At
  <2>2. rows[proc[d].answer] # "none" /\ Content[proc[d].answer] = Content[d]
    BY <1>0, <2>1 DEF AnswersAreRecorded
  <2>3. proc'[d].answer = proc[d].answer
    BY <1>0, <1>4 DEF RecordTransition, Proc
  <2>4. \A e \in Dispatches : e # d => proc'[e] = proc[e]
    BY <1>0, <1>4 DEF RecordTransition
  <2>5. /\ history'[proc[d].answer] > 0
        /\ \A w \in Dispatches : w # proc[d].answer => history'[w] = history[w]
        /\ \A w \in Dispatches : history[w] > 0 => history'[w] > 0
    BY <1>0, <1>4, <2>1 DEF RecordTransition
  <2>6. rows' = rows
    BY <1>4 DEF RecordTransition
  <2> QED BY <1>0, <1>2, <2>1, <2>2, <2>3, <2>4, <2>5, <2>6
             DEF AnswersAreRecorded, At
<1>5. ASSUME history' = history,
             \A d \in Dispatches : proc'[d] # proc[d] =>
                 proc'[d].pc \notin {"transition", "done"}
      PROVE  AnswersAreRecorded'
  BY <1>0, <1>1, <1>2, <1>5 DEF AnswersAreRecorded, At
<1>6. ASSUME NEW d \in Dispatches,
             CreateParent(d) \/ CreateSubtask(d) \/ GiveUp(d) \/ AssignFirst(d) \/ Crash(d)
      PROVE  AnswersAreRecorded'
  <2>1. history' = history
    BY <1>6 DEF CreateParent, CreateSubtask, GiveUp, AssignFirst, Crash, store
  <2>2. \A e \in Dispatches : e # d => proc'[e] = proc[e]
    BY <1>0, <1>6 DEF CreateParent, CreateSubtask, GiveUp, AssignFirst, Crash
  <2>3. proc'[d].pc \notin {"transition", "done"}
    <3>1. CASE CreateParent(d)
      BY <1>0, <3>1 DEF CreateParent, Proc
    <3>2. CASE CreateSubtask(d)
      BY <1>0, <3>2 DEF CreateSubtask, Proc
    <3>3. CASE GiveUp(d) \/ AssignFirst(d) \/ Crash(d)
      BY <1>0, <3>3 DEF GiveUp, AssignFirst, Crash, Proc
    <3> QED BY <1>6, <3>1, <3>2, <3>3
  <2> QED BY <1>5, <2>1, <2>2, <2>3
<1>7. ASSUME NEW d \in Dispatches, CancelCreated(d) PROVE AnswersAreRecorded'
  <2>1. history' = history /\ \A e \in Dispatches : e # d => proc'[e] = proc[e]
    BY <1>0, <1>7 DEF CancelCreated, store
  <2>2. proc'[d].pc \notin {"transition", "done"}
    BY <1>0, <1>7 DEF CancelCreated, Proc, At
  <2> QED BY <1>5, <2>1, <2>2
<1>8. ASSUME NEW w \in Dispatches, Settle(w) \/ Revive(w) PROVE AnswersAreRecorded'
  BY <1>5, <1>8 DEF Settle, Revive
<1>9. CASE UNCHANGED vars
  BY <1>5, <1>9 DEF vars
<1> QED
  BY <1>3, <1>4, <1>6, <1>7, <1>8, <1>9 DEF Next, Run
-----------------------------------------------------------------------------
(* What a run has done is its own: the steps of others do not undo it.     *)
LEMMA OthersKeepProgress ==
    ASSUME NEW d \in Dispatches, Created(d), Cleaned(d), Stored(d),
           proc'[d] = proc[d], sub'[d] = sub[d],
           d \in parent => d \in parent', d \in assigned => d \in assigned',
           rows[d] = "none" => rows'[d] = "none"
    PROVE  Created(d)' /\ Cleaned(d)' /\ Stored(d)'
BY DEF Created, Cleaned, Stored, At

(* Every step of a run keeps what the run is known to have done.           *)
LEMMA ProgressStep == IInv /\ [Next]_vars => Progress'
<1> SUFFICES ASSUME IInv, [Next]_vars PROVE Progress'
  OBVIOUS
<1>0. TypeOK /\ Progress
  BY DEF IInv
<1>a. proc \in [Dispatches -> Proc]
  BY <1>0 DEF TypeOK
<1>b. \A d \in Dispatches : Created(d) /\ Cleaned(d) /\ Stored(d)
  BY <1>0 DEF Progress
<1>1. ASSUME NEW d \in Dispatches, CreateParent(d) PROVE Progress'
  <2>1. \A e \in Dispatches : e # d => Created(e)' /\ Cleaned(e)' /\ Stored(e)'
    BY <1>a, <1>b, <1>1, OthersKeepProgress DEF CreateParent, store
  <2>2. rows'[d] = "none"
    BY <1>b, <1>1 DEF CreateParent, Stored, At, store
  <2>3. proc[d].made = 0 /\ proc[d].swept = 0
    BY <1>b, <1>1 DEF CreateParent, Created, Cleaned, At
  <2>4. \/ proc'[d].pc = "subtasks" /\ d \in parent'
        \/ proc'[d].pc = "failed"
    BY <1>a, <1>1 DEF CreateParent, Proc
  <2>5. proc'[d].made = 0 /\ proc'[d].swept = 0
    BY <1>a, <1>1, <2>3 DEF CreateParent, Proc
  <2>6. \A q \in Phases : ~ q < 0
    BY DEF Phases
  <2>7. 0 < NPhases
    BY DispatchAssumption
  <2>8. Created(d)'
    BY <2>4, <2>5, <2>6, <2>7 DEF Created, At
  <2>9. Cleaned(d)' /\ Stored(d)'
    BY <2>2, <2>4, <2>5, <2>6 DEF Cleaned, Stored, At
  <2> QED BY <2>1, <2>8, <2>9 DEF Progress
<1>2. ASSUME NEW d \in Dispatches, CreateSubtask(d) PROVE Progress'
  <2>1. \A e \in Dispatches : e # d => Created(e)' /\ Cleaned(e)' /\ Stored(e)'
    <3>1. \A e \in Dispatches : e # d => proc'[e] = proc[e] /\ sub'[e] = sub[e]
      BY <1>0, <1>2 DEF CreateSubtask, TypeOK
    <3> QED BY <1>b, <1>2, <3>1, OthersKeepProgress DEF CreateSubtask, store
  <2>2. rows'[d] = "none"
    BY <1>b, <1>2 DEF CreateSubtask, Stored, At, store
  <2>3. /\ proc[d].swept = 0 /\ d \in parent' /\ proc[d].made < NPhases
        /\ \A q \in Phases : q < proc[d].made => sub[d][q] = "open"
    BY <1>b, <1>2 DEF CreateSubtask, Created, Cleaned, At
  <2>4. proc[d].made \in 0 .. NPhases
    BY <1>a DEF Proc
  <2>5. proc'[d].swept = 0
    BY <1>a, <1>2, <2>3 DEF CreateSubtask, Proc
  <2>6. \/ proc'[d].pc = "cleanup"
        \/ /\ proc'[d].made = proc[d].made + 1
           /\ sub' = [sub EXCEPT ![d][proc[d].made] = "open"]
           /\ proc'[d].pc = IF proc[d].made + 1 < NPhases THEN "subtasks" ELSE "assign"
    BY <1>a, <1>2 DEF CreateSubtask, Proc
  <2>7. Cleaned(d)'
    <3>1. \A q \in Phases : ~ q < 0
      BY DEF Phases
    <3> QED BY <2>5, <2>6, <3>1 DEF Cleaned, At
  <2>8. Created(d)'
    <3>1. CASE proc'[d].pc = "cleanup"
      BY <3>1 DEF Created, At
    <3>2. CASE proc'[d].pc # "cleanup"
      <4>1. \A q \in Phases : q < proc'[d].made => sub'[d][q] = "open"
        BY <1>0, <2>3, <2>4, <2>6, <3>2, PhaseBounds DEF TypeOK
      <4>2. CASE proc[d].made + 1 < NPhases
        BY <2>3, <2>6, <3>2, <4>1, <4>2 DEF Created, At
      <4>3. CASE ~ proc[d].made + 1 < NPhases
        <5>1. \A q \in Phases : q < proc'[d].made
          BY <2>3, <2>4, <2>6, <3>2, <4>3, DispatchAssumption DEF Phases
        <5> QED BY <2>3, <2>6, <3>2, <4>1, <4>3, <5>1 DEF Created, At
      <4> QED BY <4>2, <4>3
    <3> QED BY <3>1, <3>2
  <2> QED BY <2>1, <2>2, <2>7, <2>8 DEF Progress, Stored
<1>3. ASSUME NEW d \in Dispatches, CancelCreated(d) PROVE Progress'
  <2>1. \A e \in Dispatches : e # d => Created(e)' /\ Cleaned(e)' /\ Stored(e)'
    <3>1. \A e \in Dispatches : e # d => proc'[e] = proc[e] /\ sub'[e] = sub[e]
      BY <1>0, <1>3 DEF CancelCreated, TypeOK
    <3> QED BY <1>b, <1>3, <3>1, OthersKeepProgress DEF CancelCreated, store
  <2>2. rows'[d] = "none"
    BY <1>b, <1>3 DEF CancelCreated, Stored, At, store
  <2>3. proc[d].swept \in Phases
    BY <1>a, <1>3, PhaseBounds, DispatchAssumption DEF CancelCreated, Proc, Phases
  <2>4. proc'[d].pc = "cleanup" /\ proc'[d].swept = proc[d].swept + 1
    BY <1>a, <1>3 DEF CancelCreated, Proc, At
  <2>5. /\ \A q \in Phases \ {proc[d].swept} : sub'[d][q] = sub[d][q]
        /\ \/ sub'[d][proc[d].swept] = "cancelled"
           \/ proc[d].swept \in proc'[d].warned
        /\ proc[d].warned \subseteq proc'[d].warned
    <3>1. PICK reply \in Reply :
          /\ sub' = IF reply = "refused" THEN sub
                    ELSE [sub EXCEPT ![d][proc[d].swept] = "cancelled"]
          /\ proc' = [proc EXCEPT
                ![d].swept = @ + 1,
                ![d].warned = IF reply = "ok" THEN @ ELSE @ \cup {proc[d].swept}]
      BY <1>3 DEF CancelCreated
    <3>2. proc'[d].warned = IF reply = "ok" THEN proc[d].warned
                            ELSE proc[d].warned \cup {proc[d].swept}
      BY <1>a, <3>1 DEF Proc
    <3> QED BY <1>0, <2>3, <3>1, <3>2 DEF TypeOK, Reply
  <2>6. \A q \in Phases : q < proc[d].swept =>
           sub[d][q] = "cancelled" \/ q \in proc[d].warned
    BY <1>b, <1>3 DEF Cleaned, CancelCreated, At
  <2>7. Cleaned(d)'
    <3>1. \A q \in Phases : q < proc'[d].swept => q < proc[d].swept \/ q = proc[d].swept
      BY <2>3, <2>4, DispatchAssumption DEF Phases
    <3> QED BY <2>4, <2>5, <2>6, <3>1 DEF Cleaned, At
  <2> QED BY <2>1, <2>2, <2>4, <2>7 DEF Progress, Stored, Created, At
<1>4. ASSUME NEW d \in Dispatches, GiveUp(d) PROVE Progress'
  <2>1. \A e \in Dispatches : e # d => Created(e)' /\ Cleaned(e)' /\ Stored(e)'
    BY <1>a, <1>b, <1>4, OthersKeepProgress DEF GiveUp, canopy, store
  <2>2. /\ proc'[d].pc = "cleaned" /\ proc'[d].swept = proc'[d].made
        /\ proc'[d].swept = proc[d].swept /\ proc'[d].warned = proc[d].warned
    BY <1>a, <1>4 DEF GiveUp, Proc
  <2> QED BY <1>b, <1>4, <2>1, <2>2
             DEF GiveUp, Progress, Created, Cleaned, Stored, At, canopy, store
<1>5. ASSUME NEW d \in Dispatches, AssignFirst(d) PROVE Progress'
  <2>1. \A e \in Dispatches : e # d => Created(e)' /\ Cleaned(e)' /\ Stored(e)'
    BY <1>a, <1>b, <1>5, OthersKeepProgress DEF AssignFirst, store
  <2>2. \/ proc'[d].pc = "insert" /\ d \in assigned'
        \/ proc'[d].pc = "failed"
    BY <1>a, <1>5 DEF AssignFirst, Proc
  <2> QED BY <1>b, <1>5, <2>1, <2>2
             DEF AssignFirst, Progress, Created, Cleaned, Stored, At, store
<1>6. ASSUME NEW d \in Dispatches, FindOrInsert(d) PROVE Progress'
  <2>1. \A e \in Dispatches : e # d => Created(e)' /\ Cleaned(e)' /\ Stored(e)'
    <3>1. \A e \in Dispatches : e # d =>
             /\ proc'[e] = proc[e]
             /\ rows[e] = "none" => rows'[e] = "none"
      BY <1>0, <1>6 DEF FindOrInsert, TypeOK
    <3> QED BY <1>b, <1>6, <3>1, OthersKeepProgress DEF FindOrInsert, canopy
  <2>2. proc'[d].pc = "transition"
    BY <1>a, <1>6 DEF FindOrInsert, Proc
  <2>3. Created(d)' /\ Cleaned(d)'
    BY <2>2 DEF Created, Cleaned, At
  <2>4. d \in parent /\ d \in assigned /\ \A q \in Phases : sub[d][q] = "open"
    BY <1>b, <1>6 DEF FindOrInsert, Created, At
  <2>5. Stored(d)'
    BY <1>6, <2>2, <2>4 DEF FindOrInsert, Stored, canopy
  <2> QED BY <2>1, <2>3, <2>5 DEF Progress
<1>7. ASSUME NEW d \in Dispatches, RecordTransition(d) \/ Crash(d) PROVE Progress'
  <2>1. \A e \in Dispatches : e # d => Created(e)' /\ Cleaned(e)' /\ Stored(e)'
    BY <1>a, <1>b, <1>7, OthersKeepProgress DEF RecordTransition, Crash, canopy, store
  <2>2. proc'[d].pc \in {"done", "failed"}
    BY <1>a, <1>7 DEF RecordTransition, Crash, Proc
  <2> QED BY <1>b, <1>7, <2>1, <2>2
             DEF RecordTransition, Crash, Progress, Created, Cleaned, Stored, At,
                 canopy, store
<1>8. ASSUME NEW w \in Dispatches, Settle(w) \/ Revive(w) PROVE Progress'
  <2>1. \A e \in Dispatches : rows[e] = "none" => rows'[e] = "none"
    BY <1>0, <1>8 DEF Settle, Revive, TypeOK
  <2> QED BY <1>b, <1>8, <2>1, OthersKeepProgress
             DEF Settle, Revive, Progress, canopy
<1>9. CASE UNCHANGED vars
  BY <1>b, <1>9, OthersKeepProgress DEF vars, Progress
<1> QED
  BY <1>1, <1>2, <1>3, <1>4, <1>5, <1>6, <1>7, <1>8, <1>9 DEF Next, Run

-----------------------------------------------------------------------------
(* The inductive invariant holds of every reachable state.                 *)
LEMMA Invariance == Spec => []IInv
<1>1. IInv /\ [Next]_vars => IInv'
  BY TypeStep, OneLiveStep, AnswersStep, ProgressStep DEF IInv
<1> QED BY InitIInv, <1>1, PTL DEF Spec

(* Dispatch is well typed for any number of runs, handoffs and phases.     *)
THEOREM TypeCorrect == Spec => []TypeOK
BY Invariance, PTL DEF IInv

(* A handoff never has two live workflows (the partial unique index, and   *)
(* the insert that yields to it), however many runs race.                  *)
THEOREM OneLive == Spec => []OneLiveWorkflow
BY Invariance, PTL DEF IInv

(* Every run answers a stored workflow of its own handoff, with history.   *)
THEOREM AnswersRecorded == Spec => []AnswersAreRecorded
BY Invariance, PTL DEF IInv

(* A stored workflow has an open Canopy task for each of its phases.       *)
THEOREM StoredHaveTasks == Spec => []StoredWorkflowsHaveTasks
<1>1. IInv => StoredWorkflowsHaveTasks
  BY DEF IInv, Progress, Stored, StoredWorkflowsHaveTasks
<1> QED BY Invariance, <1>1, PTL

(* The compensation tries every subtask the run knows of.                  *)
THEOREM Compensates == Spec => []CompensationComplete
<1>1. IInv => CompensationComplete
  <2> SUFFICES ASSUME IInv, NEW d \in Dispatches, At(d, "cleaned"),
                      NEW q \in 0 .. proc[d].made - 1
               PROVE  sub[d][q] = "cancelled" \/ q \in proc[d].warned
    BY DEF CompensationComplete
  <2>1. proc[d].made \in 0 .. NPhases
    BY DEF IInv, TypeOK, Proc
  <2>2. q \in Phases /\ q < proc[d].made
    BY <2>1, PhaseBounds
  <2> QED BY <2>2 DEF IInv, Progress, Cleaned, At
<1> QED BY Invariance, <1>1, PTL

(* Runs of one handoff converge on one workflow while it lives.            *)
THEOREM Converges == Spec => DispatchesConverge
<1> DEFINE Agree ==
      \A d, e \in Dispatches :
          /\ Content[d] = Content[e]
          /\ proc[d].answer # NoAnswer
          /\ proc[e].answer = NoAnswer
          /\ proc'[e].answer # NoAnswer
          => proc'[e].answer = proc[d].answer \/ rows[proc[d].answer] = "terminal"
<1>1. IInv /\ [Next]_vars => Agree
  <2> SUFFICES ASSUME IInv, [Next]_vars,
                      NEW d \in Dispatches, NEW e \in Dispatches,
                      Content[d] = Content[e], proc[d].answer # NoAnswer,
                      proc[e].answer = NoAnswer, proc'[e].answer # NoAnswer,
                      rows[proc[d].answer] # "terminal"
               PROVE  proc'[e].answer = proc[d].answer
    OBVIOUS
  <2>0. proc \in [Dispatches -> Proc] /\ rows \in [Dispatches -> {"none", "live", "terminal"}]
    BY DEF IInv, TypeOK
  <2>1. FindOrInsert(e)
    <3>1. ASSUME NEW c \in Dispatches, CreateParent(c) \/ GiveUp(c) \/ AssignFirst(c)
                                         \/ RecordTransition(c)
          PROVE  proc'[e].answer = proc[e].answer
      BY <2>0, <3>1 DEF CreateParent, GiveUp, AssignFirst, RecordTransition, Proc
    <3>2. ASSUME NEW c \in Dispatches, CreateSubtask(c) \/ CancelCreated(c)
          PROVE  proc'[e].answer = proc[e].answer
      <4>1. CASE CreateSubtask(c)
        BY <2>0, <4>1 DEF CreateSubtask, Proc
      <4>2. CASE CancelCreated(c)
        BY <2>0, <4>2 DEF CancelCreated, Proc
      <4> QED BY <3>2, <4>1, <4>2
    <3>3. ASSUME NEW c \in Dispatches, Crash(c)
          PROVE  proc'[e].answer \in {proc[e].answer, NoAnswer}
      BY <2>0, <3>3 DEF Crash, Proc
    <3>4. ASSUME NEW c \in Dispatches, Settle(c) \/ Revive(c)
          PROVE  proc'[e].answer = proc[e].answer
      BY <3>4 DEF Settle, Revive
    <3>5. ASSUME NEW c \in Dispatches, FindOrInsert(c), c # e
          PROVE  proc'[e].answer = proc[e].answer
      BY <2>0, <3>5 DEF FindOrInsert
    <3> QED BY <3>1, <3>2, <3>3, <3>4, <3>5 DEF Next, Run, vars
  <2>2. /\ proc[d].answer \in Dispatches
        /\ rows[proc[d].answer] = "live" /\ Content[proc[d].answer] = Content[d]
    <3>1. proc[d].pc \in {"transition", "done"} /\ proc[d].answer \in Dispatches
      BY <2>0 DEF IInv, TypeOK, Proc
    <3> QED BY <2>0, <3>1 DEF IInv, AnswersAreRecorded
  <2>3. LiveFor(e) = {proc[d].answer}
    BY <2>2 DEF LiveFor, IInv, OneLiveWorkflow
  <2> QED BY <2>0, <2>1, <2>3 DEF FindOrInsert, Proc
<1> QED BY Invariance, <1>1, PTL DEF Spec, DispatchesConverge
=============================================================================
