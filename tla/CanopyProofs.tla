---------------------------- MODULE CanopyProofs ----------------------------
(***************************************************************************)
(* What a Canopy call promises, whatever calls are made, whatever leases   *)
(* and registries are found and whatever the child does: it implements     *)
(* CanopyRequest, and it leaves no killer behind a child it has reaped.    *)
(*                                                                         *)
(* The argument: a child is started once, since every way back to "spawn"  *)
(* leads from before it; it works at most once; and between "arm" and      *)
(* "returned" the killer's place follows from the caller's.                *)
(***************************************************************************)
EXTENDS CanopyCall, TLAPS

\* There is no child before the caller has started it, and none is reaped
\* but by a caller that then cancels, joins and returns.
ChildFollows ==
    /\ caller \in {"start", "socket", "dribbled", "spawn"} => child = NoChild
    /\ caller \in {"write", "arm", "wait"} => child.is \in {"running", "zombie"}
    /\ caller \in {"cancel", "join"} => child.is = "reaped"

\* Canopy has carried the request out if the child has worked, and a child
\* that ended well has; the socket is only asked to read.
WorkFollows ==
    /\ caller \in {"socket", "dribbled"} => ~ Writes
    /\ taken = IF child.worked THEN 1 ELSE 0
    /\ child.is \in {"zombie", "reaped"} /\ child.exit = "ok" => child.worked
    /\ answer = "ok" /\ Writes => taken = 1

\* The killer is armed after the child is there and cancelled before it is
\* joined.
KillerFollows ==
    /\ caller \in {"start", "socket", "dribbled", "spawn", "write", "arm"} => killer = "none"
    /\ caller = "wait" => killer # "none"
    /\ caller = "cancel" => killer # "none"
    /\ caller = "join" => killer \in {"due", "over"}
    /\ NoKillerLeft

CallInv ==
    /\ TypeOK /\ call \in AllCalls
    /\ ChildFollows /\ WorkFollows /\ KillerFollows

LEMMA InitCall == Init => CallInv
<1>. SUFFICES ASSUME Init PROVE CallInv
  OBVIOUS
<1>. USE CanopyCallAssumption DEF Init, NoChild
<1>1. TypeOK
  BY DEF TypeOK, Child, Exit, Output
<1>2. call \in AllCalls
  OBVIOUS
<1>3. ChildFollows
  BY DEF ChildFollows
<1>4. WorkFollows
  BY DEF WorkFollows
<1>5. KillerFollows
  BY DEF KillerFollows, NoKillerLeft
<1>. QED
  BY <1>1, <1>2, <1>3, <1>4, <1>5 DEF CallInv

-----------------------------------------------------------------------------
(* One lemma per group of actions: the ways to a child, the caller behind  *)
(* the child, the killer and the child themselves.                         *)

LEMMA ChooseStep ==
  ASSUME CallInv,
         ChooseEndpoint \/ ChooseBinary \/ ChooseSocket
             \/ SocketReply \/ SocketDribble \/ ReadOn \/ SocketTimeout \/ SpawnFails
  PROVE  CallInv'
<1>. USE DEF CallInv, TypeOK, ChildFollows, WorkFollows, KillerFollows, NoKillerLeft,
             At, Return, Writes, input, NoChild
<1>1. CASE ChooseEndpoint
  <2>1. /\ caller = "start"
        /\ UNCHANGED <<call, leases, registry, child, pid, killer, stray, taken>>
        /\ \/ caller' = "returned" /\ answer' = "error" /\ UNCHANGED route
           \/ caller' = "spawn" /\ route' \in {"typed", "cli"} /\ UNCHANGED answer
    BY <1>1 DEF ChooseEndpoint
  <2>. QED
    BY <2>1
<1>2. CASE ChooseBinary
  BY <1>2 DEF ChooseBinary
<1>3. CASE ChooseSocket
  BY <1>3 DEF ChooseSocket
<1>4. CASE SocketReply
  BY <1>4 DEF SocketReply
<1>5. CASE SocketTimeout
  BY <1>5 DEF SocketTimeout
<1>6. CASE SpawnFails
  BY <1>6 DEF SpawnFails
<1>7. CASE SocketDribble
  BY <1>7 DEF SocketDribble
<1>8. CASE ReadOn
  BY <1>8 DEF ReadOn
<1>. QED
  BY <1>1, <1>2, <1>3, <1>4, <1>5, <1>6, <1>7, <1>8

LEMMA CallerStep ==
  ASSUME CallInv,
         Spawn \/ WriteRequest \/ WriteFails \/ Arm
             \/ Reap \/ WaitFails \/ CancelKiller \/ Join
  PROVE  CallInv'
<1>. USE DEF CallInv, TypeOK, ChildFollows, WorkFollows, KillerFollows, NoKillerLeft,
             At, Return, Writes, input, NoChild, Child, Exit, Output
<1>1. CASE Spawn
  BY <1>1, ZenonT(60) DEF Spawn
<1>2. CASE WriteRequest
  BY <1>2 DEF WriteRequest
<1>3. CASE WriteFails
  BY <1>3 DEF WriteFails
<1>4. CASE Arm
  BY <1>4 DEF Arm
<1>5. CASE Reap
  BY <1>5 DEF Reap
<1>6. CASE WaitFails
  BY <1>6 DEF WaitFails
<1>7. CASE CancelKiller
  BY <1>7 DEF CancelKiller
<1>8. CASE Join
  BY <1>8 DEF Join
<1>. QED
  BY <1>1, <1>2, <1>3, <1>4, <1>5, <1>6, <1>7, <1>8

LEMMA OtherStep ==
  ASSUME CallInv,
         KillerTimeout \/ Kill \/ ChildWorks \/ ChildForks \/ ChildExits
             \/ DescendantEnds \/ PidReused \/ UNCHANGED vars
  PROVE  CallInv'
<1>. USE DEF CallInv, TypeOK, ChildFollows, WorkFollows, KillerFollows, NoKillerLeft,
             At, Writes, input, NoChild, Child, Exit, Output
<1>1. CASE KillerTimeout
  BY <1>1 DEF KillerTimeout
<1>2. CASE Kill
  <2>1. /\ killer = "due" /\ killer' = "over" /\ stray' \in BOOLEAN
        /\ UNCHANGED <<input, caller, route, pid, taken, answer>>
    BY <1>2 DEF Kill
  <2>2. CASE pid = "child" /\ child.is = "running"
    <3>1. child' = [child EXCEPT !.is = "zombie", !.exit = "killed"]
      BY <1>2, <2>2 DEF Kill
    <3>2. /\ child' \in Child /\ child'.is = "zombie"
          /\ child'.exit = "killed" /\ child'.worked = child.worked
      BY <3>1
    <3>. QED
      BY <2>1, <2>2, <3>2
  <2>3. CASE ~ (pid = "child" /\ child.is = "running")
    <3>1. child' = child
      BY <1>2, <2>3 DEF Kill
    <3>. QED
      BY <2>1, <3>1
  <2>. QED
    BY <2>2, <2>3
<1>3. CASE ChildWorks
  <2>1. /\ child.is = "running" /\ ~ child.worked
        /\ child' = [child EXCEPT !.worked = TRUE]
        /\ taken' = taken + 1
        /\ UNCHANGED <<call, leases, registry, caller, route, pid, killer, stray, answer>>
    BY <1>3 DEF ChildWorks
  <2>2. child' \in Child /\ child'.is = "running" /\ child'.worked
    BY <2>1
  <2>3. taken = 0 /\ taken' = 1
    BY <2>1
  <2>. QED
    BY <2>1, <2>2, <2>3
<1>4. CASE ChildExits
  <2>1. /\ child.is = "running"
        /\ UNCHANGED <<call, leases, registry, caller, route, pid, killer, stray, taken, answer>>
    BY <1>4 DEF ChildExits
  <2>2. PICK exit \in {"ok", "nonzero"}, output \in Output :
             /\ exit = "ok" => child.worked
             /\ child' = [child EXCEPT !.is = "zombie", !.exit = exit, !.output = output]
    BY <1>4, ZenonT(60) DEF ChildExits
  <2>3. /\ child' \in Child /\ child'.is = "zombie"
        /\ child'.exit = exit /\ child'.worked = child.worked
    BY <2>2
  <2>. QED
    BY <2>1, <2>2, <2>3
<1>5. CASE PidReused
  BY <1>5 DEF PidReused
<1>6. CASE ChildForks
  <2>1. /\ child.is = "running"
        /\ child' = [child EXCEPT !.held = TRUE]
        /\ UNCHANGED <<call, leases, registry, caller, route, pid, killer, stray, taken, answer>>
    BY <1>6 DEF ChildForks
  <2>2. /\ child' \in Child /\ child'.is = child.is
        /\ child'.exit = child.exit /\ child'.worked = child.worked
    BY <2>1
  <2>. QED
    BY <2>1, <2>2
<1>7. CASE DescendantEnds
  <2>1. /\ child.held /\ child' = [child EXCEPT !.held = FALSE]
        /\ UNCHANGED <<call, leases, registry, caller, route, pid, killer, stray, taken, answer>>
    BY <1>7 DEF DescendantEnds
  <2>2. /\ child' \in Child /\ child'.is = child.is
        /\ child'.exit = child.exit /\ child'.worked = child.worked
    BY <2>1
  <2>. QED
    BY <2>1, <2>2
<1>8. CASE UNCHANGED vars
  BY <1>8 DEF vars
<1>. QED
  BY <1>1, <1>2, <1>3, <1>4, <1>5, <1>6, <1>7, <1>8

LEMMA CallStep == CallInv /\ [Next]_vars => CallInv'
<1>. SUFFICES ASSUME CallInv, [Next]_vars PROVE CallInv'
  OBVIOUS
<1>1. \/ ChooseEndpoint \/ ChooseBinary \/ ChooseSocket
      \/ SocketReply \/ SocketDribble \/ ReadOn \/ SocketTimeout \/ SpawnFails
      \/ Spawn \/ WriteRequest \/ WriteFails \/ Arm
      \/ Reap \/ WaitFails \/ CancelKiller \/ Join
      \/ KillerTimeout \/ Kill \/ ChildWorks \/ ChildForks \/ ChildExits
      \/ DescendantEnds \/ PidReused \/ UNCHANGED vars
  BY DEF Next, Caller, Killer, Done
<1>. QED
  BY <1>1, ChooseStep, CallerStep, OtherStep

(* Type correctness, for any set of calls, leases, registries and mishaps. *)
THEOREM TypeCorrect == Spec => []TypeOK
<1>1. CallInv => TypeOK
  BY DEF CallInv
<1>. QED
  BY InitCall, CallStep, <1>1, PTL DEF Spec

(* No call that has reaped its child leaves its killer thread behind.      *)
THEOREM KillerEnded == Spec => []NoKillerLeft
<1>1. CallInv => NoKillerLeft
  BY DEF CallInv, KillerFollows
<1>. QED
  BY InitCall, CallStep, <1>1, PTL DEF Spec

-----------------------------------------------------------------------------
(* The refinement.                                                         *)

LEMMA InitRefines == Init => R!Init
  BY CanopyCallAssumption DEF Init, R!Init, Writes

\* A call that writes carries its request out when its child works, and
\* answers when it returns.
LEMMA WriteRefines ==
  ASSUME CallInv, [Next]_vars, Writes
  PROVE  [R!Next]_(R!vars)
<1>1. CallInv' /\ call' = call
  BY CallStep, ZenonT(60) DEF Next, Caller, Killer, Done, vars, input, ChooseEndpoint, ChooseBinary,
     ChooseSocket, SocketReply, SocketDribble, ReadOn, SocketTimeout, SpawnFails, Spawn, WriteRequest,
     WriteFails, Arm, Reap, WaitFails, CancelKiller, Join, KillerTimeout, Kill,
     ChildWorks, ChildForks, ChildExits, DescendantEnds, PidReused
<1>2. CASE ChildWorks
  BY <1>1, <1>2 DEF ChildWorks, input, Writes, CallInv, WorkFollows, R!Next, R!Take
<1>3. CASE ~ ChildWorks
  <2>1. taken' = taken
    BY <1>3, ZenonT(60) DEF Next, Caller, Killer, Done, vars, input, ChooseEndpoint, ChooseBinary,
       ChooseSocket, SocketReply, SocketDribble, ReadOn, SocketTimeout, SpawnFails, Spawn, WriteRequest,
       WriteFails, Arm, Reap, WaitFails, CancelKiller, Join, KillerTimeout, Kill,
       ChildForks, ChildExits, DescendantEnds, PidReused
  <2>2. answer' = answer \/ (answer = "none" /\ answer' \in {"ok", "error"})
    BY ZenonT(60) DEF CallInv, TypeOK, At, Return, Next, Caller, Killer, Done, vars, input, ChooseEndpoint,
       ChooseBinary, ChooseSocket, SocketReply, SocketDribble, ReadOn, SocketTimeout, SpawnFails, Spawn,
       WriteRequest, WriteFails, Arm, Reap, WaitFails, CancelKiller, Join,
       KillerTimeout, Kill, ChildWorks, ChildForks, ChildExits, DescendantEnds, PidReused
  <2>3. answer' = "ok" => taken = 1
    BY <1>1, <2>1 DEF CallInv, WorkFollows, Writes
  <2>. QED
    BY <1>1, <2>1, <2>2, <2>3 DEF R!Next, R!Answer, R!vars, Writes
<1>. QED
  BY <1>2, <1>3

\* A call that only reads takes its one abstract step when it has an answer.
LEMMA ReadRefines ==
  ASSUME CallInv, [Next]_vars, ~ Writes
  PROVE  [R!Next]_(R!vars)
<1>1. call' = call
  BY ZenonT(60) DEF Next, Caller, Killer, Done, vars, input, ChooseEndpoint, ChooseBinary,
     ChooseSocket, SocketReply, SocketDribble, ReadOn, SocketTimeout, SpawnFails, Spawn, WriteRequest,
     WriteFails, Arm, Reap, WaitFails, CancelKiller, Join, KillerTimeout, Kill,
     ChildWorks, ChildForks, ChildExits, DescendantEnds, PidReused
<1>2. answer' = answer \/ answer = "none"
  BY DEF CallInv, TypeOK, At, Return, Next, Caller, Killer, Done, vars, input, ChooseEndpoint,
     ChooseBinary, ChooseSocket, SocketReply, SocketDribble, ReadOn, SocketTimeout, SpawnFails, Spawn,
     WriteRequest, WriteFails, Arm, Reap, WaitFails, CancelKiller, Join,
     KillerTimeout, Kill, ChildWorks, ChildForks, ChildExits, DescendantEnds, PidReused
<1>. QED
  BY <1>1, <1>2 DEF R!Next, R!Take, R!vars, Writes

(* Dispatch may take a reply for what CanopyRequest says it means: every   *)
(* call implements it.                                                     *)
THEOREM ImplementsRequest == Spec => RefinesRequest
<1>1. CallInv /\ [Next]_vars => [R!Next]_(R!vars)
  BY WriteRefines, ReadRefines
<1>. QED
  BY InitCall, CallStep, InitRefines, <1>1, PTL DEF Spec, RefinesRequest, R!Spec
=============================================================================
