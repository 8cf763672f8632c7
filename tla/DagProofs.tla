----------------------------- MODULE DagProofs -----------------------------
(***************************************************************************)
(* The properties of module DagExecutor, for every number of nodes and     *)
(* every list of edges: Kahn's sort is right on files without parallel     *)
(* edges, and the waves run nodes as their trigger rules say.              *)
(***************************************************************************)
EXTENDS DagExecutor, FiniteSetTheorems, WellFoundedInduction, TLAPS

\* "in the order of the file": S as a sequence lists S, each element once.
LEMMA ListingOf ==
    ASSUME NEW S \in SUBSET Nodes, NEW s \in Listings(S)
    PROVE  /\ s \in Seq(Nodes)
           /\ {s[i] : i \in DOMAIN s} = S
           /\ \A i, j \in DOMAIN s : s[i] = s[j] => i = j
<1>1. IsFiniteSet(S) /\ Cardinality(S) \in Nat
  <2>1. IsFiniteSet(Nodes)
    BY FS_Interval, DagAssumption DEF Nodes
  <2>2. IsFiniteSet(S)
    BY <2>1, FS_Subset
  <2> QED BY <2>2, FS_CardinalityType
<1>2. /\ s \in [1 .. Cardinality(S) -> S]
      /\ \A i, j \in DOMAIN s : i < j => s[i] < s[j]
  BY DEF Listings
<1>3. s \in Seq(Nodes)
  BY <1>1, <1>2
<1>4. \A i, j \in DOMAIN s : s[i] = s[j] => i = j
  <2>1. \A i \in DOMAIN s : s[i] \in Nat /\ i \in Nat
    <3>1. Nodes \subseteq Nat
      BY DagAssumption DEF Nodes
    <3>2. DOMAIN s = 1 .. Cardinality(S) /\ \A i \in DOMAIN s : s[i] \in Nodes
      BY <1>2
    <3>3. 1 .. Cardinality(S) \subseteq Nat
      BY <1>1
    <3> QED BY <3>1, <3>2, <3>3
  <2>2. \A i, j \in DOMAIN s : i < j => s[i] < s[j]
    BY <1>2
  <2> QED BY <2>1, <2>2
<1>5. s \in Injection(1 .. Cardinality(S), S)
  BY <1>2, <1>4 DEF Injection, IsInjective
<1>6. Cardinality(1 .. Cardinality(S)) = Cardinality(S)
  BY <1>1, FS_Interval
<1>7. s \in Surjection(1 .. Cardinality(S), S)
  BY <1>1, <1>5, <1>6, FS_Injection
<1>8. {s[i] : i \in DOMAIN s} = S
  BY <1>2, <1>7 DEF Surjection
<1> QED BY <1>3, <1>4, <1>8

(* A non-empty set of positions has a least one.                           *)
LEMMA LeastPosition ==
    ASSUME NEW I \in SUBSET Nat, I # {}
    PROVE  \E i \in I : \A j \in I : i <= j
<1> DEFINE T == {1 .. i : i \in I}
<1>1. T \subseteq FiniteSubsetsOf(Nat)
  <2>1. ASSUME NEW i \in I
        PROVE  1 .. i \in FiniteSubsetsOf(Nat)
    <3>1. 1 \in Int /\ i \in Int /\ 1 .. i \in SUBSET Nat
      OBVIOUS
    <3>2. IsFiniteSet(1 .. i)
      BY <3>1, FS_Interval
    <3> QED BY <3>1, <3>2 DEF FiniteSubsetsOf
  <2> QED BY <2>1
<1>2. T # {}
  OBVIOUS
<1>3. PICK x \in T : \A y \in T : ~ (<<y, x>> \in StrictSubsetOrdering(Nat))
  <2> HIDE DEF T
  <2> QED BY <1>1, <1>2, FS_StrictSubsetOrderingWellFounded, WFMin
<1>4. PICK i \in I : x = 1 .. i
  OBVIOUS
<1>5. ASSUME NEW j \in I, j < i
      PROVE  FALSE
  <2>1. 1 .. j \in SUBSET Nat /\ 1 .. i \in SUBSET Nat
    OBVIOUS
  <2>2. 1 .. j \subseteq 1 .. i /\ i \in 1 .. i /\ i \notin 1 .. j
    BY <1>5
  <2>3. <<1 .. j, 1 .. i>> \in StrictSubsetOrdering(Nat)
    BY <2>1, <2>2 DEF StrictSubsetOrdering
  <2> QED BY <1>3, <1>4, <2>3
<1> QED BY <1>5

(* A sequence of distinct nodes names them all exactly when it is as long  *)
(* as there are nodes.                                                     *)
LEMMA CoversWhenLong ==
    ASSUME NEW s \in Seq(Nodes),
           \A i, j \in DOMAIN s : s[i] = s[j] => i = j
    PROVE  {s[i] : i \in DOMAIN s} = Nodes <=> Len(s) = N
<1>1. DOMAIN s = 1 .. Len(s) /\ Len(s) \in Nat
  OBVIOUS
<1>2. s \in Injection(1 .. Len(s), Nodes)
  BY <1>1 DEF Injection, IsInjective
<1>3. IsFiniteSet(Nodes) /\ Cardinality(Nodes) = N
  BY FS_Interval, DagAssumption DEF Nodes
<1>4. Cardinality(1 .. Len(s)) = Len(s)
  <2> DEFINE n == Len(s)
  <2>1. n \in Nat
    BY <1>1
  <2> HIDE DEF n
  <2>2. Cardinality(1 .. n) = n
    BY <2>1, FS_Interval
  <2> QED BY <2>2 DEF n
<1>5. Len(s) = N <=> s \in Surjection(1 .. Len(s), Nodes)
  BY <1>2, <1>3, <1>4, FS_Injection
<1>6. s \in Surjection(1 .. Len(s), Nodes) <=> {s[i] : i \in DOMAIN s} = Nodes
  BY <1>1, <1>2 DEF Injection, Surjection
<1> QED BY <1>5, <1>6

-----------------------------------------------------------------------------
(* Types.                                                                  *)

\* "edges" as the proofs use it.
LEMMA EdgeFacts ==
    ASSUME edges \in EdgeLists
    PROVE  /\ edges \in Seq(Edge)
           /\ \A k \in DOMAIN edges : edges[k].from \in Nodes /\ edges[k].to \in Nodes
           /\ DOMAIN edges \subseteq Nat
           /\ \A n : Preds(n) \subseteq Nodes
<1>1. edges \in Seq(Edge)
  BY DagAssumption DEF EdgeLists
<1>2. \A k \in DOMAIN edges : edges[k] \in Edge
  BY <1>1
<1>3. \A k \in DOMAIN edges : edges[k].from \in Nodes /\ edges[k].to \in Nodes
  BY <1>2 DEF Edge
<1> QED BY <1>1, <1>3 DEF Preds

LEMMA InitType == Init => TypeOK
<1> SUFFICES ASSUME Init PROVE TypeOK
  OBVIOUS
<1>1. \A n : Preds(n) \subseteq Nodes
  BY EdgeFacts DEF Init
<1>2. queue \in Seq(Nodes)
  BY ListingOf DEF Init, Sources
<1> QED BY <1>1, <1>2 DEF Init, TypeOK

LEMMA NextType == TypeOK /\ [Next]_vars => TypeOK'
<1> SUFFICES ASSUME TypeOK, [Next]_vars PROVE TypeOK'
  OBVIOUS
<1> USE DEF TypeOK
<1>0. \A k \in DOMAIN edges : edges[k].from \in Nodes /\ edges[k].to \in Nodes
  BY EdgeFacts
<1>1. CASE Pop
  <2>1. Head(queue) \in Nodes /\ Tail(queue) \in Seq(Nodes)
    BY <1>1 DEF Pop
  <2>2. topo' \in Seq(Nodes) /\ DOMAIN topo \subseteq DOMAIN topo'
    BY <1>1, <2>1 DEF Pop
  <2> QED BY <1>1, <2>1, <2>2 DEF Pop, file, wave, outcome
<1>2. CASE Follow
  <2>1. PICK k \in out :
          /\ out' = out \ {k}
          /\ incoming' = [incoming EXCEPT ![edges[k].to] = @ \ {edges[k].from}]
          /\ queue' = IF incoming[edges[k].to] \ {edges[k].from} = {}
                      THEN Append(queue, edges[k].to) ELSE queue
    BY <1>2 DEF Follow
  <2>2. edges[k].to \in Nodes
    BY <1>0
  <2>3. queue' \in Seq(Nodes)
    BY <2>1, <2>2
  <2> QED BY <1>2, <2>1, <2>2, <2>3 DEF Follow, file, wave, outcome
<1>3. CASE Sorted
  BY <1>3 DEF Sorted, file, sort, wave, outcome
<1>4. CASE Pick
  BY <1>4 DEF Pick, file, sort, outcome
<1>5. CASE SkipOthers
  <2>1. PICK d \in due :
          LET others == IF edges[d[2]].to \in completed \cup skipped THEN {}
                        ELSE Skippable(topo[d[1]], edges[d[2]].to)
          IN /\ due' = due \ {d}
             /\ skipped' = skipped \cup others
             /\ results' = [m \in Nodes |->
                              IF m \in others THEN "skipped" ELSE results[m]]
    BY <1>5 DEF SkipOthers
  <2>2. \A n : Preds(n) \subseteq Nodes
    BY EdgeFacts
  <2>3. skipped' \subseteq Nodes /\ results' \in [Nodes -> NodeStatus \cup {"none"}]
    BY <2>1, <2>2 DEF Skippable, NodeStatus
  <2> QED BY <1>5, <2>1, <2>3 DEF SkipOthers, file, sort
<1>6. ASSUME NEW i \in running, Join(i)
      PROVE  TypeOK'
  <2>1. topo[i] \in Nodes
    OBVIOUS
  <2>2. PICK s \in Answers(kind[topo[i]]) :
          /\ results' = [results EXCEPT ![topo[i]] = s]
          /\ running' = running \ {i}
          /\ IF running' = {}
             THEN st' = "loop" /\ due' = SkipCandidates(results')
             ELSE UNCHANGED <<st, due>>
    BY <1>6 DEF Join
  <2>3. s \in NodeStatus
    BY DEF Answers, NodeStatus
  <2>4. results' \in [Nodes -> NodeStatus \cup {"none"}]
    BY <2>1, <2>2, <2>3
  <2>5. due' \subseteq ready \X DOMAIN edges
    BY <2>2 DEF SkipCandidates
  <2> QED BY <1>6, <2>1, <2>2, <2>4, <2>5 DEF Join, file, sort
<1>7. ASSUME NEW i \in running, JoinError(i)
      PROVE  TypeOK'
  BY <1>7 DEF JoinError, file, sort, outcome
<1>8. CASE UNCHANGED vars
  BY <1>8 DEF vars, file, sort, wave, outcome
<1> QED BY <1>1, <1>2, <1>3, <1>4, <1>5, <1>6, <1>7, <1>8 DEF Next, Executor

(* The executor's variables keep their types, whatever the file.           *)
THEOREM TypeCorrect == Spec => []TypeOK
BY InitType, NextType, PTL DEF Spec

-----------------------------------------------------------------------------
(* Kahn's sort.                                                            *)

Popped == {topo[i] : i \in DOMAIN topo}

Queued == {queue[i] : i \in DOMAIN queue}

EachOnce ==
    /\ \A i, j \in DOMAIN topo : topo[i] = topo[j] => i = j
    /\ \A i, j \in DOMAIN queue : queue[i] = queue[j] => i = j
    /\ Popped \cap Queued = {}

\* What is left of a node's predecessors: those not popped, and the one just
\* popped while its edges are being followed.
Remaining ==
    /\ \A k \in out : edges[k].from \in Popped
    /\ \A m \in Nodes : incoming[m] =
          {p \in Preds(m) : \/ p \notin Popped
                           \/ \E k \in out : edges[k].from = p /\ edges[k].to = m}

ListedWhenFree == \A m \in Nodes : m \in Popped \cup Queued <=> incoming[m] = {}

PredecessorsFirst ==
    \A i \in DOMAIN topo : \A p \in Preds(topo[i]) :
        \E j \in DOMAIN topo : j < i /\ topo[j] = p

KahnInv == EachOnce /\ Remaining /\ ListedWhenFree /\ PredecessorsFirst

\* Once the sort is over its lists are final, and their length has decided.
SortOver ==
    st # "sort" =>
        /\ queue = <<>>
        /\ out = {}
        /\ st = "cycle" <=> Len(topo) # N

SortInv == TypeOK /\ SortOver /\ (DistinctEdges => KahnInv)

(* The queue starts with the nodes nothing points to.                      *)
LEMMA InitKahn == Init => KahnInv
<1> SUFFICES ASSUME Init PROVE KahnInv
  OBVIOUS
<1>1. Sources \in SUBSET Nodes /\ queue \in Listings(Sources)
  BY DEF Init, Sources
<1>2. /\ Queued = Sources
      /\ \A i, j \in DOMAIN queue : queue[i] = queue[j] => i = j
  BY <1>1, ListingOf DEF Queued
<1>3. Popped = {}
  BY DEF Init, Popped
<1>4. EachOnce
  BY <1>2, <1>3 DEF EachOnce, Init
<1>5. Remaining
  BY <1>3 DEF Remaining, Init
<1>6. ListedWhenFree
  BY <1>2, <1>3 DEF ListedWhenFree, Init, Sources
<1>7. PredecessorsFirst
  BY DEF PredecessorsFirst, Init
<1> QED BY <1>4, <1>5, <1>6, <1>7 DEF KahnInv

\* What a pop does to the two lists, as sets.
LEMMA PopLists ==
    ASSUME TypeOK, Pop
    PROVE  /\ Head(queue) \in Nodes
           /\ DOMAIN topo' = DOMAIN topo \cup {Len(topo) + 1}
           /\ Len(topo) + 1 \notin DOMAIN topo
           /\ \A i \in DOMAIN topo : topo'[i] = topo[i] /\ i < Len(topo) + 1
           /\ topo'[Len(topo) + 1] = Head(queue)
           /\ \A i \in DOMAIN queue' : i + 1 \in DOMAIN queue /\ queue'[i] = queue[i + 1]
           /\ 1 \in DOMAIN queue /\ Head(queue) = queue[1]
           /\ \A i \in DOMAIN queue : i # 1 =>
                 i - 1 \in DOMAIN queue' /\ queue'[i - 1] = queue[i]
<1>1. queue \in Seq(Nodes) /\ topo \in Seq(Nodes) /\ queue # <<>>
  BY DEF TypeOK, Pop
<1>2. topo' = Append(topo, Head(queue)) /\ queue' = Tail(queue)
  BY DEF Pop
<1>3. Head(queue) \in Nodes
  BY <1>1
<1> QED BY <1>1, <1>2, <1>3, SMTT(60)

(* Popping a node keeps the invariant: its own edges are still to follow.  *)
LEMMA PopKahn == TypeOK /\ KahnInv /\ Pop => KahnInv'
<1> SUFFICES ASSUME TypeOK, KahnInv, Pop PROVE KahnInv'
  OBVIOUS
<1> DEFINE h == Head(queue)
<1>1. /\ edges' = edges /\ incoming' = incoming
      /\ out = {} /\ out' = {k \in DOMAIN edges : edges[k].from = h}
  BY DEF Pop, file
<1>2. \A n : Preds(n)' = Preds(n)
  BY <1>1 DEF Preds
<1>3. Popped' = Popped \cup {h}
  BY PopLists DEF Popped
<1>4. /\ Queued = Queued' \cup {h}
      /\ \A i, j \in DOMAIN queue' : queue'[i] = queue'[j] => i = j
      /\ h \notin Queued'
  <2>1. \A i, j \in DOMAIN queue : queue[i] = queue[j] => i = j
    BY DEF KahnInv, EachOnce
  <2>2. DOMAIN queue \subseteq Nat /\ DOMAIN queue' \subseteq Nat \ {0}
    BY DEF TypeOK, Pop
  <2>3. \A i, j \in DOMAIN queue' : queue'[i] = queue'[j] => i = j
    BY <2>1, <2>2, PopLists
  <2>4. \A i \in DOMAIN queue' : queue'[i] # h
    <3> SUFFICES ASSUME NEW i \in DOMAIN queue', queue'[i] = h PROVE FALSE
      OBVIOUS
    <3>1. queue[i + 1] = queue[1] /\ i + 1 \in DOMAIN queue /\ 1 \in DOMAIN queue
      BY PopLists
    <3>2. i + 1 = 1
      BY <2>1, <3>1
    <3> QED BY <2>2, <3>2
  <2>5. Queued \subseteq Queued' \cup {h}
    BY PopLists DEF Queued
  <2>6. Queued' \cup {h} \subseteq Queued
    BY PopLists DEF Queued
  <2> QED BY <2>3, <2>4, <2>5, <2>6 DEF Queued
<1>5. h \in Nodes /\ h \in Queued /\ h \notin Popped
  BY <1>4, PopLists DEF KahnInv, EachOnce
<1>6. EachOnce'
  <2>1. \A i, j \in DOMAIN topo' : topo'[i] = topo'[j] => i = j
    <3>1. \A i \in DOMAIN topo : topo[i] # h
      BY <1>5 DEF Popped
    <3> QED BY <3>1, PopLists DEF KahnInv, EachOnce
  <2>2. Popped' \cap Queued' = {}
    BY <1>3, <1>4 DEF KahnInv, EachOnce
  <2> QED BY <1>4, <2>1, <2>2 DEF EachOnce
<1>7. Remaining'
  <2>1. \A k \in out' : edges'[k].from \in Popped'
    BY <1>1, <1>3
  <2>2. ASSUME NEW m \in Nodes
        PROVE  incoming'[m] =
                 {p \in Preds(m)' : \/ p \notin Popped'
                                  \/ \E k \in out' : edges'[k].from = p /\ edges'[k].to = m}
    <3>1. incoming[m] = {p \in Preds(m) : p \notin Popped}
      BY <1>1 DEF KahnInv, Remaining
    <3>2. ASSUME NEW p \in Preds(m)
          PROVE  p \notin Popped <=>
                   \/ p \notin Popped'
                   \/ \E k \in out' : edges[k].from = p /\ edges[k].to = m
      <4>1. PICK k \in DOMAIN edges : edges[k].from = p /\ edges[k].to = m
        BY DEF Preds
      <4>2. CASE p = h
        BY <1>1, <1>5, <4>1, <4>2
      <4>3. CASE p # h
        BY <1>1, <1>3, <4>3
      <4> QED BY <4>2, <4>3
    <3> QED BY <1>1, <1>2, <3>1, <3>2
  <2> QED BY <2>1, <2>2 DEF Remaining
<1>8. ListedWhenFree'
  <2>1. Popped' \cup Queued' = Popped \cup Queued
    BY <1>3, <1>4
  <2> QED BY <1>1, <2>1 DEF KahnInv, ListedWhenFree
<1>9. PredecessorsFirst'
  <2>1. ASSUME NEW p \in Preds(h)
        PROVE  p \in Popped
    <3>1. incoming[h] = {}
      BY <1>5 DEF KahnInv, ListedWhenFree
    <3> QED BY <1>5, <3>1 DEF KahnInv, Remaining
  <2>2. \A i \in DOMAIN topo : \A p \in Preds(topo[i]) :
          \E j \in DOMAIN topo : j < i /\ topo[j] = p
    BY DEF KahnInv, PredecessorsFirst
  <2>3. ASSUME NEW i \in DOMAIN topo', NEW p \in Preds(topo'[i])
        PROVE  \E j \in DOMAIN topo' : j < i /\ topo'[j] = p
    <3>1. CASE i \in DOMAIN topo
      BY <2>2, <3>1, PopLists
    <3>2. CASE i = Len(topo) + 1
      BY <2>1, <3>2, PopLists DEF Popped
    <3> QED BY <3>1, <3>2, PopLists
  <2> QED BY <1>2, <2>3 DEF PredecessorsFirst
<1> QED BY <1>6, <1>7, <1>8, <1>9 DEF KahnInv

(* Following an edge keeps the invariant: without a parallel edge the      *)
(* target still waits for the popped node, so it is in neither list yet.   *)
LEMMA FollowKahn == TypeOK /\ DistinctEdges /\ KahnInv /\ Follow => KahnInv'
<1> SUFFICES ASSUME TypeOK, DistinctEdges, KahnInv, Follow PROVE KahnInv'
  OBVIOUS
<1>1. PICK k \in out :
        /\ out' = out \ {k}
        /\ incoming' = [incoming EXCEPT ![edges[k].to] = @ \ {edges[k].from}]
        /\ queue' = IF incoming[edges[k].to] \ {edges[k].from} = {}
                    THEN Append(queue, edges[k].to) ELSE queue
  BY DEF Follow
<1> DEFINE n == edges[k].from
           t == edges[k].to
<1>2. edges' = edges /\ topo' = topo /\ Popped' = Popped
  BY DEF Follow, file, Popped
<1>3. /\ n \in Nodes /\ t \in Nodes /\ k \in DOMAIN edges
      /\ n \in Preds(t) /\ n \in Popped
  <2>1. k \in DOMAIN edges
    BY DEF TypeOK
  <2>2. n \in Popped
    BY DEF KahnInv, Remaining
  <2> QED BY <2>1, <2>2, EdgeFacts DEF TypeOK, Preds
<1>4. \A m : Preds(m)' = Preds(m)
  BY <1>2 DEF Preds
<1>5. \A m \in Nodes : incoming[m] =
        {p \in Preds(m) : \/ p \notin Popped
                         \/ \E j \in out : edges[j].from = p /\ edges[j].to = m}
  BY DEF KahnInv, Remaining
<1>6. n \in incoming[t] /\ t \notin Popped \cup Queued
  <2>1. n \in incoming[t]
    BY <1>3, <1>5
  <2> QED BY <1>3, <2>1 DEF KahnInv, ListedWhenFree
<1>7. /\ incoming' [t] = incoming[t] \ {n}
      /\ \A m \in Nodes \ {t} : incoming' [m] = incoming[m]
  BY <1>1, <1>3 DEF TypeOK
<1>8. ASSUME NEW j \in out', edges[j].from = n, edges[j].to = t
      PROVE  FALSE
  <2>1. j \in DOMAIN edges /\ j # k
    BY <1>1 DEF TypeOK
  <2>2. edges[j] \in Edge /\ edges[k] \in Edge
    BY <1>3, <2>1, EdgeFacts DEF TypeOK
  <2>3. edges[j] = edges[k]
    BY <1>8, <2>2 DEF Edge
  <2> QED BY <1>3, <2>1, <2>3 DEF DistinctEdges
<1>9. Remaining'
  <2>1. \A j \in out' : edges'[j].from \in Popped'
    BY <1>1, <1>2 DEF KahnInv, Remaining
  <2>2. ASSUME NEW m \in Nodes
        PROVE  incoming' [m] =
                 {p \in Preds(m) : \/ p \notin Popped
                                  \/ \E j \in out' : edges[j].from = p /\ edges[j].to = m}
    <3>1. CASE m = t
      <4>1. \A p \in Preds(t) \ {n} :
              (\E j \in out : edges[j].from = p /\ edges[j].to = t)
              <=> (\E j \in out' : edges[j].from = p /\ edges[j].to = t)
        BY <1>1
      <4> QED BY <1>3, <1>5, <1>7, <1>8, <3>1, <4>1
    <3>2. CASE m # t
      <4>1. \A p \in Preds(m) :
              (\E j \in out : edges[j].from = p /\ edges[j].to = m)
              <=> (\E j \in out' : edges[j].from = p /\ edges[j].to = m)
        BY <1>1, <3>2
      <4> QED BY <1>5, <1>7, <3>2, <4>1
    <3> QED BY <3>1, <3>2
  <2> QED BY <1>2, <1>4, <2>1, <2>2 DEF Remaining
<1>10. CASE incoming[t] \ {n} = {}
  <2>1. queue' = Append(queue, t) /\ queue \in Seq(Nodes)
    BY <1>1, <1>10 DEF TypeOK
  <2>2. /\ DOMAIN queue' = DOMAIN queue \cup {Len(queue) + 1}
        /\ \A i \in DOMAIN queue : queue'[i] = queue[i]
        /\ queue'[Len(queue) + 1] = t
    BY <1>3, <2>1
  <2>3. Queued' = Queued \cup {t}
    BY <2>2 DEF Queued
  <2>4. \A i, j \in DOMAIN queue' : queue'[i] = queue'[j] => i = j
    <3>1. \A i \in DOMAIN queue : queue[i] # t
      BY <1>6 DEF Queued
    <3>2. \A i, j \in DOMAIN queue : queue[i] = queue[j] => i = j
      BY DEF KahnInv, EachOnce
    <3> QED BY <2>2, <3>1, <3>2
  <2>5. EachOnce'
    BY <1>2, <1>6, <2>3, <2>4 DEF KahnInv, EachOnce
  <2>6. ListedWhenFree'
    BY <1>2, <1>7, <1>10, <2>3 DEF KahnInv, ListedWhenFree
  <2> QED BY <1>2, <1>4, <1>9, <2>5, <2>6 DEF KahnInv, PredecessorsFirst
<1>11. CASE incoming[t] \ {n} # {}
  <2>1. queue' = queue /\ Queued' = Queued
    BY <1>1, <1>11 DEF Queued
  <2>2. EachOnce'
    BY <1>2, <2>1 DEF KahnInv, EachOnce
  <2>3. ListedWhenFree'
    BY <1>2, <1>6, <1>7, <1>11, <2>1 DEF KahnInv, ListedWhenFree
  <2> QED BY <1>2, <1>4, <1>9, <2>2, <2>3 DEF KahnInv, PredecessorsFirst
<1> QED BY <1>10, <1>11

LEMMA NextSort == SortInv /\ [Next]_vars => SortInv'
<1> SUFFICES ASSUME SortInv, [Next]_vars PROVE SortInv'
  OBVIOUS
<1> USE DEF SortInv
<1>1. TypeOK'
  BY NextType
<1>2. CASE Pop
  <2>1. DistinctEdges' => KahnInv'
    BY <1>2, PopKahn DEF Pop, file, DistinctEdges
  <2> QED BY <1>1, <1>2, <2>1 DEF Pop, SortOver
<1>3. CASE Follow
  <2>1. DistinctEdges' => KahnInv'
    BY <1>3, FollowKahn DEF Follow, file, DistinctEdges
  <2> QED BY <1>1, <1>3, <2>1 DEF Follow, SortOver
<1>4. ASSUME UNCHANGED <<file, sort>>,
             st' # "sort" => queue = <<>> /\ out = {} /\ (st' = "cycle" <=> Len(topo) # N)
      PROVE  SortInv'
  <2>1. (DistinctEdges <=> DistinctEdges') /\ (KahnInv <=> KahnInv')
    BY <1>4 DEF file, sort, DistinctEdges, KahnInv, EachOnce, Remaining,
                ListedWhenFree, PredecessorsFirst, Popped, Queued, Preds
  <2> QED BY <1>1, <1>4, <2>1 DEF SortOver, sort
<1>5. CASE Sorted
  BY <1>4, <1>5 DEF Sorted
<1>6. CASE Pick
  BY <1>4, <1>6 DEF Pick, SortOver
<1>7. CASE SkipOthers
  BY <1>4, <1>7 DEF SkipOthers, SortOver
<1>8. ASSUME NEW i \in running, Join(i)
      PROVE  SortInv'
  BY <1>4, <1>8 DEF Join, SortOver
<1>9. ASSUME NEW i \in running, JoinError(i)
      PROVE  SortInv'
  BY <1>4, <1>9 DEF JoinError, SortOver
<1>10. CASE UNCHANGED vars
  BY <1>4, <1>10 DEF vars, SortOver
<1> QED BY <1>2, <1>3, <1>5, <1>6, <1>7, <1>8, <1>9, <1>10 DEF Next, Executor

LEMMA SortCorrect == Spec => []SortInv
<1>1. Init => SortInv
  BY InitType, InitKahn DEF Init, SortInv, SortOver
<1> QED BY <1>1, NextSort, PTL DEF Spec

(* When the sort is over, a node is in the order exactly when everything   *)
(* it depends on is.                                                       *)
LEMMA OrderClosed ==
    ASSUME SortInv, DistinctEdges, st # "sort"
    PROVE  \A m \in Nodes : m \in Popped <=> Preds(m) \subseteq Popped
<1>1. Queued = {} /\ out = {} /\ KahnInv
  BY DEF SortInv, SortOver, Queued
<1> QED BY <1>1, EdgeFacts DEF SortInv, KahnInv, Remaining, ListedWhenFree

LEMMA SortDecides ==
    ASSUME SortInv, DistinctEdges, st # "sort"
    PROVE  st = "cycle" <=> HasCycle
<1>1. Popped = Nodes <=> Len(topo) = N
  BY CoversWhenLong DEF SortInv, KahnInv, EachOnce, TypeOK, Popped
<1>2. st = "cycle" <=> Popped # Nodes
  BY <1>1 DEF SortInv, SortOver
<1>3. ASSUME Popped # Nodes
      PROVE  HasCycle
  <2> DEFINE S == Nodes \ Popped
  <2>1. Popped \subseteq Nodes
    BY DEF SortInv, TypeOK, Popped
  <2>2. S # {} /\ S \in SUBSET Nodes
    BY <1>3, <2>1
  <2>3. ASSUME NEW m \in S
        PROVE  \E k \in DOMAIN edges : edges[k].to = m /\ edges[k].from \in S
    <3>1. PICK p \in Preds(m) : p \notin Popped
      BY OrderClosed
    <3>2. p \in S
      BY <3>1, EdgeFacts DEF SortInv, TypeOK
    <3> QED BY <3>2 DEF Preds
  <2> QED BY <2>2, <2>3 DEF HasCycle
<1>4. ASSUME Popped = Nodes, HasCycle
      PROVE  FALSE
  <2>1. PICK S \in (SUBSET Nodes) \ {{}} :
          \A m \in S : \E k \in DOMAIN edges : edges[k].to = m /\ edges[k].from \in S
    BY <1>4 DEF HasCycle
  <2> DEFINE I == {i \in DOMAIN topo : topo[i] \in S}
  <2>2. I \in SUBSET Nat /\ I # {}
    BY <1>4, <2>1 DEF SortInv, TypeOK, Popped
  <2>3. PICK i \in I : \A j \in I : i <= j
    <3> HIDE DEF I
    <3> QED BY <2>2, LeastPosition
  <2>4. PICK p \in Preds(topo[i]) : p \in S
    BY <2>1 DEF Preds
  <2>5. PICK j \in DOMAIN topo : j < i /\ topo[j] = p
    BY <2>4 DEF SortInv, KahnInv, PredecessorsFirst
  <2>6. j \in I /\ j \in Nat /\ i \in Nat
    BY <2>2, <2>4, <2>5
  <2> QED BY <2>3, <2>5, <2>6
<1> QED BY <1>2, <1>3, <1>4

(* A file without parallel edges is refused exactly when it has a cycle.   *)
THEOREM RefusesCycles == Spec => []CyclesRefused
<1>1. SortInv => CyclesRefused
  BY SortDecides DEF CyclesRefused
<1> QED BY <1>1, SortCorrect, PTL

-----------------------------------------------------------------------------
(* The waves.                                                              *)

\* Results are written by joins and by skips.
ResultsFrom ==
    \A n \in Nodes :
        /\ results[n] = "success" => n \in completed
        /\ results[n] # "none" => n \in completed \cup skipped

\* A node of the wave being joined may still be given another result when the
\* order names it twice; nobody has relied on the one it has.
Outside(n) == ~ (st = "running" /\ \E i \in ready : topo[i] = n)

ReliedOn ==
    \A n \in Started :
        /\ rule[n] = "all_success" => \A p \in Preds(n) : Succeeded(p) /\ Outside(p)
        /\ rule[n] = "one_success" /\ Preds(n) # {} =>
              \E p \in Preds(n) : Succeeded(p) /\ Outside(p)

WaveInv == SortInv /\ ResultsFrom /\ ReliedOn /\ SkippedNeverStarted /\ RunOnce

LEMMA InitWave == Init => WaveInv
<1>1. Init => SortInv
  BY InitType, InitKahn DEF Init, SortInv, SortOver
<1> QED BY <1>1 DEF Init, WaveInv, ResultsFrom, ReliedOn, SkippedNeverStarted,
                   RunOnce, Started

\* Outside a wave, what has started has been joined.
LEMMA StartedBetween ==
    ASSUME TypeOK
    PROVE  st # "running" => Started = completed
BY DEF TypeOK, Started

(* A wave is of nodes that have no result yet and whose rules are met by   *)
(* nodes outside it.                                                       *)
LEMMA PickWave == WaveInv /\ Pick => WaveInv'
<1> SUFFICES ASSUME WaveInv, Pick PROVE WaveInv'
  OBVIOUS
<1>1. TypeOK /\ SortInv
  BY DEF WaveInv, SortInv
<1>2. SortInv'
  BY <1>1, NextSort DEF Next, Executor
<1>3. /\ st = "loop" /\ UNCHANGED <<edges, rule, topo, results, completed, skipped>>
      /\ ready' = {i \in DOMAIN topo : IsReady(topo[i])}
      /\ running' = ready'
  BY DEF Pick, file, sort, outcome
<1>4. \A n : Preds(n)' = Preds(n) /\ Succeeded(n)' = Succeeded(n)
  BY <1>3 DEF Preds, Succeeded
<1>5. Started = completed
  BY <1>1, <1>3, StartedBetween
<1>6. Started' = completed \cup {topo[i] : i \in ready'}
  BY <1>3 DEF Started
<1>7. \A i \in ready' : /\ topo[i] \in Nodes
                        /\ topo[i] \notin completed \cup skipped
                        /\ Triggered(topo[i])
  BY <1>1, <1>3 DEF IsReady, TypeOK
<1>8. ASSUME NEW p \in Nodes, Succeeded(p)
      PROVE  Succeeded(p)' /\ Outside(p)'
  <2>1. p \in completed
    BY <1>8 DEF WaveInv, ResultsFrom, Succeeded
  <2> QED BY <1>3, <1>4, <1>7, <1>8, <2>1 DEF Outside
<1>9. ResultsFrom'
  BY <1>3 DEF WaveInv, ResultsFrom
<1>10. ReliedOn'
  <2> SUFFICES ASSUME NEW n \in Started'
               PROVE  /\ rule[n] = "all_success" =>
                            \A p \in Preds(n) : Succeeded(p)
                      /\ rule[n] = "one_success" /\ Preds(n) # {} =>
                            \E p \in Preds(n) : Succeeded(p)
    BY <1>1, <1>3, <1>4, <1>8, EdgeFacts DEF ReliedOn, TypeOK
  <2>1. CASE n \in completed
    BY <1>5, <2>1 DEF WaveInv, ReliedOn
  <2>2. CASE n \in {topo[i] : i \in ready'}
    BY <1>7, <2>2 DEF Triggered
  <2> QED BY <1>6, <2>1, <2>2
<1>11. SkippedNeverStarted'
  BY <1>3, <1>5, <1>6, <1>7 DEF WaveInv, SkippedNeverStarted
<1>12. RunOnce'
  <2> SUFFICES ASSUME DistinctEdges', NEW i \in running', NEW j \in running'
               PROVE  /\ results[topo[i]] = "none"
                      /\ i # j => topo[i] # topo[j]
    BY <1>3 DEF RunOnce
  <2>1. KahnInv
    BY <1>1, <1>3 DEF DistinctEdges, SortInv
  <2> QED BY <1>3, <1>7, <2>1 DEF KahnInv, EachOnce, WaveInv, ResultsFrom
<1> QED BY <1>2, <1>9, <1>10, <1>11, <1>12 DEF WaveInv

(* Joining a node gives it its result; without parallel edges it had none. *)
LEMMA JoinWave ==
    ASSUME WaveInv, NEW i \in running, Join(i)
    PROVE  /\ WaveInv'
           /\ DistinctEdges =>
                 \A n \in Nodes : results[n] # "none" => results'[n] = results[n]
<1>1. TypeOK /\ SortInv
  BY DEF WaveInv, SortInv
<1>2. SortInv'
  BY <1>1, NextSort DEF Next, Executor
<1> DEFINE n == topo[i]
<1>3. PICK s : /\ results' = [results EXCEPT ![n] = s]
               /\ running' = running \ {i}
               /\ s \in Answers(kind[n])
  BY DEF Join
<1>4. /\ st = "running" /\ completed' = completed \cup {n}
      /\ UNCHANGED <<edges, rule, topo, ready, skipped>>
  BY DEF Join, file, sort
<1>5. i \in ready /\ n \in Nodes /\ n \in Started /\ s # "none"
  BY <1>1, <1>3 DEF TypeOK, Started, Answers
<1>6. Started' = Started
  <2>1. Started' = (completed \cup {n}) \cup {topo[j] : j \in running \ {i}}
    BY <1>3, <1>4 DEF Started
  <2> QED BY <2>1 DEF Started
<1>7. \A m \in Nodes \ {n} : results'[m] = results[m]
  BY <1>1, <1>3 DEF TypeOK
<1>8. results'[n] = s
  BY <1>1, <1>3, <1>5 DEF TypeOK
<1>9. ResultsFrom'
  BY <1>4, <1>7, <1>8 DEF WaveInv, ResultsFrom
<1>10. ReliedOn'
  <2>1. \A m : Preds(m)' = Preds(m)
    BY <1>4 DEF Preds
  <2>2. ASSUME NEW p \in Nodes, Succeeded(p), Outside(p)
        PROVE  Succeeded(p)' /\ Outside(p)'
    BY <1>4, <1>5, <1>7, <2>2 DEF Succeeded, Outside
  <2>3. \A m : Preds(m) \subseteq Nodes
    BY <1>1, EdgeFacts DEF TypeOK
  <2>4. ReliedOn
    BY DEF WaveInv
  <2> QED BY <1>4, <1>6, <2>1, <2>2, <2>3, <2>4 DEF ReliedOn
<1>11. SkippedNeverStarted'
  BY <1>4, <1>6 DEF WaveInv, SkippedNeverStarted
<1>12. RunOnce'
  <2> SUFFICES ASSUME DistinctEdges', NEW j \in running', NEW k \in running'
               PROVE  /\ results'[topo[j]] = "none"
                      /\ j # k => topo[j] # topo[k]
    BY <1>4 DEF RunOnce
  <2>1. DistinctEdges /\ j \in running /\ k \in running /\ j # i
    BY <1>3, <1>4 DEF DistinctEdges
  <2>2. results[topo[j]] = "none" /\ topo[j] # n /\ (j # k => topo[j] # topo[k])
    BY <2>1 DEF WaveInv, RunOnce
  <2>3. topo[j] \in Nodes
    BY <1>1, <2>1 DEF TypeOK
  <2> QED BY <1>7, <2>2, <2>3
<1>13. DistinctEdges => \A m \in Nodes : results[m] # "none" => results'[m] = results[m]
  BY <1>7 DEF WaveInv, RunOnce
<1> QED BY <1>2, <1>9, <1>10, <1>11, <1>12, <1>13 DEF WaveInv

(* Skipping touches neither what has run nor a recorded result.            *)
LEMMA SkipWave ==
    ASSUME WaveInv, SkipOthers
    PROVE  /\ WaveInv'
           /\ \A n \in Nodes : results[n] # "none" => results'[n] = results[n]
<1>1. TypeOK /\ SortInv
  BY DEF WaveInv, SortInv
<1>2. SortInv'
  BY <1>1, NextSort DEF Next, Executor
<1>3. PICK others \in SUBSET Nodes :
        /\ others \cap (completed \cup skipped) = {}
        /\ skipped' = skipped \cup others
        /\ results' = [m \in Nodes |-> IF m \in others THEN "skipped" ELSE results[m]]
  <2>1. PICK d \in due :
          LET o == IF edges[d[2]].to \in completed \cup skipped THEN {}
                   ELSE Skippable(topo[d[1]], edges[d[2]].to)
          IN /\ skipped' = skipped \cup o
             /\ results' = [m \in Nodes |-> IF m \in o THEN "skipped" ELSE results[m]]
    BY DEF SkipOthers
  <2>2. Skippable(topo[d[1]], edges[d[2]].to) \subseteq Nodes \ (completed \cup skipped)
    BY <1>1, EdgeFacts DEF Skippable, TypeOK
  <2> QED BY <2>1, <2>2
<1>4. /\ st = "loop" /\ running = {}
      /\ UNCHANGED <<st, edges, rule, topo, ready, running, completed>>
  BY <1>1 DEF SkipOthers, file, sort, TypeOK
<1>5. Started = completed /\ Started' = completed
  BY <1>4 DEF Started
<1>6. ResultsFrom'
  BY <1>3, <1>4 DEF WaveInv, ResultsFrom
<1>7. \A n \in Nodes : results[n] # "none" => results'[n] = results[n]
  BY <1>3 DEF WaveInv, ResultsFrom
<1>8. ReliedOn'
  <2>1. \A m : Preds(m)' = Preds(m) /\ Preds(m) \subseteq Nodes
    BY <1>1, <1>4, EdgeFacts DEF Preds, TypeOK
  <2>2. \A p \in Nodes : Succeeded(p) /\ Outside(p) => Succeeded(p)' /\ Outside(p)'
    BY <1>4, <1>7 DEF Succeeded, Outside
  <2>3. ReliedOn
    BY DEF WaveInv
  <2> QED BY <1>4, <1>5, <2>1, <2>2, <2>3 DEF ReliedOn
<1>9. SkippedNeverStarted'
  BY <1>3, <1>5 DEF WaveInv, SkippedNeverStarted
<1>10. RunOnce'
  BY <1>4 DEF RunOnce
<1> QED BY <1>2, <1>6, <1>7, <1>8, <1>9, <1>10 DEF WaveInv

LEMMA NextWave == WaveInv /\ [Next]_vars => WaveInv'
<1> SUFFICES ASSUME WaveInv, [Next]_vars PROVE WaveInv'
  OBVIOUS
<1>1. SortInv' /\ TypeOK
  BY NextSort DEF WaveInv, SortInv
<1>2. ASSUME NEW runs \in SUBSET running, running' = runs, topo' = topo \/ st = "sort",
             st' # "running" \/ st' = st,
             UNCHANGED <<file, ready, outcome>>
      PROVE  WaveInv'
  <2>1. CASE st = "sort"
    <3>1. running = {} /\ Started = completed /\ Started' = completed
      BY <1>1, <1>2, <2>1 DEF TypeOK, Started, outcome
    <3>2. \A n : Preds(n)' = Preds(n) /\ Succeeded(n)' = Succeeded(n) /\ Outside(n)'
      BY <1>2, <2>1 DEF file, outcome, Preds, Succeeded, Outside
    <3> QED BY <1>1, <1>2, <3>1, <3>2
            DEF WaveInv, ResultsFrom, ReliedOn, SkippedNeverStarted, RunOnce, file, outcome
  <2>2. CASE st # "sort"
    <3>1. topo' = topo /\ Started' \subseteq Started
      BY <1>2, <2>2 DEF Started, outcome
    <3>2. \A n : /\ Preds(n)' = Preds(n)
                 /\ Succeeded(n)' = Succeeded(n)
                 /\ Outside(n) => Outside(n)'
      BY <1>2, <3>1 DEF file, outcome, Preds, Succeeded, Outside
    <3>3. RunOnce'
      BY <1>2, <3>1 DEF WaveInv, RunOnce, DistinctEdges, file, outcome
    <3> QED BY <1>1, <1>2, <3>1, <3>2, <3>3
            DEF WaveInv, ResultsFrom, ReliedOn, SkippedNeverStarted, file, outcome
  <2> QED BY <2>1, <2>2
<1>3. CASE Pop
  BY <1>2, <1>3 DEF Pop, wave
<1>4. CASE Follow
  BY <1>2, <1>4 DEF Follow, wave
<1>5. CASE Sorted
  BY <1>2, <1>5 DEF Sorted, wave
<1>6. CASE Pick
  BY <1>6, PickWave
<1>7. CASE SkipOthers
  BY <1>7, SkipWave
<1>8. ASSUME NEW i \in running, Join(i)
      PROVE  WaveInv'
  BY <1>8, JoinWave
<1>9. ASSUME NEW i \in running, JoinError(i)
      PROVE  WaveInv'
  BY <1>2, <1>9 DEF JoinError, sort
<1>10. CASE UNCHANGED vars
  BY <1>2, <1>10 DEF vars, sort, wave
<1> QED BY <1>3, <1>4, <1>5, <1>6, <1>7, <1>8, <1>9, <1>10 DEF Next, Executor

LEMMA WavesCorrect == Spec => []WaveInv
BY InitWave, NextWave, PTL DEF Spec

(* A node's trigger rule holds, on results that stand, from the moment it  *)
(* is started; parallel edges included.                                    *)
THEOREM HonoursTriggers == Spec => []TriggersHonoured
<1>1. WaveInv => TriggersHonoured
  BY DEF WaveInv, ReliedOn, TriggersHonoured
<1> QED BY <1>1, WavesCorrect, PTL

(* A node marked skipped is never started, parallel edges included.        *)
THEOREM SkipsNoneStarted == Spec => []SkippedNeverStarted
<1>1. WaveInv => SkippedNeverStarted
  BY DEF WaveInv
<1> QED BY <1>1, WavesCorrect, PTL

(* Without parallel edges no node is started twice.                        *)
THEOREM RunsOnce == Spec => []RunOnce
<1>1. WaveInv => RunOnce
  BY DEF WaveInv
<1> QED BY <1>1, WavesCorrect, PTL

(* Without parallel edges a recorded result is never replaced.             *)
THEOREM KeepsResults == Spec => ResultsStand
<1> DEFINE Kept == DistinctEdges =>
             \A n \in Nodes : results[n] # "none" => results'[n] = results[n]
<1>1. WaveInv /\ [Next]_vars => [Kept]_vars
  <2> SUFFICES ASSUME WaveInv, Next PROVE Kept
    OBVIOUS
  <2>1. CASE Pop \/ Follow \/ Sorted \/ Pick
    BY <2>1 DEF Pop, Follow, Sorted, Pick, outcome
  <2>2. CASE SkipOthers
    BY <2>2, SkipWave
  <2>3. ASSUME NEW i \in running, Join(i)
        PROVE  Kept
    BY <2>3, JoinWave
  <2>4. ASSUME NEW i \in running, JoinError(i)
        PROVE  Kept
    BY <2>4 DEF JoinError, outcome
  <2> QED BY <2>1, <2>2, <2>3, <2>4 DEF Next, Executor
<1> QED BY <1>1, WavesCorrect, PTL DEF Spec, ResultsStand

-----------------------------------------------------------------------------
(* The end of a run.                                                       *)

NothingReady == st = "done" => \A i \in DOMAIN topo : ~ IsReady(topo[i])

LEMMA NextNothingReady == TypeOK /\ NothingReady /\ [Next]_vars => NothingReady'
<1> SUFFICES ASSUME TypeOK, NothingReady, [Next]_vars PROVE NothingReady'
  OBVIOUS
<1>1. CASE Pop \/ Follow \/ Sorted \/ SkipOthers
  BY <1>1 DEF Pop, Follow, Sorted, SkipOthers, NothingReady
<1>2. CASE Pick
  BY <1>2 DEF Pick, NothingReady, IsReady, Triggered, Succeeded, Preds, file, sort, outcome
<1>3. ASSUME NEW i \in running, Join(i) \/ JoinError(i)
      PROVE  NothingReady'
  BY <1>3 DEF Join, JoinError, NothingReady
<1>4. CASE UNCHANGED vars
  BY <1>4 DEF vars, NothingReady, IsReady, Triggered, Succeeded, Preds, file, sort, outcome
<1> QED BY <1>1, <1>2, <1>3, <1>4 DEF Next, Executor

(* A finished run without parallel edges leaves only nodes whose trigger   *)
(* rule the results refuse, because its order names every node.            *)
THEOREM LeavesNothingBehind == Spec => []NothingLeftBehind
<1>1. Init => NothingReady
  BY DEF Init, NothingReady
<1>2. SortInv /\ NothingReady => NothingLeftBehind
  <2> SUFFICES ASSUME SortInv, NothingReady, DistinctEdges, st = "done",
                      NEW n \in Nodes \ (completed \cup skipped)
               PROVE  /\ Preds(n) # {}
                      /\ rule[n] = "all_success" => \E p \in Preds(n) : ~ Succeeded(p)
                      /\ rule[n] = "one_success" => \A p \in Preds(n) : ~ Succeeded(p)
    BY DEF NothingLeftBehind
  <2>1. Popped = Nodes
    BY CoversWhenLong DEF SortInv, SortOver, KahnInv, EachOnce, TypeOK, Popped
  <2>2. PICK i \in DOMAIN topo : topo[i] = n
    BY <2>1 DEF Popped
  <2>3. ~ Triggered(n)
    BY <2>2 DEF NothingReady, IsReady
  <2> QED BY <2>3 DEF Triggered
<1>3. SortInv => TypeOK
  BY DEF SortInv
<1> QED BY <1>1, <1>2, <1>3, NextNothingReady, SortCorrect, PTL DEF Spec
=============================================================================
