---------------------------- MODULE HandoffProofs ----------------------------
(***************************************************************************)
(* Proofs about what is made of a handoff before anyone works on it: the   *)
(* compressed context of Context, then the pieces of DecomposeCommand. The *)
(* first part, on folds and sequences, serves both.                        *)
(***************************************************************************)
EXTENDS Context, DecomposeCommand, FiniteSetTheorems, WellFoundedInduction, TLAPS

\* A non-empty set of numbers has a least one.
LEMMA LeastNumber ==
    ASSUME NEW I \in SUBSET Nat, I # {}
    PROVE  \E i \in I : \A j \in I : i <= j
<1>1. PICK i \in I : \A j \in I : ~ (<<j, i>> \in OpToRel(<, Nat))
  <2>1. IsWellFoundedOn(OpToRel(<, Nat), Nat) BY NatLessThanWellFounded
  <2> QED BY <2>1, WFMin
<1>2. \A j \in I : ~ (j < i) BY <1>1 DEF OpToRel
<1> QED BY <1>2

\* Induction, as a fact about a set of numbers.
LEMMA Induction ==
    ASSUME NEW S \in SUBSET Nat, 0 \in S, \A n \in S : n + 1 \in S
    PROVE  \A n \in Nat : n \in S
<1> SUFFICES ASSUME Nat \ S # {} PROVE FALSE OBVIOUS
<1>1. PICK i \in Nat \ S : \A j \in Nat \ S : i <= j BY LeastNumber
<1>2. i - 1 \in Nat /\ i - 1 \in S BY <1>1
<1> QED BY <1>1, <1>2

\* Max is the greatest element, of a set of positions.
LEMMA MaxOf ==
    ASSUME NEW n \in Nat, NEW t \in SUBSET (1 .. n), t # {}
    PROVE  Max(t) \in t /\ \A y \in t : y <= Max(t)
<1> DEFINE I == {i \in Nat : \A y \in t : y <= i}
<1>0. \A y \in t : y \in 1 .. n OBVIOUS
<1>1. n \in I BY <1>0
<1>2. PICK x \in I : \A j \in I : x <= j BY <1>1, LeastNumber
<1>3. x \in t
  <2> SUFFICES ASSUME x \notin t PROVE FALSE OBVIOUS
  <2>1. PICK z \in t : TRUE OBVIOUS
  <2>2. x >= 1 BY <1>0, <2>1
  <2>3. \A y \in t : y <= x - 1 BY <1>0
  <2>4. x - 1 \in I BY <2>2, <2>3
  <2> QED BY <1>2, <2>4
<1>4. \A y \in t : x >= y BY <1>0
<1> HIDE DEF I
<1>5. \E z \in t : \A y \in t : z >= y BY <1>3, <1>4
<1>6. Max(t) \in t /\ \A y \in t : Max(t) >= y BY <1>5 DEF Max
<1>7. \A y \in 1 .. n : y \in Nat OBVIOUS
<1> QED BY <1>0, <1>6, <1>7

LEMMA MinOf ==
    ASSUME NEW S \in SUBSET Nat, S # {}
    PROVE  Min(S) \in S /\ \A y \in S : Min(S) <= y
<1>1. PICK x \in S : \A y \in S : x <= y BY LeastNumber
<1> QED BY <1>1 DEF Min

LEMMA MaxOfPrefix ==
    ASSUME NEW k \in Nat, k # 0
    PROVE  Max(1 .. k) = k /\ (1 .. k) \ {k} = 1 .. k - 1
<1>0. 1 .. k \in SUBSET (1 .. k) /\ k \in 1 .. k OBVIOUS
<1>1. Max(1 .. k) \in 1 .. k /\ \A y \in 1 .. k : y <= Max(1 .. k)
  BY <1>0, MaxOf
<1> QED BY <1>0, <1>1

\* The recursion that the folds of the library choose a solution of: f
\* folds every set of positions up to k, the greatest of them last.
Folding(f, base, step, k) ==
    f = [t \in SUBSET (1 .. k) |->
            IF t = {} THEN base ELSE step[<<f[t \ {Max(t)}], Max(t)>>]]

\* There is a solution, whatever is folded.
LEMMA FoldExists ==
    ASSUME NEW Acc, NEW base \in Acc, NEW n \in Nat,
           NEW step \in [Acc \X (1 .. n) -> Acc]
    PROVE  \E f \in [SUBSET (1 .. n) -> Acc] : Folding(f, base, step, n)
<1> DEFINE S == {k \in Nat : k <= n => \E f \in [SUBSET (1 .. k) -> Acc] :
                                           Folding(f, base, step, k)}
<1>1. 0 \in S
  <2> DEFINE f == [t \in SUBSET (1 .. 0) |-> base]
  <2>1. \A t \in SUBSET (1 .. 0) : t = {} OBVIOUS
  <2>2. f \in [SUBSET (1 .. 0) -> Acc] /\ Folding(f, base, step, 0)
    BY <2>1 DEF Folding
  <2> QED BY <2>2
<1>2. ASSUME NEW k \in S PROVE k + 1 \in S
  <2>0. k \in Nat /\ k + 1 \in Nat OBVIOUS
  <2> SUFFICES ASSUME k + 1 <= n
               PROVE  \E f \in [SUBSET (1 .. k + 1) -> Acc] : Folding(f, base, step, k + 1)
    BY <2>0
  <2>9. k <= n /\ (k <= n => \E f \in [SUBSET (1 .. k) -> Acc] : Folding(f, base, step, k))
    <3>1. k <= n BY <2>0
    <3> QED BY <3>1, Zenon
  <2>1. PICK f \in [SUBSET (1 .. k) -> Acc] : Folding(f, base, step, k)
    BY <2>9, Zenon
  <2> HIDE DEF S
  <2> DEFINE g == [t \in SUBSET (1 .. k + 1) |->
                      IF k + 1 \in t THEN step[<<f[t \ {k + 1}], k + 1>>] ELSE f[t]]
  <2>2. ASSUME NEW t \in SUBSET (1 .. k + 1), k + 1 \notin t
        PROVE  t \in SUBSET (1 .. k)
    BY <2>0, <2>2
  <2>3. ASSUME NEW t \in SUBSET (1 .. k + 1), k + 1 \in t
        PROVE  Max(t) = k + 1 /\ t \ {k + 1} \in SUBSET (1 .. k)
    <3>1. Max(t) \in t /\ \A y \in t : y <= Max(t) BY <2>0, <2>3, MaxOf
    <3>2. Max(t) \in 1 .. k + 1 /\ k + 1 <= Max(t) BY <2>3, <3>1
    <3> QED BY <2>0, <3>2
  <2>4. g \in [SUBSET (1 .. k + 1) -> Acc]
    <3>1. k + 1 \in 1 .. n BY <2>0
    <3>2. ASSUME NEW t \in SUBSET (1 .. k + 1) PROVE g[t] \in Acc
      BY <2>2, <2>3, <3>1
    <3> QED BY <3>2
  <2>5. ASSUME NEW t \in SUBSET (1 .. k + 1)
        PROVE  g[t] = IF t = {} THEN base ELSE step[<<g[t \ {Max(t)}], Max(t)>>]
    <3>1. CASE k + 1 \in t
      <4>1. t # {} /\ Max(t) = k + 1 /\ t \ {k + 1} \in SUBSET (1 .. k + 1)
        BY <2>3, <3>1
      <4>2. g[t \ {k + 1}] = f[t \ {k + 1}] BY <4>1
      <4>3. g[t] = step[<<f[t \ {k + 1}], k + 1>>] BY <3>1
      <4> HIDE DEF g
      <4> QED BY <4>1, <4>2, <4>3
    <3>2. CASE k + 1 \notin t
      <4>1. t \in SUBSET (1 .. k) BY <2>2, <3>2
      <4>2. g[t] = f[t] BY <3>2
      <4>3. t \ {Max(t)} \in SUBSET (1 .. k + 1) /\ k + 1 \notin t \ {Max(t)}
        BY <3>2
      <4>4. g[t \ {Max(t)}] = f[t \ {Max(t)}] BY <4>3
      <4>5. f[t] = IF t = {} THEN base ELSE step[<<f[t \ {Max(t)}], Max(t)>>]
        BY <2>1, <4>1 DEF Folding
      <4> HIDE DEF g
      <4> QED BY <4>2, <4>4, <4>5
    <3> QED BY <3>1, <3>2
  <2>6. Folding(g, base, step, k + 1)
    <3>1. g = [t \in SUBSET (1 .. k + 1) |-> g[t]] OBVIOUS
    <3> HIDE DEF g
    <3> QED BY <2>5, <3>1 DEF Folding
  <2> QED BY <2>4, <2>6
<1>3. n \in S
  <2>1. S \in SUBSET Nat OBVIOUS
  <2> HIDE DEF S
  <2> QED BY <1>1, <1>2, <2>1, Induction
<1>4. n <= n OBVIOUS
<1> QED BY <1>3, <1>4, Zenon

\* f folds likewise for as long as it stays in Acc.
FoldingIn(f, Acc, base, step, n) ==
    \A t \in SUBSET (1 .. n) :
        /\ t = {} => f[t] = base
        /\ t # {} /\ f[t \ {Max(t)}] \in Acc => f[t] = step[<<f[t \ {Max(t)}], Max(t)>>]

\* g takes the steps one after the other, to where f ends.
Chained(g, f, Acc, base, step, n) ==
    /\ g \in [0 .. n -> Acc]
    /\ g[0] = base
    /\ \A k \in 1 .. n : g[k] = step[<<g[k - 1], k>>]
    /\ g[n] = f[1 .. n]

\* A fold is a chain of steps, and stays in the set the steps stay in.
LEMMA FoldChain ==
    ASSUME NEW Acc, NEW base \in Acc, NEW n \in Nat,
           NEW step \in [Acc \X (1 .. n) -> Acc],
           NEW f, FoldingIn(f, Acc, base, step, n)
    PROVE  \E g : Chained(g, f, Acc, base, step, n)
<1>1. f[1 .. 0] = base
  <2>1. 1 .. 0 = {} /\ 1 .. 0 \in SUBSET (1 .. n) OBVIOUS
  <2> QED BY <2>1 DEF FoldingIn
<1>2. ASSUME NEW k \in 1 .. n, f[1 .. k - 1] \in Acc
      PROVE  f[1 .. k] = step[<<f[1 .. k - 1], k>>]
  <2>1. 1 .. k \in SUBSET (1 .. n) /\ k \in 1 .. k /\ k \in Nat /\ k # 0 OBVIOUS
  <2>2. Max(1 .. k) = k /\ (1 .. k) \ {k} = 1 .. k - 1 BY <2>1, MaxOfPrefix
  <2>3. f[(1 .. k) \ {Max(1 .. k)}] \in Acc BY <1>2, <2>2
  <2>4. f[1 .. k] = step[<<f[(1 .. k) \ {Max(1 .. k)}], Max(1 .. k)>>]
    BY <2>1, <2>3 DEF FoldingIn
  <2> QED BY <2>2, <2>4
<1> DEFINE S == {k \in Nat : k <= n => f[1 .. k] \in Acc}
<1>3. 0 \in S BY <1>1
<1>4. ASSUME NEW k \in S PROVE k + 1 \in S
  <2> SUFFICES ASSUME k + 1 <= n PROVE f[1 .. k + 1] \in Acc OBVIOUS
  <2>1. k \in Nat /\ k + 1 \in 1 .. n /\ f[1 .. k] \in Acc /\ (k + 1) - 1 = k
    OBVIOUS
  <2>2. f[1 .. k + 1] = step[<<f[1 .. k], k + 1>>] BY <1>2, <2>1
  <2> QED BY <2>1, <2>2
<1>5. \A k \in 0 .. n : f[1 .. k] \in Acc
  <2>1. S \in SUBSET Nat OBVIOUS
  <2>2. \A k \in Nat : k \in S
    <3> HIDE DEF S
    <3> QED BY <1>3, <1>4, <2>1, Induction
  <2> QED BY <2>2
<1> DEFINE g == [k \in 0 .. n |-> f[1 .. k]]
<1>6. g \in [0 .. n -> Acc] /\ g[0] = base /\ g[n] = f[1 .. n] BY <1>1, <1>5
<1>7. \A k \in 1 .. n : g[k] = step[<<g[k - 1], k>>] BY <1>2, <1>5
<1> HIDE DEF g
<1> QED BY <1>6, <1>7 DEF Chained

-----------------------------------------------------------------------------
\* The sequence operators of the library, step by step.

\* FlattenSeq appends one sequence after the other.
LEMMA FlattenSteps ==
    ASSUME NEW M, NEW q \in Seq(Seq(M))
    PROVE  \E F \in [0 .. Len(q) -> Seq(M)] :
               /\ F[0] = <<>>
               /\ \A k \in 1 .. Len(q) : F[k] = F[k - 1] \o q[k]
               /\ FlattenSeq(q) = F[Len(q)]
<1> DEFINE n == Len(q)
           step == [x \in Seq(M) \X (1 .. n) |-> x[1] \o q[x[2]]]
<1>1. n \in Nat /\ DOMAIN q = 1 .. n /\ \A k \in 1 .. n : q[k] \in Seq(M)
  OBVIOUS
<1>2. step \in [Seq(M) \X (1 .. n) -> Seq(M)] /\ <<>> \in Seq(M) BY <1>1
<1>3. \A a \in Seq(M), k \in 1 .. n : step[<<a, k>>] = a \o q[k] OBVIOUS
<1> HIDE DEF step
<1>4. PICK f : Folding(f, <<>>, step, n) BY <1>1, <1>2, FoldExists
<1>5. FoldingIn(f, Seq(M), <<>>, step, n) BY <1>4 DEF Folding, FoldingIn
<1>6. PICK F : Chained(F, f, Seq(M), <<>>, step, n)
  BY <1>1, <1>2, <1>5, FoldChain
<1>7. \A k \in 1 .. n : F[k] = F[k - 1] \o q[k]
  <2> SUFFICES ASSUME NEW k \in 1 .. n PROVE F[k] = F[k - 1] \o q[k] OBVIOUS
  <2>1. k \in 0 .. n /\ k - 1 \in 0 .. n BY <1>1
  <2> QED BY <1>3, <1>6, <2>1 DEF Chained
<1>13. F \in [0 .. n -> Seq(M)] /\ F[0] = <<>> BY <1>6 DEF Chained
<1> DEFINE Fl(fl) == fl = [i \in 1 .. n |-> IF i = 1 THEN q[i] ELSE fl[i - 1] \o q[i]]
           G == CHOOSE fl : Fl(fl)
<1>8. n # 0 => FlattenSeq(q) = G[n] BY SMTT(60) DEF FlattenSeq
<1>9. Fl(G)
  <2> DEFINE fl == [i \in 1 .. n |-> F[i]]
  <2>1. \A i \in 1 .. n : fl[i] = IF i = 1 THEN q[i] ELSE fl[i - 1] \o q[i]
    <3> SUFFICES ASSUME NEW i \in 1 .. n
                 PROVE  fl[i] = IF i = 1 THEN q[i] ELSE fl[i - 1] \o q[i]
      OBVIOUS
    <3>1. fl[i] = F[i - 1] \o q[i] BY <1>7
    <3>2. CASE i = 1
      <4>1. <<>> \o q[i] = q[i] BY <1>1
      <4>2. F[i - 1] = <<>> BY <1>13, <3>2
      <4> HIDE DEF fl
      <4> QED BY <3>1, <3>2, <4>1, <4>2
    <3>3. CASE i # 1
      <4>1. i - 1 \in 1 .. n BY <1>1, <3>3
      <4> QED BY <3>1, <3>3, <4>1
    <3> QED BY <3>2, <3>3
  <2>2. Fl(fl) BY <2>1
  <2> HIDE DEF fl
  <2> QED BY <2>2
<1> HIDE DEF G
<1>10. \A k \in 1 .. n : G[k] = F[k]
  <2> DEFINE S == {k \in Nat : k \in 1 .. n => G[k] = F[k]}
  <2>1. 0 \in S OBVIOUS
  <2>2. ASSUME NEW k \in S PROVE k + 1 \in S
    <3> SUFFICES ASSUME k + 1 \in 1 .. n PROVE G[k + 1] = F[k + 1] OBVIOUS
    <3>0. k \in Nat /\ (k + 1) - 1 = k OBVIOUS
    <3>1. F[k + 1] = F[k] \o q[k + 1] BY <1>7, <3>0
    <3>2. G[k + 1] = IF k + 1 = 1 THEN q[k + 1] ELSE G[k] \o q[k + 1]
      BY <1>9, <3>0
    <3>3. CASE k = 0
      <4>1. <<>> \o q[k + 1] = q[k + 1] BY <1>1
      <4>2. k + 1 = 1 /\ F[k] = <<>> BY <1>13, <3>3
      <4>3. G[k + 1] = q[k + 1] BY <3>2, <4>2
      <4> QED BY <3>1, <4>1, <4>2, <4>3
    <3>4. CASE k # 0
      <4>1. k \in 1 .. n /\ k + 1 # 1 BY <1>1, <3>0, <3>4
      <4>2. G[k] = F[k] BY <4>1
      <4> QED BY <3>1, <3>2, <4>1, <4>2
    <3> QED BY <3>3, <3>4
  <2>3. S \in SUBSET Nat OBVIOUS
  <2>4. \A k \in Nat : k \in S
    <3> HIDE DEF S
    <3> QED BY <2>1, <2>2, <2>3, Induction
  <2>5. \A k \in 1 .. n : k \in Nat BY <1>1
  <2> QED BY <2>4, <2>5, Zenon
<1>11. FlattenSeq(q) = F[n]
  <2>1. CASE n = 0
    <3>1. FlattenSeq(q) = q BY <2>1 DEF FlattenSeq
    <3>2. q = <<>> BY <2>1
    <3> QED BY <1>13, <2>1, <3>1, <3>2
  <2>2. CASE n # 0 BY <1>1, <1>8, <1>10, <2>2, SMTT(60)
  <2> QED BY <2>1, <2>2
<1> HIDE DEF Fl
<1> QED BY <1>7, <1>11, <1>13

-----------------------------------------------------------------------------
\* Messages, and what the folds of Context make of a sequence of them.

Msg == [id : {"text", "call", "result", "stub"} \X Nat,
        role : {"text", "call", "result"},
        words : Nat, call : Nat, focus : BOOLEAN]

RetainAcc ==
    [out : Seq(Msg), calls : SUBSET Nat, results : SUBSET Nat, removed : Seq(Msg)]

RetainBase == [out |-> <<>>, calls |-> {}, results |-> {}, removed |-> <<>>]

LEMMA RetainType ==
    ASSUME NEW r \in RetainAcc, NEW m \in Msg
    PROVE  RetainStep(r, m) \in RetainAcc
<1>1. Append(r.out, m) \in Seq(Msg) /\ Append(r.removed, m) \in Seq(Msg) /\ m.call \in Nat
  BY DEF RetainAcc, Msg
<1> QED BY <1>1 DEF RetainStep, RetainAcc

\* retain_and_prune takes the messages in turn.
LEMMA RetainedSteps ==
    ASSUME NEW s \in Seq(Msg)
    PROVE  \E g \in [0 .. Len(s) -> RetainAcc] :
               /\ g[0] = RetainBase
               /\ \A k \in 1 .. Len(s) : g[k] = RetainStep(g[k - 1], s[k])
               /\ Retained(s) = g[Len(s)]
<1> DEFINE n == Len(s)
           step == [x \in RetainAcc \X (1 .. n) |-> RetainStep(x[1], s[x[2]])]
           Eq(f) == f = [t \in SUBSET (1 .. n) |->
                            IF t = {} THEN RetainBase
                            ELSE RetainStep(f[t \ {Max(t)}], s[Max(t)])]
           f == CHOOSE f : Eq(f)
<1>1. n \in Nat /\ DOMAIN s = 1 .. n /\ \A k \in 1 .. n : s[k] \in Msg OBVIOUS
<1>2. RetainBase \in RetainAcc BY DEF RetainBase, RetainAcc
<1>3. step \in [RetainAcc \X (1 .. n) -> RetainAcc] BY <1>1, RetainType
<1>4. \A a \in RetainAcc, k \in 1 .. n : step[<<a, k>>] = RetainStep(a, s[k])
  OBVIOUS
<1>5. Retained(s) = f[1 .. n]
  BY <1>1 DEF Retained, FoldLeft, MapThenFoldSet, RetainBase
<1> HIDE DEF step
<1>6. Eq(f)
  <2>1. PICK g \in [SUBSET (1 .. n) -> RetainAcc] : Folding(g, RetainBase, step, n)
    BY <1>1, <1>2, <1>3, FoldExists
  <2>2. ASSUME NEW t \in SUBSET (1 .. n)
        PROVE  g[t] = IF t = {} THEN RetainBase
                      ELSE RetainStep(g[t \ {Max(t)}], s[Max(t)])
    <3>1. t # {} => Max(t) \in 1 .. n BY <1>1, MaxOf
    <3>2. g[t \ {Max(t)}] \in RetainAcc OBVIOUS
    <3>3. g[t] = IF t = {} THEN RetainBase ELSE step[<<g[t \ {Max(t)}], Max(t)>>]
      BY <2>1 DEF Folding
    <3> QED BY <1>4, <3>1, <3>2, <3>3
  <2>3. Eq(g) BY <2>2
  <2> QED BY <2>3
<1> HIDE DEF f
<1>7. FoldingIn(f, RetainAcc, RetainBase, step, n)
  <2> SUFFICES ASSUME NEW t \in SUBSET (1 .. n)
               PROVE  /\ t = {} => f[t] = RetainBase
                      /\ t # {} /\ f[t \ {Max(t)}] \in RetainAcc =>
                             f[t] = step[<<f[t \ {Max(t)}], Max(t)>>]
    BY DEF FoldingIn
  <2>1. t # {} => Max(t) \in 1 .. n BY <1>1, MaxOf
  <2> QED BY <1>4, <1>6, <2>1
<1>8. PICK g : Chained(g, f, RetainAcc, RetainBase, step, n)
  <2>1. n \in Nat OBVIOUS
  <2> HIDE DEF n
  <2> QED BY <1>2, <1>3, <1>7, <2>1, FoldChain
<1>9. \A k \in 1 .. n : g[k] = RetainStep(g[k - 1], s[k])
  <2>1. \A k \in 1 .. n : k - 1 \in 0 .. n BY <1>1
  <2> QED BY <1>4, <1>8, <2>1 DEF Chained
<1>10. g \in [0 .. n -> RetainAcc] /\ g[0] = RetainBase /\ g[n] = f[1 .. n]
  BY <1>8 DEF Chained
<1> QED BY <1>5, <1>9, <1>10

LEMMA CostType ==
    ASSUME NEW m \in Msg
    PROVE  Cost(m) \in Nat /\ Cost(m) = m.words + 4
  BY DEF Cost, Msg

\* token_cost, added up one message after the other.
LEMMA TotalSteps ==
    ASSUME NEW s \in Seq(Msg)
    PROVE  \E g \in [0 .. Len(s) -> Nat] :
               /\ g[0] = 0
               /\ \A k \in 1 .. Len(s) : g[k] = g[k - 1] + Cost(s[k])
               /\ TotalCost(s) = g[Len(s)]
<1> DEFINE q == s
           n == Len(q)
           step == [x \in Nat \X (1 .. n) |-> x[1] + Cost(q[x[2]])]
           Eq(f) == f = [t \in SUBSET (1 .. n) |->
                            IF t = {} THEN 0
                            ELSE f[t \ {Max(t)}] + Cost(q[Max(t)])]
           f == CHOOSE f : Eq(f)
<1>1. n \in Nat /\ DOMAIN q = 1 .. n /\ \A k \in 1 .. n : q[k] \in Msg OBVIOUS
<1>2. 0 \in Nat OBVIOUS
<1>3. step \in [Nat \X (1 .. n) -> Nat] BY <1>1, CostType
<1>4. \A a \in Nat, k \in 1 .. n : step[<<a, k>>] = a + Cost(q[k]) OBVIOUS
<1>5. TotalCost(s) = f[1 .. n] BY <1>1 DEF TotalCost, FoldLeft, MapThenFoldSet
<1> HIDE DEF step
<1>6. Eq(f)
  <2>1. PICK g \in [SUBSET (1 .. n) -> Nat] : Folding(g, 0, step, n)
    BY <1>1, <1>2, <1>3, FoldExists
  <2>2. ASSUME NEW t \in SUBSET (1 .. n)
        PROVE  g[t] = IF t = {} THEN 0
                      ELSE g[t \ {Max(t)}] + Cost(q[Max(t)])
    <3>1. t # {} => Max(t) \in 1 .. n BY <1>1, MaxOf
    <3>2. g[t \ {Max(t)}] \in Nat OBVIOUS
    <3>3. g[t] = IF t = {} THEN 0 ELSE step[<<g[t \ {Max(t)}], Max(t)>>]
      BY <2>1 DEF Folding
    <3> QED BY <1>4, <3>1, <3>2, <3>3
  <2>3. Eq(g) BY <2>2
  <2> QED BY <2>3
<1> HIDE DEF f
<1>7. FoldingIn(f, Nat, 0, step, n)
  <2> SUFFICES ASSUME NEW t \in SUBSET (1 .. n)
               PROVE  /\ t = {} => f[t] = 0
                      /\ t # {} /\ f[t \ {Max(t)}] \in Nat =>
                             f[t] = step[<<f[t \ {Max(t)}], Max(t)>>]
    BY DEF FoldingIn
  <2>1. t # {} => Max(t) \in 1 .. n BY <1>1, MaxOf
  <2> QED BY <1>4, <1>6, <2>1
<1>8. PICK g : Chained(g, f, Nat, 0, step, n)
  <2>1. n \in Nat BY <1>1
  <2> HIDE DEF n
  <2> QED BY <1>2, <1>3, <1>7, <2>1, FoldChain
<1>9. \A k \in 1 .. n : g[k] = g[k - 1] + Cost(q[k])
  <2>1. \A k \in 1 .. n : k - 1 \in 0 .. n BY <1>1
  <2> QED BY <1>4, <1>8, <2>1 DEF Chained
<1>10. g \in [0 .. n -> Nat] /\ g[0] = 0 /\ g[n] = f[1 .. n] BY <1>8 DEF Chained
<1> QED BY <1>5, <1>9, <1>10

\* The words rendered, likewise.
LEMMA RenderedSteps ==
    ASSUME NEW s \in Seq(Msg), NEW c \in BOOLEAN
    PROVE  \E g \in [0 .. Len(s) -> Nat] :
               /\ g[0] = (IF c THEN 2 ELSE 0)
               /\ \A k \in 1 .. Len(s) : g[k] = g[k - 1] + s[k].words + 2
               /\ RenderedWords(s, c) = g[Len(s)]
<1> DEFINE q == s
           n == Len(q)
           step == [x \in Nat \X (1 .. n) |-> x[1] + q[x[2]].words + 2]
           Eq(f) == f = [t \in SUBSET (1 .. n) |->
                            IF t = {} THEN (IF c THEN 2 ELSE 0)
                            ELSE f[t \ {Max(t)}] + q[Max(t)].words + 2]
           f == CHOOSE f : Eq(f)
<1>1. n \in Nat /\ DOMAIN q = 1 .. n /\ \A k \in 1 .. n : q[k] \in Msg OBVIOUS
<1>2. (IF c THEN 2 ELSE 0) \in Nat OBVIOUS
<1>3. step \in [Nat \X (1 .. n) -> Nat] BY <1>1, SMTT(60) DEF Msg
<1>4. \A a \in Nat, k \in 1 .. n : step[<<a, k>>] = a + q[k].words + 2 OBVIOUS
<1>5. RenderedWords(s, c) = f[1 .. n]
  BY <1>1 DEF RenderedWords, FoldLeft, MapThenFoldSet
<1> HIDE DEF step
<1>6. Eq(f)
  <2>1. PICK g \in [SUBSET (1 .. n) -> Nat] : Folding(g, (IF c THEN 2 ELSE 0), step, n)
    BY <1>1, <1>2, <1>3, FoldExists
  <2>2. ASSUME NEW t \in SUBSET (1 .. n)
        PROVE  g[t] = IF t = {} THEN (IF c THEN 2 ELSE 0)
                      ELSE g[t \ {Max(t)}] + q[Max(t)].words + 2
    <3>1. t # {} => Max(t) \in 1 .. n BY <1>1, MaxOf
    <3>2. g[t \ {Max(t)}] \in Nat OBVIOUS
    <3>3. g[t] = IF t = {} THEN (IF c THEN 2 ELSE 0) ELSE step[<<g[t \ {Max(t)}], Max(t)>>]
      BY <2>1 DEF Folding
    <3> QED BY <1>4, <3>1, <3>2, <3>3
  <2>3. Eq(g) BY <2>2
  <2> QED BY <2>3
<1> HIDE DEF f
<1>7. FoldingIn(f, Nat, (IF c THEN 2 ELSE 0), step, n)
  <2> SUFFICES ASSUME NEW t \in SUBSET (1 .. n)
               PROVE  /\ t = {} => f[t] = (IF c THEN 2 ELSE 0)
                      /\ t # {} /\ f[t \ {Max(t)}] \in Nat =>
                             f[t] = step[<<f[t \ {Max(t)}], Max(t)>>]
    BY DEF FoldingIn
  <2>1. t # {} => Max(t) \in 1 .. n BY <1>1, MaxOf
  <2> QED BY <1>4, <1>6, <2>1
<1>8. PICK g : Chained(g, f, Nat, (IF c THEN 2 ELSE 0), step, n)
  <2>1. n \in Nat BY <1>1
  <2> HIDE DEF n
  <2> QED BY <1>2, <1>3, <1>7, <2>1, FoldChain
<1>9. \A k \in 1 .. n : g[k] = g[k - 1] + q[k].words + 2
  <2>1. \A k \in 1 .. n : k - 1 \in 0 .. n BY <1>1
  <2> QED BY <1>4, <1>8, <2>1 DEF Chained
<1>10. g \in [0 .. n -> Nat] /\ g[0] = (IF c THEN 2 ELSE 0) /\ g[n] = f[1 .. n]
  BY <1>8 DEF Chained
<1> QED BY <1>5, <1>9, <1>10

-----------------------------------------------------------------------------
\* prioritized_indices.

\* q names the members of S, each once.
Lists(q, S) ==
    /\ q \in Seq(S)
    /\ \A x \in S : \E k \in DOMAIN q : q[k] = x
    /\ \A j, k \in DOMAIN q : q[j] = q[k] => j = k

LEMMA ListsConcat ==
    ASSUME NEW A, NEW B, A \cap B = {},
           NEW a, NEW b, Lists(a, A), Lists(b, B)
    PROVE  Lists(a \o b, A \cup B)
<1> DEFINE c == a \o b
<1>1. a \in Seq(A \cup B) /\ b \in Seq(A \cup B)
  <2>1. \A T, U : T \subseteq U => Seq(T) \subseteq Seq(U) OBVIOUS
  <2> QED BY <2>1 DEF Lists
<1>2. c \in Seq(A \cup B) /\ Len(c) = Len(a) + Len(b) /\ Len(a) \in Nat /\ Len(b) \in Nat
      /\ DOMAIN a = 1 .. Len(a) /\ DOMAIN b = 1 .. Len(b) /\ DOMAIN c = 1 .. Len(c)
  BY <1>1
<1>3. \A k \in DOMAIN c : /\ k <= Len(a) => k \in DOMAIN a /\ c[k] = a[k] /\ a[k] \in A
                          /\ k > Len(a) => /\ k - Len(a) \in DOMAIN b
                                           /\ c[k] = b[k - Len(a)]
                                           /\ b[k - Len(a)] \in B
  BY <1>1, <1>2 DEF Lists
<1>4. ASSUME NEW x \in A \cup B PROVE \E k \in DOMAIN c : c[k] = x
  <2>1. CASE x \in A
    <3>1. PICK k \in DOMAIN a : a[k] = x BY <2>1 DEF Lists
    <3>2. k \in DOMAIN c /\ c[k] = x BY <1>2, <1>3, <3>1
    <3> QED BY <3>2
  <2>2. CASE x \in B
    <3>1. PICK k \in DOMAIN b : b[k] = x BY <2>2 DEF Lists
    <3>2. Len(a) + k \in DOMAIN c /\ Len(a) + k > Len(a) /\ (Len(a) + k) - Len(a) = k
      BY <1>2
    <3>3. c[Len(a) + k] = x BY <1>3, <3>1, <3>2
    <3> QED BY <3>2, <3>3
  <2> QED BY <2>1, <2>2
<1>5. ASSUME NEW j \in DOMAIN c, NEW k \in DOMAIN c, c[j] = c[k] PROVE j = k
  <2>1. j \in Nat /\ k \in Nat BY <1>2
  <2>2. CASE j <= Len(a) /\ k <= Len(a) BY <1>3, <1>5, <2>2 DEF Lists
  <2>3. CASE j > Len(a) /\ k > Len(a)
    <3>1. j - Len(a) = k - Len(a) BY <1>3, <1>5, <2>3 DEF Lists
    <3> QED BY <1>2, <2>1, <3>1
  <2>4. CASE j <= Len(a) /\ k > Len(a) BY <1>3, <1>5, <2>4
  <2>5. CASE j > Len(a) /\ k <= Len(a) BY <1>3, <1>5, <2>5
  <2> QED BY <1>2, <2>1, <2>2, <2>3, <2>4, <2>5
<1> QED BY <1>2, <1>4, <1>5 DEF Lists

LEMMA ListsOne ==
    ASSUME NEW x
    PROVE  Lists(<<x>>, {x}) /\ Lists(<<>>, {})
  BY DEF Lists

\* The messages on the topic, and those off it, are listed once each.
LEMMA NewestLists ==
    ASSUME NEW s \in Seq(Msg), NEW focus \in BOOLEAN
    PROVE  Lists(Newest(s, focus), {i \in 1 .. Len(s) : s[i].focus = focus})
<1> DEFINE n == Len(s)
           At(i) == IF s[i].focus = focus THEN <<i>> ELSE <<>>
           q == [k \in 1 .. n |-> At(n + 1 - k)]
           L(k) == {i \in n + 1 - k .. n : s[i].focus = focus}
<1>1. n \in Nat OBVIOUS
<1>2. Newest(s, focus) = FlattenSeq(q) BY DEF Newest
<1>3. ASSUME NEW k \in 1 .. n
      PROVE  n + 1 - k \in 1 .. n /\ At(n + 1 - k) \in Seq(1 .. n)
  <2>1. n + 1 - k \in 1 .. n
    <3> HIDE DEF n
    <3> QED BY <1>1
  <2>2. <<n + 1 - k>> \in Seq(1 .. n) /\ <<>> \in Seq(1 .. n) BY <2>1
  <2> QED BY <2>1, <2>2
<1>4. q \in Seq(Seq(1 .. n)) /\ Len(q) = n BY <1>1, <1>3
<1>5. \A k \in 1 .. n : q[k] = At(n + 1 - k) OBVIOUS
<1> HIDE DEF q
<1>6. PICK F \in [0 .. n -> Seq(1 .. n)] :
          /\ F[0] = <<>>
          /\ \A k \in 1 .. n : F[k] = F[k - 1] \o q[k]
          /\ FlattenSeq(q) = F[n]
  <2>1. \E F \in [0 .. Len(q) -> Seq(1 .. n)] :
          /\ F[0] = <<>>
          /\ \A k \in 1 .. Len(q) : F[k] = F[k - 1] \o q[k]
          /\ FlattenSeq(q) = F[Len(q)]
    BY <1>4, FlattenSteps
  <2> QED BY <1>4, <2>1
<1> DEFINE S == {k \in Nat : k <= n => Lists(F[k], L(k))}
<1> HIDE DEF n
<1>7. 0 \in S
  <2>1. L(0) = {} BY <1>1
  <2> QED BY <1>6, <2>1, ListsOne
<1>8. ASSUME NEW k \in S PROVE k + 1 \in S
  <2>0. k \in Nat /\ (k <= n => Lists(F[k], L(k)))
    <3> HIDE DEF L
    <3> QED OBVIOUS
  <2> SUFFICES ASSUME k + 1 <= n PROVE Lists(F[k + 1], L(k + 1))
    <3> HIDE DEF L
    <3> QED BY <2>0
  <2> HIDE DEF S
  <2>1. /\ k + 1 \in 1 .. n /\ (k + 1) - 1 = k /\ n - k \in 1 .. n
        /\ n + 1 - (k + 1) = n - k /\ n + 1 - k = (n - k) + 1
    BY <1>1, <2>0
  <2>2. Lists(F[k], L(k)) BY <1>1, <2>0
  <2>3. F[k + 1] = F[k] \o At(n - k) BY <1>5, <1>6, <2>1
  <2>4. /\ n - k .. n = ((n - k) + 1 .. n) \cup {n - k}
        /\ ((n - k) + 1 .. n) \cap {n - k} = {}
    BY <1>1, <2>1, SMTT(60)
  <2>5. CASE s[n - k].focus = focus
    <3>1. L(k + 1) = L(k) \cup {n - k} /\ L(k) \cap {n - k} = {}
      <4> DEFINE P(i) == s[i].focus = focus
      <4>1. P(n - k) BY <2>5
      <4> HIDE DEF P
      <4>2. L(k + 1) = {i \in n - k .. n : P(i)} /\ L(k) = {i \in (n - k) + 1 .. n : P(i)}
        BY <2>1 DEF P
      <4> HIDE DEF L
      <4> QED BY <2>4, <4>1, <4>2
    <3>2. Lists(<<n - k>>, {n - k}) BY ListsOne
    <3>3. At(n - k) = <<n - k>> BY <2>5
    <3> HIDE DEF L, At
    <3>4. Lists(F[k] \o <<n - k>>, L(k) \cup {n - k})
      BY <2>2, <3>1, <3>2, ListsConcat
    <3> QED BY <2>3, <3>1, <3>3, <3>4
  <2>6. CASE s[n - k].focus # focus
    <3>1. L(k + 1) = L(k)
      <4> DEFINE P(i) == s[i].focus = focus
      <4>1. ~ P(n - k) BY <2>6
      <4> HIDE DEF P
      <4>2. L(k + 1) = {i \in n - k .. n : P(i)} /\ L(k) = {i \in (n - k) + 1 .. n : P(i)}
        BY <2>1 DEF P
      <4> HIDE DEF L
      <4> QED BY <2>4, <4>1, <4>2
    <3>2. At(n - k) = <<>> BY <2>6
    <3>3. F[k] \o <<>> = F[k] BY <1>1, <2>0
    <3> HIDE DEF L, At
    <3> QED BY <2>2, <2>3, <3>1, <3>2, <3>3
  <2> QED BY <2>5, <2>6
<1>9. Lists(F[n], L(n))
  <2>1. S \in SUBSET Nat OBVIOUS
  <2>2. n \in S
    <3> HIDE DEF S
    <3> QED BY <1>1, <1>7, <1>8, <2>1, Induction
  <2> HIDE DEF L
  <2> QED BY <1>1, <2>2
<1>10. L(n) = {i \in 1 .. Len(s) : s[i].focus = focus} BY <1>1 DEF n
<1> QED BY <1>2, <1>6, <1>9, <1>10

LEMMA PrioritizedLists ==
    ASSUME NEW s \in Seq(Msg)
    PROVE  Lists(Prioritized(s), 1 .. Len(s))
<1> DEFINE On(focus) == {i \in 1 .. Len(s) : s[i].focus = focus}
<1>1. Lists(Newest(s, TRUE), On(TRUE)) /\ Lists(Newest(s, FALSE), On(FALSE))
  BY NewestLists
<1>2. On(TRUE) \cap On(FALSE) = {} OBVIOUS
<1>3. On(TRUE) \cup On(FALSE) = 1 .. Len(s)
  <2>1. \A i \in 1 .. Len(s) : s[i] \in Msg OBVIOUS
  <2> QED BY <2>1 DEF Msg
<1> HIDE DEF On
<1>4. Lists(Newest(s, TRUE) \o Newest(s, FALSE), On(TRUE) \cup On(FALSE))
  BY <1>1, <1>2, ListsConcat
<1> QED BY <1>3, <1>4 DEF Prioritized

-----------------------------------------------------------------------------
\* prune_to_budget, one message after the other in that order.

SelectAcc(s) ==
    [kept : SUBSET (1 .. Len(s)), total : Nat, cut : 0 .. Len(s), removed : Seq(Msg)]

SelectBase == [kept |-> {}, total |-> 0, cut |-> 0, removed |-> <<>>]

LEMMA MinOfTwo ==
    ASSUME NEW a \in Int, NEW b \in Int
    PROVE  Min({a, b}) = IF a <= b THEN a ELSE b
<1>1. \E x \in {a, b} : \A y \in {a, b} : x <= y OBVIOUS
<1>2. Min({a, b}) \in {a, b} /\ \A y \in {a, b} : Min({a, b}) <= y
  BY <1>1 DEF Min
<1> QED BY <1>2

\* A message cut down to a budget of more than its own tokens costs no more.
LEMMA TruncatedCost ==
    ASSUME NEW m \in Msg, NEW tokens \in Nat, tokens > 4
    PROVE  /\ Truncated(m, tokens) \in Msg
           /\ Cost(Truncated(m, tokens)) <= tokens
           /\ Truncated(m, tokens).id = m.id
           /\ Truncated(m, tokens).role = m.role
<1> DEFINE w == Min({m.words, tokens - 4})
<1>1. m.words \in Nat /\ tokens - 4 \in Nat BY DEF Msg
<1>2. w \in Nat /\ w <= tokens - 4 BY <1>1, MinOfTwo
<1>3. Truncated(m, tokens) = [m EXCEPT !.words = w] BY DEF Truncated, Msg
<1> HIDE DEF w
<1>4. [m EXCEPT !.words = w] \in Msg /\ [m EXCEPT !.words = w].words = w
      /\ [m EXCEPT !.words = w].id = m.id /\ [m EXCEPT !.words = w].role = m.role
  BY <1>2 DEF Msg
<1>5. Cost([m EXCEPT !.words = w]) = w + 4 BY <1>4 DEF Cost
<1> QED BY <1>2, <1>3, <1>4, <1>5

LEMMA PruneType ==
    ASSUME NEW s \in Seq(Msg), NEW tokens \in Nat,
           NEW p \in SelectAcc(s), NEW i \in 1 .. Len(s)
    PROVE  PruneStep(s, tokens, p, i) \in SelectAcc(s)
<1>1. s[i] \in Msg OBVIOUS
<1>2. Cost(s[i]) \in Nat /\ Append(p.removed, s[i]) \in Seq(Msg)
  BY <1>1, CostType DEF SelectAcc
<1>3. tokens > 4 => Cost(Truncated(s[i], tokens)) \in Nat
  BY <1>1, TruncatedCost, CostType
<1>4. /\ p.total + Cost(s[i]) \in Nat /\ i \in 0 .. Len(s)
      /\ p.kept \cup {i} \in SUBSET (1 .. Len(s)) /\ {i} \in SUBSET (1 .. Len(s))
  BY <1>2 DEF SelectAcc
<1>5. CASE p.total + Cost(s[i]) <= tokens BY <1>4, <1>5 DEF PruneStep, SelectAcc
<1>6. CASE ~ (p.total + Cost(s[i]) <= tokens) /\ p.kept = {} /\ tokens > 4
  BY <1>3, <1>4, <1>6 DEF PruneStep, SelectAcc
<1>7. CASE ~ (p.total + Cost(s[i]) <= tokens) /\ ~ (p.kept = {} /\ tokens > 4)
  BY <1>2, <1>7 DEF PruneStep, SelectAcc
<1> QED BY <1>5, <1>6, <1>7

\* The fold of PruneStep, as a chain of steps.
LEMMA SelectedSteps ==
    ASSUME NEW s \in Seq(Msg), NEW tokens \in Nat
    PROVE  \E g \in [0 .. Len(Prioritized(s)) -> SelectAcc(s)] :
               /\ g[0] = SelectBase
               /\ \A k \in 1 .. Len(Prioritized(s)) : g[k] = PruneStep(s, tokens, g[k - 1], Prioritized(s)[k])
               /\ Selected(s, tokens) = g[Len(Prioritized(s))]
<1> DEFINE q == Prioritized(s)
           n == Len(q)
           step == [x \in SelectAcc(s) \X (1 .. n) |-> PruneStep(s, tokens, x[1], q[x[2]])]
           Eq(f) == f = [t \in SUBSET (1 .. n) |->
                            IF t = {} THEN SelectBase
                            ELSE PruneStep(s, tokens, f[t \ {Max(t)}], q[Max(t)])]
           f == CHOOSE f : Eq(f)
<1>1. n \in Nat /\ DOMAIN q = 1 .. n /\ \A k \in 1 .. n : q[k] \in 1 .. Len(s)
  BY PrioritizedLists DEF Lists
<1>2. SelectBase \in SelectAcc(s) BY DEF SelectBase, SelectAcc
<1>3. step \in [SelectAcc(s) \X (1 .. n) -> SelectAcc(s)] BY <1>1, PruneType
<1>4. \A a \in SelectAcc(s), k \in 1 .. n : step[<<a, k>>] = PruneStep(s, tokens, a, q[k])
  OBVIOUS
<1>5. Selected(s, tokens) = f[1 .. n]
  BY <1>1 DEF Selected, FoldLeft, MapThenFoldSet, SelectBase
<1> HIDE DEF step
<1>6. Eq(f)
  <2>1. PICK g \in [SUBSET (1 .. n) -> SelectAcc(s)] : Folding(g, SelectBase, step, n)
    BY <1>1, <1>2, <1>3, FoldExists
  <2>2. ASSUME NEW t \in SUBSET (1 .. n)
        PROVE  g[t] = IF t = {} THEN SelectBase
                      ELSE PruneStep(s, tokens, g[t \ {Max(t)}], q[Max(t)])
    <3>1. t # {} => Max(t) \in 1 .. n BY <1>1, MaxOf
    <3>2. g[t \ {Max(t)}] \in SelectAcc(s) OBVIOUS
    <3>3. g[t] = IF t = {} THEN SelectBase ELSE step[<<g[t \ {Max(t)}], Max(t)>>]
      BY <2>1 DEF Folding
    <3> QED BY <1>4, <3>1, <3>2, <3>3
  <2>3. Eq(g) BY <2>2
  <2> QED BY <2>3
<1> HIDE DEF f
<1>7. FoldingIn(f, SelectAcc(s), SelectBase, step, n)
  <2> SUFFICES ASSUME NEW t \in SUBSET (1 .. n)
               PROVE  /\ t = {} => f[t] = SelectBase
                      /\ t # {} /\ f[t \ {Max(t)}] \in SelectAcc(s) =>
                             f[t] = step[<<f[t \ {Max(t)}], Max(t)>>]
    BY DEF FoldingIn
  <2>1. t # {} => Max(t) \in 1 .. n BY <1>1, MaxOf
  <2> QED BY <1>4, <1>6, <2>1
<1>8. PICK g : Chained(g, f, SelectAcc(s), SelectBase, step, n)
  <2>1. n \in Nat BY <1>1
  <2> HIDE DEF n
  <2> QED BY <1>2, <1>3, <1>7, <2>1, FoldChain
<1>9. \A k \in 1 .. n : g[k] = PruneStep(s, tokens, g[k - 1], q[k])
  <2>1. \A k \in 1 .. n : k - 1 \in 0 .. n BY <1>1
  <2> QED BY <1>4, <1>8, <2>1 DEF Chained
<1>10. g \in [0 .. n -> SelectAcc(s)] /\ g[0] = SelectBase /\ g[n] = f[1 .. n]
  BY <1>8 DEF Chained
<1> QED BY <1>5, <1>9, <1>10

-----------------------------------------------------------------------------
\* Calls and results.

CallsOf(s) == {s[i].call : i \in {j \in DOMAIN s : s[j].role = "call"}}
ResultsOf(s) == {s[i].call : i \in {j \in DOMAIN s : s[j].role = "result"}}

\* No id is called twice or answered twice, and every answer comes after
\* its call.
Matched(s) ==
    /\ \A i, j \in DOMAIN s :
           s[i].role = "call" /\ s[j].role = "call" /\ s[i].call = s[j].call => i = j
    /\ \A i, j \in DOMAIN s :
           s[i].role = "result" /\ s[j].role = "result" /\ s[i].call = s[j].call => i = j
    /\ \A j \in DOMAIN s : s[j].role = "result" =>
           \E i \in DOMAIN s : i < j /\ s[i].role = "call" /\ s[i].call = s[j].call

LEMMA CallsAppend ==
    ASSUME NEW s \in Seq(Msg), NEW m \in Msg
    PROVE  /\ CallsOf(Append(s, m)) =
                  CallsOf(s) \cup IF m.role = "call" THEN {m.call} ELSE {}
           /\ ResultsOf(Append(s, m)) =
                  ResultsOf(s) \cup IF m.role = "result" THEN {m.call} ELSE {}
<1> DEFINE n == Len(s)
           t == Append(s, m)
<1>1. /\ n \in Nat /\ DOMAIN s = 1 .. n /\ DOMAIN t = (1 .. n) \cup {n + 1}
      /\ t[n + 1] = m /\ \A k \in 1 .. n : t[k] = s[k]
  OBVIOUS
<1> HIDE DEF n, t
<1> QED BY <1>1, SMTT(60) DEF CallsOf, ResultsOf

LEMMA MatchedAppend ==
    ASSUME NEW s \in Seq(Msg), NEW m \in Msg, Matched(s),
           m.role = "call" => m.call \notin CallsOf(s),
           m.role = "result" => m.call \in CallsOf(s) /\ m.call \notin ResultsOf(s)
    PROVE  Matched(Append(s, m))
<1> DEFINE n == Len(s)
           t == Append(s, m)
<1>1. /\ n \in Nat /\ DOMAIN s = 1 .. n /\ DOMAIN t = (1 .. n) \cup {n + 1}
      /\ t[n + 1] = m /\ \A k \in 1 .. n : t[k] = s[k] /\ k < n + 1
  OBVIOUS
<1> HIDE DEF n, t
<1>2. ASSUME NEW i \in DOMAIN t, NEW j \in DOMAIN t,
             t[i].role = "call", t[j].role = "call", t[i].call = t[j].call
      PROVE  i = j
  <2>1. \A k \in 1 .. n : s[k].role = "call" => s[k].call \in CallsOf(s)
    BY <1>1 DEF CallsOf
  <2> QED BY <1>1, <1>2, <2>1 DEF Matched
<1>3. ASSUME NEW i \in DOMAIN t, NEW j \in DOMAIN t,
             t[i].role = "result", t[j].role = "result", t[i].call = t[j].call
      PROVE  i = j
  <2>1. \A k \in 1 .. n : s[k].role = "result" => s[k].call \in ResultsOf(s)
    BY <1>1 DEF ResultsOf
  <2> QED BY <1>1, <1>3, <2>1 DEF Matched
<1>4. ASSUME NEW j \in DOMAIN t, t[j].role = "result"
      PROVE  \E i \in DOMAIN t : i < j /\ t[i].role = "call" /\ t[i].call = t[j].call
  <2>1. CASE j \in 1 .. n
    <3>1. PICK i \in DOMAIN s : i < j /\ s[i].role = "call" /\ s[i].call = s[j].call
      BY <1>1, <1>4, <2>1 DEF Matched
    <3> QED BY <1>1, <2>1, <3>1
  <2>2. CASE j = n + 1
    <3>1. PICK i \in DOMAIN s : s[i].role = "call" /\ s[i].call = m.call
      BY <1>1, <1>4, <2>2 DEF CallsOf
    <3> QED BY <1>1, <2>2, <3>1
  <2> QED BY <1>1, <2>1, <2>2
<1>5. Matched(t) BY <1>2, <1>3, <1>4 DEF Matched
<1> QED BY <1>5 DEF t

LEMMA NothingMatched ==
    Matched(<<>>) /\ CallsOf(<<>>) = {} /\ ResultsOf(<<>>) = {}
  BY DEF Matched, CallsOf, ResultsOf

\* What retain_and_prune keeps is matched, and it knows the calls and the
\* results it kept.
Knows(r) ==
    /\ Matched(r.out)
    /\ r.calls = CallsOf(r.out)
    /\ r.results = ResultsOf(r.out)

LEMMA RetainKnows ==
    ASSUME NEW r \in RetainAcc, NEW m \in Msg, Knows(r)
    PROVE  Knows(RetainStep(r, m))
<1> DEFINE new == CASE m.role = "call"   -> m.call \notin r.calls
                    [] m.role = "result" -> m.call \in r.calls /\ m.call \notin r.results
                    [] OTHER             -> TRUE
           x == RetainStep(r, m)
<1>1. CASE ~ new
  <2>1. x.out = r.out /\ x.calls = r.calls /\ x.results = r.results
    BY <1>1 DEF RetainStep, RetainAcc
  <2> HIDE DEF x
  <2>2. Knows(x) BY <2>1 DEF Knows
  <2> QED BY <2>2 DEF x
<1>2. CASE new
  <2>1. /\ x.out = Append(r.out, m)
        /\ x.calls = r.calls \cup IF m.role = "call" THEN {m.call} ELSE {}
        /\ x.results = r.results \cup IF m.role = "result" THEN {m.call} ELSE {}
    BY <1>2 DEF RetainStep, RetainAcc
  <2>2. r.out \in Seq(Msg) BY DEF RetainAcc
  <2>3. /\ m.role = "call" => m.call \notin CallsOf(r.out)
        /\ m.role = "result" => m.call \in CallsOf(r.out) /\ m.call \notin ResultsOf(r.out)
    BY <1>2 DEF Knows
  <2>4. Matched(Append(r.out, m)) BY <2>2, <2>3, MatchedAppend DEF Knows
  <2> HIDE DEF x
  <2>5. Knows(x) BY <2>1, <2>2, <2>4, CallsAppend DEF Knows
  <2> QED BY <2>5 DEF x
<1> QED BY <1>1, <1>2

LEMMA RetainedKnows ==
    ASSUME NEW s \in Seq(Msg)
    PROVE  Retained(s) \in RetainAcc /\ Knows(Retained(s))
<1> DEFINE n == Len(s)
<1>1. PICK g \in [0 .. n -> RetainAcc] :
          /\ g[0] = RetainBase
          /\ \A k \in 1 .. n : g[k] = RetainStep(g[k - 1], s[k])
          /\ Retained(s) = g[n]
  BY RetainedSteps
<1>2. n \in Nat /\ \A k \in 1 .. n : s[k] \in Msg OBVIOUS
<1> HIDE DEF n
<1> DEFINE S == {k \in Nat : k <= n => Knows(g[k])}
<1>3. 0 \in S
  <2>1. Knows(RetainBase) BY NothingMatched DEF Knows, RetainBase
  <2> QED BY <1>1, <2>1
<1>4. ASSUME NEW k \in S PROVE k + 1 \in S
  <2> SUFFICES ASSUME k + 1 <= n PROVE Knows(g[k + 1]) OBVIOUS
  <2>1. k \in Nat /\ k + 1 \in 1 .. n /\ (k + 1) - 1 = k /\ g[k] \in RetainAcc /\ Knows(g[k])
    BY <1>2
  <2>2. g[k + 1] = RetainStep(g[k], s[k + 1]) BY <1>1, <2>1
  <2> QED BY <1>2, <2>1, <2>2, RetainKnows
<1>5. n \in S
  <2>1. S \in SUBSET Nat OBVIOUS
  <2> HIDE DEF S
  <2> QED BY <1>2, <1>3, <1>4, <2>1, Induction, SMTT(60)
<1>6. n \in 0 .. n /\ n <= n BY <1>2
<1> QED BY <1>1, <1>5, <1>6

-----------------------------------------------------------------------------
\* insert_missing_tool_stubs.

LEMMA StubType ==
    ASSUME NEW r, NEW m \in Msg
    PROVE  /\ Stub(m.call) \in Msg /\ Stub(m.call).role = "result"
           /\ Stub(m.call).call = m.call
           /\ StubsFor(r, m) \in Seq(Msg)
           /\ StubsFor(r, m) = IF m.role = "call" /\ m.call \notin r.results
                               THEN <<Stub(m.call)>> ELSE <<>>
<1>1. Stub(m.call) \in Msg /\ Stub(m.call).role = "result" /\ Stub(m.call).call = m.call
  BY DEF Stub, Msg
<1>2. <<Stub(m.call)>> \in Seq(Msg) /\ <<>> \in Seq(Msg) BY <1>1
<1> QED BY <1>1, <1>2 DEF StubsFor

\* The messages that are kept, each followed by its stub, and the stubs.
LEMMA SanitizeSteps ==
    ASSUME NEW s \in Seq(Msg), NEW r \in RetainAcc, r = Retained(s)
    PROVE  \E F, G \in [0 .. Len(r.out) -> Seq(Msg)] :
               /\ F[0] = <<>> /\ G[0] = <<>>
               /\ \A k \in 1 .. Len(r.out) :
                      /\ F[k] = F[k - 1] \o (<<r.out[k]>> \o StubsFor(r, r.out[k]))
                      /\ G[k] = G[k - 1] \o StubsFor(r, r.out[k])
               /\ Sanitize(s) = [messages |-> F[Len(r.out)], removed |-> r.removed,
                                 stubbed |-> G[Len(r.out)]]
<1> DEFINE n == Len(r.out)
           q == [k \in 1 .. n |-> <<r.out[k]>> \o StubsFor(r, r.out[k])]
           z == [k \in 1 .. n |-> StubsFor(r, r.out[k])]
<1>1. r.out \in Seq(Msg) BY DEF RetainAcc
<1>2. n \in Nat /\ \A k \in 1 .. n : r.out[k] \in Msg BY <1>1
<1>3. \A k \in 1 .. n : StubsFor(r, r.out[k]) \in Seq(Msg) BY <1>2, StubType
<1>4. \A k \in 1 .. n : <<r.out[k]>> \o StubsFor(r, r.out[k]) \in Seq(Msg)
  BY <1>2, <1>3
<1>5. Sanitize(s) = [messages |-> FlattenSeq(q), removed |-> r.removed, stubbed |-> FlattenSeq(z)]
  BY DEF Sanitize
<1>6. q \in Seq(Seq(Msg)) /\ Len(q) = n /\ z \in Seq(Seq(Msg)) /\ Len(z) = n
  BY <1>2, <1>3, <1>4
<1>7. \A k \in 1 .. n : /\ q[k] = <<r.out[k]>> \o StubsFor(r, r.out[k])
                        /\ z[k] = StubsFor(r, r.out[k])
  OBVIOUS
<1> HIDE DEF q, z
<1>8. PICK F \in [0 .. Len(q) -> Seq(Msg)] :
          /\ F[0] = <<>>
          /\ \A k \in 1 .. Len(q) : F[k] = F[k - 1] \o q[k]
          /\ FlattenSeq(q) = F[Len(q)]
  BY <1>6, FlattenSteps
<1>9. PICK G \in [0 .. Len(z) -> Seq(Msg)] :
          /\ G[0] = <<>>
          /\ \A k \in 1 .. Len(z) : G[k] = G[k - 1] \o z[k]
          /\ FlattenSeq(z) = G[Len(z)]
  BY <1>6, FlattenSteps
<1> HIDE DEF n
<1>10. F \in [0 .. n -> Seq(Msg)] /\ G \in [0 .. n -> Seq(Msg)]
  BY <1>6, <1>8, <1>9
<1>11. \A k \in 1 .. n : /\ F[k] = F[k - 1] \o (<<r.out[k]>> \o StubsFor(r, r.out[k]))
                         /\ G[k] = G[k - 1] \o StubsFor(r, r.out[k])
  BY <1>6, <1>7, <1>8, <1>9, ZenonT(60)
<1>12. Sanitize(s) = [messages |-> F[n], removed |-> r.removed, stubbed |-> G[n]]
  BY <1>5, <1>6, <1>8, <1>9
<1> QED BY <1>8, <1>9, <1>10, <1>11, <1>12 DEF n

LEMMA AppendTwo ==
    ASSUME NEW M, NEW s \in Seq(M), NEW x \in M, NEW y \in M
    PROVE  /\ s \o (<<x>> \o <<y>>) = Append(Append(s, x), y)
           /\ s \o (<<x>> \o <<>>) = Append(s, x)
           /\ s \o <<y>> = Append(s, y)
           /\ s \o <<>> = s
           /\ Append(s, x) \in Seq(M)
  OBVIOUS

\* The first k of a matched sequence: what comes next is new.
LEMMA MatchedPrefix ==
    ASSUME NEW s \in Seq(Msg), Matched(s), NEW k \in Nat, k + 1 <= Len(s)
    PROVE  LET p == SubSeq(s, 1, k)
               m == s[k + 1]
           IN  /\ p \in Seq(Msg) /\ m \in Msg
               /\ SubSeq(s, 1, k + 1) = Append(p, m)
               /\ ResultsOf(p) \subseteq ResultsOf(s)
               /\ ResultsOf(p) \subseteq CallsOf(p)
               /\ m.role = "call" => m.call \notin CallsOf(p)
               /\ m.role = "result" => /\ m.call \in CallsOf(p)
                                       /\ m.call \in ResultsOf(s)
                                       /\ m.call \notin ResultsOf(p)
<1> DEFINE n == Len(s)
           p == SubSeq(s, 1, k)
           m == s[k + 1]
<1>1. /\ n \in Nat /\ DOMAIN s = 1 .. n /\ DOMAIN p = 1 .. k
      /\ p \in Seq(Msg) /\ m \in Msg
      /\ \A j \in 1 .. k : p[j] = s[j] /\ j \in 1 .. n
      /\ k + 1 \in 1 .. n
  OBVIOUS
<1>2. SubSeq(s, 1, k + 1) = Append(p, m) OBVIOUS
<1> HIDE DEF n, p
<1>3. ResultsOf(p) \subseteq ResultsOf(s) BY <1>1 DEF ResultsOf
<1>4. \A j \in 1 .. n : \A i \in DOMAIN s : j <= k + 1 /\ i < j => i \in 1 .. k
  BY <1>1
<1>5. ResultsOf(p) \subseteq CallsOf(p)
  <2> SUFFICES ASSUME NEW j \in 1 .. k, p[j].role = "result"
               PROVE  p[j].call \in CallsOf(p)
    BY <1>1 DEF ResultsOf
  <2>1. PICK i \in DOMAIN s : i < j /\ s[i].role = "call" /\ s[i].call = s[j].call
    BY <1>1 DEF Matched
  <2>2. i \in 1 .. k BY <1>1, <2>1
  <2> QED BY <1>1, <2>1, <2>2 DEF CallsOf
<1>6. m.role = "call" => m.call \notin CallsOf(p)
  <2> SUFFICES ASSUME m.role = "call", NEW i \in 1 .. k, p[i].role = "call", p[i].call = m.call
               PROVE  FALSE
    BY <1>1 DEF CallsOf
  <2>1. i = k + 1 BY <1>1 DEF Matched
  <2> QED BY <2>1
<1>7. m.role = "result" => m.call \in ResultsOf(s) BY <1>1 DEF ResultsOf
<1>8. m.role = "result" => m.call \notin ResultsOf(p)
  <2> SUFFICES ASSUME m.role = "result", NEW i \in 1 .. k, p[i].role = "result",
                      p[i].call = m.call
               PROVE  FALSE
    BY <1>1 DEF ResultsOf
  <2>1. i = k + 1 BY <1>1 DEF Matched
  <2> QED BY <2>1
<1>9. m.role = "result" => m.call \in CallsOf(p)
  <2> SUFFICES ASSUME m.role = "result" PROVE m.call \in CallsOf(p) OBVIOUS
  <2>1. PICK i \in DOMAIN s : i < k + 1 /\ s[i].role = "call" /\ s[i].call = m.call
    BY <1>1 DEF Matched
  <2>2. i \in 1 .. k BY <1>1, <2>1
  <2> QED BY <1>1, <2>1, <2>2 DEF CallsOf
<1> QED BY <1>1, <1>2, <1>3, <1>5, <1>6, <1>7, <1>8, <1>9 DEF p

\* After the stubs every call is answered, and all is still matched.
LEMMA SanitizeMatched ==
    ASSUME NEW s \in Seq(Msg)
    PROVE  /\ Sanitize(s).messages \in Seq(Msg)
           /\ Matched(Sanitize(s).messages)
           /\ CallsOf(Sanitize(s).messages) \subseteq ResultsOf(Sanitize(s).messages)
<1> DEFINE r == Retained(s)
           n == Len(r.out)
           P(k) == SubSeq(r.out, 1, k)
<1>1. r \in RetainAcc /\ Knows(r) BY RetainedKnows
<1>2. r.out \in Seq(Msg) /\ Matched(r.out) /\ r.results = ResultsOf(r.out)
  BY <1>1 DEF RetainAcc, Knows
<1>3. n \in Nat BY <1>2
<1>4. PICK F, G \in [0 .. n -> Seq(Msg)] :
               /\ F[0] = <<>> /\ G[0] = <<>>
               /\ \A k \in 1 .. n :
                      /\ F[k] = F[k - 1] \o (<<r.out[k]>> \o StubsFor(r, r.out[k]))
                      /\ G[k] = G[k - 1] \o StubsFor(r, r.out[k])
               /\ Sanitize(s) = [messages |-> F[n], removed |-> r.removed, stubbed |-> G[n]]
  BY <1>1, SanitizeSteps
<1> HIDE DEF r, n
<1> DEFINE Q(k) == /\ Matched(F[k])
                   /\ CallsOf(F[k]) = CallsOf(P(k))
                   /\ ResultsOf(F[k]) = ResultsOf(P(k)) \cup (CallsOf(P(k)) \ r.results)
           S == {k \in Nat : k <= n => Q(k)}
<1>5. 0 \in S
  <2>1. P(0) = <<>> BY <1>2
  <2>2. Q(0) BY <1>4, <2>1, NothingMatched
  <2> QED BY <2>2
<1>6. ASSUME NEW k \in S PROVE k + 1 \in S
  <2>0. k \in Nat /\ (k <= n => Q(k))
    <3> HIDE DEF Q
    <3> QED OBVIOUS
  <2> SUFFICES ASSUME k + 1 <= n PROVE Q(k + 1)
    <3> HIDE DEF Q
    <3> QED BY <2>0
  <2> HIDE DEF S
  <2> DEFINE m == r.out[k + 1]
             stubs == StubsFor(r, m)
  <2>1. Q(k) /\ k + 1 \in 1 .. n /\ (k + 1) - 1 = k /\ k \in 0 .. n
    <3> HIDE DEF Q
    <3> QED BY <1>3, <2>0
  <2>2. /\ P(k) \in Seq(Msg) /\ m \in Msg
        /\ P(k + 1) = Append(P(k), m)
        /\ ResultsOf(P(k)) \subseteq r.results
        /\ ResultsOf(P(k)) \subseteq CallsOf(P(k))
        /\ m.role = "call" => m.call \notin CallsOf(P(k))
        /\ m.role = "result" => /\ m.call \in CallsOf(P(k))
                                /\ m.call \in r.results
                                /\ m.call \notin ResultsOf(P(k))
    BY <1>2, <2>0, MatchedPrefix DEF n
  <2>3. F[k] \in Seq(Msg) /\ F[k + 1] = F[k] \o (<<m>> \o stubs) BY <1>4, <2>1
  <2> HIDE DEF m, P
  <2> DEFINE t == Append(F[k], m)
  <2>4. t \in Seq(Msg) /\ Matched(t)
    <3>1. /\ m.role = "call" => m.call \notin CallsOf(F[k])
          /\ m.role = "result" => m.call \in CallsOf(F[k]) /\ m.call \notin ResultsOf(F[k])
      BY <2>1, <2>2
    <3> QED BY <2>1, <2>2, <2>3, <3>1, MatchedAppend, AppendTwo
  <2>5. /\ CallsOf(t) = CallsOf(F[k]) \cup IF m.role = "call" THEN {m.call} ELSE {}
        /\ ResultsOf(t) = ResultsOf(F[k]) \cup IF m.role = "result" THEN {m.call} ELSE {}
        /\ CallsOf(P(k + 1)) = CallsOf(P(k)) \cup IF m.role = "call" THEN {m.call} ELSE {}
        /\ ResultsOf(P(k + 1)) = ResultsOf(P(k)) \cup IF m.role = "result" THEN {m.call} ELSE {}
    BY <2>2, <2>3, CallsAppend, ZenonT(60)
  <2>6. CASE m.role = "call" /\ m.call \notin r.results
    <3> DEFINE x == Stub(m.call)
    <3>1. x \in Msg /\ x.role = "result" /\ x.call = m.call /\ stubs = <<x>>
      BY <2>2, <2>6, StubType
    <3> HIDE DEF x, stubs
    <3>2. F[k + 1] = Append(t, x)
      <4>1. F[k] \in Seq(Msg) /\ m \in Msg /\ x \in Msg BY <2>2, <2>3, <3>1
      <4> HIDE DEF t
      <4>2. \A u \in Seq(Msg), a, b \in Msg : u \o (<<a>> \o <<b>>) = Append(Append(u, a), b)
        OBVIOUS
      <4>3. F[k] \o (<<m>> \o <<x>>) = Append(Append(F[k], m), x)
        BY <4>1, <4>2, Zenon
      <4> USE DEF t
      <4> QED BY <2>3, <3>1, <4>3
    <3>3. m.call \in CallsOf(t) /\ m.call \notin ResultsOf(t)
      BY <2>1, <2>2, <2>5, <2>6
    <3> HIDE DEF t
    <3>4. Matched(F[k + 1]) BY <2>4, <3>1, <3>2, <3>3, MatchedAppend
    <3>5. CallsOf(F[k + 1]) = CallsOf(t) /\ ResultsOf(F[k + 1]) = ResultsOf(t) \cup {m.call}
      BY <2>4, <3>1, <3>2, CallsAppend
    <3> QED BY <2>1, <2>2, <2>5, <2>6, <3>4, <3>5
  <2>7. CASE ~ (m.role = "call" /\ m.call \notin r.results)
    <3>1. stubs = <<>> BY <2>2, <2>7, StubType
    <3> HIDE DEF stubs
    <3>2. F[k + 1] = t BY <2>2, <2>3, <3>1, AppendTwo
    <3> HIDE DEF t
    <3> QED BY <2>1, <2>2, <2>4, <2>5, <2>7, <3>2, ZenonT(60)
  <2> QED BY <2>6, <2>7
<1>7. Q(n)
  <2>1. S \in SUBSET Nat OBVIOUS
  <2>2. n \in S
    <3> HIDE DEF S
    <3> QED BY <1>3, <1>5, <1>6, <2>1, Induction
  <2> HIDE DEF Q
  <2> QED BY <1>3, <2>2
<1>8. P(n) = r.out BY <1>2 DEF n
<1>9. CallsOf(F[n]) \subseteq ResultsOf(F[n]) BY <1>2, <1>7, <1>8
<1>10. Sanitize(s).messages = F[n] /\ F[n] \in Seq(Msg) BY <1>3, <1>4
<1> QED BY <1>7, <1>9, <1>10

-----------------------------------------------------------------------------
\* What prune_to_budget selects.

\* The choice while it is made, after the messages of V.
Choosing(s, tokens, p, V) ==
    /\ p.kept \subseteq V
    /\ p.total <= tokens
    /\ p.kept = {} => p.total = 0
    /\ p.cut \in p.kept \cup {0}
    /\ p.cut # 0 => tokens > 4
    /\ \A k \in DOMAIN p.removed : p.total + Cost(p.removed[k]) > tokens

\* Every step keeps to the budget, and what it removes would not have
\* fitted beside what is kept in the end.
LEMMA ChoosingStep ==
    ASSUME NEW s \in Seq(Msg), NEW tokens \in Nat, tokens > 0, NEW p \in SelectAcc(s),
           NEW V, Choosing(s, tokens, p, V), NEW i \in 1 .. Len(s)
    PROVE  Choosing(s, tokens, PruneStep(s, tokens, p, i), V \cup {i})
<1> DEFINE x == PruneStep(s, tokens, p, i)
           c == Cost(s[i])
           R == p.removed
<1>1. s[i] \in Msg /\ c \in Nat /\ p.total \in Nat /\ R \in Seq(Msg) /\ i # 0
      /\ \A k \in DOMAIN R : Cost(R[k]) \in Nat
  BY CostType DEF SelectAcc
<1>2. /\ p.kept \subseteq V /\ p.total <= tokens /\ (p.kept = {} => p.total = 0)
      /\ p.cut \in p.kept \cup {0} /\ (p.cut # 0 => tokens > 4)
      /\ \A k \in DOMAIN R : p.total + Cost(R[k]) > tokens
  BY DEF Choosing
<1>3. CASE p.total + c <= tokens
  <2>1. /\ x.kept = p.kept \cup {i} /\ x.total = p.total + c
        /\ x.cut = p.cut /\ x.removed = R
    BY <1>3 DEF PruneStep, SelectAcc
  <2> HIDE DEF x, c, R
  <2>2. \A k \in DOMAIN R : x.total + Cost(R[k]) > tokens
    BY <1>1, <1>2, <2>1, SMTT(60)
  <2>3. Choosing(s, tokens, x, V \cup {i})
    BY <1>1, <1>2, <1>3, <2>1, <2>2 DEF Choosing
  <2> QED BY <2>3 DEF x
<1>4. CASE ~ (p.total + c <= tokens) /\ p.kept = {} /\ tokens > 4
  <2> DEFINE d == Cost(Truncated(s[i], tokens))
  <2>1. /\ x.kept = {i} /\ x.total = d /\ x.cut = i /\ x.removed = R
    BY <1>4 DEF PruneStep, SelectAcc
  <2>2. d \in Nat /\ d <= tokens BY <1>1, <1>4, TruncatedCost, CostType
  <2> HIDE DEF x, c, d, R
  <2>3. \A k \in DOMAIN R : x.total + Cost(R[k]) > tokens
    BY <1>1, <1>2, <1>4, <2>1, <2>2
  <2>4. Choosing(s, tokens, x, V \cup {i})
    BY <1>1, <1>2, <1>4, <2>1, <2>2, <2>3 DEF Choosing
  <2> QED BY <2>4 DEF x
<1>5. CASE ~ (p.total + c <= tokens) /\ ~ (p.kept = {} /\ tokens > 4)
  <2>1. /\ x.kept = p.kept /\ x.total = p.total /\ x.cut = p.cut
        /\ x.removed = Append(R, s[i])
    BY <1>5 DEF PruneStep, SelectAcc
  <2> DEFINE T == Append(R, s[i])
  <2>2. \A k \in DOMAIN T : (k \in DOMAIN R /\ T[k] = R[k]) \/ T[k] = s[i]
    BY <1>1
  <2> HIDE DEF x, R, T
  <2>3. \A k \in DOMAIN T : p.total + Cost(T[k]) > tokens
    BY <1>1, <1>2, <1>5, <2>2 DEF c
  <2>4. Choosing(s, tokens, x, V \cup {i})
    BY <1>1, <1>2, <2>1, <2>3 DEF Choosing, T
  <2> QED BY <2>4 DEF x
<1> QED BY <1>3, <1>4, <1>5

LEMMA KeptType ==
    ASSUME NEW s \in Seq(Msg), NEW tokens \in Nat, NEW p \in SelectAcc(s),
           p.cut # 0 => tokens > 4, NEW i \in 1 .. Len(s)
    PROVE  KeptAt(s, tokens, p, i) \in Seq(Msg)
<1>1. s[i] \in Msg OBVIOUS
<1>2. i = p.cut => Truncated(s[i], tokens) \in Msg BY <1>1, TruncatedCost
<1> QED BY <1>1, <1>2 DEF KeptAt

-----------------------------------------------------------------------------
\* Sums and counts of sequences of messages.

LEMMA TotalAppend ==
    ASSUME NEW s \in Seq(Msg), NEW m \in Msg
    PROVE  TotalCost(Append(s, m)) = TotalCost(s) + Cost(m) /\ TotalCost(s) \in Nat
<1> DEFINE n == Len(s)
           t == Append(s, m)
<1>1. n \in Nat /\ t \in Seq(Msg) /\ Len(t) = n + 1 /\ t[n + 1] = m /\ \A k \in 1 .. n : t[k] = s[k]
  OBVIOUS
<1>2. PICK g \in [0 .. n -> Nat] :
          g[0] = 0 /\ (\A k \in 1 .. n : g[k] = g[k - 1] + Cost(s[k])) /\ TotalCost(s) = g[n]
  BY TotalSteps
<1> HIDE DEF n, t
<1>3. PICK h \in [0 .. Len(t) -> Nat] :
          h[0] = 0 /\ (\A k \in 1 .. Len(t) : h[k] = h[k - 1] + Cost(t[k])) /\ TotalCost(t) = h[Len(t)]
  BY <1>1, TotalSteps
<1> DEFINE S == {k \in Nat : k <= n => h[k] = g[k]}
<1>4. 0 \in S BY <1>2, <1>3
<1>5. ASSUME NEW k \in S PROVE k + 1 \in S
  <2> SUFFICES ASSUME k + 1 <= n PROVE h[k + 1] = g[k + 1] OBVIOUS
  <2>1. k \in Nat /\ k + 1 \in 1 .. n /\ k + 1 \in 1 .. Len(t) /\ (k + 1) - 1 = k /\ h[k] = g[k]
    BY <1>1
  <2> QED BY <1>1, <1>2, <1>3, <2>1
<1>6. h[n] = g[n]
  <2>1. S \in SUBSET Nat OBVIOUS
  <2>2. n \in S
    <3> HIDE DEF S
    <3> QED BY <1>1, <1>4, <1>5, <2>1, Induction
  <2> QED BY <1>1, <2>2
<1>7. TotalCost(t) = h[n] + Cost(m)
  <2>1. n + 1 \in 1 .. Len(t) /\ (n + 1) - 1 = n BY <1>1
  <2> QED BY <1>1, <1>3, <2>1
<1> QED BY <1>1, <1>2, <1>6, <1>7 DEF t

LEMMA TotalEmpty == TotalCost(<<>>) = 0
<1>1. <<>> \in Seq(Msg) /\ Len(<<>>) = 0 OBVIOUS
<1>2. PICK g \in [0 .. Len(<<>>) -> Nat] : g[0] = 0 /\ TotalCost(<<>>) = g[Len(<<>>)]
  BY <1>1, TotalSteps
<1> QED BY <1>1, <1>2

LEMMA CountAppend ==
    ASSUME NEW s \in Seq(Msg), NEW m \in Msg, NEW id
    PROVE  /\ Count(s, id) \in Nat
           /\ Count(Append(s, m), id) = Count(s, id) + IF m.id = id THEN 1 ELSE 0
<1> DEFINE n == Len(s)
           t == Append(s, m)
           A == {k \in DOMAIN s : s[k].id = id}
           B == {k \in DOMAIN t : t[k].id = id}
<1>1. /\ n \in Nat /\ DOMAIN s = 1 .. n /\ DOMAIN t = (1 .. n) \cup {n + 1}
      /\ t[n + 1] = m /\ \A k \in 1 .. n : t[k] = s[k]
  OBVIOUS
<1>2. n + 1 \notin 1 .. n BY <1>1
<1> HIDE DEF n, t
<1>3. IsFiniteSet(A)
  <2>1. IsFiniteSet(1 .. n) /\ A \subseteq 1 .. n BY <1>1, FS_Interval
  <2> QED BY <2>1, FS_Subset
<1>4. Cardinality(A) \in Nat BY <1>3, FS_CardinalityType
<1>5. CASE m.id = id
  <2>1. B = A \cup {n + 1} /\ n + 1 \notin A BY <1>1, <1>2, <1>5
  <2> HIDE DEF A, B
  <2>2. Cardinality(A \cup {n + 1}) = Cardinality(A) + 1
    BY <1>3, <2>1, FS_AddElement
  <2>3. Count(s, id) = Cardinality(A) /\ Count(t, id) = Cardinality(B)
    BY DEF Count, A, B
  <2> QED BY <1>4, <1>5, <2>1, <2>2, <2>3 DEF t
<1>6. CASE m.id # id
  <2>1. B = A BY <1>1, <1>6
  <2> HIDE DEF A, B
  <2>2. Count(s, id) = Cardinality(A) /\ Count(t, id) = Cardinality(B)
    BY DEF Count, A, B
  <2> QED BY <1>4, <1>6, <2>1, <2>2 DEF t
<1> QED BY <1>5, <1>6

LEMMA CountEmpty ==
    ASSUME NEW id PROVE Count(<<>>, id) = 0
<1>1. {k \in DOMAIN <<>> : <<>>[k].id = id} = {} OBVIOUS
<1> QED BY <1>1, FS_EmptySet DEF Count

\* b holds one message more than a, m.
OneMore(a, b, m) ==
    /\ TotalCost(b) = TotalCost(a) + Cost(m)
    /\ \A id : Count(b, id) = Count(a, id) + IF m.id = id THEN 1 ELSE 0

LEMMA OneMoreHere ==
    ASSUME NEW s \in Seq(Msg), NEW m \in Msg
    PROVE  OneMore(s, Append(s, m), m)
  BY TotalAppend, CountAppend DEF OneMore

LEMMA OneMoreBefore ==
    ASSUME NEW a \in Seq(Msg), NEW b \in Seq(Msg), NEW m \in Msg, NEW x \in Msg,
           OneMore(a, b, m)
    PROVE  OneMore(Append(a, x), Append(b, x), m)
<1> DEFINE c == Append(a, x)
           d == Append(b, x)
<1>1. /\ TotalCost(a) \in Nat /\ TotalCost(b) \in Nat /\ Cost(x) \in Nat /\ Cost(m) \in Nat
      /\ TotalCost(c) = TotalCost(a) + Cost(x) /\ TotalCost(d) = TotalCost(b) + Cost(x)
  BY TotalAppend, CostType
<1>2. \A id : /\ Count(a, id) \in Nat /\ Count(b, id) \in Nat
              /\ Count(c, id) = Count(a, id) + IF x.id = id THEN 1 ELSE 0
              /\ Count(d, id) = Count(b, id) + IF x.id = id THEN 1 ELSE 0
  BY CountAppend
<1> HIDE DEF c, d
<1>3. TotalCost(d) = TotalCost(c) + Cost(m) BY <1>1 DEF OneMore
<1>4. ASSUME NEW id
      PROVE  Count(d, id) = Count(c, id) + IF m.id = id THEN 1 ELSE 0
  <2>1. Count(b, id) = Count(a, id) + IF m.id = id THEN 1 ELSE 0 BY DEF OneMore
  <2> QED BY <1>2, <2>1
<1>5. OneMore(c, d, m) BY <1>3, <1>4 DEF OneMore
<1> QED BY <1>5 DEF c, d

\* Every sequence of q has at most one message; z has m as its i-th.
AtMostOne(q) == \A k \in 1 .. Len(q) : q[k] = <<>> \/ \E x \in Msg : q[k] = <<x>>

Filled(q, z, i, m) ==
    /\ Len(z) = Len(q) /\ i \in 1 .. Len(q)
    /\ q[i] = <<>> /\ z[i] = <<m>>
    /\ \A k \in 1 .. Len(q) : k # i => z[k] = q[k]

\* One message more in one of the sequences is one more in all of them.
LEMMA FlattenOneMore ==
    ASSUME NEW q \in Seq(Seq(Msg)), NEW z \in Seq(Seq(Msg)), NEW i, NEW m \in Msg,
           AtMostOne(q), Filled(q, z, i, m)
    PROVE  OneMore(FlattenSeq(q), FlattenSeq(z), m)
<1> DEFINE n == Len(q)
<1>1. PICK F \in [0 .. n -> Seq(Msg)] :
          /\ F[0] = <<>>
          /\ \A k \in 1 .. n : F[k] = F[k - 1] \o q[k]
          /\ FlattenSeq(q) = F[n]
  BY FlattenSteps
<1>2. PICK G \in [0 .. Len(z) -> Seq(Msg)] :
          /\ G[0] = <<>>
          /\ \A k \in 1 .. Len(z) : G[k] = G[k - 1] \o z[k]
          /\ FlattenSeq(z) = G[Len(z)]
  BY FlattenSteps
<1>3. n \in Nat /\ Len(z) = n /\ i \in 1 .. n BY DEF Filled
<1>9. \A k \in 1 .. n : k # i => z[k] = q[k] BY DEF Filled
<1> HIDE DEF n
<1> DEFINE P(k) == IF k < i THEN G[k] = F[k] ELSE OneMore(F[k], G[k], m)
           S == {k \in Nat : k <= n => P(k)}
<1>4. 0 \in S BY <1>1, <1>2, <1>3
<1>5. ASSUME NEW k \in S PROVE k + 1 \in S
  <2>0. k \in Nat /\ (k <= n => P(k))
    <3> HIDE DEF P
    <3> QED OBVIOUS
  <2> SUFFICES ASSUME k + 1 <= n PROVE P(k + 1)
    <3> HIDE DEF P
    <3> QED BY <2>0
  <2> HIDE DEF S
  <2>1. /\ k + 1 \in 1 .. n /\ (k + 1) - 1 = k /\ k \in 0 .. n /\ i \in Nat /\ k <= n
    BY <1>3, <2>0
  <2>2. F[k] \in Seq(Msg) /\ G[k] \in Seq(Msg) BY <1>3, <2>1
  <2>3. F[k + 1] = F[k] \o q[k + 1] /\ G[k + 1] = G[k] \o z[k + 1]
    BY <1>1, <1>2, <1>3, <2>1
  <2>4. P(k) BY <2>0, <2>1
  <2>5. CASE k + 1 < i
    <3>1. G[k] = F[k] BY <2>1, <2>4, <2>5
    <3>2. z[k + 1] = q[k + 1] BY <1>9, <2>1, <2>5
    <3> QED BY <2>3, <2>5, <3>1, <3>2
  <2>6. CASE k + 1 = i
    <3>1. G[k] = F[k] BY <2>1, <2>4, <2>6
    <3>2. q[k + 1] = <<>> /\ z[k + 1] = <<m>> BY <2>6 DEF Filled
    <3>3. F[k + 1] = F[k] /\ G[k + 1] = Append(F[k], m)
      <4>1. F[k] \o <<>> = F[k] /\ F[k] \o <<m>> = Append(F[k], m) BY <2>2
      <4> QED BY <2>3, <3>1, <3>2, <4>1
    <3>4. OneMore(F[k + 1], G[k + 1], m) BY <2>2, <3>3, OneMoreHere
    <3> QED BY <2>1, <2>6, <3>4
  <2>7. CASE k + 1 > i
    <3>1. OneMore(F[k], G[k], m) BY <2>1, <2>4, <2>7
    <3>2. z[k + 1] = q[k + 1] BY <1>9, <2>1, <2>7
    <3>3. OneMore(F[k + 1], G[k + 1], m)
      <4>1. CASE q[k + 1] = <<>>
        <5>1. F[k + 1] = F[k] /\ G[k + 1] = G[k] BY <2>2, <2>3, <3>2, <4>1
        <5> QED BY <3>1, <5>1
      <4>2. CASE \E x \in Msg : q[k + 1] = <<x>>
        <5>1. PICK x \in Msg : q[k + 1] = <<x>> BY <4>2
        <5>2. F[k + 1] = Append(F[k], x) /\ G[k + 1] = Append(G[k], x)
          BY <2>2, <2>3, <3>2, <5>1, SMTT(60)
        <5> QED BY <2>2, <3>1, <5>2, OneMoreBefore
      <4> QED BY <2>1, <4>1, <4>2 DEF AtMostOne, n
    <3> QED BY <2>1, <2>7, <3>3
  <2> HIDE DEF P
  <2> QED BY <2>1, <2>5, <2>6, <2>7
<1>6. P(n)
  <2>1. S \in SUBSET Nat OBVIOUS
  <2>2. n \in S
    <3> HIDE DEF S
    <3> QED BY <1>3, <1>4, <1>5, <2>1, Induction
  <2> HIDE DEF P
  <2> QED BY <1>3, <2>2
<1>7. ~ (n < i) BY <1>3
<1> QED BY <1>1, <1>2, <1>3, <1>6, <1>7

-----------------------------------------------------------------------------
\* The books of prune_to_budget.

KeptSeqs(s, tokens, p) == [i \in 1 .. Len(s) |-> KeptAt(s, tokens, p, i)]

\* The messages of V.
SeenSeqs(s, V) == [i \in 1 .. Len(s) |-> IF i \in V THEN <<s[i]>> ELSE <<>>]

LEMMA KeptSeqsType ==
    ASSUME NEW s \in Seq(Msg), NEW tokens \in Nat, NEW p \in SelectAcc(s),
           p.cut # 0 => tokens > 4
    PROVE  /\ KeptSeqs(s, tokens, p) \in Seq(Seq(Msg))
           /\ Len(KeptSeqs(s, tokens, p)) = Len(s)
           /\ AtMostOne(KeptSeqs(s, tokens, p))
<1> DEFINE q == KeptSeqs(s, tokens, p)
<1>1. \A i \in 1 .. Len(s) : KeptAt(s, tokens, p, i) \in Seq(Msg) BY KeptType
<1>2. q \in Seq(Seq(Msg)) /\ Len(q) = Len(s) BY <1>1 DEF KeptSeqs
<1>3. ASSUME NEW i \in 1 .. Len(s)
      PROVE  q[i] = <<>> \/ \E x \in Msg : q[i] = <<x>>
  <2>1. s[i] \in Msg /\ (i = p.cut => Truncated(s[i], tokens) \in Msg)
    BY TruncatedCost
  <2>2. q[i] = KeptAt(s, tokens, p, i) BY DEF KeptSeqs
  <2> HIDE DEF q
  <2> QED BY <2>1, <2>2 DEF KeptAt
<1> HIDE DEF q
<1>4. AtMostOne(q) BY <1>2, <1>3 DEF AtMostOne
<1> QED BY <1>2, <1>4 DEF q

LEMMA SeenSeqsType ==
    ASSUME NEW s \in Seq(Msg), NEW V
    PROVE  /\ SeenSeqs(s, V) \in Seq(Seq(Msg))
           /\ Len(SeenSeqs(s, V)) = Len(s)
           /\ AtMostOne(SeenSeqs(s, V))
<1> DEFINE q == SeenSeqs(s, V)
<1>1. \A i \in 1 .. Len(s) : s[i] \in Msg /\ <<s[i]>> \in Seq(Msg) /\ <<>> \in Seq(Msg)
  OBVIOUS
<1>2. q \in Seq(Seq(Msg)) /\ Len(q) = Len(s) BY <1>1 DEF SeenSeqs
<1>3. \A i \in 1 .. Len(s) : q[i] = <<>> \/ q[i] = <<s[i]>> BY DEF SeenSeqs
<1> HIDE DEF q
<1>4. AtMostOne(q) BY <1>1, <1>2, <1>3 DEF AtMostOne
<1> QED BY <1>2, <1>4 DEF q

\* What is kept costs the total, and of every id what is kept and what is
\* removed is what has been seen.
Booked(s, tokens, p, V) ==
    /\ TotalCost(FlattenSeq(KeptSeqs(s, tokens, p))) = p.total
    /\ \A id : Count(FlattenSeq(KeptSeqs(s, tokens, p)), id) + Count(p.removed, id)
                   = Count(FlattenSeq(SeenSeqs(s, V)), id)

LEMMA FlattenType ==
    ASSUME NEW M, NEW q \in Seq(Seq(M))
    PROVE  FlattenSeq(q) \in Seq(M)
<1>1. PICK F \in [0 .. Len(q) -> Seq(M)] : FlattenSeq(q) = F[Len(q)]
  BY FlattenSteps
<1>2. Len(q) \in 0 .. Len(q) OBVIOUS
<1> QED BY <1>1, <1>2

LEMMA SeenStep ==
    ASSUME NEW s \in Seq(Msg), NEW V, NEW i \in 1 .. Len(s), i \notin V
    PROVE  OneMore(FlattenSeq(SeenSeqs(s, V)), FlattenSeq(SeenSeqs(s, V \cup {i})), s[i])
<1>1. s[i] \in Msg OBVIOUS
<1>2. Filled(SeenSeqs(s, V), SeenSeqs(s, V \cup {i}), i, s[i])
  <2>1. Len(SeenSeqs(s, V)) = Len(s) /\ Len(SeenSeqs(s, V \cup {i})) = Len(s)
    BY SeenSeqsType
  <2>2. /\ SeenSeqs(s, V)[i] = <<>> /\ SeenSeqs(s, V \cup {i})[i] = <<s[i]>>
        /\ \A k \in 1 .. Len(s) : k # i => SeenSeqs(s, V \cup {i})[k] = SeenSeqs(s, V)[k]
    BY DEF SeenSeqs
  <2> QED BY <2>1, <2>2 DEF Filled
<1> QED BY <1>1, <1>2, SeenSeqsType, FlattenOneMore

LEMMA BookedStep ==
    ASSUME NEW s \in Seq(Msg), NEW tokens \in Nat, tokens > 0, NEW p \in SelectAcc(s),
           NEW V, Choosing(s, tokens, p, V), Booked(s, tokens, p, V),
           NEW i \in 1 .. Len(s), i \notin V
    PROVE  Booked(s, tokens, PruneStep(s, tokens, p, i), V \cup {i})
<1> DEFINE x == PruneStep(s, tokens, p, i)
           c == Cost(s[i])
           R == p.removed
           a == FlattenSeq(KeptSeqs(s, tokens, p))
           b == FlattenSeq(KeptSeqs(s, tokens, x))
           u == FlattenSeq(SeenSeqs(s, V))
           v == FlattenSeq(SeenSeqs(s, V \cup {i}))
<1>1. s[i] \in Msg /\ c \in Nat /\ p.total \in Nat /\ R \in Seq(Msg) /\ i # 0
  BY CostType DEF SelectAcc
<1>2. /\ p.kept \subseteq V /\ (p.kept = {} => p.total = 0)
      /\ p.cut \in p.kept \cup {0} /\ (p.cut # 0 => tokens > 4)
  BY DEF Choosing
<1>3. x \in SelectAcc(s) /\ Choosing(s, tokens, x, V \cup {i})
  BY PruneType, ChoosingStep
<1>4. x.cut # 0 => tokens > 4 BY <1>3 DEF Choosing
<1>5. /\ KeptSeqs(s, tokens, p) \in Seq(Seq(Msg)) /\ AtMostOne(KeptSeqs(s, tokens, p))
      /\ KeptSeqs(s, tokens, x) \in Seq(Seq(Msg))
      /\ Len(KeptSeqs(s, tokens, p)) = Len(s) /\ Len(KeptSeqs(s, tokens, x)) = Len(s)
  BY <1>2, <1>3, <1>4, KeptSeqsType
<1>6. a \in Seq(Msg) /\ b \in Seq(Msg) BY <1>5, FlattenType
<1>7. OneMore(u, v, s[i]) BY SeenStep
<1>8. u \in Seq(Msg) /\ v \in Seq(Msg) BY SeenSeqsType, FlattenType
<1>9. TotalCost(a) = p.total /\ \A id : Count(a, id) + Count(R, id) = Count(u, id)
  BY DEF Booked
<1>10. \A id : /\ Count(a, id) \in Nat /\ Count(b, id) \in Nat /\ Count(R, id) \in Nat
               /\ Count(u, id) \in Nat /\ Count(v, id) \in Nat
               /\ Count(v, id) = Count(u, id) + IF s[i].id = id THEN 1 ELSE 0
  BY <1>1, <1>6, <1>7, <1>8, CountAppend DEF OneMore
<1>11. CASE p.total + c <= tokens
  <2>1. /\ x.kept = p.kept \cup {i} /\ x.total = p.total + c
        /\ x.cut = p.cut /\ x.removed = R
    BY <1>11 DEF PruneStep, SelectAcc
  <2> HIDE DEF x
  <2>2. /\ KeptAt(s, tokens, p, i) = <<>> /\ KeptAt(s, tokens, x, i) = <<s[i]>>
        /\ \A k : k # i => KeptAt(s, tokens, x, k) = KeptAt(s, tokens, p, k)
    BY <1>1, <1>2, <2>1 DEF KeptAt
  <2>3. Filled(KeptSeqs(s, tokens, p), KeptSeqs(s, tokens, x), i, s[i])
    <3>1. /\ KeptSeqs(s, tokens, p)[i] = <<>> /\ KeptSeqs(s, tokens, x)[i] = <<s[i]>>
          /\ \A k \in 1 .. Len(s) : k # i =>
                 KeptSeqs(s, tokens, x)[k] = KeptSeqs(s, tokens, p)[k]
      BY <2>2 DEF KeptSeqs
    <3> QED BY <1>5, <3>1 DEF Filled
  <2>4. OneMore(a, b, s[i]) BY <1>1, <1>5, <2>3, FlattenOneMore
  <2> HIDE DEF a, b, u, v, c, R
  <2>5. TotalCost(b) = x.total BY <1>9, <2>1, <2>4 DEF OneMore, c
  <2>6. ASSUME NEW id PROVE Count(b, id) + Count(x.removed, id) = Count(v, id)
    <3>1. Count(b, id) = Count(a, id) + IF s[i].id = id THEN 1 ELSE 0
      BY <2>4 DEF OneMore
    <3>2. Count(a, id) + Count(R, id) = Count(u, id) BY <1>9
    <3> QED BY <1>10, <2>1, <3>1, <3>2, SMTT(60)
  <2> QED BY <2>5, <2>6 DEF Booked, a, b, u, v, x
<1>12. CASE ~ (p.total + c <= tokens) /\ p.kept = {} /\ tokens > 4
  <2> DEFINE m == Truncated(s[i], tokens)
  <2>1. /\ x.kept = {i} /\ x.total = Cost(m) /\ x.cut = i /\ x.removed = R
    BY <1>12 DEF PruneStep, SelectAcc
  <2>2. m \in Msg /\ m.id = s[i].id BY <1>1, <1>12, TruncatedCost
  <2>0. Cost(m) \in Nat BY <2>2, CostType
  <2> HIDE DEF x, m
  <2>3. /\ KeptAt(s, tokens, p, i) = <<>> /\ KeptAt(s, tokens, x, i) = <<m>>
        /\ \A k : k # i => KeptAt(s, tokens, x, k) = KeptAt(s, tokens, p, k)
    BY <1>12, <2>1 DEF KeptAt, m
  <2>4. Filled(KeptSeqs(s, tokens, p), KeptSeqs(s, tokens, x), i, m)
    <3>1. /\ KeptSeqs(s, tokens, p)[i] = <<>> /\ KeptSeqs(s, tokens, x)[i] = <<m>>
          /\ \A k \in 1 .. Len(s) : k # i =>
                 KeptSeqs(s, tokens, x)[k] = KeptSeqs(s, tokens, p)[k]
      BY <2>3 DEF KeptSeqs
    <3> QED BY <1>5, <3>1 DEF Filled
  <2>5. OneMore(a, b, m) BY <1>5, <2>2, <2>4, FlattenOneMore
  <2> HIDE DEF a, b, u, v, c, R
  <2>6. TotalCost(b) = x.total
    BY <1>2, <1>9, <1>12, <2>0, <2>1, <2>5 DEF OneMore
  <2>7. ASSUME NEW id PROVE Count(b, id) + Count(x.removed, id) = Count(v, id)
    <3>1. Count(b, id) = Count(a, id) + IF s[i].id = id THEN 1 ELSE 0
      BY <2>2, <2>5 DEF OneMore
    <3>2. Count(a, id) + Count(R, id) = Count(u, id) BY <1>9
    <3> QED BY <1>10, <2>1, <3>1, <3>2, SMTT(60)
  <2> QED BY <2>6, <2>7 DEF Booked, a, b, u, v, x
<1>13. CASE ~ (p.total + c <= tokens) /\ ~ (p.kept = {} /\ tokens > 4)
  <2>1. /\ x.kept = p.kept /\ x.total = p.total /\ x.cut = p.cut
        /\ x.removed = Append(R, s[i])
    BY <1>13 DEF PruneStep, SelectAcc
  <2> HIDE DEF x
  <2>2. KeptSeqs(s, tokens, x) = KeptSeqs(s, tokens, p)
    BY <2>1 DEF KeptSeqs, KeptAt
  <2>3. b = a BY <2>2
  <2> HIDE DEF a, b, u, v, c, R
  <2>4. TotalCost(b) = x.total BY <1>9, <2>1, <2>3
  <2>5. ASSUME NEW id PROVE Count(b, id) + Count(x.removed, id) = Count(v, id)
    <3>1. Count(x.removed, id) = Count(R, id) + IF s[i].id = id THEN 1 ELSE 0
      BY <1>1, <2>1, CountAppend
    <3>2. Count(a, id) + Count(R, id) = Count(u, id) BY <1>9
    <3> QED BY <1>10, <2>3, <3>1, <3>2
  <2> QED BY <2>4, <2>5 DEF Booked, a, b, u, v, x
<1> QED BY <1>11, <1>12, <1>13

LEMMA FlattenNothing ==
    ASSUME NEW q \in Seq(Seq(Msg)), \A k \in 1 .. Len(q) : q[k] = <<>>
    PROVE  FlattenSeq(q) = <<>>
<1> DEFINE n == Len(q)
<1>1. PICK F \in [0 .. n -> Seq(Msg)] :
          /\ F[0] = <<>>
          /\ \A k \in 1 .. n : F[k] = F[k - 1] \o q[k]
          /\ FlattenSeq(q) = F[n]
  BY FlattenSteps
<1>2. n \in Nat OBVIOUS
<1>3. \A k \in 1 .. n : F[k] = F[k - 1] \o <<>> BY <1>1
<1> HIDE DEF n
<1> DEFINE S == {k \in Nat : k <= n => F[k] = <<>>}
<1>4. 0 \in S BY <1>1
<1>5. ASSUME NEW k \in S PROVE k + 1 \in S
  <2> SUFFICES ASSUME k + 1 <= n PROVE F[k + 1] = <<>> OBVIOUS
  <2>1. k \in Nat /\ k + 1 \in 1 .. n /\ (k + 1) - 1 = k /\ F[k] = <<>> BY <1>2
  <2>2. F[k + 1] = F[k] \o <<>> BY <1>3, <2>1
  <2> QED BY <2>1, <2>2
<1>6. n \in S
  <2>1. S \in SUBSET Nat OBVIOUS
  <2> HIDE DEF S
  <2> QED BY <1>2, <1>4, <1>5, <2>1, Induction
<1> QED BY <1>1, <1>2, <1>6

\* All messages, in turn, are the conversation.
LEMMA FlattenSingles ==
    ASSUME NEW s \in Seq(Msg), NEW q \in Seq(Seq(Msg)), Len(q) = Len(s),
           \A k \in 1 .. Len(s) : q[k] = <<s[k]>>
    PROVE  FlattenSeq(q) = s
<1> DEFINE n == Len(s)
<1>1. PICK F \in [0 .. Len(q) -> Seq(Msg)] :
          /\ F[0] = <<>>
          /\ \A k \in 1 .. Len(q) : F[k] = F[k - 1] \o q[k]
          /\ FlattenSeq(q) = F[Len(q)]
  BY FlattenSteps
<1>2. n \in Nat /\ \A k \in 1 .. n : s[k] \in Msg OBVIOUS
<1>3. \A k \in 1 .. n : F[k] = F[k - 1] \o <<s[k]>> BY <1>1
<1> DEFINE S == {k \in Nat : k <= n => F[k] = SubSeq(s, 1, k)}
<1>4. 0 \in S BY <1>1, SMTT(60)
<1>5. ASSUME NEW k \in S PROVE k + 1 \in S
  <2> SUFFICES ASSUME k + 1 <= n PROVE F[k + 1] = SubSeq(s, 1, k + 1) OBVIOUS
  <2>1. k \in Nat /\ k + 1 \in 1 .. n /\ (k + 1) - 1 = k /\ F[k] = SubSeq(s, 1, k)
    BY <1>2
  <2>2. F[k + 1] = F[k] \o <<s[k + 1]>> BY <1>3, <2>1
  <2>3. SubSeq(s, 1, k) \o <<s[k + 1]>> = SubSeq(s, 1, k + 1) BY <2>1, SMTT(60)
  <2> QED BY <2>1, <2>2, <2>3
<1>6. n \in S
  <2>1. S \in SUBSET Nat OBVIOUS
  <2> HIDE DEF S
  <2> QED BY <1>2, <1>4, <1>5, <2>1, Induction
<1>7. SubSeq(s, 1, n) = s OBVIOUS
<1> QED BY <1>1, <1>2, <1>6, <1>7

LEMMA SeenAll ==
    ASSUME NEW s \in Seq(Msg)
    PROVE  FlattenSeq(SeenSeqs(s, 1 .. Len(s))) = s
<1>1. \A k \in 1 .. Len(s) : SeenSeqs(s, 1 .. Len(s))[k] = <<s[k]>>
  BY DEF SeenSeqs
<1> QED BY <1>1, SeenSeqsType, FlattenSingles, SMTT(60)

\* What is selected in the end, after all messages.
LEMMA SelectedBooked ==
    ASSUME NEW s \in Seq(Msg), NEW tokens \in Nat, tokens > 0
    PROVE  /\ Selected(s, tokens) \in SelectAcc(s)
           /\ Choosing(s, tokens, Selected(s, tokens), 1 .. Len(s))
           /\ Booked(s, tokens, Selected(s, tokens), 1 .. Len(s))
<1> DEFINE q == Prioritized(s)
           n == Len(q)
           V(k) == {q[j] : j \in 1 .. k}
<1>1. /\ n \in Nat /\ DOMAIN q = 1 .. n /\ \A k \in 1 .. n : q[k] \in 1 .. Len(s)
      /\ \A x \in 1 .. Len(s) : \E k \in 1 .. n : q[k] = x
      /\ \A j, k \in 1 .. n : q[j] = q[k] => j = k
  BY PrioritizedLists DEF Lists
<1>2. PICK g \in [0 .. n -> SelectAcc(s)] :
          /\ g[0] = SelectBase
          /\ \A k \in 1 .. n : g[k] = PruneStep(s, tokens, g[k - 1], q[k])
          /\ Selected(s, tokens) = g[n]
  BY SelectedSteps
<1> HIDE DEF q, n
<1> DEFINE P(k) == Choosing(s, tokens, g[k], V(k)) /\ Booked(s, tokens, g[k], V(k))
           S == {k \in Nat : k <= n => P(k)}
<1>3. 0 \in S
  <2>1. V(0) = {} OBVIOUS
  <2>2. SelectBase \in SelectAcc(s) /\ SelectBase.cut = 0 /\ SelectBase.kept = {}
        /\ SelectBase.total = 0 /\ SelectBase.removed = <<>>
    BY DEF SelectBase, SelectAcc
  <2>3. Choosing(s, tokens, SelectBase, {}) BY <2>2 DEF Choosing
  <2>4. FlattenSeq(KeptSeqs(s, tokens, SelectBase)) = <<>>
    <3>1. \A k \in 1 .. Len(s) : KeptSeqs(s, tokens, SelectBase)[k] = <<>>
      BY <2>2 DEF KeptSeqs, KeptAt
    <3>2. /\ KeptSeqs(s, tokens, SelectBase) \in Seq(Seq(Msg))
          /\ Len(KeptSeqs(s, tokens, SelectBase)) = Len(s)
      BY <2>2, KeptSeqsType
    <3> QED BY <3>1, <3>2, FlattenNothing
  <2>5. FlattenSeq(SeenSeqs(s, {})) = <<>>
    <3>1. \A k \in 1 .. Len(s) : SeenSeqs(s, {})[k] = <<>> BY DEF SeenSeqs
    <3>2. SeenSeqs(s, {}) \in Seq(Seq(Msg)) /\ Len(SeenSeqs(s, {})) = Len(s)
      BY SeenSeqsType
    <3> QED BY <3>1, <3>2, FlattenNothing
  <2>6. Booked(s, tokens, SelectBase, {})
    BY <2>2, <2>4, <2>5, TotalEmpty, CountEmpty DEF Booked
  <2>7. P(0) BY <1>2, <2>1, <2>3, <2>6
  <2> HIDE DEF P
  <2> QED BY <2>7
<1>4. ASSUME NEW k \in S PROVE k + 1 \in S
  <2>0. k \in Nat /\ (k <= n => P(k))
    <3> HIDE DEF P
    <3> QED OBVIOUS
  <2> SUFFICES ASSUME k + 1 <= n PROVE P(k + 1)
    <3> HIDE DEF P
    <3> QED BY <2>0
  <2> HIDE DEF S
  <2>1. k + 1 \in 1 .. n /\ (k + 1) - 1 = k /\ k \in 0 .. n /\ k <= n
    BY <1>1, <2>0
  <2>2. P(k) /\ g[k] \in SelectAcc(s) /\ q[k + 1] \in 1 .. Len(s)
    BY <1>1, <2>0, <2>1
  <2>3. g[k + 1] = PruneStep(s, tokens, g[k], q[k + 1]) BY <1>2, <2>1
  <2>4. V(k + 1) = V(k) \cup {q[k + 1]} BY <2>0
  <2>5. q[k + 1] \notin V(k) BY <1>1, <2>0, <2>1
  <2> HIDE DEF V
  <2> QED BY <2>2, <2>3, <2>4, <2>5, ChoosingStep, BookedStep, SMTT(60)
<1>5. P(n)
  <2>1. S \in SUBSET Nat OBVIOUS
  <2>2. n \in S
    <3> HIDE DEF S
    <3> QED BY <1>1, <1>3, <1>4, <2>1, Induction
  <2> HIDE DEF P
  <2> QED BY <1>1, <2>2
<1>6. V(n) = 1 .. Len(s) BY <1>1
<1> HIDE DEF V
<1>7. n \in 0 .. n BY <1>1
<1> QED BY <1>2, <1>5, <1>6, <1>7

\* prune_to_budget: what it keeps fits, what it removes would not have
\* fitted with it, and nothing is lost.
LEMMA PruneFacts ==
    ASSUME NEW s \in Seq(Msg), NEW tokens \in Nat, tokens > 0
    PROVE  LET kept == Prune(s, tokens).messages
               removed == Prune(s, tokens).removed
           IN  /\ kept \in Seq(Msg) /\ removed \in Seq(Msg)
               /\ TotalCost(kept) <= tokens
               /\ \A k \in DOMAIN removed : TotalCost(kept) + Cost(removed[k]) > tokens
               /\ \A id : Count(kept, id) + Count(removed, id) = Count(s, id)
               /\ (\A k \in DOMAIN s : s[k].role = "text") =>
                      \A k \in DOMAIN kept : kept[k].role = "text"
<1> DEFINE p == Selected(s, tokens)
           kept == FlattenSeq(KeptSeqs(s, tokens, p))
<1>1. p \in SelectAcc(s) /\ Choosing(s, tokens, p, 1 .. Len(s)) /\ Booked(s, tokens, p, 1 .. Len(s))
  BY SelectedBooked
<1>2. Prune(s, tokens).messages = kept /\ Prune(s, tokens).removed = p.removed
  BY DEF Prune, KeptSeqs
<1>3. p.cut # 0 => tokens > 4 BY <1>1 DEF Choosing
<1> HIDE DEF p
<1>4. kept \in Seq(Msg) /\ p.removed \in Seq(Msg)
  BY <1>1, <1>3, KeptSeqsType, FlattenType DEF SelectAcc
<1>5. TotalCost(kept) = p.total BY <1>1 DEF Booked
<1>6. \A id : Count(kept, id) + Count(p.removed, id) = Count(s, id)
  BY <1>1, SeenAll DEF Booked
<1>7. ASSUME \A k \in DOMAIN s : s[k].role = "text"
      PROVE  \A k \in DOMAIN kept : kept[k].role = "text"
  <2> DEFINE Texts == {m \in Msg : m.role = "text"}
             q == KeptSeqs(s, tokens, p)
  <2>1. \A i \in 1 .. Len(s) : KeptAt(s, tokens, p, i) \in Seq(Texts)
    <3> SUFFICES ASSUME NEW i \in 1 .. Len(s) PROVE KeptAt(s, tokens, p, i) \in Seq(Texts)
      OBVIOUS
    <3>1. s[i] \in Texts BY <1>7
    <3>2. i = p.cut => Truncated(s[i], tokens) \in Texts
      BY <1>3, <3>1, TruncatedCost
    <3> HIDE DEF Texts
    <3> QED BY <3>1, <3>2 DEF KeptAt
  <2>2. q \in Seq(Seq(Texts))
    <3> HIDE DEF Texts
    <3> QED BY <2>1 DEF KeptSeqs
  <2>3. kept \in Seq(Texts)
    <3> HIDE DEF Texts, q
    <3>1. FlattenSeq(q) \in Seq(Texts) BY <2>2, FlattenType
    <3> QED BY <3>1 DEF q
  <2> HIDE DEF kept
  <2>4. \A k \in DOMAIN kept : kept[k] \in Texts
    <3> HIDE DEF Texts
    <3> QED BY <2>3
  <2> QED BY <2>4
<1> HIDE DEF kept
<1>8. TotalCost(kept) <= tokens BY <1>1, <1>5 DEF Choosing
<1>9. \A k \in DOMAIN p.removed : TotalCost(kept) + Cost(p.removed[k]) > tokens
  BY <1>1, <1>5 DEF Choosing
<1> QED BY <1>2, <1>4, <1>6, <1>7, <1>8, <1>9

-----------------------------------------------------------------------------
\* The books of sanitize_tool_pairs.

LEMMA CountConcat ==
    ASSUME NEW a \in Seq(Msg), NEW b \in Seq(Msg), NEW id
    PROVE  Count(a \o b, id) = Count(a, id) + Count(b, id)
<1> DEFINE n == Len(b)
           P(k) == SubSeq(b, 1, k)
<1>1. /\ n \in Nat /\ P(0) = <<>> /\ P(n) = b /\ a \o <<>> = a
      /\ \A k \in 1 .. n : b[k] \in Msg
  OBVIOUS
<1>2. ASSUME NEW k \in Nat, k + 1 <= n
      PROVE  /\ P(k) \in Seq(Msg) /\ a \o P(k) \in Seq(Msg)
             /\ P(k + 1) = Append(P(k), b[k + 1])
             /\ a \o Append(P(k), b[k + 1]) = Append(a \o P(k), b[k + 1])
  <2>1. P(k) \in Seq(Msg) /\ P(k + 1) = Append(P(k), b[k + 1]) /\ b[k + 1] \in Msg
    BY <1>2
  <2> HIDE DEF P
  <2> QED BY <2>1, SMTT(60)
<1> HIDE DEF n, P
<1> DEFINE S == {k \in Nat : k <= n => Count(a \o P(k), id) = Count(a, id) + Count(P(k), id)}
<1>3. 0 \in S
  <2>1. Count(a, id) \in Nat
    <3>1. \A x \in Msg : Count(a, id) \in Nat BY CountAppend
    <3>2. Stub(0) \in Msg BY DEF Stub, Msg
    <3> QED BY <3>1, <3>2
  <2>2. Count(P(0), id) = 0 BY <1>1, CountEmpty, Zenon
  <2>3. Count(a \o P(0), id) = Count(a, id) BY <1>1
  <2> QED BY <2>1, <2>2, <2>3
<1>4. ASSUME NEW k \in S PROVE k + 1 \in S
  <2> SUFFICES ASSUME k + 1 <= n
               PROVE  Count(a \o P(k + 1), id) = Count(a, id) + Count(P(k + 1), id)
    OBVIOUS
  <2>1. k \in Nat /\ k + 1 \in 1 .. n
        /\ Count(a \o P(k), id) = Count(a, id) + Count(P(k), id)
    BY <1>1
  <2> DEFINE x == b[k + 1]
             d == IF x.id = id THEN 1 ELSE 0
  <2>2. x \in Msg BY <1>1, <2>1
  <2>3. /\ P(k) \in Seq(Msg) /\ a \o P(k) \in Seq(Msg)
        /\ P(k + 1) = Append(P(k), x) /\ a \o P(k + 1) = Append(a \o P(k), x)
    BY <1>2, <2>1
  <2> DEFINE u == P(k)
             v == a \o P(k)
  <2>4. u \in Seq(Msg) /\ v \in Seq(Msg) /\ P(k + 1) = Append(u, x) /\ a \o P(k + 1) = Append(v, x)
    BY <2>3
  <2> HIDE DEF x, u, v
  <2>5. /\ Count(Append(u, x), id) = Count(u, id) + d /\ Count(u, id) \in Nat
        /\ Count(Append(v, x), id) = Count(v, id) + d /\ Count(v, id) \in Nat
        /\ Count(a, id) \in Nat
    BY <2>2, <2>4, CountAppend
  <2>6. Count(v, id) = Count(a, id) + Count(u, id) BY <2>1 DEF u, v
  <2>7. d \in Nat OBVIOUS
  <2>8. Count(P(k + 1), id) = Count(u, id) + d /\ Count(a \o P(k + 1), id) = Count(v, id) + d
    BY <2>4, <2>5
  <2> HIDE DEF d
  <2> QED BY <2>5, <2>6, <2>7, <2>8
<1>5. n \in S
  <2>1. S \in SUBSET Nat OBVIOUS
  <2> HIDE DEF S
  <2> QED BY <1>1, <1>3, <1>4, <2>1, Induction
<1> QED BY <1>1, <1>5

\* What of the first messages of s is kept, and what is removed.
Sifted(r, p) ==
    /\ \A id : Count(r.out, id) + Count(r.removed, id) = Count(p, id)
    /\ TotalCost(r.out) <= TotalCost(p)
    /\ (\A k \in DOMAIN p : p[k].role = "text") => r.out = p /\ r.removed = <<>>

LEMMA SiftedStep ==
    ASSUME NEW r \in RetainAcc, NEW p \in Seq(Msg), NEW m \in Msg, Sifted(r, p)
    PROVE  Sifted(RetainStep(r, m), Append(p, m))
<1> DEFINE new == CASE m.role = "call"   -> m.call \notin r.calls
                    [] m.role = "result" -> m.call \in r.calls /\ m.call \notin r.results
                    [] OTHER             -> TRUE
           x == RetainStep(r, m)
           t == Append(p, m)
           O == r.out
           R == r.removed
<1>1. O \in Seq(Msg) /\ R \in Seq(Msg) BY DEF RetainAcc
<1>2. /\ \A id : /\ Count(O, id) \in Nat /\ Count(R, id) \in Nat /\ Count(p, id) \in Nat
                 /\ Count(t, id) = Count(p, id) + IF m.id = id THEN 1 ELSE 0
                 /\ Count(Append(O, m), id) = Count(O, id) + IF m.id = id THEN 1 ELSE 0
                 /\ Count(Append(R, m), id) = Count(R, id) + IF m.id = id THEN 1 ELSE 0
      /\ TotalCost(O) \in Nat /\ TotalCost(p) \in Nat /\ Cost(m) \in Nat
      /\ TotalCost(t) = TotalCost(p) + Cost(m)
      /\ TotalCost(Append(O, m)) = TotalCost(O) + Cost(m)
  BY <1>1, CountAppend, TotalAppend, CostType, ZenonT(60)
<1>3. /\ \A id : Count(O, id) + Count(R, id) = Count(p, id)
      /\ TotalCost(O) <= TotalCost(p)
  BY DEF Sifted
<1>4. (\A k \in DOMAIN t : t[k].role = "text") =>
          m.role = "text" /\ new /\ O = p /\ R = <<>>
  <2> SUFFICES ASSUME \A k \in DOMAIN t : t[k].role = "text"
               PROVE  m.role = "text" /\ new /\ O = p /\ R = <<>>
    OBVIOUS
  <2>1. /\ Len(p) \in Nat /\ DOMAIN p = 1 .. Len(p) /\ DOMAIN t = (1 .. Len(p)) \cup {Len(p) + 1}
        /\ t[Len(p) + 1] = m /\ \A k \in 1 .. Len(p) : t[k] = p[k]
    OBVIOUS
  <2> HIDE DEF t
  <2>2. m.role = "text" /\ \A k \in DOMAIN p : p[k].role = "text" BY <2>1
  <2> QED BY <2>2 DEF Sifted
<1>5. CASE ~ new
  <2>1. x.out = O /\ x.removed = Append(R, m) BY <1>5 DEF RetainStep, RetainAcc
  <2>2. ~ \A k \in DOMAIN t : t[k].role = "text" BY <1>4, <1>5
  <2> HIDE DEF x, t, O, R, new
  <2>3. ASSUME NEW id PROVE Count(x.out, id) + Count(x.removed, id) = Count(t, id)
    <3>1. Count(O, id) + Count(R, id) = Count(p, id) BY <1>3
    <3> QED BY <1>2, <2>1, <3>1, SMTT(60)
  <2>4. TotalCost(x.out) <= TotalCost(t) BY <1>2, <1>3, <2>1
  <2> QED BY <2>2, <2>3, <2>4 DEF Sifted, x, t
<1>6. CASE new
  <2>1. x.out = Append(O, m) /\ x.removed = R BY <1>6 DEF RetainStep, RetainAcc
  <2>2. (\A k \in DOMAIN t : t[k].role = "text") => x.out = t /\ x.removed = <<>>
    BY <1>4, <2>1
  <2> HIDE DEF x, t, O, R, new
  <2>3. ASSUME NEW id PROVE Count(x.out, id) + Count(x.removed, id) = Count(t, id)
    <3>1. Count(O, id) + Count(R, id) = Count(p, id) BY <1>3
    <3> QED BY <1>2, <2>1, <3>1, SMTT(60)
  <2>4. TotalCost(x.out) <= TotalCost(t) BY <1>2, <1>3, <2>1
  <2> QED BY <2>2, <2>3, <2>4 DEF Sifted, x, t
<1> QED BY <1>5, <1>6

LEMMA RetainedSifted ==
    ASSUME NEW s \in Seq(Msg)
    PROVE  Sifted(Retained(s), s)
<1> DEFINE n == Len(s)
           P(k) == SubSeq(s, 1, k)
<1>1. PICK g \in [0 .. n -> RetainAcc] :
          /\ g[0] = RetainBase
          /\ \A k \in 1 .. n : g[k] = RetainStep(g[k - 1], s[k])
          /\ Retained(s) = g[n]
  BY RetainedSteps
<1>2. n \in Nat /\ (\A k \in 1 .. n : s[k] \in Msg) /\ P(0) = <<>> /\ P(n) = s
  OBVIOUS
<1>3. ASSUME NEW k \in Nat, k + 1 <= n
      PROVE  P(k) \in Seq(Msg) /\ P(k + 1) = Append(P(k), s[k + 1])
  BY <1>3
<1> HIDE DEF n, P
<1> DEFINE S == {k \in Nat : k <= n => Sifted(g[k], P(k))}
<1>4. 0 \in S
  <2>1. Sifted(RetainBase, <<>>)
    BY CountEmpty, TotalEmpty DEF Sifted, RetainBase
  <2> QED BY <1>1, <1>2, <2>1
<1>5. ASSUME NEW k \in S PROVE k + 1 \in S
  <2> SUFFICES ASSUME k + 1 <= n PROVE Sifted(g[k + 1], P(k + 1)) OBVIOUS
  <2>1. k \in Nat /\ k + 1 \in 1 .. n /\ (k + 1) - 1 = k /\ g[k] \in RetainAcc
        /\ Sifted(g[k], P(k))
    BY <1>2
  <2>2. g[k + 1] = RetainStep(g[k], s[k + 1]) BY <1>1, <2>1
  <2> QED BY <1>2, <1>3, <2>1, <2>2, SiftedStep
<1>6. n \in S
  <2>1. S \in SUBSET Nat OBVIOUS
  <2> HIDE DEF S
  <2> QED BY <1>2, <1>4, <1>5, <2>1, Induction
<1>7. n <= n BY <1>2
<1> QED BY <1>1, <1>2, <1>6, <1>7

\* sanitize_tool_pairs loses nothing, and costs no more than it adds.
LEMMA SanitizeFacts ==
    ASSUME NEW s \in Seq(Msg)
    PROVE  LET z == Sanitize(s)
           IN  /\ z.messages \in Seq(Msg) /\ z.removed \in Seq(Msg) /\ z.stubbed \in Seq(Msg)
               /\ \A id : Count(z.messages, id) + Count(z.removed, id)
                              = Count(s, id) + Count(z.stubbed, id)
               /\ TotalCost(z.messages) <= TotalCost(s) + TotalCost(z.stubbed)
               /\ (\A k \in DOMAIN s : s[k].role = "text") =>
                      z.messages = s /\ z.removed = <<>>
<1> DEFINE r == Retained(s)
           n == Len(r.out)
           O(k) == SubSeq(r.out, 1, k)
<1>1. r \in RetainAcc /\ Sifted(r, s) BY RetainedKnows, RetainedSifted
<1>2. r.out \in Seq(Msg) /\ r.removed \in Seq(Msg) BY <1>1 DEF RetainAcc
<1>3. n \in Nat /\ (\A k \in 1 .. n : r.out[k] \in Msg) /\ O(0) = <<>> /\ O(n) = r.out
  BY <1>2
<1>4. ASSUME NEW k \in Nat, k + 1 <= n
      PROVE  O(k) \in Seq(Msg) /\ O(k + 1) = Append(O(k), r.out[k + 1])
  BY <1>2, <1>4
<1>5. PICK F, G \in [0 .. n -> Seq(Msg)] :
               /\ F[0] = <<>> /\ G[0] = <<>>
               /\ \A k \in 1 .. n :
                      /\ F[k] = F[k - 1] \o (<<r.out[k]>> \o StubsFor(r, r.out[k]))
                      /\ G[k] = G[k - 1] \o StubsFor(r, r.out[k])
               /\ Sanitize(s) = [messages |-> F[n], removed |-> r.removed, stubbed |-> G[n]]
  BY <1>1, SanitizeSteps
<1> HIDE DEF r, n, O
<1> DEFINE Texts(k) == \A j \in 1 .. k : r.out[j].role = "text"
           Q(k) == /\ \A id : Count(F[k], id) = Count(O(k), id) + Count(G[k], id)
                   /\ TotalCost(F[k]) = TotalCost(O(k)) + TotalCost(G[k])
                   /\ Texts(k) => F[k] = O(k)
           S == {k \in Nat : k <= n => Q(k)}
<1>6. 0 \in S
  <2>1. Q(0) BY <1>3, <1>5, CountEmpty, TotalEmpty, SMTT(60)
  <2> HIDE DEF Q
  <2> QED BY <2>1
<1>7. ASSUME NEW k \in S PROVE k + 1 \in S
  <2>0. k \in Nat /\ (k <= n => Q(k))
    <3> HIDE DEF Q
    <3> QED OBVIOUS
  <2> SUFFICES ASSUME k + 1 <= n PROVE Q(k + 1)
    <3> HIDE DEF Q
    <3> QED BY <2>0
  <2> HIDE DEF S
  <2> DEFINE m == r.out[k + 1]
             stubs == StubsFor(r, m)
             a == F[k]
             b == G[k]
             o == O(k)
             f == F[k + 1]
             h == G[k + 1]
             w == O(k + 1)
  <2>0a. k \in Nat BY <2>0
  <2>1. k + 1 \in 1 .. n /\ (k + 1) - 1 = k /\ k \in 0 .. n /\ k <= n
    BY <1>3, <2>0a
  <2>2. m \in Msg /\ a \in Seq(Msg) /\ b \in Seq(Msg) /\ o \in Seq(Msg) /\ w = Append(o, m)
    BY <1>3, <1>4, <2>0, <2>1
  <2>3. f = a \o (<<m>> \o stubs) /\ h = b \o stubs BY <1>5, <2>1
  <2>4. Q(k)
    <3> HIDE DEF Q
    <3> QED BY <2>0, <2>1
  <2>5. /\ \A id : Count(a, id) = Count(o, id) + Count(b, id)
        /\ TotalCost(a) = TotalCost(o) + TotalCost(b)
        /\ Texts(k) => a = o
    BY <2>4
  <2>6. Texts(k + 1) => Texts(k) /\ m.role = "text" BY <2>0
  <2> HIDE DEF Texts
  <2> SUFFICES /\ \A id : Count(f, id) = Count(w, id) + Count(h, id)
               /\ TotalCost(f) = TotalCost(w) + TotalCost(h)
               /\ Texts(k + 1) => f = w
    OBVIOUS
  <2> HIDE DEF m, a, b, o, f, h, w, Q
  <2>7. /\ \A id : /\ Count(a, id) \in Nat /\ Count(b, id) \in Nat /\ Count(o, id) \in Nat
                   /\ Count(Append(a, m), id) = Count(a, id) + IF m.id = id THEN 1 ELSE 0
                   /\ Count(w, id) = Count(o, id) + IF m.id = id THEN 1 ELSE 0
        /\ TotalCost(a) \in Nat /\ TotalCost(b) \in Nat /\ TotalCost(o) \in Nat
        /\ Cost(m) \in Nat
        /\ TotalCost(Append(a, m)) = TotalCost(a) + Cost(m)
        /\ TotalCost(w) = TotalCost(o) + Cost(m)
    BY <2>2, CountAppend, TotalAppend, CostType, SMTT(60)
  <2>8. CASE m.role = "call" /\ m.call \notin r.results
    <3> DEFINE x == Stub(m.call)
               t == Append(a, m)
    <3>1. x \in Msg /\ stubs = <<x>> BY <2>2, <2>8, StubType
    <3> HIDE DEF x, stubs
    <3>2. t \in Seq(Msg) /\ a \o (<<m>> \o <<x>>) = Append(t, x) /\ b \o <<x>> = Append(b, x)
      <4> HIDE DEF t
      <4>1. \A u \in Seq(Msg), c, d \in Msg :
                /\ Append(u, c) \in Seq(Msg)
                /\ u \o (<<c>> \o <<d>>) = Append(Append(u, c), d)
                /\ u \o <<d>> = Append(u, d)
        OBVIOUS
      <4>2. /\ Append(a, m) \in Seq(Msg)
            /\ a \o (<<m>> \o <<x>>) = Append(Append(a, m), x) /\ b \o <<x>> = Append(b, x)
        BY <2>2, <3>1, <4>1, Zenon
      <4> QED BY <4>2 DEF t
    <3>3. f = Append(t, x) /\ h = Append(b, x) BY <2>3, <3>1, <3>2
    <3>4. TotalCost(t) = TotalCost(a) + Cost(m)
          /\ \A id : Count(t, id) = Count(a, id) + IF m.id = id THEN 1 ELSE 0
      BY <2>7
    <3> HIDE DEF t
    <3>5. /\ \A id : /\ Count(f, id) = Count(t, id) + IF x.id = id THEN 1 ELSE 0
                     /\ Count(h, id) = Count(b, id) + IF x.id = id THEN 1 ELSE 0
          /\ TotalCost(f) = TotalCost(t) + Cost(x) /\ TotalCost(h) = TotalCost(b) + Cost(x)
          /\ Cost(x) \in Nat
      BY <2>2, <3>1, <3>2, <3>3, CountAppend, TotalAppend, CostType, ZenonT(60)
    <3>6. ASSUME NEW id PROVE Count(f, id) = Count(w, id) + Count(h, id)
      <4>1. Count(a, id) = Count(o, id) + Count(b, id) BY <2>5
      <4>2. /\ Count(f, id) = Count(t, id) + IF x.id = id THEN 1 ELSE 0
            /\ Count(h, id) = Count(b, id) + IF x.id = id THEN 1 ELSE 0
            /\ Count(t, id) = Count(a, id) + IF m.id = id THEN 1 ELSE 0
        BY <3>4, <3>5
      <4>3. /\ Count(a, id) \in Nat /\ Count(b, id) \in Nat /\ Count(o, id) \in Nat
            /\ Count(w, id) = Count(o, id) + IF m.id = id THEN 1 ELSE 0
        BY <2>7
      <4> QED BY <4>1, <4>2, <4>3
    <3>7. TotalCost(f) = TotalCost(w) + TotalCost(h) BY <2>5, <2>7, <3>4, <3>5
    <3> QED BY <2>6, <2>8, <3>6, <3>7
  <2>9. CASE ~ (m.role = "call" /\ m.call \notin r.results)
    <3>1. stubs = <<>> BY <2>2, <2>9, StubType
    <3> HIDE DEF stubs
    <3>2. f = Append(a, m) /\ h = b
      <4>1. a \o (<<m>> \o <<>>) = Append(a, m) /\ b \o <<>> = b
        BY <2>2, AppendTwo
      <4> QED BY <2>3, <3>1, <4>1
    <3>3. ASSUME NEW id PROVE Count(f, id) = Count(w, id) + Count(h, id)
      <4>1. Count(a, id) = Count(o, id) + Count(b, id) BY <2>5
      <4>2. /\ Count(a, id) \in Nat /\ Count(b, id) \in Nat /\ Count(o, id) \in Nat
            /\ Count(Append(a, m), id) = Count(a, id) + IF m.id = id THEN 1 ELSE 0
            /\ Count(w, id) = Count(o, id) + IF m.id = id THEN 1 ELSE 0
        BY <2>7
      <4> QED BY <3>2, <4>1, <4>2
    <3>4. TotalCost(f) = TotalCost(w) + TotalCost(h) BY <2>5, <2>7, <3>2
    <3>5. Texts(k + 1) => f = w BY <2>2, <2>5, <2>6, <3>2
    <3> QED BY <3>3, <3>4, <3>5
  <2> QED BY <2>8, <2>9
<1>8. Q(n)
  <2>1. S \in SUBSET Nat OBVIOUS
  <2>2. n \in S
    <3> HIDE DEF S
    <3> QED BY <1>3, <1>6, <1>7, <2>1, Induction
  <2> HIDE DEF Q
  <2> QED BY <1>3, <2>2
<1> DEFINE z == Sanitize(s)
<1>9. /\ z.messages = F[n] /\ z.removed = r.removed /\ z.stubbed = G[n]
      /\ F[n] \in Seq(Msg) /\ G[n] \in Seq(Msg)
  BY <1>3, <1>5
<1> HIDE DEF z
<1>10. ASSUME NEW id
       PROVE  Count(z.messages, id) + Count(z.removed, id) = Count(s, id) + Count(z.stubbed, id)
  <2>1. Count(F[n], id) = Count(r.out, id) + Count(G[n], id) BY <1>3, <1>8
  <2>2. Count(r.out, id) + Count(r.removed, id) = Count(s, id)
    BY <1>1 DEF Sifted
  <2>3. /\ Count(r.out, id) \in Nat /\ Count(r.removed, id) \in Nat /\ Count(G[n], id) \in Nat
        /\ Count(s, id) \in Nat
    <3>1. Stub(0) \in Msg BY DEF Stub, Msg
    <3> QED BY <1>2, <1>9, <3>1, CountAppend
  <2> QED BY <1>9, <2>1, <2>2, <2>3
<1>11. TotalCost(z.messages) <= TotalCost(s) + TotalCost(z.stubbed)
  <2>1. TotalCost(F[n]) = TotalCost(r.out) + TotalCost(G[n]) BY <1>3, <1>8
  <2>2. TotalCost(r.out) <= TotalCost(s) BY <1>1 DEF Sifted
  <2>3. TotalCost(r.out) \in Nat /\ TotalCost(s) \in Nat /\ TotalCost(G[n]) \in Nat
    <3>1. Stub(0) \in Msg BY DEF Stub, Msg
    <3> QED BY <1>2, <1>9, <3>1, TotalAppend
  <2> QED BY <1>9, <2>1, <2>2, <2>3
<1>12. ASSUME \A k \in DOMAIN s : s[k].role = "text"
       PROVE  z.messages = s /\ z.removed = <<>>
  <2>1. r.out = s /\ r.removed = <<>> BY <1>1, <1>12 DEF Sifted
  <2>2. Texts(n) BY <1>12, <2>1 DEF n
  <2>3. F[n] = O(n)
    <3> HIDE DEF Texts
    <3> QED BY <1>8, <2>2
  <2> QED BY <1>3, <1>9, <2>1, <2>3
<1> QED BY <1>2, <1>9, <1>10, <1>11, <1>12 DEF z

-----------------------------------------------------------------------------
\* The compression as a whole.

\* The report of the compression: of both its passes.
LEMMA CompressedFacts ==
    ASSUME NEW s \in Seq(Msg), NEW tokens \in Nat, tokens > 0
    PROVE  LET z == Compressed(s, tokens)
           IN  /\ z.messages \in Seq(Msg)
               /\ z.removed \in Seq(Msg) /\ z.stubbed \in Seq(Msg)
               /\ Matched(z.messages) /\ CallsOf(z.messages) \subseteq ResultsOf(z.messages)
               /\ \A id : Count(z.messages, id) + Count(z.removed, id)
                              = Count(s, id) + Count(z.stubbed, id)
               /\ TotalCost(z.messages) <= tokens + TotalCost(z.stubbed)
               /\ (\A k \in DOMAIN s : s[k].role = "text") =>
                      /\ TotalCost(z.messages) <= tokens
                      /\ \A k \in DOMAIN z.removed :
                             TotalCost(z.messages) + Cost(z.removed[k]) > tokens
<1> DEFINE kept == Prune(s, tokens).messages
           cut == Prune(s, tokens).removed
           sane == Sanitize(kept)
           z == Compressed(s, tokens)
<1>1. z.messages = sane.messages /\ z.removed = cut \o sane.removed /\ z.stubbed = sane.stubbed
  BY DEF Compressed, Sanitize
<1>2. /\ kept \in Seq(Msg) /\ cut \in Seq(Msg)
      /\ TotalCost(kept) <= tokens
      /\ \A k \in DOMAIN cut : TotalCost(kept) + Cost(cut[k]) > tokens
      /\ \A id : Count(kept, id) + Count(cut, id) = Count(s, id)
      /\ (\A k \in DOMAIN s : s[k].role = "text") =>
             \A k \in DOMAIN kept : kept[k].role = "text"
  BY PruneFacts
<1> HIDE DEF kept, cut, z
<1>3. /\ sane.messages \in Seq(Msg) /\ sane.removed \in Seq(Msg) /\ sane.stubbed \in Seq(Msg)
      /\ \A id : Count(sane.messages, id) + Count(sane.removed, id)
                     = Count(kept, id) + Count(sane.stubbed, id)
      /\ TotalCost(sane.messages) <= TotalCost(kept) + TotalCost(sane.stubbed)
      /\ (\A k \in DOMAIN kept : kept[k].role = "text") =>
             sane.messages = kept /\ sane.removed = <<>>
  BY <1>2, SanitizeFacts
<1>4. Matched(sane.messages) /\ CallsOf(sane.messages) \subseteq ResultsOf(sane.messages)
  BY <1>2, SanitizeMatched
<1> HIDE DEF sane
<1>5. Stub(0) \in Msg BY DEF Stub, Msg
<1>6. z.removed \in Seq(Msg) BY <1>1, <1>2, <1>3
<1>7. ASSUME NEW id
      PROVE  Count(z.messages, id) + Count(z.removed, id) = Count(s, id) + Count(z.stubbed, id)
  <2>1. Count(z.removed, id) = Count(cut, id) + Count(sane.removed, id)
    BY <1>1, <1>2, <1>3, CountConcat
  <2>2. /\ Count(sane.messages, id) + Count(sane.removed, id)
                 = Count(kept, id) + Count(sane.stubbed, id)
        /\ Count(kept, id) + Count(cut, id) = Count(s, id)
    BY <1>2, <1>3
  <2>3. /\ Count(sane.messages, id) \in Nat /\ Count(sane.removed, id) \in Nat
        /\ Count(sane.stubbed, id) \in Nat
        /\ Count(kept, id) \in Nat /\ Count(cut, id) \in Nat
    BY <1>2, <1>3, <1>5, CountAppend
  <2> DEFINE in == Count(s, id)
             mid == Count(kept, id)
             taken == Count(cut, id)
             out == Count(sane.messages, id)
             gone == Count(sane.removed, id)
             stub == Count(sane.stubbed, id)
  <2> SUFFICES out + (taken + gone) = in + stub BY <1>1, <2>1
  <2>4. out + gone = mid + stub /\ mid + taken = in BY <2>2
  <2>5. out \in Nat /\ gone \in Nat /\ stub \in Nat /\ mid \in Nat /\ taken \in Nat
    BY <2>3
  <2> HIDE DEF in, mid, taken, out, gone, stub
  <2> QED BY <2>4, <2>5
<1>8. TotalCost(z.messages) <= tokens + TotalCost(z.stubbed)
  <2>1. /\ TotalCost(sane.messages) \in Nat /\ TotalCost(kept) \in Nat
        /\ TotalCost(sane.stubbed) \in Nat
    BY <1>2, <1>3, <1>5, TotalAppend
  <2> QED BY <1>1, <1>2, <1>3, <2>1
<1>9. ASSUME \A k \in DOMAIN s : s[k].role = "text"
      PROVE  /\ TotalCost(z.messages) <= tokens
             /\ \A k \in DOMAIN z.removed : TotalCost(z.messages) + Cost(z.removed[k]) > tokens
  <2>1. sane.messages = kept /\ sane.removed = <<>> BY <1>2, <1>3, <1>9
  <2>2. cut \o <<>> = cut BY <1>2
  <2>3. z.messages = kept /\ z.removed = cut BY <1>1, <2>1, <2>2
  <2> QED BY <1>2, <2>3
<1> QED BY <1>1, <1>3, <1>4, <1>6, <1>7, <1>8, <1>9 DEF z

\* Rendering adds two words to a message that was charged four tokens, and
\* two words above them all.
LEMMA RenderedTotal ==
    ASSUME NEW s \in Seq(Msg)
    PROVE  RenderedWords(s, TRUE) + 2 * Len(s) = TotalCost(s) + 2
           /\ RenderedWords(s, TRUE) \in Nat /\ TotalCost(s) \in Nat
<1> DEFINE n == Len(s)
<1>1. PICK g \in [0 .. n -> Nat] :
          /\ g[0] = 2 /\ (\A k \in 1 .. n : g[k] = g[k - 1] + s[k].words + 2)
          /\ RenderedWords(s, TRUE) = g[n]
  <2>1. TRUE \in BOOLEAN /\ (IF TRUE THEN 2 ELSE 0) = 2 OBVIOUS
  <2> QED BY <2>1, RenderedSteps
<1>2. PICK h \in [0 .. n -> Nat] :
          h[0] = 0 /\ (\A k \in 1 .. n : h[k] = h[k - 1] + Cost(s[k])) /\ TotalCost(s) = h[n]
  BY TotalSteps
<1>3. n \in Nat /\ \A k \in 1 .. n : s[k] \in Msg OBVIOUS
<1> HIDE DEF n
<1> DEFINE S == {k \in Nat : k <= n => g[k] + 2 * k = h[k] + 2}
<1>4. 0 \in S BY <1>1, <1>2
<1>5. ASSUME NEW k \in S PROVE k + 1 \in S
  <2> SUFFICES ASSUME k + 1 <= n PROVE g[k + 1] + 2 * (k + 1) = h[k + 1] + 2
    OBVIOUS
  <2>1. k \in Nat /\ k + 1 \in 1 .. n /\ (k + 1) - 1 = k /\ k \in 0 .. n
        /\ g[k] + 2 * k = h[k] + 2
    BY <1>3
  <2>2. s[k + 1].words \in Nat /\ Cost(s[k + 1]) = s[k + 1].words + 4
    BY <1>3, <2>1, CostType DEF Msg
  <2>3. g[k + 1] = g[k] + s[k + 1].words + 2 /\ h[k + 1] = h[k] + Cost(s[k + 1])
    BY <1>1, <1>2, <2>1
  <2>4. g[k] \in Nat /\ h[k] \in Nat BY <1>1, <1>2, <2>1
  <2> DEFINE w == s[k + 1].words
             a == g[k]
             b == h[k]
  <2>5. g[k + 1] = a + w + 2 /\ h[k + 1] = b + (w + 4) /\ a + 2 * k = b + 2
    BY <2>1, <2>2, <2>3
  <2>6. w \in Nat /\ a \in Nat /\ b \in Nat BY <2>2, <2>4
  <2>7. k \in Nat BY <2>1
  <2> HIDE DEF w, a, b, S
  <2>8. (a + w + 2) + 2 * (k + 1) = (b + (w + 4)) + 2 BY <2>5, <2>6, <2>7
  <2> QED BY <2>5, <2>8
<1>6. n \in S
  <2>1. S \in SUBSET Nat OBVIOUS
  <2> HIDE DEF S
  <2> QED BY <1>3, <1>4, <1>5, <2>1, Induction
<1>7. g[n] + 2 * n = h[n] + 2 /\ n \in 0 .. n BY <1>3, <1>6
<1>8. g[n] \in Nat /\ h[n] \in Nat BY <1>7
<1> QED BY <1>1, <1>2, <1>7, <1>8 DEF n

-----------------------------------------------------------------------------
\* The conversation.

MessagesType == messages \in Seq(Msg) /\ budget \in Nat

LEMMA TextType ==
    ASSUME NEW k \in Nat, NEW n \in Nat, NEW f \in BOOLEAN
    PROVE  Text(k, n, f) \in Msg
<1>1. NoCall \in Nat BY DEF NoCall
<1> QED BY <1>1 DEF Text, Msg

LEMMA DispatchMessagesType ==
    ASSUME NEW h \in Handoffs
    PROVE  DispatchMessages(h) \in Seq(Msg)
<1> DEFINE parts == <<h.title, h.problem, h.intent>> \o h.context \o h.steps
<1>1. /\ h.title \in Part /\ h.problem \in Part /\ h.intent \in Part
      /\ h.context \in Seq(Part) /\ h.steps \in Seq(Part)
  BY ContextAssumption
<1>2. parts \in Seq(Part) BY <1>1
<1> HIDE DEF parts
<1>3. Len(parts) \in Nat
      /\ \A k \in 1 .. Len(parts) : parts[k].words \in Nat /\ parts[k].focus \in BOOLEAN
  <2>1. Len(parts) \in Nat /\ \A k \in 1 .. Len(parts) : parts[k] \in Part
    BY <1>2
  <2>2. \A x \in Part : x.words \in Nat /\ x.focus \in BOOLEAN BY DEF Part
  <2> QED BY <2>1, <2>2
<1>4. \A k \in 1 .. Len(parts) : Text(k, parts[k].words, parts[k].focus) \in Msg
  BY <1>3, TextType
<1>5. [k \in 1 .. Len(parts) |-> Text(k, parts[k].words, parts[k].focus)] \in Seq(Msg)
  BY <1>3, <1>4
<1> QED BY <1>5 DEF DispatchMessages, parts

LEMMA MessageType ==
    ASSUME MessagesType, NEW m \in Message
    PROVE  m \in Msg
<1>1. /\ Len(messages) + 1 \in Nat /\ Lengths \subseteq Nat /\ CallIds \subseteq Nat
      /\ NoCall \in Nat
  BY ContextAssumption DEF MessagesType, NoCall
<1>2. CASE \E n \in Lengths, focus \in BOOLEAN : m = Text(Len(messages) + 1, n, focus)
  BY <1>1, <1>2, TextType
<1>3. CASE \E c \in CallIds, n \in Lengths, focus \in BOOLEAN : m = ToolCall(c, n, focus)
  BY <1>1, <1>3 DEF ToolCall, Msg
<1>4. CASE \E c \in CallIds \cup {NoCall}, n \in Lengths, focus \in BOOLEAN :
               m = ToolResult(Len(messages) + 1, c, n, focus)
  BY <1>1, <1>4 DEF ToolResult, Msg
<1> QED BY <1>2, <1>3, <1>4 DEF Message

(* Every conversation, compressed or not, is one of messages.              *)
THEOREM MessagesTyped == Spec => []MessagesType
<1>1. Init => MessagesType
  <2> SUFFICES ASSUME Init PROVE MessagesType OBVIOUS
  <2>1. budget \in Nat BY ContextAssumption DEF Init
  <2>2. messages \in Seq(Msg)
    <3>1. CASE messages = <<>> BY <3>1
    <3>2. CASE \E h \in Handoffs : messages = DispatchMessages(h)
      <4>1. PICK h \in Handoffs : messages = DispatchMessages(h) BY <3>2
      <4>2. DispatchMessages(h) \in Seq(Msg) BY DispatchMessagesType
      <4> QED BY <4>1, <4>2
    <3> QED BY <3>1, <3>2 DEF Init
  <2> QED BY <2>1, <2>2 DEF MessagesType
<1>2. MessagesType /\ [Next]_vars => MessagesType'
  <2> SUFFICES ASSUME MessagesType, [Next]_vars PROVE MessagesType' OBVIOUS
  <2>1. CASE Say
    <3>1. PICK m \in Message : messages' = Append(messages, m) /\ budget' = budget
      BY <2>1 DEF Say
    <3>2. m \in Msg BY MessageType
    <3> QED BY <3>1, <3>2 DEF MessagesType
  <2>2. CASE Compress
    <3>1. budget' = budget
          /\ messages' = IF budget = 0 THEN messages ELSE Compressed(messages, budget).messages
      BY <2>2 DEF Compress
    <3>2. messages \in Seq(Msg) /\ budget \in Nat BY DEF MessagesType
    <3>3. budget # 0 => budget > 0 BY <3>2
    <3>4. budget > 0 => Compressed(messages, budget).messages \in Seq(Msg)
      BY <3>2, CompressedFacts
    <3> QED BY <3>1, <3>2, <3>3, <3>4 DEF MessagesType
  <2>3. CASE UNCHANGED vars BY <2>3 DEF vars, MessagesType
  <2> QED BY <2>1, <2>2, <2>3 DEF Next
<1> QED BY <1>1, <1>2, PTL DEF Spec

(* Whatever the conversation and the budget, the compressed conversation   *)
(* has no call twice, and every call is answered once, after it, and by    *)
(* nothing that is not a call's answer.                                    *)
THEOREM Pairs == Spec => []PairsComplete
<1>1. MessagesType => PairsComplete
  <2> SUFFICES ASSUME MessagesType, budget > 0 PROVE PairsComplete
    BY DEF PairsComplete
  <2> DEFINE s == Result.messages
             calls == {i \in DOMAIN s : s[i].role = "call"}
             Answers(i) == {j \in DOMAIN s : s[j].role = "result" /\ s[j].call = s[i].call}
  <2>1. s \in Seq(Msg) /\ Matched(s) /\ CallsOf(s) \subseteq ResultsOf(s)
    BY CompressedFacts DEF MessagesType, Result
  <2> HIDE DEF s
  <2>2. \A i, j \in calls : s[i].call = s[j].call => i = j BY <2>1 DEF Matched
  <2>3. \A j \in DOMAIN s : s[j].role = "result" =>
            \E i \in calls : i < j /\ s[i].call = s[j].call
    BY <2>1 DEF Matched
  <2>4. ASSUME NEW i \in calls PROVE \E j \in Answers(i) : i < j /\ Answers(i) = {j}
    <3>1. PICK j \in DOMAIN s : s[j].role = "result" /\ s[j].call = s[i].call
      BY <2>1 DEF CallsOf, ResultsOf
    <3>2. Answers(i) = {j} BY <2>1, <3>1 DEF Matched
    <3>3. i < j BY <2>2, <2>3, <3>1
    <3> QED BY <3>2, <3>3
  <2>5. \A j \in DOMAIN s : s[j].role = "result" => \E i \in calls : s[i].call = s[j].call
    BY <2>3
  <2> QED BY <2>2, <2>4, <2>5 DEF PairsComplete, s
<1> QED BY <1>1, MessagesTyped, PTL

(* The report accounts for every message of both passes.                   *)
THEOREM Accounted == Spec => []NothingLost
<1>1. MessagesType => NothingLost
  <2> SUFFICES ASSUME MessagesType, budget > 0 PROVE NothingLost
    BY DEF NothingLost
  <2> DEFINE z == Result
  <2>1. /\ messages \in Seq(Msg) /\ z.messages \in Seq(Msg) /\ z.removed \in Seq(Msg)
        /\ z.stubbed \in Seq(Msg)
        /\ \A id : Count(z.messages, id) + Count(z.removed, id)
                       = Count(messages, id) + Count(z.stubbed, id)
    BY CompressedFacts DEF MessagesType, Result
  <2> HIDE DEF z
  <2>2. \A id : Count(messages, id) + Count(z.stubbed, id)
                    = Count(z.messages, id) + Count(z.removed, id)
    BY <2>1
  <2> QED BY <2>2 DEF NothingLost, z
<1> QED BY <1>1, MessagesTyped, PTL

(* The compression fits the budget but for its stubs, removes no text that *)
(* would have fitted, and leaves a description that need not be cut.       *)
THEOREM Fits == Spec => []FitsTheBudget
<1>1. MessagesType => FitsTheBudget
  <2> SUFFICES ASSUME MessagesType, budget > 0 PROVE FitsTheBudget
    BY DEF FitsTheBudget
  <2> DEFINE z == Result
  <2>1. /\ messages \in Seq(Msg) /\ budget \in Nat /\ z.messages \in Seq(Msg)
        /\ z.removed \in Seq(Msg)
        /\ TotalCost(z.messages) <= budget + TotalCost(z.stubbed)
        /\ (\A k \in DOMAIN messages : messages[k].role = "text") =>
               /\ TotalCost(z.messages) <= budget
               /\ \A k \in DOMAIN z.removed :
                      TotalCost(z.messages) + Cost(z.removed[k]) > budget
    BY CompressedFacts DEF MessagesType, Result
  <2>2. ASSUME IsText(messages)
        PROVE  \A k \in DOMAIN messages : messages[k].role = "text"
    BY <2>2 DEF IsText, Range
  <2>3. ASSUME IsText(messages), budget > 4
        PROVE  ~ Description(messages, budget).cut
    <3> DEFINE words == RenderedWords(z.messages, TRUE)
    <3> HIDE DEF z
    <3>1. TotalCost(z.messages) <= budget BY <2>1, <2>2, <2>3
    <3>2. /\ words + 2 * Len(z.messages) = TotalCost(z.messages) + 2
          /\ words \in Nat /\ TotalCost(z.messages) \in Nat /\ Len(z.messages) \in Nat
      <4>1. z.messages \in Seq(Msg) BY <2>1
      <4>2. Len(z.messages) \in Nat BY <4>1
      <4>3. /\ words + 2 * Len(z.messages) = TotalCost(z.messages) + 2
            /\ words \in Nat /\ TotalCost(z.messages) \in Nat
        BY <4>1, RenderedTotal, Zenon
      <4> QED BY <4>2, <4>3
    <3>3. Len(z.messages) = 0 => TotalCost(z.messages) = 0
      <4>1. Len(z.messages) = 0 => z.messages = <<>> BY <2>1
      <4> QED BY <4>1, TotalEmpty
    <3> DEFINE c == TotalCost(z.messages)
               l == Len(z.messages)
    <3>4. /\ words + 2 * l = c + 2 /\ words \in Nat /\ c \in Nat /\ l \in Nat
          /\ (l = 0 => c = 0) /\ c <= budget /\ budget \in Nat /\ budget > 4
      BY <2>1, <2>3, <3>1, <3>2, <3>3
    <3>5. ~ (words > budget)
      <4> HIDE DEF words, c, l
      <4> QED BY <3>4
    <3> QED BY <3>5 DEF Description, Result, z
  <2>4. ASSUME IsText(messages), NEW m \in Range(z.removed)
        PROVE  TotalCost(z.messages) + Cost(m) > budget
    <3>1. PICK k \in DOMAIN z.removed : m = z.removed[k] BY DEF Range
    <3> QED BY <2>1, <2>2, <2>4, <3>1
  <2> HIDE DEF z
  <2> QED BY <2>1, <2>3, <2>4 DEF FitsTheBudget, z
<1> QED BY <1>1, MessagesTyped, PTL

\* Induction up to n.
LEMMA Climb ==
    ASSUME NEW n \in Nat, NEW S, 0 \in S,
           \A k \in Nat : k < n /\ k \in S => k + 1 \in S
    PROVE  n \in S
<1> DEFINE I == {k \in Nat : k <= n => k \in S}
<1>1. 0 \in I OBVIOUS
<1>2. ASSUME NEW k \in I PROVE k + 1 \in I
  <2>1. k \in Nat /\ (k <= n => k \in S) OBVIOUS
  <2>2. k + 1 <= n => k < n /\ k <= n BY <2>1
  <2>3. k + 1 <= n => k + 1 \in S BY <2>1, <2>2
  <2> HIDE DEF I
  <2>4. k + 1 \in Nat BY <2>1
  <2> QED BY <2>3, <2>4 DEF I
<1>3. I \in SUBSET Nat OBVIOUS
<1> HIDE DEF I
<1>4. n \in I BY <1>1, <1>2, <1>3, Induction
<1> QED BY <1>4 DEF I

\* What is flattened is flattened from left to right.
LEMMA FlattenConcat ==
    ASSUME NEW M, NEW a \in Seq(Seq(M)), NEW b \in Seq(Seq(M))
    PROVE  FlattenSeq(a \o b) = FlattenSeq(a) \o FlattenSeq(b)
<1> DEFINE c == a \o b
           m == Len(a)
           n == Len(b)
<1>1. c \in Seq(Seq(M)) /\ m \in Nat /\ n \in Nat /\ Len(c) = m + n
      /\ (\A k \in 1 .. m : c[k] = a[k]) /\ (\A k \in 1 .. n : c[m + k] = b[k] /\ b[k] \in Seq(M))
  OBVIOUS
<1>2. PICK F \in [0 .. m -> Seq(M)] :
          /\ F[0] = <<>>
          /\ \A k \in 1 .. m : F[k] = F[k - 1] \o a[k]
          /\ FlattenSeq(a) = F[m]
  BY FlattenSteps
<1>3. PICK G \in [0 .. n -> Seq(M)] :
          /\ G[0] = <<>>
          /\ \A k \in 1 .. n : G[k] = G[k - 1] \o b[k]
          /\ FlattenSeq(b) = G[n]
  BY FlattenSteps
<1> HIDE DEF c, m, n
<1>4. PICK H \in [0 .. m + n -> Seq(M)] :
          /\ H[0] = <<>>
          /\ \A k \in 1 .. m + n : H[k] = H[k - 1] \o c[k]
          /\ FlattenSeq(c) = H[m + n]
  <2>1. \E H \in [0 .. Len(c) -> Seq(M)] :
          /\ H[0] = <<>>
          /\ \A k \in 1 .. Len(c) : H[k] = H[k - 1] \o c[k]
          /\ FlattenSeq(c) = H[Len(c)]
    BY <1>1, FlattenSteps
  <2> QED BY <1>1, <2>1
<1>5. H[m] = F[m]
  <2> DEFINE P(k) == H[k] = F[k]
  <2>1. P(0) BY <1>2, <1>4
  <2>2. ASSUME NEW k \in Nat, k < m, P(k) PROVE P(k + 1)
    <3>1. k + 1 \in 1 .. m /\ k + 1 \in 1 .. m + n /\ (k + 1) - 1 = k
      BY <1>1, <2>2
    <3> QED BY <1>1, <1>2, <1>4, <2>2, <3>1, ZenonT(60)
  <2> HIDE DEF P
  <2>3. P(m)
    <3> DEFINE S == {k \in Nat : P(k)}
    <3>1. 0 \in S /\ \A k \in Nat : k < m /\ k \in S => k + 1 \in S
      BY <2>1, <2>2
    <3> HIDE DEF S
    <3>2. m \in S BY <1>1, <3>1, Climb
    <3> QED BY <3>2 DEF S
  <2> QED BY <2>3 DEF P
<1>6. H[m + n] = F[m] \o G[n]
  <2> DEFINE P(k) == H[m + k] = F[m] \o G[k]
  <2>0. F[m] \in Seq(M) BY <1>1
  <2>1. P(0)
    <3>1. F[m] \o <<>> = F[m] /\ m + 0 = m BY <1>1, <2>0
    <3> QED BY <1>3, <1>5, <3>1
  <2>2. ASSUME NEW k \in Nat, k < n, P(k) PROVE P(k + 1)
    <3>1. k + 1 \in 1 .. n /\ m + (k + 1) \in 1 .. m + n /\ (m + (k + 1)) - 1 = m + k
          /\ (k + 1) - 1 = k /\ k \in 0 .. n
      BY <1>1, <2>2
    <3>2. H[m + (k + 1)] = H[m + k] \o b[k + 1] BY <1>1, <1>4, <3>1
    <3>3. G[k + 1] = G[k] \o b[k + 1] /\ b[k + 1] \in Seq(M) /\ G[k] \in Seq(M)
      BY <1>1, <1>3, <3>1
    <3>4. (F[m] \o G[k]) \o b[k + 1] = F[m] \o (G[k] \o b[k + 1])
      <4>1. \A x, y, z \in Seq(M) : (x \o y) \o z = x \o (y \o z) BY SMTT(60)
      <4> QED BY <2>0, <3>3, <4>1, Zenon
    <3> QED BY <2>2, <3>2, <3>3, <3>4
  <2> HIDE DEF P
  <2>3. P(n)
    <3> DEFINE S == {k \in Nat : P(k)}
    <3>1. 0 \in S /\ \A k \in Nat : k < n /\ k \in S => k + 1 \in S
      BY <2>1, <2>2
    <3> HIDE DEF S
    <3>2. n \in S BY <1>1, <3>1, Climb
    <3> QED BY <3>2 DEF S
  <2> QED BY <2>3 DEF P
<1> QED BY <1>2, <1>3, <1>4, <1>6 DEF c

\* There are no more pieces than there are things in them, if none is
\* empty.
LEMMA FlattenLength ==
    ASSUME NEW M, NEW q \in Seq(Seq(M)), \A k \in 1 .. Len(q) : q[k] # <<>>
    PROVE  Len(q) <= Len(FlattenSeq(q))
<1> DEFINE n == Len(q)
<1>1. n \in Nat /\ \A k \in 1 .. n : q[k] \in Seq(M) /\ Len(q[k]) \in Nat /\ Len(q[k]) >= 1
  <2>1. \A s \in Seq(M) : s # <<>> => Len(s) \in Nat /\ Len(s) >= 1 OBVIOUS
  <2>2. n \in Nat /\ \A k \in 1 .. n : q[k] \in Seq(M) OBVIOUS
  <2> QED BY <2>1, <2>2
<1>2. PICK F \in [0 .. n -> Seq(M)] :
          /\ F[0] = <<>>
          /\ \A k \in 1 .. n : F[k] = F[k - 1] \o q[k]
          /\ FlattenSeq(q) = F[n]
  BY FlattenSteps
<1> HIDE DEF n
<1> DEFINE P(k) == k <= Len(F[k])
<1>3. P(0) BY <1>2
<1>4. ASSUME NEW k \in Nat, k < n, P(k) PROVE P(k + 1)
  <2>1. k + 1 \in 1 .. n /\ (k + 1) - 1 = k /\ k \in 0 .. n BY <1>1, <1>4
  <2>2. F[k + 1] = F[k] \o q[k + 1] /\ F[k] \in Seq(M) /\ q[k + 1] \in Seq(M)
    BY <1>1, <1>2, <2>1
  <2>3. Len(F[k + 1]) = Len(F[k]) + Len(q[k + 1]) /\ Len(F[k]) \in Nat BY <2>2
  <2>4. Len(q[k + 1]) \in Nat /\ Len(q[k + 1]) >= 1 BY <1>1, <2>1
  <2>5. \A x, y, z \in Nat : x <= y /\ z >= 1 => x + 1 <= y + z OBVIOUS
  <2> HIDE DEF n
  <2> QED BY <1>4, <2>3, <2>4, <2>5
<1> HIDE DEF P
<1>5. P(n)
  <2> DEFINE S == {k \in Nat : P(k)}
  <2>1. 0 \in S /\ \A k \in Nat : k < n /\ k \in S => k + 1 \in S BY <1>3, <1>4
  <2> HIDE DEF S
  <2>2. n \in S BY <1>1, <2>1, Climb
  <2> QED BY <2>2 DEF S
<1> QED BY <1>1, <1>2, <1>5 DEF P, n

\* Each of q lists its set, and no two of the sets meet.
ListsEach(q, T) ==
    /\ \A k \in 1 .. Len(q) : Lists(q[k], T[k])
    /\ \A j, k \in 1 .. Len(q) : j # k => T[j] \cap T[k] = {}

Covered(T, n) == UNION {T[k] : k \in 1 .. n}

\* Lists of disjoint sets, one after the other, list their union.
LEMMA FlattenLists ==
    ASSUME NEW M, NEW q \in Seq(Seq(M)), NEW T, ListsEach(q, T)
    PROVE  Lists(FlattenSeq(q), Covered(T, Len(q)))
<1> DEFINE n == Len(q)
           Upto(k) == Covered(T, k)
<1>1. n \in Nat OBVIOUS
<1>2. PICK F \in [0 .. n -> Seq(M)] :
          /\ F[0] = <<>>
          /\ \A k \in 1 .. n : F[k] = F[k - 1] \o q[k]
          /\ FlattenSeq(q) = F[n]
  BY FlattenSteps
<1>3. \A k \in 1 .. n : Lists(q[k], T[k]) BY DEF ListsEach
<1>4. \A j, k \in 1 .. n : j # k => T[j] \cap T[k] = {} BY DEF ListsEach
<1> HIDE DEF n
<1> DEFINE P(k) == Lists(F[k], Upto(k))
<1>5. P(0)
  <2>1. Upto(0) = {} BY DEF Covered
  <2>2. Lists(<<>>, {}) BY ListsOne
  <2> QED BY <1>2, <2>1, <2>2
<1>6. ASSUME NEW k \in Nat, k < n, P(k) PROVE P(k + 1)
  <2>1. k + 1 \in 1 .. n /\ (k + 1) - 1 = k BY <1>1, <1>6
  <2>2. F[k + 1] = F[k] \o q[k + 1] /\ Lists(F[k], Upto(k)) /\ Lists(q[k + 1], T[k + 1])
    BY <1>2, <1>3, <1>6, <2>1
  <2>3. Upto(k) \cap T[k + 1] = {}
    <3>1. \A j \in 1 .. k : j \in 1 .. n /\ j # k + 1 BY <1>1, <1>6
    <3> QED BY <1>4, <2>1, <3>1 DEF Covered
  <2>4. Upto(k + 1) = Upto(k) \cup T[k + 1]
    <3>1. 1 .. k + 1 = (1 .. k) \cup {k + 1} OBVIOUS
    <3> QED BY <3>1 DEF Covered
  <2> HIDE DEF Upto
  <2>5. Lists(F[k] \o q[k + 1], Upto(k) \cup T[k + 1])
    BY <2>2, <2>3, ListsConcat
  <2> QED BY <2>2, <2>4, <2>5
<1> HIDE DEF P
<1>7. P(n)
  <2> DEFINE S == {k \in Nat : P(k)}
  <2>1. 0 \in S /\ \A k \in Nat : k < n /\ k \in S => k + 1 \in S BY <1>5, <1>6
  <2> HIDE DEF S
  <2>2. n \in S BY <1>1, <2>1, Climb
  <2> QED BY <2>2 DEF S
<1> QED BY <1>1, <1>2, <1>7 DEF P, n

\* A list is as long as what it lists is large.
LEMMA ListsLength ==
    ASSUME NEW n \in Nat, NEW q, Lists(q, 1 .. n)
    PROVE  Len(q) = n
<1>1. q \in Seq(1 .. n) /\ Len(q) \in Nat /\ DOMAIN q = 1 .. Len(q) BY DEF Lists
<1> DEFINE m == Len(q)
<1>2. q \in [1 .. m -> 1 .. n] BY <1>1
<1>3. /\ \A j, k \in 1 .. m : q[j] = q[k] => j = k
      /\ \A x \in 1 .. n : \E k \in 1 .. m : q[k] = x
  BY <1>1 DEF Lists
<1>4. m \in Nat BY <1>1
<1> HIDE DEF m
<1>5. q \in Injection(1 .. m, 1 .. n) BY <1>2, <1>3 DEF Injection, IsInjective
<1>6. q \in Surjection(1 .. m, 1 .. n) BY <1>2, <1>3 DEF Surjection
<1>7. IsFiniteSet(1 .. n) /\ Cardinality(1 .. m) = m /\ Cardinality(1 .. n) = n
  BY <1>4, FS_Interval
<1>8. Cardinality(1 .. m) = Cardinality(1 .. n)
  BY <1>5, <1>6, <1>7, FS_Injection
<1> QED BY <1>7, <1>8 DEF m

\* A finite set can be listed.
LEMMA SetToSeqLists ==
    ASSUME NEW S, IsFiniteSet(S)
    PROVE  Lists(SetToSeq(S), S)
<1> DEFINE n == Cardinality(S)
           f == SetToSeq(S)
<1>1. n \in Nat /\ ExistsBijection(1 .. n, S) BY FS_CardinalityType
<1>2. \E g : g \in Injection(1 .. n, S) BY <1>1 DEF ExistsBijection, Bijection
<1>3. f \in Injection(1 .. n, S) BY <1>2 DEF SetToSeq, Injection
<1>4. Cardinality(1 .. n) = n BY <1>1, FS_Interval
<1> HIDE DEF f
<1>5. f \in Surjection(1 .. n, S) BY <1>3, <1>4, FS_Injection
<1>6. f \in [1 .. n -> S] /\ \A t \in S : \E s \in 1 .. n : f[s] = t
  BY <1>5 DEF Surjection
<1>7. \A a, b \in 1 .. n : f[a] = f[b] => a = b
  BY <1>3, <1>6 DEF Injection, IsInjective
<1> HIDE DEF n
<1>8. Lists(f, S) BY <1>1, <1>6, <1>7 DEF Lists
<1> QED BY <1>8 DEF f

\* Sorting by number, and stably, keeps each step once.
LEMMA InOrderLists ==
    ASSUME NEW steps, NEW n \in Nat, \A i \in 1 .. n : steps[i].number \in Nat,
           NEW S \in SUBSET (1 .. n)
    PROVE  Lists(InOrder(steps, S), S)
<1> DEFINE B(i, j) == Before(steps, i, j)
           D(i) == {j \in S : B(j, i)}
           m == Cardinality(S)
           rank == [i \in S |-> Cardinality(D(i))]
           q == InOrder(steps, S)
<1>1. IsFiniteSet(S) /\ m \in Nat
  <2>1. IsFiniteSet(1 .. n) BY FS_Interval
  <2>2. IsFiniteSet(S) BY <2>1, FS_Subset
  <2> QED BY <2>2, FS_CardinalityType
<1>2. /\ \A i \in S : ~B(i, i)
      /\ \A i, j \in S : i # j => B(i, j) \/ B(j, i)
      /\ \A i, j, k \in S : B(i, j) /\ B(j, k) => B(i, k)
  <2>1. \A i \in S : i \in Nat /\ steps[i].number \in Nat OBVIOUS
  <2> QED BY <2>1 DEF Before
<1> HIDE DEF B
<1>3. ASSUME NEW i \in S
      PROVE  rank[i] = Cardinality(D(i)) /\ IsFiniteSet(D(i)) /\ rank[i] \in Nat /\ rank[i] < m
  <2>1. D(i) \in SUBSET S /\ D(i) # S BY <1>2
  <2>2. IsFiniteSet(D(i)) /\ Cardinality(D(i)) <= m /\ Cardinality(D(i)) # m
    BY <1>1, <2>1, FS_Subset
  <2>3. Cardinality(D(i)) \in Nat BY <2>2, FS_CardinalityType
  <2> QED BY <1>1, <2>2, <2>3
<1>4. ASSUME NEW i \in S, NEW j \in S, B(i, j) PROVE rank[i] < rank[j]
  <2>1. D(i) \cup {i} \in SUBSET D(j) /\ i \notin D(i) BY <1>2, <1>4
  <2>2. Cardinality(D(i) \cup {i}) = Cardinality(D(i)) + 1
    BY <1>3, <2>1, FS_AddElement
  <2>3. Cardinality(D(i) \cup {i}) <= Cardinality(D(j)) BY <1>3, <2>1, FS_Subset
  <2>4. rank[i] + 1 <= rank[j] BY <1>3, <2>2, <2>3
  <2> QED BY <1>3, <2>4, SMTT(60)
<1>5. \A i, j \in S : rank[i] = rank[j] => i = j
  <2>1. \A i, j \in S : i # j => rank[i] < rank[j] \/ rank[j] < rank[i]
    BY <1>2, <1>4
  <2>2. \A i, j \in S : rank[i] \in Nat /\ rank[j] \in Nat BY <1>3
  <2> HIDE DEF rank
  <2> QED BY <2>1, <2>2
<1> DEFINE place == [i \in S |-> rank[i] + 1]
<1>6. place \in Surjection(S, 1 .. m)
  <2>1. place \in [S -> 1 .. m]
    <3> SUFFICES ASSUME NEW i \in S PROVE rank[i] + 1 \in 1 .. m OBVIOUS
    <3>1. rank[i] \in Nat /\ rank[i] < m BY <1>3
    <3> HIDE DEF rank, m
    <3> QED BY <1>1, <3>1
  <2>2. \A i, j \in S : place[i] = place[j] => i = j
    <3>1. \A i, j \in S : rank[i] \in Nat /\ rank[j] \in Nat BY <1>3
    <3> HIDE DEF rank
    <3>2. ASSUME NEW i \in S, NEW j \in S, place[i] = place[j] PROVE rank[i] = rank[j]
      <4>1. rank[i] + 1 = rank[j] + 1 BY <3>2
      <4>2. \A x, y \in Nat : x + 1 = y + 1 => x = y OBVIOUS
      <4> QED BY <3>1, <4>1, <4>2
    <3> QED BY <1>5, <3>2
  <2> HIDE DEF place
  <2>3. place \in Injection(S, 1 .. m) BY <2>1, <2>2 DEF Injection, IsInjective
  <2>4. IsFiniteSet(1 .. m) /\ Cardinality(1 .. m) = m BY <1>1, FS_Interval
  <2> QED BY <2>3, <2>4, FS_Injection
<1>7. ASSUME NEW k \in 1 .. m PROVE q[k] \in S /\ rank[q[k]] = k - 1
  <2>1. PICK i \in S : place[i] = k BY <1>6 DEF Surjection
  <2>2. rank[i] = k - 1
    <3>1. rank[i] \in Nat /\ rank[i] + 1 = k BY <1>3, <2>1
    <3> HIDE DEF rank, m
    <3> QED BY <1>1, <3>1
  <2>3. q[k] = CHOOSE j \in S : Cardinality(D(j)) = k - 1 BY DEF InOrder, B
  <2>4. \E j \in S : Cardinality(D(j)) = k - 1 BY <2>2
  <2> HIDE DEF q, D, m
  <2> QED BY <2>3, <2>4
<1>8. q \in Seq(S) /\ DOMAIN q = 1 .. m
  <2>1. q = [k \in 1 .. m |-> q[k]] BY DEF InOrder
  <2>2. \A k \in 1 .. m : q[k] \in S BY <1>7
  <2> HIDE DEF q, m
  <2> QED BY <1>1, <2>1, <2>2, SMTT(60)
<1> HIDE DEF q, place
<1>9. \A j, k \in 1 .. m : q[j] = q[k] => j = k
  <2>1. \A j, k \in 1 .. m : q[j] = q[k] => j - 1 = k - 1 BY <1>7
  <2> HIDE DEF m
  <2> QED BY <2>1, <1>1
<1>10. ASSUME NEW i \in S PROVE \E k \in 1 .. m : q[k] = i
  <2> DEFINE k == rank[i] + 1
  <2>1. k \in 1 .. m /\ k - 1 = rank[i]
    <3>1. rank[i] \in Nat /\ rank[i] < m BY <1>3
    <3> HIDE DEF rank, m
    <3> QED BY <1>1, <3>1
  <2>2. q[k] \in S /\ rank[q[k]] = rank[i] BY <1>7, <2>1
  <2> HIDE DEF k, rank, m
  <2> QED BY <1>5, <2>1, <2>2
<1>11. Lists(q, S) BY <1>8, <1>9, <1>10 DEF Lists
<1> QED BY <1>11 DEF q

-----------------------------------------------------------------------------
\* Groups and chunks.

\* The steps of a handoff, as ExtractSteps gives them.
TypedSteps(steps) ==
    /\ Len(steps) \in Nat /\ DOMAIN steps = 1 .. Len(steps)
    /\ \A i \in DOMAIN steps :
         /\ steps[i].number \in Nat
         /\ ProjectOf(steps[i]) \in Range(Projects)
         /\ Estimated(steps, i) => steps[i].effort.parts \in Seq(Int)

InProject(steps, project) == { i \in 1 .. Len(steps) : ProjectOf(steps[i]) = project }

LEMMA ListFrom ==
    ASSUME NEW n \in Nat, NEW M, NEW f, f = [i \in 1 .. n |-> f[i]],
           \A i \in 1 .. n : f[i] \in M
    PROVE  f \in Seq(M) /\ Len(f) = n /\ DOMAIN f = 1 .. n
  OBVIOUS

\* A project's group lists its steps.
LEMMA GroupLists ==
    ASSUME NEW steps, TypedSteps(steps), NEW project
    PROVE  Lists(GroupOf(steps, project), InProject(steps, project))
<1> DEFINE n == Len(steps)
           mine(i) == ProjectOf(steps[i]) = project
           q == [i \in 1 .. n |-> IF mine(i) THEN <<i>> ELSE <<>>]
           T == [i \in 1 .. n |-> IF mine(i) THEN {i} ELSE {}]
<1>1. n \in Nat BY DEF TypedSteps
<1>2. q \in Seq(Seq(1 .. n)) /\ Len(q) = n
  <2>1. \A i \in 1 .. n : <<i>> \in Seq(1 .. n) /\ <<>> \in Seq(1 .. n) OBVIOUS
  <2>2. q = [i \in 1 .. n |-> q[i]] /\ \A i \in 1 .. n : q[i] \in Seq(1 .. n)
    BY <2>1
  <2> HIDE DEF n, q
  <2> QED BY <1>1, <2>2, ListFrom
<1>3. \A k \in 1 .. n : Lists(q[k], T[k])
  <2> SUFFICES ASSUME NEW k \in 1 .. n PROVE Lists(q[k], T[k]) OBVIOUS
  <2>1. Lists(<<k>>, {k}) /\ Lists(<<>>, {}) BY ListsOne
  <2> HIDE DEF n, mine
  <2> QED BY <2>1
<1>4. \A j, k \in 1 .. n : j # k => T[j] \cap T[k] = {} OBVIOUS
<1>5. Covered(T, n) = InProject(steps, project) BY DEF InProject, Covered
<1>6. GroupOf(steps, project) = FlattenSeq(q) BY DEF GroupOf
<1> HIDE DEF n, q, T
<1>7. Lists(FlattenSeq(q), Covered(T, Len(q)))
  <2>1. ListsEach(q, T) BY <1>2, <1>3, <1>4 DEF ListsEach
  <2>2. q \in Seq(Seq(1 .. n)) BY <1>2
  <2> QED BY <2>1, <2>2, FlattenLists
<1> QED BY <1>2, <1>5, <1>6, <1>7

\* T[g] is the set of steps of the g-th group: a partition by project.
Grouped(steps, groups, T) ==
    /\ Len(groups) \in Nat /\ DOMAIN groups = 1 .. Len(groups)
    /\ \A g \in 1 .. Len(groups) : Lists(groups[g], T[g]) /\ T[g] \in SUBSET (1 .. Len(steps))
    /\ \A g, h \in 1 .. Len(groups) : g # h => T[g] \cap T[h] = {}
    /\ Covered(T, Len(groups)) = 1 .. Len(steps)
    /\ \A g \in 1 .. Len(groups) : \A i \in T[g], j \in 1 .. Len(steps) :
           SameProject(steps, i, j) <=> j \in T[g]

LEMMA ProjectGroupsFacts ==
    ASSUME NEW steps, TypedSteps(steps)
    PROVE  \E T : Grouped(steps, ProjectGroups(steps), T)
<1> DEFINE n == Len(steps)
           gs == ProjectGroups(steps)
<1>1. n \in Nat BY DEF TypedSteps
<1>2. RespectProjects \in BOOLEAN BY DecomposeAssumption
<1>3. CASE ~RespectProjects
  <2> DEFINE all == All(steps)
             T == [g \in 1 .. 1 |-> 1 .. n]
  <2>1. Lists(all, 1 .. n)
    <3>1. all = [i \in 1 .. n |-> i] BY DEF All
    <3> HIDE DEF n
    <3> QED BY <1>1, <3>1 DEF Lists
  <2> HIDE DEF all
  <2>2. gs = <<all>> BY <1>3 DEF ProjectGroups, all
  <2>3. Len(gs) = 1 /\ DOMAIN gs = 1 .. 1 /\ gs[1] = all BY <2>2
  <2>4. \A i, j : SameProject(steps, i, j) BY <1>3 DEF SameProject
  <2>6. 1 \in 1 .. 1 /\ \A g \in 1 .. 1 : g = 1 /\ T[g] = 1 .. n OBVIOUS
  <2>5. Covered(T, 1) = 1 .. n
    <3> HIDE DEF n, T
    <3>1. \A x : x \in Covered(T, 1) <=> x \in 1 .. n BY <2>6 DEF Covered
    <3> QED BY <3>1
  <2> HIDE DEF gs, T
  <2>7. Grouped(steps, gs, T) BY <2>1, <2>3, <2>4, <2>5, <2>6 DEF Grouped
  <2> QED BY <2>7 DEF gs
<1>4. CASE RespectProjects
  <2> DEFINE m == Len(Projects)
             T == [p \in 1 .. m |-> InProject(steps, Projects[p])]
  <2>1. m \in Nat /\ DOMAIN Projects = 1 .. m
        /\ \A p, r \in 1 .. m : Projects[p] = Projects[r] => p = r
    <3>1. Projects \in Seq(Range(Projects)) /\ IsInjective(Projects)
      BY DecomposeAssumption
    <3> QED BY <3>1 DEF IsInjective
  <2>2. gs = [p \in 1 .. m |-> GroupOf(steps, Projects[p])]
    BY <1>4 DEF ProjectGroups
  <2> HIDE DEF m
  <2>3. Len(gs) = m /\ DOMAIN gs = 1 .. m BY <2>1, <2>2
  <2>4. \A p \in 1 .. m : Lists(gs[p], T[p]) /\ T[p] \in SUBSET (1 .. n)
    BY <2>2, GroupLists DEF InProject
  <2>5. \A p, r \in 1 .. m : p # r => T[p] \cap T[r] = {} BY <2>1 DEF InProject
  <2>6. Covered(T, m) = 1 .. n
    <3>1. \A i \in 1 .. n : \E p \in 1 .. m : Projects[p] = ProjectOf(steps[i])
      BY <2>1 DEF TypedSteps, Range
    <3> QED BY <3>1 DEF InProject, Covered
  <2>7. \A p \in 1 .. m : \A i \in T[p], j \in 1 .. n : SameProject(steps, i, j) <=> j \in T[p]
    BY <1>4 DEF InProject, SameProject
  <2> HIDE DEF gs, T
  <2>8. Grouped(steps, gs, T) BY <2>1, <2>3, <2>4, <2>5, <2>6, <2>7 DEF Grouped
  <2> QED BY <2>8 DEF gs
<1> QED BY <1>2, <1>3, <1>4

\* Of steps that are together one comes first.
LEMMA FirstStep ==
    ASSUME NEW steps, TypedSteps(steps), NEW S \in SUBSET (1 .. Len(steps)), S # {}
    PROVE  \E i \in S : \A j \in S : ~Before(steps, j, i)
<1> DEFINE N == {steps[j].number : j \in S}
<1>1. \A j \in S : j \in Nat /\ steps[j].number \in Nat BY DEF TypedSteps
<1>2. PICK m \in N : \A x \in N : m <= x
  <2>1. N \in SUBSET Nat /\ N # {} BY <1>1
  <2> QED BY <2>1, LeastNumber
<1> DEFINE I == {j \in S : steps[j].number = m}
<1>3. PICK i \in I : \A j \in I : i <= j
  <2>1. I \in SUBSET Nat /\ I # {} BY <1>1
  <2> QED BY <2>1, LeastNumber
<1>4. ASSUME NEW j \in S PROVE ~Before(steps, j, i)
  <2>1. steps[i].number = m /\ m <= steps[j].number /\ i \in S BY <1>2, <1>3
  <2>2. steps[j].number = m => i <= j BY <1>3
  <2> HIDE DEF I, N
  <2> QED BY <1>1, <2>1, <2>2 DEF Before
<1> QED BY <1>3, <1>4

LEMMA ListsRange ==
    ASSUME NEW q, NEW S, Lists(q, S)
    PROVE  Range(q) = S /\ Len(q) \in Nat /\ DOMAIN q = 1 .. Len(q)
           /\ \A k \in 1 .. Len(q) : q[k] \in S
<1>1. q \in Seq(S) BY DEF Lists
<1>2. Len(q) \in Nat /\ DOMAIN q = 1 .. Len(q) /\ \A k \in 1 .. Len(q) : q[k] \in S
  BY <1>1
<1>3. \A x \in S : \E k \in DOMAIN q : q[k] = x BY DEF Lists
<1> QED BY <1>2, <1>3 DEF Range

\* Each chunk is part of one class of the union-find: its steps have one root,
\* and it shares none with another.
Classed(steps, chunks, S, parent) ==
    \E T :
        /\ \A k \in 1 .. Len(chunks) :
             /\ Lists(chunks[k], T[k]) /\ T[k] # {} /\ T[k] \in SUBSET S
             /\ \A i, j \in T[k] :
                  Root(parent, steps[i].number) = Root(parent, steps[j].number)
        /\ \A j, k \in 1 .. Len(chunks) : j # k => T[j] \cap T[k] = {}

\* The chunks of a group hold each of its steps once, and all the steps
\* whose numbers have one root.
LEMMA ChunksFacts ==
    ASSUME NEW steps, TypedSteps(steps), NEW S \in SUBSET (1 .. Len(steps)),
           NEW group, Lists(group, S)
    PROVE  LET chunks == Chunks(steps, group)
               parent == Merged(steps, group)
           IN  /\ chunks \in Seq(Seq(S))
               /\ Lists(FlattenSeq(chunks), S)
               /\ RespectDependencies =>
                    \A i \in S : \E k \in DOMAIN chunks :
                        /\ i \in Range(chunks[k])
                        /\ \A j \in S : Root(parent, steps[j].number) = Root(parent, steps[i].number)
                               => j \in Range(chunks[k])
               /\ RespectDependencies => Classed(steps, chunks, S, parent)
<1> DEFINE n == Len(steps)
           chunks == Chunks(steps, group)
           parent == Merged(steps, group)
           root(i) == Root(parent, steps[i].number)
<1>1. n \in Nat /\ \A i \in 1 .. n : steps[i].number \in Nat BY DEF TypedSteps
<1>2. Range(group) = S /\ Len(group) \in Nat /\ DOMAIN group = 1 .. Len(group)
      /\ (\A k \in 1 .. Len(group) : group[k] \in S)
      /\ (\A x \in S : \E k \in 1 .. Len(group) : group[k] = x)
      /\ (\A j, k \in 1 .. Len(group) : group[j] = group[k] => j = k)
  BY ListsRange, ZenonT(60) DEF Lists
<1>3. RespectDependencies \in BOOLEAN BY DecomposeAssumption
<1>4. CASE ~RespectDependencies
  <2> DEFINE m == Len(group)
             T == [k \in 1 .. m |-> {group[k]}]
  <2>1. chunks = [k \in 1 .. m |-> <<group[k]>>] BY <1>4 DEF Chunks
  <2> HIDE DEF m, chunks
  <2>2. \A k \in 1 .. m : chunks[k] = <<group[k]>> /\ chunks[k] \in Seq(S)
    BY <1>2, <2>1 DEF m
  <2>3. chunks \in Seq(Seq(S)) /\ Len(chunks) = m
    <3>1. chunks = [k \in 1 .. m |-> chunks[k]] /\ m \in Nat BY <1>2, <2>1 DEF m
    <3> QED BY <2>2, <3>1, ListFrom
  <2>4. ListsEach(chunks, T)
    <3>1. \A k \in 1 .. m : Lists(chunks[k], T[k]) BY <2>2, ListsOne
    <3>2. \A j, k \in 1 .. m : j # k => T[j] \cap T[k] = {} BY <1>2 DEF m
    <3> QED BY <2>3, <3>1, <3>2 DEF ListsEach
  <2>5. Covered(T, m) = S
    <3>1. \A k \in 1 .. m : T[k] = {group[k]} /\ group[k] \in S BY <1>2 DEF m
    <3> HIDE DEF T
    <3>2. \A x \in S : \E k \in 1 .. m : x \in T[k] BY <1>2, <3>1 DEF m
    <3>3. \A k \in 1 .. m : T[k] \subseteq S BY <3>1
    <3> QED BY <3>2, <3>3 DEF Covered
  <2> HIDE DEF T
  <2>6. Lists(FlattenSeq(chunks), S) BY <2>3, <2>4, <2>5, FlattenLists
  <2> QED BY <1>4, <2>3, <2>6 DEF chunks
<1>5. CASE RespectDependencies
  <2> DEFINE class(i) == Together(steps, group, parent, i)
             L == Leaders(steps, group, parent)
             leaders == InOrder(steps, L)
             m == Len(leaders)
             T == [k \in 1 .. m |-> class(leaders[k])]
  <2>1. \A i \in S : class(i) = {j \in S : root(j) = root(i)}
    BY <1>2 DEF Together
  <2>2. L = {i \in S : \A j \in class(i) : ~Before(steps, j, i)}
    BY <1>2 DEF Leaders
  <2>3. Lists(leaders, L) BY <1>1, <2>2, InOrderLists
  <2>4. m \in Nat /\ (\A k \in 1 .. m : leaders[k] \in L) /\ DOMAIN leaders = 1 .. m
        /\ (\A x \in L : \E k \in 1 .. m : leaders[k] = x)
        /\ (\A j, k \in 1 .. m : leaders[j] = leaders[k] => j = k)
    BY <2>3, ListsRange DEF Lists
  <2>5. chunks = [k \in 1 .. m |-> InOrder(steps, class(leaders[k]))]
    BY <1>5 DEF Chunks
  <2> HIDE DEF chunks, leaders, L, m, class, root, parent
  <2>6. ASSUME NEW k \in 1 .. m
        PROVE  chunks[k] = InOrder(steps, class(leaders[k])) /\ Lists(chunks[k], T[k])
               /\ T[k] \in SUBSET S /\ Range(chunks[k]) = T[k]
    <3>1. leaders[k] \in S /\ class(leaders[k]) \in SUBSET (1 .. n) /\ T[k] = class(leaders[k])
          /\ T[k] \in SUBSET S
      <4>1. leaders[k] \in L BY <2>4
      <4>2. leaders[k] \in S BY <2>2, <4>1
      <4>3. class(leaders[k]) \in SUBSET S BY <2>1, <4>2
      <4> QED BY <4>2, <4>3
    <3>2. chunks[k] = InOrder(steps, class(leaders[k])) BY <2>5
    <3>3. Lists(chunks[k], T[k]) BY <1>1, <3>1, <3>2, InOrderLists
    <3> QED BY <3>1, <3>2, <3>3, ListsRange
  <2>7. chunks \in Seq(Seq(S)) /\ Len(chunks) = m /\ DOMAIN chunks = 1 .. m
    <3>1. \A k \in 1 .. m : chunks[k] \in Seq(S)
      <4>1. \A q, A, B : A \in SUBSET B /\ q \in Seq(A) => q \in Seq(B) OBVIOUS
      <4> HIDE DEF T
      <4> QED BY <2>6, <4>1 DEF Lists
    <3>2. chunks = [k \in 1 .. m |-> chunks[k]] BY <2>5
    <3> QED BY <2>4, <3>1, <3>2, ListFrom
  <2>8. \A i, j \in L : root(i) = root(j) => i = j
    <3> SUFFICES ASSUME NEW i \in L, NEW j \in L, root(i) = root(j) PROVE i = j
      OBVIOUS
    <3>1. i \in S /\ j \in S /\ i \in Nat /\ j \in Nat
          /\ steps[i].number \in Nat /\ steps[j].number \in Nat
      BY <1>1, <2>2
    <3>2. ~Before(steps, j, i) /\ ~Before(steps, i, j) BY <2>1, <2>2, <3>1
    <3> QED BY <3>1, <3>2 DEF Before
  <2>9. ListsEach(chunks, T)
    <3>1. \A j, k \in 1 .. m : j # k => T[j] \cap T[k] = {}
      <4> SUFFICES ASSUME NEW j \in 1 .. m, NEW k \in 1 .. m, NEW x, x \in T[j], x \in T[k]
                   PROVE  j = k
        OBVIOUS
      <4>1. leaders[j] \in L /\ leaders[k] \in L /\ leaders[j] \in S /\ leaders[k] \in S
        BY <2>2, <2>4
      <4>2. root(x) = root(leaders[j]) /\ root(x) = root(leaders[k])
        BY <2>1, <4>1
      <4> QED BY <2>4, <2>8, <4>1, <4>2
    <3> QED BY <2>6, <2>7, <3>1 DEF ListsEach
  <2>10. ASSUME NEW i \in S PROVE \E k \in 1 .. m : root(leaders[k]) = root(i)
    <3>1. class(i) \in SUBSET (1 .. n) /\ class(i) # {} /\ class(i) \in SUBSET S
      BY <2>1
    <3>2. PICK l \in class(i) : \A j \in class(i) : ~Before(steps, j, l)
      BY <3>1, FirstStep, SMTT(60)
    <3>3. l \in S /\ root(l) = root(i) /\ class(l) = class(i) BY <2>1, <3>2
    <3>4. l \in L BY <2>2, <3>2, <3>3
    <3> QED BY <2>4, <3>3, <3>4
  <2>11. \A i \in S : \E k \in 1 .. m : i \in T[k] /\ \A j \in S : root(j) = root(i) => j \in T[k]
    <3> SUFFICES ASSUME NEW i \in S
                 PROVE  \E k \in 1 .. m : i \in T[k] /\ \A j \in S : root(j) = root(i) => j \in T[k]
      OBVIOUS
    <3>1. PICK k \in 1 .. m : root(leaders[k]) = root(i) BY <2>10
    <3>2. leaders[k] \in S BY <2>2, <2>4
    <3>3. T[k] = {j \in S : root(j) = root(leaders[k])} BY <2>1, <3>2
    <3> QED BY <3>1, <3>3
  <2>12. Covered(T, m) = S
    <3>1. \A k \in 1 .. m : T[k] \in SUBSET S BY <2>6
    <3> HIDE DEF T
    <3> QED BY <2>11, <3>1 DEF Covered
  <2> HIDE DEF T
  <2>13. Lists(FlattenSeq(chunks), S) BY <2>7, <2>9, <2>12, FlattenLists
  <2>14. \A i \in S : \E k \in DOMAIN chunks :
             /\ i \in Range(chunks[k])
             /\ \A j \in S : root(j) = root(i) => j \in Range(chunks[k])
    <3>1. \A k \in 1 .. m : Range(chunks[k]) = T[k] BY <2>6
    <3>2. DOMAIN chunks = 1 .. m BY <2>7
    <3> QED BY <2>11, <3>1, <3>2, Zenon
  <2>15. Classed(steps, chunks, S, parent)
    <3>1. ASSUME NEW k \in 1 .. m
          PROVE  /\ Lists(chunks[k], T[k]) /\ T[k] # {} /\ T[k] \in SUBSET S
                 /\ \A i, j \in T[k] : root(i) = root(j)
      <4>1. leaders[k] \in S BY <2>2, <2>4
      <4>2. T[k] = {j \in S : root(j) = root(leaders[k])} BY <2>1, <4>1 DEF T
      <4> QED BY <2>6, <4>1, <4>2
    <3>2. \A j, k \in 1 .. m : j # k => T[j] \cap T[k] = {}
      BY <2>7, <2>9 DEF ListsEach
    <3> QED BY <2>7, <3>1, <3>2 DEF Classed, root
  <2> QED BY <2>7, <2>13, <2>14, <2>15 DEF chunks, root, parent
<1> QED BY <1>3, <1>4, <1>5

-----------------------------------------------------------------------------
\* Packing.

LEMMA MaxOfInts ==
    ASSUME NEW s \in Seq(Int), s # <<>>
    PROVE  Max(Range(s)) \in Int /\ Max(Range(s)) \in Range(s)
<1> DEFINE n == Len(s)
           P(k) == k > 0 => \E j \in 1 .. k : \A i \in 1 .. k : s[i] <= s[j]
<1>1. n \in Nat /\ n > 0 /\ DOMAIN s = 1 .. n /\ \A k \in 1 .. n : s[k] \in Int
  OBVIOUS
<1>2. P(0) OBVIOUS
<1> HIDE DEF n
<1>3. ASSUME NEW k \in Nat, k < n, P(k) PROVE P(k + 1)
  <2>1. k + 1 \in 1 .. n /\ 1 .. k + 1 = (1 .. k) \cup {k + 1} /\ (1 .. k) \subseteq 1 .. n
    BY <1>1, <1>3, SMTT(60)
  <2>2. CASE k = 0
    <3>1. \A i \in 1 .. k + 1 : i = k + 1 BY <2>2
    <3>2. s[k + 1] <= s[k + 1] BY <1>1, <2>1
    <3> QED BY <2>1, <3>1, <3>2
  <2>3. CASE k > 0
    <3>1. PICK j \in 1 .. k : \A i \in 1 .. k : s[i] <= s[j] BY <1>3, <2>3
    <3>2. s[j] \in Int /\ s[k + 1] \in Int /\ \A i \in 1 .. k : s[i] \in Int
      BY <1>1, <2>1
    <3>3. CASE s[k + 1] <= s[j] BY <2>1, <3>1, <3>3
    <3>4. CASE ~(s[k + 1] <= s[j])
      <4>1. \A i \in 1 .. k + 1 : s[i] <= s[k + 1]
        <5>1. s[j] <= s[k + 1] /\ s[k + 1] <= s[k + 1] BY <3>2, <3>4
        <5>2. \A i \in 1 .. k : s[i] <= s[k + 1] BY <3>1, <3>2, <5>1, SMTT(60)
        <5> QED BY <2>1, <5>1, <5>2
      <4> QED BY <2>1, <4>1
    <3> QED BY <3>3, <3>4
  <2> QED BY <1>3, <2>2, <2>3
<1>4. P(n)
  <2> HIDE DEF P
  <2> DEFINE S == {k \in Nat : P(k)}
  <2>1. 0 \in S /\ \A k \in Nat : k < n /\ k \in S => k + 1 \in S BY <1>2, <1>3
  <2> HIDE DEF S
  <2>2. n \in S BY <1>1, <2>1, Climb
  <2> QED BY <2>2 DEF S
<1>5. PICK j \in 1 .. n : \A i \in 1 .. n : s[i] <= s[j] BY <1>1, <1>4
<1>6. \E x \in Range(s) : \A y \in Range(s) : x >= y
  <2>1. \A i \in 1 .. n : s[j] >= s[i] BY <1>1, <1>5
  <2> QED BY <1>1, <2>1 DEF Range
<1>7. Max(Range(s)) \in Range(s) BY <1>6 DEF Max
<1> QED BY <1>1, <1>7 DEF Range

LEMMA EffortType ==
    ASSUME NEW steps, TypedSteps(steps), NEW i \in 1 .. Len(steps), Counts(steps, i)
    PROVE  EffortOf(steps[i].effort) \in Int
<1> DEFINE effort == steps[i].effort
<1>1. effort.parts \in Seq(Int) /\ effort.parts # <<>> /\ effort.unit \in {"day", "hour", "minute"}
  BY DEF TypedSteps, Counts, Readable, Minutes
<1>2. Minutes[effort.unit] \in Int BY <1>1 DEF Minutes
<1>3. Max(Range(effort.parts)) \in Int BY <1>1, MaxOfInts
<1> DEFINE a == Max(Range(effort.parts)) * Minutes[effort.unit]
<1>4. a \in Int /\ Word - 1 \in Int BY <1>2, <1>3, DecomposeAssumption, SMTT(60)
<1>5. EffortOf(effort) = Min({a, Word - 1}) BY DEF EffortOf
<1> HIDE DEF a
<1>6. \A x, y \in Int : Min({x, y}) \in Int
  <2> SUFFICES ASSUME NEW x \in Int, NEW y \in Int PROVE Min({x, y}) \in Int
    OBVIOUS
  <2>1. \E z \in {x, y} : \A u \in {x, y} : z <= u OBVIOUS
  <2>2. Min({x, y}) \in {x, y} BY <2>1 DEF Min
  <2> QED BY <2>2
<1> QED BY <1>4, <1>5, <1>6

\* One turn of chunk_effort_secs.
Tally(steps, a, i) == IF Counts(steps, i) THEN (a + EffortOf(steps[i].effort)) % Word ELSE a

\* chunk_effort_secs takes the steps of a chunk in turn.
LEMMA ChunkEffortSteps ==
    ASSUME NEW steps, TypedSteps(steps), NEW chunk \in Seq(1 .. Len(steps))
    PROVE  \E g \in [0 .. Len(chunk) -> Int] :
               /\ g[0] = 0
               /\ \A k \in 1 .. Len(chunk) : g[k] = Tally(steps, g[k - 1], chunk[k])
               /\ ChunkEffort(steps, chunk) = g[Len(chunk)]
<1> DEFINE n == Len(chunk)
           turn(a, i) == Tally(steps, a, i)
           step == [x \in Int \X (1 .. n) |-> turn(x[1], chunk[x[2]])]
           Eq(f) == f = [t \in SUBSET (1 .. n) |->
                            IF t = {} THEN 0
                            ELSE turn(f[t \ {Max(t)}], chunk[Max(t)])]
           f == CHOOSE f : Eq(f)
<1>0. 0 \in Int OBVIOUS
<1>1. n \in Nat /\ DOMAIN chunk = 1 .. n /\ \A k \in 1 .. n : chunk[k] \in 1 .. Len(steps)
  OBVIOUS
<1>2. ChunkEffort(steps, chunk) = f[1 .. n]
  BY <1>1 DEF ChunkEffort, FoldLeft, MapThenFoldSet, Tally
<1>3. \A a \in Int, k \in 1 .. n : turn(a, chunk[k]) \in Int
  <2> SUFFICES ASSUME NEW a \in Int, NEW k \in 1 .. n PROVE turn(a, chunk[k]) \in Int
    OBVIOUS
  <2>1. Counts(steps, chunk[k]) => EffortOf(steps[chunk[k]].effort) \in Int
    BY <1>1, EffortType
  <2>2. Word \in Nat \ {0} BY DecomposeAssumption
  <2>3. \A x \in Int : (a + x) % Word \in Int BY <2>2
  <2>4. CASE Counts(steps, chunk[k])
    <3>1. (a + EffortOf(steps[chunk[k]].effort)) % Word \in Int
      BY <2>1, <2>3, <2>4
    <3> QED BY <2>4, <3>1 DEF Tally
  <2>5. CASE ~Counts(steps, chunk[k]) BY <2>5 DEF Tally
  <2> QED BY <2>4, <2>5
<1> HIDE DEF turn
<1>4. step \in [Int \X (1 .. n) -> Int] BY <1>3
<1>5. \A a \in Int, k \in 1 .. n : step[<<a, k>>] = turn(a, chunk[k]) OBVIOUS
<1> HIDE DEF step, n
<1>6. Eq(f)
  <2>1. PICK g \in [SUBSET (1 .. n) -> Int] : Folding(g, 0, step, n)
    BY <1>0, <1>1, <1>4, FoldExists
  <2>2. ASSUME NEW t \in SUBSET (1 .. n)
        PROVE  g[t] = IF t = {} THEN 0 ELSE turn(g[t \ {Max(t)}], chunk[Max(t)])
    <3>1. t # {} => Max(t) \in 1 .. n BY <1>1, MaxOf
    <3>2. g[t \ {Max(t)}] \in Int OBVIOUS
    <3>3. g[t] = IF t = {} THEN 0 ELSE step[<<g[t \ {Max(t)}], Max(t)>>]
      BY <2>1 DEF Folding
    <3> QED BY <1>5, <3>1, <3>2, <3>3
  <2>3. Eq(g) BY <2>2
  <2> QED BY <2>3
<1> HIDE DEF f
<1>7. FoldingIn(f, Int, 0, step, n)
  <2> SUFFICES ASSUME NEW t \in SUBSET (1 .. n)
               PROVE  /\ t = {} => f[t] = 0
                      /\ t # {} /\ f[t \ {Max(t)}] \in Int =>
                             f[t] = step[<<f[t \ {Max(t)}], Max(t)>>]
    BY DEF FoldingIn
  <2>1. t # {} => Max(t) \in 1 .. n BY <1>1, MaxOf
  <2> QED BY <1>5, <1>6, <2>1
<1>8. PICK g : Chained(g, f, Int, 0, step, n)
  BY <1>0, <1>1, <1>4, <1>7, FoldChain
<1>9. g \in [0 .. n -> Int] /\ g[0] = 0 /\ g[n] = f[1 .. n] BY <1>8 DEF Chained
<1>10. ASSUME NEW k \in 1 .. n PROVE g[k] = Tally(steps, g[k - 1], chunk[k])
  <2>1. k - 1 \in 0 .. n BY <1>1
  <2>2. g[k - 1] \in Int /\ g[k] = step[<<g[k - 1], k>>]
    BY <1>8, <1>9, <2>1 DEF Chained
  <2> QED BY <1>5, <2>2 DEF turn
<1> QED BY <1>2, <1>9, <1>10 DEF n

LEMMA ChunkEffortType ==
    ASSUME NEW steps, TypedSteps(steps), NEW chunk \in Seq(1 .. Len(steps))
    PROVE  ChunkEffort(steps, chunk) \in Int
<1>1. Len(chunk) \in 0 .. Len(chunk) OBVIOUS
<1> QED BY <1>1, ChunkEffortSteps

LEMMA SeqSubset ==
    ASSUME NEW B, NEW A \in SUBSET B
    PROVE  Seq(A) \subseteq Seq(B)
  OBVIOUS

\* What pack_chunks has open and closed.
PackAcc(M) == [pieces : Seq(Seq(M)), current : Seq(M), load : Int]

PackBase == [pieces |-> <<>>, current |-> <<>>, load |-> 0]

LEMMA PackLineType ==
    ASSUME NEW M, NEW s \in PackAcc(M), NEW chunk \in Seq(M), NEW weight \in Int, NEW limit
    PROVE  PackLine(s, chunk, weight, limit) \in PackAcc(M)
<1>1. Append(s.pieces, s.current) \in Seq(Seq(M)) /\ s.current \o chunk \in Seq(M)
  BY DEF PackAcc
<1>2. (s.load + weight) % Word \in Int
  BY DecomposeAssumption, SMTT(60) DEF PackAcc
<1> QED BY <1>1, <1>2 DEF PackLine, PackAcc

LEMMA WeightType ==
    ASSUME NEW steps, TypedSteps(steps), NEW chunks, NEW chunk \in Seq(1 .. Len(steps))
    PROVE  Weight(steps, chunks, chunk) \in Int
<1>1. Len(chunk) \in Int OBVIOUS
<1> QED BY <1>1, ChunkEffortType DEF Weight

\* pack_chunks takes the chunks in turn.
LEMMA PackSteps ==
    ASSUME NEW steps, TypedSteps(steps), NEW M \in SUBSET (1 .. Len(steps)),
           NEW chunks \in Seq(Seq(M))
    PROVE  \E g \in [0 .. Len(chunks) -> PackAcc(M)] :
               /\ g[0] = PackBase
               /\ \A k \in 1 .. Len(chunks) :
                    g[k] = PackLine(g[k - 1], chunks[k], Weight(steps, chunks, chunks[k]),
                                    Limit(steps, chunks))
               /\ Pack(steps, chunks) =
                    IF g[Len(chunks)].current = <<>> THEN g[Len(chunks)].pieces
                    ELSE Append(g[Len(chunks)].pieces, g[Len(chunks)].current)
<1> DEFINE n == Len(chunks)
           Acc == PackAcc(M)
           w(chunk) == Weight(steps, chunks, chunk)
           limit == Limit(steps, chunks)
           step == [x \in Acc \X (1 .. n) |->
                       PackLine(x[1], chunks[x[2]], w(chunks[x[2]]), limit)]
           Eq(f) == f = [t \in SUBSET (1 .. n) |->
                            IF t = {} THEN PackBase
                            ELSE PackLine(f[t \ {Max(t)}], chunks[Max(t)],
                                          w(chunks[Max(t)]), limit)]
           f == CHOOSE f : Eq(f)
<1>0. PackBase \in Acc BY DEF PackBase, PackAcc
<1>1. n \in Nat /\ DOMAIN chunks = 1 .. n /\ \A k \in 1 .. n : chunks[k] \in Seq(M)
  OBVIOUS
<1>2. Pack(steps, chunks) =
          IF f[1 .. n].current = <<>> THEN f[1 .. n].pieces
          ELSE Append(f[1 .. n].pieces, f[1 .. n].current)
  BY <1>1 DEF Pack, FoldLeft, MapThenFoldSet, PackBase
<1>3. \A k \in 1 .. n : w(chunks[k]) \in Int
  <2>1. \A k \in 1 .. n : chunks[k] \in Seq(1 .. Len(steps))
    <3>1. Seq(M) \subseteq Seq(1 .. Len(steps)) BY SeqSubset
    <3> QED BY <1>1, <3>1
  <2> QED BY <2>1, WeightType
<1> HIDE DEF w, limit, n
<1>9. \A a \in Acc, k \in 1 .. n : PackLine(a, chunks[k], w(chunks[k]), limit) \in Acc
  BY <1>1, <1>3, PackLineType
<1>4. step \in [Acc \X (1 .. n) -> Acc] BY <1>9
<1>5. \A a \in Acc, k \in 1 .. n : step[<<a, k>>] = PackLine(a, chunks[k], w(chunks[k]), limit)
  OBVIOUS
<1> HIDE DEF step, Acc
<1>6. Eq(f)
  <2>1. PICK g \in [SUBSET (1 .. n) -> Acc] : Folding(g, PackBase, step, n)
    BY <1>0, <1>1, <1>4, FoldExists
  <2>2. ASSUME NEW t \in SUBSET (1 .. n)
        PROVE  g[t] = IF t = {} THEN PackBase
                      ELSE PackLine(g[t \ {Max(t)}], chunks[Max(t)], w(chunks[Max(t)]), limit)
    <3>1. t # {} => Max(t) \in 1 .. n BY <1>1, MaxOf
    <3>2. g[t \ {Max(t)}] \in Acc OBVIOUS
    <3>3. g[t] = IF t = {} THEN PackBase ELSE step[<<g[t \ {Max(t)}], Max(t)>>]
      BY <2>1 DEF Folding
    <3> QED BY <1>5, <3>1, <3>2, <3>3
  <2>3. Eq(g) BY <2>2
  <2> QED BY <2>3
<1> HIDE DEF f
<1>7. FoldingIn(f, Acc, PackBase, step, n)
  <2> SUFFICES ASSUME NEW t \in SUBSET (1 .. n)
               PROVE  /\ t = {} => f[t] = PackBase
                      /\ t # {} /\ f[t \ {Max(t)}] \in Acc =>
                             f[t] = step[<<f[t \ {Max(t)}], Max(t)>>]
    BY DEF FoldingIn
  <2>1. t # {} => Max(t) \in 1 .. n BY <1>1, MaxOf
  <2> QED BY <1>5, <1>6, <2>1
<1>8. PICK g : Chained(g, f, Acc, PackBase, step, n)
  BY <1>0, <1>1, <1>4, <1>7, FoldChain
<1>10. g \in [0 .. n -> Acc] /\ g[0] = PackBase /\ g[n] = f[1 .. n]
  BY <1>8 DEF Chained
<1>11. ASSUME NEW k \in 1 .. n
       PROVE  g[k] = PackLine(g[k - 1], chunks[k], w(chunks[k]), limit)
  <2>1. k - 1 \in 0 .. n BY <1>1
  <2>2. g[k - 1] \in Acc /\ g[k] = step[<<g[k - 1], k>>]
    BY <1>10, <1>8, <2>1 DEF Chained
  <2> QED BY <1>5, <2>2
<1> QED BY <1>2, <1>10, <1>11 DEF n, Acc, w, limit

\* The chunks up to the k-th are packed: in their order, none of them torn.
Packed(s, M, chunks, F, k) ==
    /\ FlattenSeq(s.pieces) \o s.current = F[k]
    /\ \A p \in 1 .. Len(s.pieces) : s.pieces[p] # <<>>
    /\ \A j \in 1 .. k :
         \/ Range(chunks[j]) \subseteq Range(s.current)
         \/ \E p \in 1 .. Len(s.pieces) : Range(chunks[j]) \subseteq Range(s.pieces[p])

LEMMA Appended ==
    ASSUME NEW M, NEW s \in Seq(M), NEW x \in M
    PROVE  /\ Append(s, x) \in Seq(M) /\ Len(Append(s, x)) = Len(s) + 1
           /\ Append(s, x)[Len(s) + 1] = x
           /\ \A k \in 1 .. Len(s) : Append(s, x)[k] = s[k]
           /\ 1 .. Len(Append(s, x)) = (1 .. Len(s)) \cup {Len(s) + 1}
  OBVIOUS

LEMMA FlattenAppend ==
    ASSUME NEW M, NEW q \in Seq(Seq(M)), NEW x \in Seq(M)
    PROVE  FlattenSeq(Append(q, x)) = FlattenSeq(q) \o x
<1>1. <<x>> \in Seq(Seq(M)) /\ Append(q, x) = q \o <<x>> OBVIOUS
<1>2. FlattenSeq(<<x>>) = x
  <2> DEFINE z == <<x>>
  <2>1. z \in Seq(Seq(M)) /\ Len(z) = 1 /\ z[1] = x BY <1>1
  <2> HIDE DEF z
  <2>2. PICK F \in [0 .. Len(z) -> Seq(M)] :
            /\ F[0] = <<>>
            /\ \A k \in 1 .. Len(z) : F[k] = F[k - 1] \o z[k]
            /\ FlattenSeq(z) = F[Len(z)]
    BY <2>1, FlattenSteps
  <2>3. F[1] = F[1 - 1] \o z[1] /\ 1 - 1 = 0 BY <2>1, <2>2
  <2>4. FlattenSeq(z) = <<>> \o x BY <2>1, <2>2, <2>3
  <2>5. <<>> \o x = x OBVIOUS
  <2> QED BY <2>4, <2>5 DEF z
<1>3. FlattenSeq(q \o <<x>>) = FlattenSeq(q) \o FlattenSeq(<<x>>)
  BY <1>1, FlattenConcat
<1> QED BY <1>1, <1>2, <1>3

LEMMA FlattenOpen ==
    ASSUME NEW M, NEW q \in Seq(Seq(M)), NEW x \in Seq(M), NEW y \in Seq(M)
    PROVE  FlattenSeq(q) \o (x \o y) = (FlattenSeq(q) \o x) \o y
<1> DEFINE f == FlattenSeq(q)
<1>1. f \in Seq(M) BY FlattenType
<1> HIDE DEF f
<1>2. f \o (x \o y) = (f \o x) \o y BY <1>1, SMTT(60)
<1> QED BY <1>2 DEF f

LEMMA RangeConcat ==
    ASSUME NEW M, NEW a \in Seq(M), NEW b \in Seq(M)
    PROVE  Range(a \o b) = Range(a) \cup Range(b)
<1>1. /\ Len(a) \in Nat /\ Len(b) \in Nat
      /\ DOMAIN a = 1 .. Len(a) /\ DOMAIN b = 1 .. Len(b)
      /\ DOMAIN (a \o b) = 1 .. Len(a) + Len(b)
      /\ \A k \in 1 .. Len(a) : (a \o b)[k] = a[k] /\ k \in 1 .. Len(a) + Len(b)
      /\ \A k \in 1 .. Len(b) : (a \o b)[Len(a) + k] = b[k] /\ Len(a) + k \in 1 .. Len(a) + Len(b)
  OBVIOUS
<1>2. \A k \in 1 .. Len(a) + Len(b) : k \in 1 .. Len(a) \/ (k - Len(a) \in 1 .. Len(b)
          /\ Len(a) + (k - Len(a)) = k)
  BY <1>1
<1>3. ASSUME NEW x \in Range(a \o b) PROVE x \in Range(a) \cup Range(b)
  <2>1. PICK k \in 1 .. Len(a) + Len(b) : (a \o b)[k] = x
    BY <1>1, <1>3 DEF Range
  <2>2. CASE k \in 1 .. Len(a) BY <1>1, <2>1, <2>2 DEF Range
  <2>3. CASE k - Len(a) \in 1 .. Len(b) /\ Len(a) + (k - Len(a)) = k
    <3>1. b[k - Len(a)] = x BY <1>1, <2>1, <2>3
    <3> QED BY <1>1, <2>3, <3>1 DEF Range
  <2> QED BY <1>2, <2>2, <2>3
<1>4. Range(a) \subseteq Range(a \o b) BY <1>1 DEF Range
<1>5. Range(b) \subseteq Range(a \o b) BY <1>1 DEF Range
<1> QED BY <1>3, <1>4, <1>5

LEMMA PackedStep ==
    ASSUME NEW M, NEW s \in PackAcc(M), NEW chunks \in Seq(Seq(M)),
           NEW F, NEW k \in 1 .. Len(chunks), F[k] = F[k - 1] \o chunks[k],
           Packed(s, M, chunks, F, k - 1),
           NEW weight, NEW limit
    PROVE  Packed(PackLine(s, chunks[k], weight, limit), M, chunks, F, k)
<1> DEFINE c == chunks[k]
           t == PackLine(s, c, weight, limit)
           n == Len(s.pieces)
           n2 == Len(t.pieces)
<1>1. /\ s.pieces \in Seq(Seq(M)) /\ s.current \in Seq(M) /\ c \in Seq(M)
      /\ FlattenSeq(s.pieces) \in Seq(M) /\ n \in Nat
      /\ k \in Nat /\ k - 1 \in Nat /\ 1 .. k = (1 .. k - 1) \cup {k}
  BY FlattenType, SMTT(60) DEF PackAcc
<1>2. /\ FlattenSeq(s.pieces) \o s.current = F[k - 1]
      /\ \A p \in 1 .. n : s.pieces[p] # <<>>
      /\ \A j \in 1 .. k - 1 :
           \/ Range(chunks[j]) \subseteq Range(s.current)
           \/ \E p \in 1 .. n : Range(chunks[j]) \subseteq Range(s.pieces[p])
  BY DEF Packed
<1>3. F[k] = (FlattenSeq(s.pieces) \o s.current) \o c BY <1>2
<1>4. CASE s.current # <<>> /\ (s.load + weight) % Word > limit
  <2>1. t.pieces = Append(s.pieces, s.current) /\ t.current = c
    BY <1>4 DEF PackLine
  <2>2. /\ n2 = n + 1 /\ t.pieces[n + 1] = s.current
        /\ \A p \in 1 .. n : t.pieces[p] = s.pieces[p]
        /\ 1 .. n2 = (1 .. n) \cup {n + 1}
    <3> DEFINE q == s.pieces
               a == s.current
    <3>1. q \in Seq(Seq(M)) /\ a \in Seq(M) /\ t.pieces = Append(q, a)
      BY <1>1, <2>1
    <3> HIDE DEF q, a, t
    <3> QED BY <3>1, Appended, SMTT(60) DEF q, a
  <2>3. FlattenSeq(t.pieces) \o t.current = F[k]
    BY <1>1, <1>3, <2>1, FlattenAppend, ZenonT(60)
  <2> HIDE DEF t, n, n2, c
  <2>4. \A p \in 1 .. n2 : t.pieces[p] # <<>> BY <1>2, <1>4, <2>2
  <2>5. ASSUME NEW j \in 1 .. k
        PROVE  \/ Range(chunks[j]) \subseteq Range(t.current)
               \/ \E p \in 1 .. n2 : Range(chunks[j]) \subseteq Range(t.pieces[p])
    <3>1. CASE j = k BY <2>1, <3>1 DEF c
    <3>2. CASE j \in 1 .. k - 1 BY <1>2, <2>2, <3>2
    <3> QED BY <1>1, <3>1, <3>2
  <2> QED BY <2>3, <2>4, <2>5 DEF Packed, t, c, n2
<1>5. CASE ~(s.current # <<>> /\ (s.load + weight) % Word > limit)
  <2>1. t.pieces = s.pieces /\ t.current = s.current \o c
    BY <1>5 DEF PackLine, PackAcc
  <2>2. FlattenSeq(t.pieces) \o t.current = F[k]
    <3> DEFINE q == s.pieces
               a == s.current
    <3>1. q \in Seq(Seq(M)) /\ a \in Seq(M) /\ c \in Seq(M) BY <1>1
    <3> HIDE DEF q, a, c, t
    <3>2. FlattenSeq(q) \o (a \o c) = (FlattenSeq(q) \o a) \o c
      BY <3>1, FlattenOpen, SMTT(60)
    <3>3. FlattenSeq(t.pieces) \o t.current = FlattenSeq(q) \o (a \o c)
      BY <2>1, Zenon DEF q, a
    <3> QED BY <1>3, <3>2, <3>3, Zenon DEF q, a
  <2>3. Range(t.current) = Range(s.current) \cup Range(c)
    BY <1>1, <2>1, RangeConcat, SMTT(60)
  <2> HIDE DEF t, c
  <2>4. ASSUME NEW j \in 1 .. k
        PROVE  \/ Range(chunks[j]) \subseteq Range(t.current)
               \/ \E p \in 1 .. n2 : Range(chunks[j]) \subseteq Range(t.pieces[p])
    <3>1. CASE j = k BY <2>3, <3>1 DEF c
    <3>2. CASE j \in 1 .. k - 1 BY <1>2, <2>1, <2>3, <3>2
    <3> QED BY <1>1, <3>1, <3>2
  <2> QED BY <1>2, <2>1, <2>2, <2>4 DEF Packed, t, c
<1> QED BY <1>4, <1>5

\* Packing puts the chunks one after the other into pieces, none of them
\* empty, and a chunk is never divided.
LEMMA PackFacts ==
    ASSUME NEW steps, TypedSteps(steps), NEW M \in SUBSET (1 .. Len(steps)),
           NEW chunks \in Seq(Seq(M))
    PROVE  LET pieces == Pack(steps, chunks)
           IN  /\ pieces \in Seq(Seq(M))
               /\ FlattenSeq(pieces) = FlattenSeq(chunks)
               /\ \A p \in 1 .. Len(pieces) : pieces[p] # <<>>
               /\ \A k \in 1 .. Len(chunks) : \A i \in Range(chunks[k]) :
                    \E p \in 1 .. Len(pieces) : Range(chunks[k]) \subseteq Range(pieces[p])
<1> DEFINE n == Len(chunks)
           q == Pack(steps, chunks)
<1>1. PICK g \in [0 .. n -> PackAcc(M)] :
          /\ g[0] = PackBase
          /\ \A k \in 1 .. n :
               g[k] = PackLine(g[k - 1], chunks[k], Weight(steps, chunks, chunks[k]),
                               Limit(steps, chunks))
          /\ q = IF g[n].current = <<>> THEN g[n].pieces
                 ELSE Append(g[n].pieces, g[n].current)
  BY PackSteps
<1>2. PICK F \in [0 .. n -> Seq(M)] :
          /\ F[0] = <<>>
          /\ \A k \in 1 .. n : F[k] = F[k - 1] \o chunks[k]
          /\ FlattenSeq(chunks) = F[n]
  BY FlattenSteps
<1>3. n \in Nat OBVIOUS
<1> DEFINE P(k) == Packed(g[k], M, chunks, F, k)
<1>4. P(0)
  <2>1. FlattenSeq(<<>>) = <<>> /\ <<>> \o <<>> = <<>> BY DEF FlattenSeq
  <2> QED BY <1>1, <1>2, <2>1 DEF Packed, PackBase
<1>5. ASSUME NEW k \in Nat, k < n, P(k) PROVE P(k + 1)
  <2>1. k + 1 \in 1 .. n /\ (k + 1) - 1 = k /\ k \in 0 .. n BY <1>3, <1>5
  <2> DEFINE weight == Weight(steps, chunks, chunks[k + 1])
             limit == Limit(steps, chunks)
  <2>2. g[k + 1] = PackLine(g[k], chunks[k + 1], weight, limit) BY <1>1, <2>1
  <2> HIDE DEF weight, limit
  <2>3. F[k + 1] = F[k] \o chunks[k + 1] /\ g[k] \in PackAcc(M) BY <1>2, <2>1
  <2>4. Packed(PackLine(g[k], chunks[k + 1], weight, limit), M, chunks, F, k + 1)
    BY <1>2, <1>5, <2>1, <2>3, PackedStep
  <2> QED BY <2>2, <2>4
<1> HIDE DEF n, q
<1>6. P(n)
  <2> HIDE DEF P
  <2> DEFINE S == {k \in Nat : P(k)}
  <2>1. 0 \in S /\ \A k \in Nat : k < n /\ k \in S => k + 1 \in S BY <1>4, <1>5
  <2> HIDE DEF S
  <2>2. n \in S BY <1>3, <2>1, Climb
  <2> QED BY <2>2 DEF S
<1> DEFINE s == g[n]
           m == Len(s.pieces)
<1>7. /\ s.pieces \in Seq(Seq(M)) /\ s.current \in Seq(M) /\ m \in Nat
      /\ FlattenSeq(s.pieces) \in Seq(M)
  <2>1. s \in PackAcc(M) BY <1>3
  <2> QED BY <2>1, FlattenType DEF PackAcc
<1>8. /\ FlattenSeq(s.pieces) \o s.current = FlattenSeq(chunks)
      /\ \A p \in 1 .. m : s.pieces[p] # <<>>
      /\ \A j \in 1 .. n :
           \/ Range(chunks[j]) \subseteq Range(s.current)
           \/ \E p \in 1 .. m : Range(chunks[j]) \subseteq Range(s.pieces[p])
  BY <1>2, <1>6 DEF Packed
<1> HIDE DEF s
<1>9. CASE s.current = <<>>
  <2>1. q = s.pieces BY <1>1, <1>9 DEF s
  <2>2. FlattenSeq(s.pieces) \o <<>> = FlattenSeq(s.pieces) BY <1>7
  <2>3. Range(s.current) = {} BY <1>9 DEF Range
  <2>4. \A k \in 1 .. n : \A i \in Range(chunks[k]) :
            \E p \in 1 .. m : Range(chunks[k]) \subseteq Range(s.pieces[p])
    BY <1>8, <2>3
  <2> QED BY <1>7, <1>8, <1>9, <2>1, <2>2, <2>4 DEF q, n
<1>10. CASE s.current # <<>>
  <2>1. q = Append(s.pieces, s.current) BY <1>1, <1>10 DEF s
  <2>2. /\ Len(q) = m + 1 /\ q[m + 1] = s.current /\ q \in Seq(Seq(M))
        /\ \A p \in 1 .. m : q[p] = s.pieces[p]
        /\ 1 .. Len(q) = (1 .. m) \cup {m + 1}
    BY <1>7, <2>1
  <2>3. FlattenSeq(q) = FlattenSeq(chunks) BY <1>7, <1>8, <2>1, FlattenAppend
  <2> HIDE DEF m
  <2>4. \A p \in 1 .. Len(q) : q[p] # <<>> BY <1>8, <1>10, <2>2
  <2>5. \A k \in 1 .. n : \A i \in Range(chunks[k]) :
            \E p \in 1 .. Len(q) : Range(chunks[k]) \subseteq Range(q[p])
    BY <1>8, <2>2
  <2> QED BY <2>2, <2>3, <2>4, <2>5 DEF q, n
<1> QED BY <1>9, <1>10

\* The pieces of a group S: its steps once each, and with a step all that is
\* tied to it by a dependency.
GroupPieces(steps, group, S, q) ==
    /\ q \in Seq(Seq(S))
    /\ Lists(FlattenSeq(q), S)
    /\ \A p \in 1 .. Len(q) : q[p] # <<>>
    /\ RespectDependencies =>
         LET parent == Merged(steps, group)
         IN  \A i \in S : \E p \in 1 .. Len(q) :
                 /\ i \in Range(q[p])
                 /\ \A j \in S : Root(parent, steps[j].number) = Root(parent, steps[i].number)
                        => j \in Range(q[p])

LEMMA GroupPiecesFacts ==
    ASSUME NEW steps, TypedSteps(steps), NEW S \in SUBSET (1 .. Len(steps)),
           NEW group, Lists(group, S)
    PROVE  GroupPieces(steps, group, S, Pack(steps, Chunks(steps, group)))
<1> DEFINE chunks == Chunks(steps, group)
           q == Pack(steps, chunks)
           root(j) == Root(Merged(steps, group), steps[j].number)
<1>1. /\ chunks \in Seq(Seq(S))
      /\ Lists(FlattenSeq(chunks), S)
      /\ RespectDependencies =>
           \A i \in S : \E k \in DOMAIN chunks :
               /\ i \in Range(chunks[k])
               /\ \A j \in S : root(j) = root(i) => j \in Range(chunks[k])
  BY ChunksFacts
<1>2. DOMAIN chunks = 1 .. Len(chunks) BY <1>1
<1>3. /\ q \in Seq(Seq(S))
      /\ FlattenSeq(q) = FlattenSeq(chunks)
      /\ \A p \in 1 .. Len(q) : q[p] # <<>>
      /\ \A k \in 1 .. Len(chunks) : \A i \in Range(chunks[k]) :
           \E p \in 1 .. Len(q) : Range(chunks[k]) \subseteq Range(q[p])
  BY <1>1, PackFacts
<1> HIDE DEF chunks, q, root
<1>4. ASSUME RespectDependencies, NEW i \in S
      PROVE  \E p \in 1 .. Len(q) : /\ i \in Range(q[p])
                                    /\ \A j \in S : root(j) = root(i) => j \in Range(q[p])
  <2>1. PICK k \in 1 .. Len(chunks) :
               /\ i \in Range(chunks[k])
               /\ \A j \in S : root(j) = root(i) => j \in Range(chunks[k])
    BY <1>1, <1>2, <1>4
  <2>2. PICK p \in 1 .. Len(q) : Range(chunks[k]) \subseteq Range(q[p])
    BY <1>3, <2>1
  <2> QED BY <2>1, <2>2
<1>5. GroupPieces(steps, group, S, q) BY <1>1, <1>3, <1>4 DEF GroupPieces, root
<1> QED BY <1>5 DEF q, chunks

\* The pieces of all groups, up to the k-th.
SplitUpto(steps, T, PP, m, F, k) ==
    /\ Lists(FlattenSeq(F), Covered(T, k))
    /\ \A p \in 1 .. Len(F) : F[p] # <<>> /\ \E g \in 1 .. m : Range(F[p]) \subseteq T[g]
    /\ \A g \in 1 .. k : \A p \in 1 .. Len(PP[g]) : \E r \in 1 .. Len(F) : F[r] = PP[g][p]

LEMMA SplitStep ==
    ASSUME NEW n \in Nat, NEW m \in Nat, NEW steps, NEW T, NEW PP,
           NEW k \in Nat, k < m, T[k + 1] \in SUBSET (1 .. n),
           T[k + 1] \cap Covered(T, k) = {},
           NEW group, GroupPieces(steps, group, T[k + 1], PP[k + 1]),
           NEW F \in Seq(Seq(1 .. n)), SplitUpto(steps, T, PP, m, F, k)
    PROVE  SplitUpto(steps, T, PP, m, F \o PP[k + 1], k + 1)
<1> DEFINE q == PP[k + 1]
           S == T[k + 1]
           H == F \o q
           a == Len(F)
           b == Len(q)
<1>1. k + 1 \in 1 .. m /\ 1 .. k + 1 = (1 .. k) \cup {k + 1} OBVIOUS
<1>2. /\ q \in Seq(Seq(S)) /\ Lists(FlattenSeq(q), S)
      /\ \A p \in 1 .. b : q[p] # <<>>
  BY DEF GroupPieces
<1>3. q \in Seq(Seq(1 .. n))
  <2>1. S \in SUBSET (1 .. n) OBVIOUS
  <2> HIDE DEF S, q
  <2>2. Seq(S) \in SUBSET Seq(1 .. n) BY <2>1, SeqSubset
  <2>3. Seq(Seq(S)) \subseteq Seq(Seq(1 .. n)) BY <2>2, SeqSubset
  <2> QED BY <1>2, <2>3
<1>4. /\ Lists(FlattenSeq(F), Covered(T, k))
      /\ \A p \in 1 .. a : F[p] # <<>> /\ \E g \in 1 .. m : Range(F[p]) \subseteq T[g]
      /\ \A g \in 1 .. k : \A p \in 1 .. Len(PP[g]) : \E r \in 1 .. a : F[r] = PP[g][p]
  BY DEF SplitUpto
<1>5. Covered(T, k + 1) = Covered(T, k) \cup S BY <1>1 DEF Covered
<1> HIDE DEF q, S
<1>6. Lists(FlattenSeq(H), Covered(T, k + 1))
  <2>1. FlattenSeq(H) = FlattenSeq(F) \o FlattenSeq(q) BY <1>3, FlattenConcat
  <2>2. Covered(T, k) \cap S = {} BY DEF S
  <2>3. Lists(FlattenSeq(F) \o FlattenSeq(q), Covered(T, k) \cup S)
    BY <1>2, <1>4, <2>2, ListsConcat
  <2> QED BY <1>5, <2>1, <2>3
<1>7. /\ a \in Nat /\ b \in Nat /\ Len(H) = a + b
      /\ \A p \in 1 .. a : H[p] = F[p] /\ p \in 1 .. a + b
      /\ \A p \in 1 .. b : H[a + p] = q[p] /\ a + p \in 1 .. a + b
  BY <1>3
<1>8. \A p \in 1 .. b : Range(q[p]) \subseteq S
  <2>1. \A s \in Seq(S) : Range(s) \subseteq S BY DEF Range
  <2>2. \A p \in 1 .. b : q[p] \in Seq(S) BY <1>2
  <2> QED BY <2>1, <2>2
<1> HIDE DEF a, b, H
<1>9. ASSUME NEW p \in 1 .. a + b
      PROVE  H[p] # <<>> /\ \E g \in 1 .. m : Range(H[p]) \subseteq T[g]
  <2>1. CASE p \in 1 .. a BY <1>4, <1>7, <2>1
  <2>2. CASE p - a \in 1 .. b /\ a + (p - a) = p
    <3>1. H[p] = q[p - a] BY <1>7, <2>2
    <3>2. q[p - a] # <<>> /\ Range(q[p - a]) \subseteq S BY <1>2, <1>8, <2>2
    <3> QED BY <1>1, <3>1, <3>2 DEF S
  <2> QED BY <1>7, <2>1, <2>2
<1>10. ASSUME NEW g \in 1 .. k + 1, NEW p \in 1 .. Len(PP[g])
       PROVE  \E r \in 1 .. a + b : H[r] = PP[g][p]
  <2>1. CASE g \in 1 .. k BY <1>4, <1>7, <2>1
  <2>2. CASE g = k + 1
    <3>1. PP[g] = q /\ p \in 1 .. b BY <2>2 DEF q, b
    <3> QED BY <1>7, <3>1
  <2> QED BY <1>1, <2>1, <2>2
<1> QED BY <1>6, <1>7, <1>9, <1>10, ZenonT(60) DEF SplitUpto, H, q

\* What split makes of the steps: pieces that are not empty, of one
\* project, that hold every step once, and hold together what a group's
\* dependencies tie.
LEMMA SplitFacts ==
    ASSUME NEW steps, TypedSteps(steps)
    PROVE  LET pieces == Split(steps)
               n == Len(steps)
               groups == ProjectGroups(steps)
           IN  /\ pieces \in Seq(Seq(1 .. n))
               /\ Lists(FlattenSeq(pieces), 1 .. n)
               /\ Len(pieces) <= n
               /\ \A p \in 1 .. Len(pieces) :
                    /\ pieces[p] # <<>>
                    /\ \A i, j \in Range(pieces[p]) : SameProject(steps, i, j)
               /\ \E T : /\ Grouped(steps, groups, T)
                         /\ RespectDependencies =>
                              \A g \in 1 .. Len(groups) : \A i \in T[g] :
                                \E p \in 1 .. Len(pieces) :
                                  /\ i \in Range(pieces[p])
                                  /\ \A j \in T[g] :
                                       Root(Merged(steps, groups[g]), steps[j].number)
                                           = Root(Merged(steps, groups[g]), steps[i].number)
                                       => j \in Range(pieces[p])
<1> DEFINE n == Len(steps)
           groups == ProjectGroups(steps)
           m == Len(groups)
           PP == [g \in 1 .. m |-> Pack(steps, Chunks(steps, groups[g]))]
           pieces == Split(steps)
<1>1. n \in Nat BY DEF TypedSteps
<1>2. PICK T : Grouped(steps, groups, T) BY ProjectGroupsFacts
<1>3. pieces = FlattenSeq(PP) BY DEF Split
<1>4. m \in Nat /\ \A g \in 1 .. m : PP[g] = Pack(steps, Chunks(steps, groups[g]))
  BY <1>2 DEF Grouped
<1>5. /\ \A g \in 1 .. m : Lists(groups[g], T[g]) /\ T[g] \in SUBSET (1 .. n)
      /\ \A g, h \in 1 .. m : g # h => T[g] \cap T[h] = {}
      /\ Covered(T, m) = 1 .. n
      /\ \A g \in 1 .. m : \A i \in T[g], j \in 1 .. n : SameProject(steps, i, j) <=> j \in T[g]
  BY <1>2 DEF Grouped
<1>6. PP = [g \in 1 .. m |-> PP[g]] OBVIOUS
<1> HIDE DEF PP, m
<1>7. \A g \in 1 .. m : GroupPieces(steps, groups[g], T[g], PP[g])
  BY <1>4, <1>5, GroupPiecesFacts
<1>8. PP \in Seq(Seq(Seq(1 .. n))) /\ Len(PP) = m
  <2>1. ASSUME NEW g \in 1 .. m PROVE PP[g] \in Seq(Seq(1 .. n))
    <3>1. PP[g] \in Seq(Seq(T[g])) /\ T[g] \in SUBSET (1 .. n)
      BY <1>5, <1>7 DEF GroupPieces
    <3>2. Seq(T[g]) \in SUBSET Seq(1 .. n) BY <3>1, SeqSubset
    <3>3. Seq(Seq(T[g])) \subseteq Seq(Seq(1 .. n)) BY <3>2, SeqSubset
    <3> QED BY <3>1, <3>3
  <2> QED BY <1>4, <1>6, <2>1, ListFrom
<1> HIDE DEF n, pieces
<1>9. PICK F \in [0 .. Len(PP) -> Seq(Seq(1 .. n))] :
          /\ F[0] = <<>>
          /\ \A k \in 1 .. Len(PP) : F[k] = F[k - 1] \o PP[k]
          /\ FlattenSeq(PP) = F[Len(PP)]
  BY <1>8, FlattenSteps
<1> DEFINE P(k) == SplitUpto(steps, T, PP, m, F[k], k)
<1>10. P(0)
  <2>1. Lists(FlattenSeq(<<>>), Covered(T, 0))
    <3>1. FlattenSeq(<<>>) = <<>> BY DEF FlattenSeq
    <3>2. Covered(T, 0) = {} BY DEF Covered
    <3>3. Lists(<<>>, {}) BY ListsOne
    <3> QED BY <3>1, <3>2, <3>3
  <2>2. /\ \A p \in 1 .. Len(<<>>) : <<>>[p] # <<>> /\ \E g \in 1 .. m : Range(<<>>[p]) \subseteq T[g]
        /\ \A g \in 1 .. 0 : \A p \in 1 .. Len(PP[g]) : \E r \in 1 .. Len(<<>>) : <<>>[r] = PP[g][p]
    <3>1. Len(<<>>) = 0 /\ 1 .. 0 = {} OBVIOUS
    <3> QED BY <3>1
  <2>3. SplitUpto(steps, T, PP, m, <<>>, 0) BY <2>1, <2>2 DEF SplitUpto
  <2>4. F[0] = <<>> BY <1>9
  <2> QED BY <2>3, <2>4
<1>11. ASSUME NEW k \in Nat, k < m, P(k) PROVE P(k + 1)
  <2>1. k + 1 \in 1 .. m /\ (k + 1) - 1 = k /\ k \in 0 .. m BY <1>4, <1>11
  <2>2. F[k + 1] = F[k] \o PP[k + 1] /\ F[k] \in Seq(Seq(1 .. n))
    BY <1>8, <1>9, <2>1
  <2>3. T[k + 1] \cap Covered(T, k) = {}
    <3>1. \A j \in 1 .. k : j \in 1 .. m /\ j # k + 1 BY <1>4, <1>11
    <3> QED BY <1>5, <2>1, <3>1 DEF Covered
  <2>4. SplitUpto(steps, T, PP, m, F[k] \o PP[k + 1], k + 1)
    BY <1>1, <1>4, <1>5, <1>7, <1>11, <2>1, <2>2, <2>3, SplitStep
  <2> QED BY <2>2, <2>4
<1>12. P(m)
  <2> HIDE DEF P
  <2> DEFINE S == {k \in Nat : P(k)}
  <2>1. 0 \in S /\ \A k \in Nat : k < m /\ k \in S => k + 1 \in S
    BY <1>10, <1>11
  <2> HIDE DEF S
  <2>2. m \in S BY <1>4, <2>1, Climb
  <2> QED BY <2>2 DEF S
<1>13. pieces \in Seq(Seq(1 .. n)) /\ SplitUpto(steps, T, PP, m, pieces, m)
  <2>1. Len(PP) \in 0 .. Len(PP) BY <1>4, <1>8
  <2> QED BY <1>3, <1>8, <1>9, <1>12, <2>1
<1>14. /\ Lists(FlattenSeq(pieces), 1 .. n)
       /\ \A p \in 1 .. Len(pieces) : pieces[p] # <<>> /\ \E g \in 1 .. m : Range(pieces[p]) \subseteq T[g]
       /\ \A g \in 1 .. m : \A p \in 1 .. Len(PP[g]) : \E r \in 1 .. Len(pieces) : pieces[r] = PP[g][p]
  BY <1>5, <1>13 DEF SplitUpto
<1>15. Len(pieces) <= n
  <2>1. Len(pieces) <= Len(FlattenSeq(pieces)) BY <1>13, <1>14, FlattenLength
  <2>2. Len(FlattenSeq(pieces)) = n BY <1>1, <1>14, ListsLength
  <2> QED BY <2>1, <2>2
<1>16. ASSUME NEW p \in 1 .. Len(pieces), NEW i \in Range(pieces[p]), NEW j \in Range(pieces[p])
       PROVE  SameProject(steps, i, j)
  <2>1. PICK g \in 1 .. m : Range(pieces[p]) \subseteq T[g] BY <1>14
  <2>2. i \in T[g] /\ j \in T[g] /\ j \in 1 .. n BY <1>5, <2>1
  <2> QED BY <1>5, <2>2
<1>17. ASSUME RespectDependencies, NEW g \in 1 .. m, NEW i \in T[g]
       PROVE  \E p \in 1 .. Len(pieces) :
                  /\ i \in Range(pieces[p])
                  /\ \A j \in T[g] :
                       Root(Merged(steps, groups[g]), steps[j].number)
                           = Root(Merged(steps, groups[g]), steps[i].number)
                       => j \in Range(pieces[p])
  <2>1. PICK p \in 1 .. Len(PP[g]) :
                  /\ i \in Range(PP[g][p])
                  /\ \A j \in T[g] :
                       Root(Merged(steps, groups[g]), steps[j].number)
                           = Root(Merged(steps, groups[g]), steps[i].number)
                       => j \in Range(PP[g][p])
    BY <1>7, <1>17 DEF GroupPieces
  <2>2. PICK r \in 1 .. Len(pieces) : pieces[r] = PP[g][p] BY <1>14
  <2> QED BY <2>1, <2>2
<1> QED BY <1>2, <1>13, <1>14, <1>15, <1>16, <1>17, ZenonT(60) DEF n, m, pieces

-----------------------------------------------------------------------------
\* The steps of a handoff.

Regions == {"metadata", "files", "verification", "checklist", "description"}

\* Where parse_step is, after lines of L.
StepAcc(L, number, title) ==
    LET Of(kind) == { line.of : line \in { l \in L : l.is = kind } }
        Values == { line.of : line \in L }
    IN  [ region : Regions, verify : Seq(L),
          step : [ number : {number}, title : {title},
                   project : {NoValue} \cup Of("project"),
                   effort : {NoValue} \cup Of("effort"),
                   depends : {<<>>} \cup Of("depends"),
                   description : Seq(L), files : Seq(Values),
                   verification : {NoValue}, checklist : Seq(Values) ] ]

LEMMA StepLineType ==
    ASSUME NEW L, NEW number, NEW title, NEW s \in StepAcc(L, number, title), NEW line \in L
    PROVE  StepLine(s, line) \in StepAcc(L, number, title)
<1> DEFINE Of(kind) == { l.of : l \in { k \in L : k.is = kind } }
           Values == { l.of : l \in L }
           Step == [ number : {number}, title : {title},
                     project : {NoValue} \cup Of("project"),
                     effort : {NoValue} \cup Of("effort"),
                     depends : {<<>>} \cup Of("depends"),
                     description : Seq(L), files : Seq(Values),
                     verification : {NoValue}, checklist : Seq(Values) ]
           Acc == [ region : Regions, verify : Seq(L), step : Step ]
<1>1. StepAcc(L, number, title) = Acc BY DEF StepAcc
<1>2. line.of \in Values /\ \A kind : line.is = kind => line.of \in Of(kind)
  OBVIOUS
<1> HIDE DEF Of, Values
<1>3. s \in Acc /\ s.step \in Step BY <1>1
<1>4. ASSUME line.is \in {"project", "effort", "depends"}
      PROVE  [s.step EXCEPT ![line.is] = line.of] \in Step
  <2>1. CASE line.is = "project" BY <1>2, <1>3, <2>1
  <2>2. CASE line.is = "effort" BY <1>2, <1>3, <2>2
  <2>3. CASE line.is = "depends" BY <1>2, <1>3, <2>3
  <2> QED BY <1>4, <2>1, <2>2, <2>3
<1>5. /\ [s.step EXCEPT !.checklist = Append(@, line.of)] \in Step
      /\ [s.step EXCEPT !.files = Append(@, line.of)] \in Step
      /\ [s.step EXCEPT !.description = Append(@, line)] \in Step
  <2>1. /\ Append(s.step.checklist, line.of) \in Seq(Values)
        /\ Append(s.step.files, line.of) \in Seq(Values)
        /\ Append(s.step.description, line) \in Seq(L)
    BY <1>2, <1>3
  <2> QED BY <1>3, <2>1
<1>6. Append(s.verify, line) \in Seq(L) BY <1>3
<1> HIDE DEF Step
<1>7. \A x \in Step : [s EXCEPT !.step = x] \in Acc BY <1>3
<1>8. \A x \in Regions : [s EXCEPT !.region = x] \in Acc BY <1>3
<1>10. CASE line.is \in {"files", "verification", "checklist"}
  <2>1. StepLine(s, line) = [s EXCEPT !.region = line.is] BY <1>10 DEF StepLine
  <2>2. line.is \in Regions BY <1>10 DEF Regions
  <2> QED BY <1>1, <1>8, <2>1, <2>2
<1>11. CASE line.is \notin {"files", "verification", "checklist"}
  <2> DEFINE a == [s.step EXCEPT ![line.is] = line.of]
             b == [s.step EXCEPT !.checklist = Append(@, line.of)]
             c == [s.step EXCEPT !.files = Append(@, line.of)]
             d == [s.step EXCEPT !.description = Append(@, line)]
             v == Append(s.verify, line)
             e == [s EXCEPT !.region = "description", !.step = d]
  <2>1. \/ StepLine(s, line) = s
        \/ line.is \in {"project", "effort", "depends"} /\ StepLine(s, line) = [s EXCEPT !.step = a]
        \/ StepLine(s, line) = [s EXCEPT !.verify = v]
        \/ StepLine(s, line) = [s EXCEPT !.step = b]
        \/ StepLine(s, line) = [s EXCEPT !.step = c]
        \/ StepLine(s, line) = e
        \/ StepLine(s, line) = [s EXCEPT !.step = d]
    <3>1. [s EXCEPT !.region = "description", !.step.description = Append(@, line)] = e
      BY <1>3
    <3> HIDE DEF e
    <3> QED BY <1>11, <3>1 DEF StepLine
  <2>2. b \in Step /\ c \in Step /\ d \in Step /\ v \in Seq(L) BY <1>5, <1>6
  <2>3. line.is \in {"project", "effort", "depends"} => a \in Step BY <1>4
  <2> HIDE DEF a, b, c, d, v
  <2>4. e \in Acc
    <3>1. "description" \in Regions BY DEF Regions
    <3> QED BY <1>3, <2>2, <3>1
  <2>5. [s EXCEPT !.verify = v] \in Acc BY <1>3, <2>2
  <2> HIDE DEF e, Acc
  <2> QED BY <1>1, <1>3, <1>7, <2>1, <2>2, <2>3, <2>4, <2>5, SMTT(60)
<1> QED BY <1>10, <1>11

\* Where parse_step starts, and what it hands on in the end.
StepBase(heading) ==
    [ region |-> "metadata", verify |-> <<>>, step |-> NewStep(heading.number, heading.title) ]

Parsed(s) ==
    [ s.step EXCEPT
        !.description = Trimmed(@),
        !.verification = IF s.verify = <<>> THEN NoValue ELSE Verification(s.verify) ]

\* parse_step, line by line.
LEMMA ParseStepChain ==
    ASSUME NEW L, NEW heading, NEW lines \in Seq(L)
    PROVE  \E g \in [0 .. Len(lines) -> StepAcc(L, heading.number, heading.title)] :
               /\ g[0] = StepBase(heading)
               /\ \A k \in 1 .. Len(lines) : g[k] = StepLine(g[k - 1], lines[k])
               /\ ParseStep(heading, lines) = Parsed(g[Len(lines)])
<1> DEFINE n == Len(lines)
           Acc == StepAcc(L, heading.number, heading.title)
           base == StepBase(heading)
           step == [x \in Acc \X (1 .. n) |-> StepLine(x[1], lines[x[2]])]
           Eq(f) == f = [t \in SUBSET (1 .. n) |->
                            IF t = {} THEN base
                            ELSE StepLine(f[t \ {Max(t)}], lines[Max(t)])]
           f == CHOOSE f : Eq(f)
           s == f[1 .. n]
<1>0. base \in Acc BY DEF StepAcc, NewStep, Regions, StepBase
<1>1. n \in Nat /\ DOMAIN lines = 1 .. n /\ \A k \in 1 .. n : lines[k] \in L
  BY SMTT(60)
<1>2. ParseStep(heading, lines) = Parsed(s)
  <2> HIDE DEF base
  <2>1. FoldLeft(StepLine, base, lines) = s
    BY <1>1, SMTT(60) DEF FoldLeft, MapThenFoldSet
  <2> HIDE DEF s
  <2> QED BY <2>1, ZenonT(60) DEF ParseStep, StepBase, base, Parsed
<1> HIDE DEF n, base
<1>9. \A a \in Acc, k \in 1 .. n : StepLine(a, lines[k]) \in Acc
  BY <1>1, StepLineType
<1>4. step \in [Acc \X (1 .. n) -> Acc] BY <1>9
<1>5. \A a \in Acc, k \in 1 .. n : step[<<a, k>>] = StepLine(a, lines[k])
  OBVIOUS
<1> HIDE DEF step, Acc, s
<1>6. Eq(f)
  <2>1. PICK g \in [SUBSET (1 .. n) -> Acc] : Folding(g, base, step, n)
    BY <1>0, <1>1, <1>4, FoldExists
  <2>2. ASSUME NEW t \in SUBSET (1 .. n)
        PROVE  g[t] = IF t = {} THEN base
                      ELSE StepLine(g[t \ {Max(t)}], lines[Max(t)])
    <3>1. t # {} => Max(t) \in 1 .. n BY <1>1, MaxOf
    <3>2. g[t \ {Max(t)}] \in Acc OBVIOUS
    <3>3. g[t] = IF t = {} THEN base ELSE step[<<g[t \ {Max(t)}], Max(t)>>]
      BY <2>1 DEF Folding
    <3> QED BY <1>5, <3>1, <3>2, <3>3
  <2>3. Eq(g) BY <2>2
  <2> QED BY <2>3
<1> HIDE DEF f
<1>7. FoldingIn(f, Acc, base, step, n)
  <2> SUFFICES ASSUME NEW t \in SUBSET (1 .. n)
               PROVE  /\ t = {} => f[t] = base
                      /\ t # {} /\ f[t \ {Max(t)}] \in Acc =>
                             f[t] = step[<<f[t \ {Max(t)}], Max(t)>>]
    BY DEF FoldingIn
  <2>1. t # {} => Max(t) \in 1 .. n BY <1>1, MaxOf
  <2> QED BY <1>5, <1>6, <2>1
<1>8. PICK g : Chained(g, f, Acc, base, step, n)
  BY <1>0, <1>1, <1>4, <1>7, FoldChain
<1>10. g \in [0 .. n -> Acc] /\ g[0] = base /\ g[n] = s BY <1>8 DEF Chained, s
<1>11. ASSUME NEW k \in 1 .. n PROVE g[k] = StepLine(g[k - 1], lines[k])
  <2>1. k - 1 \in 0 .. n /\ g[k] = step[<<g[k - 1], k>>]
    BY <1>1, <1>8 DEF Chained
  <2> QED BY <1>5, <1>10, <2>1
<1> QED BY <1>2, <1>10, <1>11 DEF n, Acc, base

\* What is parsed of a step has its number, and a project and an effort
\* that stand in its lines.
LEMMA ParseStepType ==
    ASSUME NEW L, NEW heading, NEW lines \in Seq(L)
    PROVE  LET r == ParseStep(heading, lines)
           IN  /\ r.number = heading.number
               /\ r.project = NoValue \/ \E l \in L : l.is = "project" /\ r.project = l.of
               /\ r.effort = NoValue \/ \E l \in L : l.is = "effort" /\ r.effort = l.of
<1> DEFINE n == Len(lines)
           r == ParseStep(heading, lines)
<1>1. n \in Nat OBVIOUS
<1>2. PICK g \in [0 .. n -> StepAcc(L, heading.number, heading.title)] : r = Parsed(g[n])
  BY ParseStepChain
<1> DEFINE s == g[n]
<1>3. s \in StepAcc(L, heading.number, heading.title) /\ r = Parsed(s)
  BY <1>1, <1>2
<1> HIDE DEF s, r, n
<1>4. /\ s.step.number = heading.number
      /\ s.step.project \in {NoValue} \cup { l.of : l \in { k \in L : k.is = "project" } }
      /\ s.step.effort \in {NoValue} \cup { l.of : l \in { k \in L : k.is = "effort" } }
  BY <1>3 DEF StepAcc
<1>5. r.number = s.step.number /\ r.project = s.step.project /\ r.effort = s.step.effort
  <2>1. \E d, v : r = [s.step EXCEPT !.description = d, !.verification = v]
    BY <1>3 DEF Parsed
  <2>2. PICK d, v : r = [s.step EXCEPT !.description = d, !.verification = v]
    BY <2>1
  <2> QED BY <1>3, <2>2, SMTT(60) DEF StepAcc
<1> QED BY <1>4, <1>5 DEF r

LEMMA StepEndFacts ==
    ASSUME NEW doc, Len(doc) \in Nat, NEW i \in 1 .. Len(doc)
    PROVE  StepEnd(doc, i) \in i .. Len(doc)
<1> DEFINE ends == { j \in i + 1 .. Len(doc) : doc[j].is \in HeadingOrRule }
<1>1. CASE ends = {} BY <1>1 DEF StepEnd
<1>2. CASE ends # {}
  <2>1. PICK x \in ends : \A y \in ends : x <= y
    <3>1. ends \in SUBSET Nat OBVIOUS
    <3> HIDE DEF ends
    <3> QED BY <1>2, <3>1, LeastNumber
  <2>2. Min(ends) \in ends
    <3> HIDE DEF ends
    <3> QED BY <2>1 DEF Min
  <2>3. StepEnd(doc, i) = Min(ends) - 1 BY <1>2 DEF StepEnd
  <2> QED BY <2>2, <2>3
<1> QED BY <1>1, <1>2

LEMMA ExtractTyped ==
    ASSUME NEW doc, IsDraft(doc)
    PROVE  TypedSteps(ExtractSteps(doc))
<1> DEFINE n == Len(doc)
           L == { doc[i] : i \in 1 .. n }
           begins == { i \in 1 .. n : IsStep(doc[i]) }
           at(i) == ParseStep(doc[i].of, SubSeq(doc, i + 1, StepEnd(doc, i)))
           M == { at(i) : i \in begins }
           q == [i \in 1 .. n |-> StepAt(doc, i)]
           steps == ExtractSteps(doc)
<1>1. n \in Nat /\ DOMAIN doc = 1 .. n /\ doc = [i \in 1 .. n |-> doc[i]]
  BY DEF IsDraft
<1>2. doc \in Seq(L)
  <2>1. \A i \in 1 .. n : doc[i] \in L OBVIOUS
  <2> HIDE DEF n, L
  <2> QED BY <1>1, <2>1, ListFrom
<1>3. \A i \in 1 .. n : SubSeq(doc, i + 1, StepEnd(doc, i)) \in Seq(L)
  <2> SUFFICES ASSUME NEW i \in 1 .. n PROVE SubSeq(doc, i + 1, StepEnd(doc, i)) \in Seq(L)
    OBVIOUS
  <2>1. StepEnd(doc, i) \in i .. n BY <1>1, StepEndFacts
  <2> HIDE DEF L
  <2> QED BY <1>1, <1>2, <2>1
<1>4. ASSUME NEW r \in M
      PROVE  /\ r.number \in Nat
             /\ r.project = NoValue \/ r.project \in Range(Projects)
             /\ r.effort = NoValue \/ r.effort.parts \in Seq(Int)
  <2>1. PICK i \in begins : r = at(i) OBVIOUS
  <2>2. /\ r.number = doc[i].of.number
        /\ r.project = NoValue \/ \E l \in L : l.is = "project" /\ r.project = l.of
        /\ r.effort = NoValue \/ \E l \in L : l.is = "effort" /\ r.effort = l.of
    <3>1. SubSeq(doc, i + 1, StepEnd(doc, i)) \in Seq(L) BY <1>3
    <3> DEFINE lines == SubSeq(doc, i + 1, StepEnd(doc, i))
               heading == doc[i].of
    <3>2. lines \in Seq(L) /\ r = ParseStep(heading, lines) BY <2>1, <3>1
    <3> HIDE DEF L, n, lines
    <3>3. /\ ParseStep(heading, lines).number = heading.number
          /\ \/ ParseStep(heading, lines).project = NoValue
             \/ \E l \in L : l.is = "project" /\ ParseStep(heading, lines).project = l.of
          /\ \/ ParseStep(heading, lines).effort = NoValue
             \/ \E l \in L : l.is = "effort" /\ ParseStep(heading, lines).effort = l.of
      BY <3>2, ParseStepType
    <3> QED BY <3>2, <3>3
  <2>3. \A j \in 1 .. n : /\ IsStep(doc[j]) => doc[j].of.number \in Nat
                          /\ doc[j].is = "project" => doc[j].of \in Range(Projects)
                          /\ doc[j].is = "effort" => doc[j].of.parts \in Seq(Int)
    BY <1>1 DEF IsDraft
  <2> HIDE DEF M, at
  <2> QED BY <2>2, <2>3
<1>5. q \in Seq(Seq(M))
  <2>1. ASSUME NEW i \in 1 .. n PROVE q[i] \in Seq(M)
    <3>1. CASE IsStep(doc[i])
      <4>1. at(i) \in M /\ q[i] = <<at(i)>> BY <3>1 DEF StepAt
      <4> HIDE DEF M, at, q
      <4> QED BY <4>1
    <3>2. CASE ~IsStep(doc[i])
      <4>1. q[i] = <<>> BY <3>2 DEF StepAt
      <4> HIDE DEF M, q
      <4> QED BY <4>1
    <3> QED BY <3>1, <3>2
  <2>2. q = [i \in 1 .. n |-> q[i]] OBVIOUS
  <2> HIDE DEF n, q, M
  <2> QED BY <1>1, <2>1, <2>2, ListFrom
<1>6. steps \in Seq(M)
  <2>1. steps = FlattenSeq(q) BY DEF ExtractSteps
  <2> HIDE DEF q, M, steps
  <2> QED BY <1>5, <2>1, FlattenType
<1> HIDE DEF M, steps
<1>7. Len(steps) \in Nat /\ DOMAIN steps = 1 .. Len(steps) /\ \A i \in DOMAIN steps : steps[i] \in M
  BY <1>6
<1>8. "default" \in Range(Projects) BY DecomposeAssumption
<1>9. TypedSteps(steps)
  <2>1. \A i \in DOMAIN steps : /\ steps[i].number \in Nat
                                /\ ProjectOf(steps[i]) \in Range(Projects)
                                /\ Estimated(steps, i) => steps[i].effort.parts \in Seq(Int)
    BY <1>4, <1>7, <1>8 DEF ProjectOf, Estimated
  <2> QED BY <1>7, <2>1 DEF TypedSteps
<1> QED BY <1>9 DEF steps

-----------------------------------------------------------------------------
\* What a run has made of a handoff.

Sound(made) ==
    made.error = "none" =>
        /\ TypedSteps(made.steps) /\ Len(made.steps) <= MostPieces
        /\ made.title \in DOMAIN Slug
        /\ made.pieces = Decomposed(made.steps)

\* What a run makes of a draft.
LEMMA OutcomeOf ==
    ASSUME NEW h \in DraftIds
    PROVE  Outcomes[h] = Outcome(Drafts[h]) /\ IsDraft(Drafts[h])
<1> DEFINE n == Len(Drafts)
           all == [i \in DraftIds |-> Outcome(Drafts[i])]
           S == { all[i] : i \in 1 .. n }
<1>1. n \in Nat /\ DraftIds = 1 .. n /\ h \in 1 .. n /\ IsDraft(Drafts[h])
  BY DecomposeAssumption
<1>2. all = [i \in 1 .. n |-> all[i]] /\ all[h] = Outcome(Drafts[h]) BY <1>1
<1>3. Outcomes = all \o <<>> BY DEF Outcomes
<1> HIDE DEF all, n
<1>4. all \in Seq(S) /\ Len(all) = n BY <1>1, <1>2, ListFrom
<1> HIDE DEF S
<1>5. (all \o <<>>)[h] = all[h] BY <1>1, <1>4
<1> QED BY <1>1, <1>2, <1>3, <1>5

LEMMA OutcomesSound ==
    ASSUME NEW h \in DraftIds
    PROVE  Sound(Outcomes[h])
<1> DEFINE doc == Drafts[h]
           o == Outcome(doc)
<1>1. IsDraft(doc) BY OutcomeOf
<1>2. Outcomes[h] = o BY OutcomeOf
<1> HIDE DEF doc
<1>3. ASSUME o.error = "none"
      PROVE  /\ TypedSteps(o.steps) /\ Len(o.steps) <= MostPieces
             /\ o.title \in DOMAIN Slug
             /\ o.pieces = Decomposed(o.steps)
  <2>1. ParseError(doc) = "none" BY <1>3 DEF Outcome
  <2>2. o.steps = ExtractSteps(doc) /\ o.pieces = Decomposed(ExtractSteps(doc))
        /\ o.title = doc[Min(Titles(doc))].of
    BY <2>1 DEF Outcome, ParseHandoff
  <2>3. Titles(doc) # {} BY <2>1 DEF ParseError
  <2>4. Min(Titles(doc)) \in Titles(doc)
    <3>1. Titles(doc) \in SUBSET Nat BY <1>1 DEF Titles, IsDraft
    <3>2. PICK x \in Titles(doc) : \A y \in Titles(doc) : x <= y
      BY <2>3, <3>1, LeastNumber
    <3> QED BY <3>2 DEF Min
  <2>5. o.title \in DOMAIN Slug BY <1>1, <2>2, <2>4 DEF Titles, IsDraft
  <2>6. Len(ExtractSteps(doc)) <= MostPieces BY <1>1 DEF IsDraft
  <2> HIDE DEF o
  <2> QED BY <1>1, <2>2, <2>5, <2>6, ExtractTyped
<1> QED BY <1>2, <1>3 DEF Sound

\* Its steps are those the parser extracted.
LEMMA OutcomeSteps ==
    ASSUME NEW doc, Outcome(doc).error = "none"
    PROVE  Outcome(doc).steps = ExtractSteps(doc)
<1>1. ParseError(doc) = "none" BY DEF Outcome
<1> QED BY <1>1 DEF Outcome, ParseHandoff

\* Its pieces are what split made of the steps.
LEMMA DecomposedFacts ==
    ASSUME NEW steps, TypedSteps(steps)
    PROVE  LET pieces == Decomposed(steps)
           IN  /\ Len(pieces) = Len(Split(steps)) /\ Len(pieces) \in Nat
               /\ DOMAIN pieces = 1 .. Len(pieces)
               /\ \A p \in 1 .. Len(pieces) : pieces[p].steps = Split(steps)[p]
               /\ [p \in DOMAIN pieces |-> pieces[p].steps] = Split(steps)
               /\ Len(pieces) <= Len(steps)
<1> DEFINE pieces == Decomposed(steps)
           split == Split(steps)
           n == Len(split)
<1>1. split \in Seq(Seq(1 .. Len(steps))) /\ n <= Len(steps) BY SplitFacts
<1>2. n \in Nat /\ DOMAIN split = 1 .. n /\ split = [p \in 1 .. n |-> split[p]]
  BY <1>1
<1>3. DOMAIN pieces = DOMAIN split /\ \A p \in DOMAIN split : pieces[p].steps = split[p]
  BY DEF Decomposed
<1>4. pieces = [p \in 1 .. n |-> pieces[p]] BY <1>2 DEF Decomposed
<1> HIDE DEF pieces, split, n
<1>5. Len(pieces) = n BY <1>2, <1>4
<1> QED BY <1>1, <1>2, <1>3, <1>5 DEF pieces, split, n

\* EveryStepInOnePiece of one outcome.
LEMMA PiecesOfSteps ==
    ASSUME NEW made, Sound(made), made.error = "none"
    PROVE  LET all == FlattenSeq([ p \in DOMAIN made.pieces |-> made.pieces[p].steps ])
           IN  /\ Len(all) = Len(made.steps)
               /\ Range(all) = DOMAIN made.steps
               /\ \A p \in DOMAIN made.pieces :
                    \A i, j \in Range(made.pieces[p].steps) : SameProject(made.steps, i, j)
<1> DEFINE steps == made.steps
           split == Split(steps)
<1>1. TypedSteps(steps) /\ made.pieces = Decomposed(steps) BY DEF Sound
<1>2. Len(steps) \in Nat /\ DOMAIN steps = 1 .. Len(steps)
  BY <1>1 DEF TypedSteps
<1>3. /\ DOMAIN made.pieces = 1 .. Len(split)
      /\ \A p \in 1 .. Len(split) : made.pieces[p].steps = split[p]
      /\ [p \in DOMAIN made.pieces |-> made.pieces[p].steps] = split
  BY <1>1, DecomposedFacts
<1>4. /\ Lists(FlattenSeq(split), 1 .. Len(steps))
      /\ \A p \in 1 .. Len(split) : \A i, j \in Range(split[p]) : SameProject(steps, i, j)
  BY <1>1, SplitFacts
<1>5. Len(FlattenSeq(split)) = Len(steps) BY <1>2, <1>4, ListsLength
<1>6. Range(FlattenSeq(split)) = 1 .. Len(steps) BY <1>4, ListsRange
<1> HIDE DEF split, steps
<1>7. \A p \in DOMAIN made.pieces : \A i, j \in Range(made.pieces[p].steps) : SameProject(steps, i, j)
  BY <1>3, <1>4
<1> QED BY <1>2, <1>3, <1>5, <1>6, <1>7, SMTT(60) DEF steps

-----------------------------------------------------------------------------
\* The union-find.

\* No cycle: the height d grows towards the roots, and stays under most.
Rises(parent, N, d, most) ==
    /\ parent \in [N -> N] /\ d \in [N -> Nat] /\ most \in Nat
    /\ \A x \in N : d[x] <= most
    /\ \A x \in N : parent[x] # x => d[x] < d[parent[x]]

Forest(parent, N) == \E d, most : Rises(parent, N, d, most)

\* What holds of the parent when it fails of x holds of none that fails last.
LEMMA Upward ==
    ASSUME NEW N, NEW parent, Forest(parent, N), NEW S,
           \A x \in N : (parent[x] # x => parent[x] \in S) => x \in S
    PROVE  \A x \in N : x \in S
<1> SUFFICES ASSUME NEW x \in N, x \notin S PROVE FALSE OBVIOUS
<1>1. PICK d, most : Rises(parent, N, d, most) BY DEF Forest
<1> DEFINE I == { most - d[y] : y \in { z \in N : z \notin S } }
<1>2. I \in SUBSET Nat /\ I # {} BY <1>1 DEF Rises
<1>3. PICK i \in I : \A j \in I : i <= j
  <2> HIDE DEF I
  <2> QED BY <1>2, LeastNumber
<1>4. PICK y \in N : y \notin S /\ i = most - d[y] OBVIOUS
<1>5. parent[y] # y /\ parent[y] \notin S BY <1>4
<1>6. parent[y] \in N /\ d[y] < d[parent[y]] /\ d[parent[y]] \in Nat /\ d[y] \in Nat /\ most \in Nat
  BY <1>1, <1>4, <1>5 DEF Rises
<1>7. most - d[parent[y]] \in I BY <1>5, <1>6
<1> HIDE DEF I
<1>8. i <= most - d[parent[y]] BY <1>3, <1>7
<1> QED BY <1>4, <1>6, <1>8

\* Root is a solution of its recursion.
LEMMA RootEquation ==
    ASSUME NEW N, NEW parent \in [N -> N]
    PROVE  \A x \in N : Root(parent, x) = IF parent[x] = x THEN x ELSE Root(parent, parent[x])
<1> DEFINE Closed(S) == \A z \in S : parent[z] \in S
           Above(x) == { y \in N : \A S \in SUBSET N : x \in S /\ Closed(S) => y \in S }
           Top(x) == { y \in Above(x) : parent[y] = y }
           Eq(f) == f = [x \in N |-> IF parent[x] = x THEN x ELSE f[parent[x]]]
           v(x) == CHOOSE y : y \in Top(x)
           sol == [x \in N |-> v(x)]
           root == CHOOSE f : Eq(f)
<1>1. ASSUME NEW x \in N, parent[x] = x PROVE Top(x) = {x}
  <2>1. Closed({x}) /\ {x} \in SUBSET N BY <1>1
  <2>2. Above(x) \subseteq {x} BY <2>1
  <2>3. x \in Above(x) OBVIOUS
  <2> QED BY <1>1, <2>2, <2>3
<1>2. ASSUME NEW x \in N, parent[x] # x PROVE Top(x) = Top(parent[x])
  <2>1. parent[x] \in N OBVIOUS
  <2>2. Above(parent[x]) \subseteq Above(x) BY <2>1
  <2>3. Above(x) \subseteq Above(parent[x]) \cup {x}
    <3> SUFFICES ASSUME NEW y \in Above(x), y # x, NEW S \in SUBSET N, parent[x] \in S, Closed(S)
                 PROVE  y \in S
      OBVIOUS
    <3>1. S \cup {x} \in SUBSET N /\ x \in S \cup {x} /\ Closed(S \cup {x})
      OBVIOUS
    <3>2. y \in S \cup {x} BY <3>1
    <3> QED BY <3>2
  <2> HIDE DEF Above
  <2> QED BY <1>2, <2>2, <2>3
<1>3. Eq(sol)
  <2>1. \A x \in N : v(x) = IF parent[x] = x THEN x ELSE v(parent[x])
    <3> SUFFICES ASSUME NEW x \in N PROVE v(x) = IF parent[x] = x THEN x ELSE v(parent[x])
      OBVIOUS
    <3> HIDE DEF Top
    <3>1. CASE parent[x] = x BY <1>1, <3>1
    <3>2. CASE parent[x] # x BY <1>2, <3>2
    <3> QED BY <3>1, <3>2
  <2>2. \A x \in N : parent[x] \in N OBVIOUS
  <2> HIDE DEF v
  <2> QED BY <2>1, <2>2
<1> HIDE DEF sol
<1>4. Eq(root) BY <1>3
<1>5. \A x \in N : Root(parent, x) = root[x] BY DEF Root
<1> HIDE DEF root
<1>6. \A x \in N : parent[x] \in N OBVIOUS
<1> QED BY <1>4, <1>5, <1>6

LEMMA RootFacts ==
    ASSUME NEW N, NEW parent, Forest(parent, N)
    PROVE  \A x \in N : Root(parent, x) \in N /\ parent[Root(parent, x)] = Root(parent, x)
<1> DEFINE S == { x \in N : Root(parent, x) \in N /\ parent[Root(parent, x)] = Root(parent, x) }
<1>1. parent \in [N -> N] BY DEF Forest, Rises
<1>2. ASSUME NEW x \in N, parent[x] # x => parent[x] \in S PROVE x \in S
  <2>1. Root(parent, x) = IF parent[x] = x THEN x ELSE Root(parent, parent[x])
    BY <1>1, RootEquation
  <2> QED BY <1>2, <2>1
<1> HIDE DEF S
<1>3. \A x \in N : x \in S BY <1>2, Upward
<1> QED BY <1>3 DEF S

\* A union keeps the forest, and joins two of its trees.
LEMMA UnionForest ==
    ASSUME NEW N, NEW parent, Forest(parent, N), NEW a \in N, NEW b \in N,
           parent[a] = a, parent[b] = b, a # b
    PROVE  Forest([parent EXCEPT ![a] = b], N)
<1>1. PICK d, most : Rises(parent, N, d, most) BY DEF Forest
<1> DEFINE new == [parent EXCEPT ![a] = b]
           high == IF d[b] > d[a] THEN d[b] ELSE d[a] + 1
           up == [d EXCEPT ![b] = high]
<1>2. d \in [N -> Nat] /\ most \in Nat /\ parent \in [N -> N]
      /\ \A x \in N : parent[x] \in N /\ d[x] \in Nat /\ d[x] <= most
  BY <1>1 DEF Rises
<1>3. high \in Nat /\ high <= most + 1 /\ high > d[a] /\ high >= d[b] BY <1>2
<1>4. new \in [N -> N] /\ up \in [N -> Nat]
      /\ \A x \in N : /\ new[x] = IF x = a THEN b ELSE parent[x]
                      /\ up[x] = IF x = b THEN high ELSE d[x]
  BY <1>2, <1>3
<1> HIDE DEF new, up, high
<1>5. \A x \in N : up[x] <= most + 1 BY <1>2, <1>3, <1>4
<1>6. ASSUME NEW x \in N, new[x] # x PROVE up[x] < up[new[x]]
  <2>1. CASE x = a BY <1>2, <1>3, <1>4, <2>1
  <2>2. CASE x # a
    <3>1. new[x] = parent[x] /\ x # b /\ parent[x] # x BY <1>4, <1>6, <2>2
    <3>2. d[x] < d[parent[x]] BY <1>1, <3>1 DEF Rises
    <3> QED BY <1>2, <1>3, <1>4, <3>1, <3>2
  <2> QED BY <2>1, <2>2
<1>7. Rises(new, N, up, most + 1) BY <1>2, <1>4, <1>5, <1>6 DEF Rises
<1> QED BY <1>7 DEF Forest, new

LEMMA UnionRoots ==
    ASSUME NEW N, NEW parent, Forest(parent, N), NEW a \in N, NEW b \in N,
           parent[a] = a, parent[b] = b, a # b
    PROVE  \A x \in N : Root([parent EXCEPT ![a] = b], x)
                            = IF Root(parent, x) = a THEN b ELSE Root(parent, x)
<1> DEFINE new == [parent EXCEPT ![a] = b]
           S == { x \in N : Root(new, x) = IF Root(parent, x) = a THEN b ELSE Root(parent, x) }
<1>1. parent \in [N -> N] BY DEF Forest, Rises
<1>2. new \in [N -> N] /\ \A x \in N : new[x] = IF x = a THEN b ELSE parent[x]
  BY <1>1
<1> HIDE DEF new
<1>3. \A x \in N : /\ Root(parent, x) = IF parent[x] = x THEN x ELSE Root(parent, parent[x])
                   /\ Root(new, x) = IF new[x] = x THEN x ELSE Root(new, new[x])
  <2>1. \A x \in N : Root(parent, x) = IF parent[x] = x THEN x ELSE Root(parent, parent[x])
    BY <1>1, RootEquation
  <2>2. \A x \in N : Root(new, x) = IF new[x] = x THEN x ELSE Root(new, new[x])
    BY <1>2, RootEquation
  <2> QED BY <2>1, <2>2
<1>4. ASSUME NEW x \in N, parent[x] # x => parent[x] \in S PROVE x \in S
  <2>1. CASE x = a
    <3>1. Root(new, b) = b /\ Root(parent, a) = a BY <1>2, <1>3
    <3>2. Root(new, a) = b BY <1>2, <1>3, <3>1
    <3> QED BY <2>1, <3>1, <3>2
  <2>2. CASE x # a /\ parent[x] = x
    <3>1. Root(parent, x) = x /\ Root(new, x) = x BY <1>2, <1>3, <2>2
    <3> QED BY <2>2, <3>1
  <2>3. CASE x # a /\ parent[x] # x
    <3>1. Root(parent, x) = Root(parent, parent[x]) /\ Root(new, x) = Root(new, parent[x])
      BY <1>2, <1>3, <2>3
    <3> QED BY <1>4, <2>3, <3>1
  <2> QED BY <2>1, <2>2, <2>3
<1> HIDE DEF S
<1>5. \A x \in N : x \in S BY <1>4, Upward
<1> QED BY <1>5 DEF S, new

LEMMA UnionFacts ==
    ASSUME NEW N, NEW parent, Forest(parent, N), NEW e \in N \X N
    PROVE  /\ Forest(Union(parent, e), N)
           /\ Root(Union(parent, e), e[1]) = Root(Union(parent, e), e[2])
           /\ \A x, y \in N : Root(parent, x) = Root(parent, y)
                => Root(Union(parent, e), x) = Root(Union(parent, e), y)
<1> DEFINE a == Root(parent, e[1])
           b == Root(parent, e[2])
<1>1. e[1] \in N /\ e[2] \in N OBVIOUS
<1>2. a \in N /\ b \in N /\ parent[a] = a /\ parent[b] = b BY <1>1, RootFacts
<1>3. Union(parent, e) = IF a = b THEN parent ELSE [parent EXCEPT ![a] = b]
  BY DEF Union
<1>4. CASE a = b BY <1>3, <1>4
<1>5. CASE a # b
  <2>1. Forest([parent EXCEPT ![a] = b], N)
    <3> HIDE DEF a, b
    <3> QED BY <1>2, <1>5, UnionForest
  <2>2. \A x \in N : Root([parent EXCEPT ![a] = b], x) = IF Root(parent, x) = a THEN b ELSE Root(parent, x)
    <3> HIDE DEF a, b
    <3> QED BY <1>2, <1>5, UnionRoots
  <2> QED BY <1>1, <1>3, <1>5, <2>1, <2>2
<1> QED BY <1>4, <1>5

LEMMA IdentityForest ==
    ASSUME NEW N
    PROVE  Forest([x \in N |-> x], N)
<1> DEFINE id == [x \in N |-> x]
           d == [x \in N |-> 0]
<1>1. id \in [N -> N] /\ d \in [N -> Nat] /\ \A x \in N : id[x] = x /\ d[x] = 0
  OBVIOUS
<1> HIDE DEF id, d
<1>2. Rises(id, N, d, 0) BY <1>1 DEF Rises
<1> QED BY <1>2 DEF Forest, id

\* A union leaves alone a set that has both ends of the edge or neither.
LEMMA UnionWithin ==
    ASSUME NEW N, NEW parent, Forest(parent, N), NEW e \in N \X N,
           NEW X, e[1] \in X <=> e[2] \in X,
           \A x \in N : Root(parent, x) \in X <=> x \in X
    PROVE  \A x \in N : Root(Union(parent, e), x) \in X <=> x \in X
<1> DEFINE a == Root(parent, e[1])
           b == Root(parent, e[2])
<1>1. e[1] \in N /\ e[2] \in N OBVIOUS
<1>2. a \in N /\ b \in N /\ parent[a] = a /\ parent[b] = b BY <1>1, RootFacts
<1>3. Union(parent, e) = IF a = b THEN parent ELSE [parent EXCEPT ![a] = b]
  BY DEF Union
<1>4. CASE a = b BY <1>3, <1>4
<1>5. CASE a # b
  <2>1. a \in X <=> b \in X BY <1>1
  <2> HIDE DEF a, b
  <2>2. \A x \in N : Root([parent EXCEPT ![a] = b], x) = IF Root(parent, x) = a THEN b ELSE Root(parent, x)
    BY <1>2, <1>5, UnionRoots
  <2> SUFFICES ASSUME NEW x \in N PROVE Root(Union(parent, e), x) \in X <=> x \in X
    OBVIOUS
  <2>3. Union(parent, e) = [parent EXCEPT ![a] = b] BY <1>3, <1>5
  <2>4. Root(Union(parent, e), x) = IF Root(parent, x) = a THEN b ELSE Root(parent, x)
    BY <2>2, <2>3
  <2>5. CASE Root(parent, x) = a BY <2>1, <2>4, <2>5
  <2>6. CASE Root(parent, x) # a BY <2>4, <2>6
  <2> QED BY <2>5, <2>6
<1> QED BY <1>4, <1>5

\* The forests g the union-find goes through over the edges es.
Unions(g, N, es) ==
    /\ g[0] = [x \in N |-> x]
    /\ \A k \in 0 .. Len(es) : Forest(g[k], N)
    /\ \A k \in 1 .. Len(es) : g[k] = Union(g[k - 1], es[k])

LEMMA UnionSteps ==
    ASSUME NEW N, NEW es \in Seq(N \X N)
    PROVE  \E g : /\ Unions(g, N, es)
                  /\ FoldLeft(LAMBDA p, e : Union(p, e), [x \in N |-> x], es) = g[Len(es)]
<1> DEFINE n == Len(es)
           Acc == { p \in [N -> N] : Forest(p, N) }
           base == [x \in N |-> x]
           step == [x \in Acc \X (1 .. n) |-> Union(x[1], es[x[2]])]
           Eq(f) == f = [t \in SUBSET (1 .. n) |->
                            IF t = {} THEN base ELSE Union(f[t \ {Max(t)}], es[Max(t)])]
           f == CHOOSE f : Eq(f)
<1>0. base \in Acc BY IdentityForest
<1>1. n \in Nat /\ DOMAIN es = 1 .. n /\ \A k \in 1 .. n : es[k] \in N \X N
  OBVIOUS
<1>2. FoldLeft(LAMBDA p, e : Union(p, e), base, es) = f[1 .. n]
  BY <1>1 DEF FoldLeft, MapThenFoldSet
<1> HIDE DEF n, base
<1>3. \A a \in Acc, k \in 1 .. n : Union(a, es[k]) \in Acc
  <2> SUFFICES ASSUME NEW a \in Acc, NEW k \in 1 .. n PROVE Union(a, es[k]) \in Acc
    OBVIOUS
  <2>1. Forest(Union(a, es[k]), N) BY <1>1, UnionFacts
  <2>2. Union(a, es[k]) \in [N -> N] BY <2>1 DEF Forest, Rises
  <2> QED BY <2>1, <2>2
<1>4. step \in [Acc \X (1 .. n) -> Acc] BY <1>3
<1>5. \A a \in Acc, k \in 1 .. n : step[<<a, k>>] = Union(a, es[k]) OBVIOUS
<1>12. \A a \in Acc : Forest(a, N) OBVIOUS
<1> HIDE DEF step, Acc
<1>6. Eq(f)
  <2>1. PICK g \in [SUBSET (1 .. n) -> Acc] : Folding(g, base, step, n)
    BY <1>0, <1>1, <1>4, FoldExists
  <2>2. ASSUME NEW t \in SUBSET (1 .. n)
        PROVE  g[t] = IF t = {} THEN base ELSE Union(g[t \ {Max(t)}], es[Max(t)])
    <3>1. t # {} => Max(t) \in 1 .. n BY <1>1, MaxOf
    <3>2. g[t \ {Max(t)}] \in Acc OBVIOUS
    <3>3. g[t] = IF t = {} THEN base ELSE step[<<g[t \ {Max(t)}], Max(t)>>]
      BY <2>1 DEF Folding
    <3> QED BY <1>5, <3>1, <3>2, <3>3
  <2>3. Eq(g) BY <2>2
  <2> QED BY <2>3
<1> HIDE DEF f
<1>7. FoldingIn(f, Acc, base, step, n)
  <2> SUFFICES ASSUME NEW t \in SUBSET (1 .. n)
               PROVE  /\ t = {} => f[t] = base
                      /\ t # {} /\ f[t \ {Max(t)}] \in Acc =>
                             f[t] = step[<<f[t \ {Max(t)}], Max(t)>>]
    BY DEF FoldingIn
  <2>1. t # {} => Max(t) \in 1 .. n BY <1>1, MaxOf
  <2> QED BY <1>5, <1>6, <2>1
<1>8. PICK g : Chained(g, f, Acc, base, step, n)
  BY <1>0, <1>1, <1>4, <1>7, FoldChain
<1>10. g \in [0 .. n -> Acc] /\ g[0] = base /\ g[n] = f[1 .. n]
  BY <1>8 DEF Chained
<1>11. ASSUME NEW k \in 1 .. n PROVE g[k - 1] \in Acc /\ g[k] = Union(g[k - 1], es[k])
  <2>1. k - 1 \in 0 .. n BY <1>1
  <2>2. g[k - 1] \in Acc /\ g[k] = step[<<g[k - 1], k>>]
    BY <1>10, <1>8, <2>1 DEF Chained
  <2> QED BY <1>5, <2>2
<1>13. \A k \in 0 .. n : Forest(g[k], N) BY <1>10, <1>12
<1>14. Unions(g, N, es) BY <1>10, <1>11, <1>13 DEF Unions, n, base
<1> QED BY <1>2, <1>10, <1>14 DEF n, base

\* Whatever order the dependencies come in, the two ends of each have one
\* root in the end.
LEMMA UnionAll ==
    ASSUME NEW N, NEW es \in Seq(N \X N)
    PROVE  LET parent == FoldLeft(LAMBDA p, e : Union(p, e), [x \in N |-> x], es)
           IN  \A k \in DOMAIN es : Root(parent, es[k][1]) = Root(parent, es[k][2])
<1> DEFINE n == Len(es)
           parent == FoldLeft(LAMBDA p, e : Union(p, e), [x \in N |-> x], es)
<1>1. n \in Nat /\ DOMAIN es = 1 .. n /\ \A k \in 1 .. n : es[k] \in N \X N
  OBVIOUS
<1>2. PICK g : Unions(g, N, es) /\ parent = g[n] BY UnionSteps
<1> HIDE DEF n, parent
<1> DEFINE P(k) == \A i \in 1 .. k : Root(g[k], es[i][1]) = Root(g[k], es[i][2])
<1>13. P(0) OBVIOUS
<1>14. ASSUME NEW k \in Nat, k < n, P(k) PROVE P(k + 1)
  <2> DEFINE p == g[k]
             e == es[k + 1]
  <2>1. k + 1 \in 1 .. n /\ (k + 1) - 1 = k /\ 1 .. k + 1 = (1 .. k) \cup {k + 1}
        /\ (\A i \in 1 .. k : i \in 1 .. n) /\ k \in 0 .. n
    BY <1>1, <1>14
  <2>2. g[k + 1] = Union(p, e) BY <1>2, <2>1 DEF Unions, n
  <2>3. e \in N \X N /\ Forest(p, N) BY <1>1, <1>2, <2>1 DEF Unions, n
  <2>4. /\ Root(Union(p, e), e[1]) = Root(Union(p, e), e[2])
        /\ \A x, y \in N : Root(p, x) = Root(p, y) => Root(Union(p, e), x) = Root(Union(p, e), y)
    <3> HIDE DEF p, e
    <3> QED BY <2>3, UnionFacts
  <2>5. \A i \in 1 .. k : es[i][1] \in N /\ es[i][2] \in N /\ Root(p, es[i][1]) = Root(p, es[i][2])
    BY <1>1, <1>14, <2>1
  <2> QED BY <2>1, <2>2, <2>4, <2>5
<1>15. P(n)
  <2> HIDE DEF P
  <2> DEFINE S == {k \in Nat : P(k)}
  <2>1. 0 \in S /\ \A k \in Nat : k < n /\ k \in S => k + 1 \in S
    BY <1>13, <1>14
  <2> HIDE DEF S
  <2>2. n \in S BY <1>1, <2>1, Climb
  <2> QED BY <2>2 DEF S
<1> QED BY <1>1, <1>2, <1>15 DEF parent

\* A set that no edge leaves holds with each of its members the root.
LEMMA UnionAllWithin ==
    ASSUME NEW N, NEW es \in Seq(N \X N),
           NEW X, \A k \in DOMAIN es : es[k][1] \in X <=> es[k][2] \in X
    PROVE  LET parent == FoldLeft(LAMBDA p, e : Union(p, e), [x \in N |-> x], es)
           IN  \A x \in N : Root(parent, x) \in X <=> x \in X
<1> DEFINE n == Len(es)
           parent == FoldLeft(LAMBDA p, e : Union(p, e), [x \in N |-> x], es)
<1>1. n \in Nat /\ DOMAIN es = 1 .. n /\ \A k \in 1 .. n : es[k] \in N \X N
  OBVIOUS
<1>2. PICK g : Unions(g, N, es) /\ parent = g[n] BY UnionSteps
<1> HIDE DEF n, parent
<1> DEFINE P(k) == \A x \in N : Root(g[k], x) \in X <=> x \in X
<1>3. P(0)
  <2> DEFINE id == [x \in N |-> x]
  <2>1. id \in [N -> N] /\ \A x \in N : id[x] = x OBVIOUS
  <2> HIDE DEF id
  <2>2. \A x \in N : Root(id, x) = x BY <2>1, RootEquation
  <2>3. g[0] = id BY <1>2 DEF Unions, id
  <2> QED BY <2>2, <2>3
<1>4. ASSUME NEW k \in Nat, k < n, P(k) PROVE P(k + 1)
  <2> DEFINE p == g[k]
             e == es[k + 1]
  <2>1. k + 1 \in 1 .. n /\ (k + 1) - 1 = k /\ k \in 0 .. n BY <1>1, <1>4
  <2>2. g[k + 1] = Union(p, e) BY <1>2, <2>1 DEF Unions, n
  <2>3. e \in N \X N /\ Forest(p, N) /\ (e[1] \in X <=> e[2] \in X)
    BY <1>1, <1>2, <2>1 DEF Unions, n
  <2>4. \A x \in N : Root(p, x) \in X <=> x \in X BY <1>4
  <2> HIDE DEF p, e
  <2>5. \A x \in N : Root(Union(p, e), x) \in X <=> x \in X
    BY <2>3, <2>4, UnionWithin
  <2> QED BY <2>2, <2>5
<1>5. P(n)
  <2> HIDE DEF P
  <2> DEFINE S == {k \in Nat : P(k)}
  <2>1. 0 \in S /\ \A k \in Nat : k < n /\ k \in S => k + 1 \in S BY <1>3, <1>4
  <2> HIDE DEF S
  <2>2. n \in S BY <1>1, <2>1, Climb
  <2> QED BY <2>2 DEF S
<1> QED BY <1>2, <1>5 DEF parent

\* The dependencies inside a group, as the union-find takes them.
Edges(steps, group) ==
    LET N == Numbers(steps, group)
    IN  { e \in N \X N : e[2] \in Dependencies(steps, group, e[1]) }

\* A group is a list of its steps, whose numbers are its numbers.
LEMMA NumbersOf ==
    ASSUME NEW steps, NEW S, NEW group, Lists(group, S)
    PROVE  Numbers(steps, group) = { steps[i].number : i \in S }
<1>1. /\ \A k \in DOMAIN group : group[k] \in S
      /\ \A x \in S : \E k \in DOMAIN group : group[k] = x
  BY DEF Lists
<1> QED BY <1>1 DEF Numbers

LEMMA EdgesListed ==
    ASSUME NEW steps, NEW S, NEW group, Lists(group, S)
    PROVE  LET N == Numbers(steps, group)
               es == SetToSeq(Edges(steps, group))
           IN  Lists(es, Edges(steps, group)) /\ es \in Seq(N \X N)
<1> DEFINE N == Numbers(steps, group)
           E == Edges(steps, group)
           es == SetToSeq(E)
<1>1. DOMAIN group = 1 .. Len(group) /\ Len(group) \in Nat BY DEF Lists
<1>2. E \in SUBSET (N \X N) BY DEF Edges
<1> HIDE DEF E
<1>3. IsFiniteSet(E)
  <2>1. IsFiniteSet(1 .. Len(group)) BY <1>1, FS_Interval
  <2>2. N = { steps[group[k]].number : k \in 1 .. Len(group) }
    BY <1>1 DEF Numbers
  <2>3. IsFiniteSet(N)
    <3> DEFINE h == [k \in 1 .. Len(group) |-> steps[group[k]].number]
    <3>1. h \in Surjection(1 .. Len(group), N) BY <2>2 DEF Surjection
    <3> HIDE DEF h, N
    <3> QED BY <2>1, <3>1, FS_Surjection
  <2> HIDE DEF N
  <2>4. IsFiniteSet(N \X N) BY <2>3, FS_Product
  <2> QED BY <1>2, <2>4, FS_Subset
<1>4. Lists(es, E) BY <1>3, SetToSeqLists
<1>5. es \in Seq(N \X N)
  <2>1. es \in Seq(E) BY <1>4 DEF Lists
  <2> HIDE DEF es, N
  <2>2. Seq(E) \subseteq Seq(N \X N) BY <1>2, SeqSubset
  <2> QED BY <2>1, <2>2
<1> QED BY <1>4, <1>5 DEF E

\* When no two steps have one number, a number's dependencies are its step's.
LEMMA DependenciesOf ==
    ASSUME NEW steps, TypedSteps(steps), NumbersUnique(steps),
           NEW S \in SUBSET (1 .. Len(steps)), NEW group, Lists(group, S), NEW i \in S
    PROVE  Dependencies(steps, group, steps[i].number) = Range(steps[i].depends)
<1>1. /\ DOMAIN group = 1 .. Len(group) /\ Len(group) \in Nat
      /\ \A k \in 1 .. Len(group) : group[k] \in S
      /\ \A x \in S : \E k \in DOMAIN group : group[k] = x
      /\ \A k, l \in DOMAIN group : group[k] = group[l] => k = l
  BY DEF Lists
<1>2. DOMAIN steps = 1 .. Len(steps) /\ Len(steps) \in Nat BY DEF TypedSteps
<1>3. PICK k \in DOMAIN group : group[k] = i BY <1>1
<1> DEFINE at == { l \in DOMAIN group : steps[group[l]].number = steps[i].number }
<1>4. at = {k}
  <2>1. \A l \in at : group[l] = i BY <1>1, <1>2 DEF NumbersUnique
  <2> QED BY <1>1, <1>3, <2>1
<1>5. Max(at) = k
  <2>1. at \in SUBSET (1 .. Len(group)) /\ at # {} BY <1>1, <1>4
  <2> HIDE DEF at
  <2>2. Max(at) \in at BY <1>1, <2>1, MaxOf
  <2> QED BY <1>4, <2>2
<1> QED BY <1>3, <1>5 DEF Dependencies

\* A dependency between two steps of a group puts them under one root,
\* when no two steps have one number.
LEMMA BoundRoots ==
    ASSUME NEW steps, TypedSteps(steps), NumbersUnique(steps),
           NEW S \in SUBSET (1 .. Len(steps)), NEW group, Lists(group, S),
           NEW i \in S, NEW j \in S, steps[j].number \in Range(steps[i].depends)
    PROVE  LET parent == Merged(steps, group)
           IN  Root(parent, steps[i].number) = Root(parent, steps[j].number)
<1> DEFINE N == Numbers(steps, group)
           es == SetToSeq(Edges(steps, group))
           edge == <<steps[i].number, steps[j].number>>
           parent == FoldLeft(LAMBDA p, e : Union(p, e), [x \in N |-> x], es)
<1>1. edge \in Edges(steps, group)
  <2>1. steps[i].number \in N /\ steps[j].number \in N BY NumbersOf
  <2>2. Dependencies(steps, group, steps[i].number) = Range(steps[i].depends)
    BY DependenciesOf
  <2> HIDE DEF N
  <2> QED BY <2>1, <2>2 DEF Edges, N
<1>2. Lists(es, Edges(steps, group)) /\ es \in Seq(N \X N) BY EdgesListed
<1>3. PICK k \in DOMAIN es : es[k] = edge BY <1>1, <1>2 DEF Lists
<1>4. Merged(steps, group) = parent BY DEF Merged, Edges
<1>5. Root(parent, es[k][1]) = Root(parent, es[k][2])
  <2> HIDE DEF es, N
  <2> QED BY <1>2, <1>3, UnionAll
<1> HIDE DEF parent, es
<1> QED BY <1>3, <1>4, <1>5

\* S holds all the steps of its projects.
WholeProject(steps, S) ==
    /\ S \in SUBSET (1 .. Len(steps))
    /\ \A i \in S, j \in 1 .. Len(steps) : SameProject(steps, i, j) <=> j \in S

\* Steps under one root hang together.
LEMMA RootsConnected ==
    ASSUME NEW steps, TypedSteps(steps), NumbersUnique(steps),
           NEW S, WholeProject(steps, S), NEW group, Lists(group, S),
           NEW i \in S, NEW j \in S,
           Root(Merged(steps, group), steps[i].number) = Root(Merged(steps, group), steps[j].number)
    PROVE  Connected(steps, i, j)
<1> DEFINE N == Numbers(steps, group)
           es == SetToSeq(Edges(steps, group))
           parent == FoldLeft(LAMBDA p, e : Union(p, e), [x \in N |-> x], es)
<1>1. /\ DOMAIN steps = 1 .. Len(steps) /\ S \in SUBSET (1 .. Len(steps))
      /\ \A a \in S, b \in 1 .. Len(steps) : SameProject(steps, a, b) <=> b \in S
      /\ \A a, b \in S : steps[a].number = steps[b].number => a = b
  BY DEF TypedSteps, WholeProject, NumbersUnique
<1>2. Lists(es, Edges(steps, group)) /\ es \in Seq(N \X N) BY EdgesListed
<1>3. Merged(steps, group) = parent BY DEF Merged, Edges
<1>4. N = { steps[a].number : a \in S } BY NumbersOf
<1> SUFFICES ASSUME NEW R \in SUBSET DOMAIN steps, i \in R,
                    \A a \in R, b \in DOMAIN steps :
                        SameProject(steps, a, b) /\ Bound(steps, a, b) => b \in R
             PROVE  j \in R
  BY DEF Connected
<1> DEFINE X == { steps[a].number : a \in R \cap S }
<1>5. ASSUME NEW a \in S PROVE steps[a].number \in X <=> a \in R BY <1>1
<1> HIDE DEF X
<1>6. ASSUME NEW k \in DOMAIN es PROVE es[k][1] \in X <=> es[k][2] \in X
  <2> DEFINE e == es[k]
  <2>1. e \in Edges(steps, group) BY <1>2 DEF Lists
  <2>2. e[1] \in N /\ e[2] \in N /\ e[2] \in Dependencies(steps, group, e[1])
    BY <2>1 DEF Edges
  <2>3. PICK a \in S : e[1] = steps[a].number BY <1>4, <2>2
  <2>4. PICK b \in S : e[2] = steps[b].number BY <1>4, <2>2
  <2> HIDE DEF e
  <2>5. steps[b].number \in Range(steps[a].depends)
    <3>1. Dependencies(steps, group, steps[a].number) = Range(steps[a].depends)
      BY <1>1, DependenciesOf
    <3> QED BY <2>2, <2>3, <2>4, <3>1
  <2>6. /\ SameProject(steps, a, b) /\ SameProject(steps, b, a)
        /\ Bound(steps, a, b) /\ Bound(steps, b, a)
    BY <1>1, <2>5 DEF Bound
  <2>7. a \in R <=> b \in R BY <1>1, <2>6
  <2> QED BY <1>5, <2>3, <2>4, <2>7 DEF e
<1>7. \A x \in N : Root(parent, x) \in X <=> x \in X
  <2> HIDE DEF es, N
  <2> QED BY <1>2, <1>6, UnionAllWithin
<1>8. steps[i].number \in N /\ steps[j].number \in N BY <1>4
<1>9. steps[i].number \in X BY <1>5
<1> HIDE DEF parent, es, N
<1>10. Root(parent, steps[i].number) = Root(parent, steps[j].number) BY <1>3
<1> QED BY <1>5, <1>7, <1>8, <1>9, <1>10

LEMMA RangeOf ==
    ASSUME NEW M, NEW s \in Seq(M)
    PROVE  \A x \in Range(s) : x \in M
  BY DEF Range

\* c is a, and b after it.
Joined(c, a, b) ==
    /\ Len(a) \in Nat /\ Len(b) \in Nat /\ Len(c) = Len(a) + Len(b)
    /\ \A k \in 1 .. Len(a) : c[k] = a[k]
    /\ \A k \in 1 .. Len(b) : c[Len(a) + k] = b[k]

\* What a concatenation is made of.
LEMMA ConcatParts ==
    ASSUME NEW M, NEW a \in Seq(M), NEW b \in Seq(M)
    PROVE  a \o b \in Seq(M) /\ Joined(a \o b, a, b)
<1>1. /\ Len(a) \in Nat /\ Len(b) \in Nat /\ Len(a \o b) = Len(a) + Len(b) /\ a \o b \in Seq(M)
      /\ \A k \in 1 .. Len(a) : (a \o b)[k] = a[k]
      /\ \A k \in 1 .. Len(b) : (a \o b)[Len(a) + k] = b[k]
  OBVIOUS
<1> QED BY <1>1 DEF Joined

\* F grows by the rows of q, row k of size[k] entries.
Rows(n, len, size, F, q) ==
    /\ n \in Nat /\ len \in [0 .. n -> Nat] /\ size \in [1 .. n -> Nat]
    /\ \A k \in 1 .. n :
         /\ len[k] = len[k - 1] + size[k]
         /\ \A u \in 1 .. len[k - 1] : F[k][u] = F[k - 1][u]
         /\ \A v \in 1 .. size[k] : F[k][len[k - 1] + v] = q[k][v]

\* What F holds at j it holds from there on.
Stays(len, F, j, k) ==
    j <= k => len[j] <= len[k] /\ \A u \in 1 .. len[j] : F[k][u] = F[j][u]

LEMMA RowsStay ==
    ASSUME NEW n, NEW len, NEW size, NEW F, NEW q, Rows(n, len, size, F, q),
           NEW j \in 1 .. n, NEW k \in 0 .. n
    PROVE  Stays(len, F, j, k)
<1> DEFINE S == {l \in Nat : Stays(len, F, j, l)}
<1>1. n \in Nat /\ k \in Nat /\ k <= n /\ j \in Nat BY DEF Rows
<1>2. 0 \in S BY DEF Stays
<1>3. ASSUME NEW l \in Nat, l < k, l \in S PROVE l + 1 \in S
  <2>1. l + 1 \in 1 .. n /\ (l + 1) - 1 = l /\ l \in 0 .. n /\ j \in 0 .. n /\ l + 1 \in 0 .. n
    BY <1>1, <1>3
  <2>2. /\ len[l + 1] = len[l] + size[l + 1]
        /\ \A u \in 1 .. len[l] : F[l + 1][u] = F[l][u]
    BY <2>1 DEF Rows
  <2>3. len[l] \in Nat /\ len[l + 1] \in Nat /\ len[j] \in Nat /\ size[l + 1] \in Nat
    BY <2>1 DEF Rows
  <2>4. CASE j <= l
    <3>1. len[j] <= len[l] /\ \A u \in 1 .. len[j] : F[l][u] = F[j][u]
      BY <1>3, <2>4 DEF Stays
    <3>2. len[j] <= len[l + 1] /\ \A u \in 1 .. len[j] : u \in 1 .. len[l]
      BY <2>2, <2>3, <3>1
    <3>3. \A u \in 1 .. len[j] : F[l + 1][u] = F[j][u] BY <2>2, <3>1, <3>2
    <3> QED BY <3>2, <3>3 DEF Stays
  <2>5. CASE j = l + 1 BY <2>3, <2>5 DEF Stays
  <2>6. CASE l + 1 < j BY <1>1, <2>6 DEF Stays
  <2> QED BY <1>1, <2>4, <2>5, <2>6
<1> HIDE DEF S
<1>4. k \in S BY <1>1, <1>2, <1>3, Climb
<1> QED BY <1>4 DEF S

\* A flattened sequence is made of rows.
LEMMA FlattenRows ==
    ASSUME NEW M, NEW q \in Seq(Seq(M))
    PROVE  \E F, len, size :
               /\ Rows(Len(q), len, size, F, q)
               /\ len[0] = 0 /\ \A k \in 1 .. Len(q) : size[k] = Len(q[k])
               /\ F[Len(q)] = FlattenSeq(q) /\ len[Len(q)] = Len(FlattenSeq(q))
<1> DEFINE n == Len(q)
<1>1. n \in Nat /\ \A k \in 1 .. n : q[k] \in Seq(M) OBVIOUS
<1>2. PICK F \in [0 .. n -> Seq(M)] :
          /\ F[0] = <<>>
          /\ \A k \in 1 .. n : F[k] = F[k - 1] \o q[k]
          /\ FlattenSeq(q) = F[n]
  BY FlattenSteps
<1> HIDE DEF n
<1> DEFINE len == [k \in 0 .. n |-> Len(F[k])]
           size == [k \in 1 .. n |-> Len(q[k])]
<1>3. ASSUME NEW k \in 1 .. n
      PROVE  /\ len[k] = len[k - 1] + size[k]
             /\ \A u \in 1 .. len[k - 1] : F[k][u] = F[k - 1][u]
             /\ \A v \in 1 .. size[k] : F[k][len[k - 1] + v] = q[k][v]
  <2> DEFINE a == F[k - 1]
             b == q[k]
  <2>1. k - 1 \in 0 .. n /\ k \in 0 .. n BY <1>1
  <2>2. a \in Seq(M) /\ b \in Seq(M) /\ F[k] = a \o b BY <1>1, <1>2, <2>1
  <2>3. len[k] = Len(F[k]) /\ len[k - 1] = Len(a) /\ size[k] = Len(b) BY <2>1
  <2> HIDE DEF a, b, len, size
  <2>4. Joined(a \o b, a, b) BY <2>2, ConcatParts
  <2> QED BY <2>2, <2>3, <2>4 DEF a, b, Joined
<1>4. len \in [0 .. n -> Nat] /\ size \in [1 .. n -> Nat]
  <2>1. \A k \in 0 .. n : Len(F[k]) \in Nat
    <3>1. \A s \in Seq(M) : Len(s) \in Nat OBVIOUS
    <3> QED BY <1>2, <3>1
  <2>2. \A k \in 1 .. n : Len(q[k]) \in Nat BY <1>1
  <2> QED BY <2>1, <2>2
<1>5. len[0] = 0 /\ (\A k \in 1 .. n : size[k] = Len(q[k])) /\ len[n] = Len(FlattenSeq(q))
  <2>1. 0 \in 0 .. n /\ n \in 0 .. n /\ Len(<<>>) = 0 BY <1>1
  <2> QED BY <1>2, <2>1
<1> HIDE DEF len, size
<1>6. Rows(n, len, size, F, q) BY <1>1, <1>3, <1>4 DEF Rows
<1> QED BY <1>2, <1>5, <1>6 DEF n

\* Every place of a flattened sequence is in one of its rows.
LEMMA RowsCover ==
    ASSUME NEW n, NEW len, NEW size, NEW F, NEW q, Rows(n, len, size, F, q), len[0] = 0,
           NEW i \in 1 .. len[n]
    PROVE  \E k \in 1 .. n : \E v \in 1 .. size[k] : i = len[k - 1] + v
<1> DEFINE S == {j \in 0 .. n : i <= len[j] =>
                     \E k \in 1 .. n : \E v \in 1 .. size[k] : i = len[k - 1] + v}
<1>1. n \in Nat /\ i \in Nat /\ i >= 1 /\ n \in 0 .. n
  <2>1. n \in Nat /\ n \in 0 .. n /\ len[n] \in Nat BY DEF Rows
  <2> QED BY <2>1
<1>2. 0 \in S BY <1>1
<1>3. ASSUME NEW j \in Nat, j < n, j \in S PROVE j + 1 \in S
  <2>1. j + 1 \in 1 .. n /\ (j + 1) - 1 = j /\ j \in 0 .. n /\ j + 1 \in 0 .. n
    BY <1>1, <1>3
  <2>2. len[j] \in Nat /\ len[j + 1] = len[j] + size[j + 1] /\ size[j + 1] \in Nat
    BY <2>1 DEF Rows
  <2>3. CASE i <= len[j] BY <1>3, <2>1, <2>3
  <2>4. CASE i > len[j] /\ i <= len[j + 1]
    <3>1. i - len[j] \in 1 .. size[j + 1] /\ i = len[(j + 1) - 1] + (i - len[j])
      BY <1>1, <2>1, <2>2, <2>4
    <3> QED BY <2>1, <3>1
  <2>5. CASE i > len[j + 1]
    <3>1. ~(i <= len[j + 1]) BY <1>1, <2>2, <2>5
    <3> QED BY <2>1, <3>1
  <2> HIDE DEF S
  <2> QED BY <1>1, <2>2, <2>3, <2>4, <2>5
<1>4. n \in S
  <2> HIDE DEF S
  <2> QED BY <1>1, <1>2, <1>3, Climb
<1>5. i <= len[n] BY <1>1 DEF Rows
<1> QED BY <1>4, <1>5

\* Two rows stand in F one before the other.
Apart(n, len, size, F, q) ==
    \A p, r \in 1 .. n : p < r =>
        \A u \in 1 .. size[p], v \in 1 .. size[r] :
            \E i, j \in 1 .. len[n] : i < j /\ F[n][i] = q[p][u] /\ F[n][j] = q[r][v]

LEMMA RowsApart ==
    ASSUME NEW n, NEW len, NEW size, NEW F, NEW q, Rows(n, len, size, F, q)
    PROVE  Apart(n, len, size, F, q)
<1> SUFFICES ASSUME NEW p \in 1 .. n, NEW r \in 1 .. n, p < r,
                    NEW u \in 1 .. size[p], NEW v \in 1 .. size[r]
             PROVE  \E i, j \in 1 .. len[n] : i < j /\ F[n][i] = q[p][u] /\ F[n][j] = q[r][v]
  BY DEF Apart
<1> DEFINE i == len[p - 1] + u
           j == len[r - 1] + v
<1>1. n \in Nat /\ r - 1 \in 0 .. n /\ p - 1 \in 0 .. n /\ n \in 0 .. n /\ p \in 0 .. n /\ r \in 0 .. n
      /\ p <= r - 1 /\ p <= n /\ r <= n
  BY DEF Rows
<1>2. /\ len[p - 1] \in Nat /\ len[r - 1] \in Nat /\ len[p] \in Nat /\ len[r] \in Nat /\ len[n] \in Nat
      /\ size[p] \in Nat /\ size[r] \in Nat
  BY <1>1 DEF Rows
<1>3. len[p] = len[p - 1] + size[p] /\ F[p][i] = q[p][u] BY DEF Rows
<1>4. len[r] = len[r - 1] + size[r] /\ F[r][j] = q[r][v] BY DEF Rows
<1>5. /\ len[p] <= len[r - 1]
      /\ len[p] <= len[n] /\ \A k \in 1 .. len[p] : F[n][k] = F[p][k]
      /\ len[r] <= len[n] /\ \A k \in 1 .. len[r] : F[n][k] = F[r][k]
  <2>1. Stays(len, F, p, r - 1) /\ Stays(len, F, p, n) /\ Stays(len, F, r, n)
    BY <1>1, RowsStay
  <2> QED BY <1>1, <2>1 DEF Stays
<1>6. i \in 1 .. len[p] /\ j \in 1 .. len[r] /\ i < j BY <1>2, <1>3, <1>4, <1>5
<1>7. i \in 1 .. len[n] /\ j \in 1 .. len[n] BY <1>2, <1>5, <1>6
<1>8. F[n][i] = q[p][u] /\ F[n][j] = q[r][v] BY <1>3, <1>4, <1>5, <1>6
<1> HIDE DEF i, j
<1> QED BY <1>6, <1>7, <1>8

\* What a flattened sequence names once stands in one of its parts.
LEMMA OnePart ==
    ASSUME NEW M, NEW q \in Seq(Seq(M)), NEW A, Lists(FlattenSeq(q), A),
           NEW p \in 1 .. Len(q), NEW r \in 1 .. Len(q), p < r
    PROVE  Range(q[p]) \cap Range(q[r]) = {}
<1> DEFINE n == Len(q)
           all == FlattenSeq(q)
<1>1. PICK F, len, size :
          /\ Rows(n, len, size, F, q)
          /\ \A k \in 1 .. n : size[k] = Len(q[k])
          /\ F[n] = all /\ len[n] = Len(all)
  BY FlattenRows
<1>2. all \in Seq(M) BY FlattenType
<1>3. \A k \in 1 .. n : DOMAIN q[k] = 1 .. Len(q[k]) OBVIOUS
<1>4. \A k, l \in DOMAIN all : all[k] = all[l] => k = l BY DEF Lists
<1> HIDE DEF n, all
<1>5. DOMAIN all = 1 .. len[n] /\ len[n] \in Nat BY <1>1, <1>2
<1>6. SUFFICES ASSUME NEW x \in Range(q[p]), x \in Range(q[r]) PROVE FALSE
  OBVIOUS
<1>7. p \in 1 .. n /\ r \in 1 .. n BY DEF n
<1>8. PICK u \in 1 .. size[p] : q[p][u] = x BY <1>1, <1>3, <1>7 DEF Range
<1>9. PICK v \in 1 .. size[r] : q[r][v] = x BY <1>1, <1>3, <1>6, <1>7 DEF Range
<1>10. Apart(n, len, size, F, q) BY <1>1, RowsApart
<1>11. PICK i \in 1 .. len[n], j \in 1 .. len[n] : i < j /\ F[n][i] = q[p][u] /\ F[n][j] = q[r][v]
  BY <1>7, <1>10, SMTT(60) DEF Apart
<1>12. i = j
  <2>1. i \in DOMAIN all /\ j \in DOMAIN all BY <1>5
  <2>2. all[i] = x /\ all[j] = x BY <1>1, <1>8, <1>9, <1>11
  <2> QED BY <1>4, <2>1, <2>2
<1>13. i < j /\ i \in Nat /\ j \in Nat BY <1>5, <1>11, SMTT(60)
<1> QED BY <1>12, <1>13

\* DependentStepsTogether of one outcome.
LEMMA TiedTogether ==
    ASSUME NEW made, Sound(made), made.error = "none",
           RespectDependencies, NumbersUnique(made.steps),
           NEW p \in DOMAIN made.pieces, NEW i \in Range(made.pieces[p].steps),
           NEW j \in DOMAIN made.steps, Connected(made.steps, i, j)
    PROVE  j \in Range(made.pieces[p].steps)
<1> DEFINE steps == made.steps
           n == Len(steps)
           split == Split(steps)
           groups == ProjectGroups(steps)
<1>1. TypedSteps(steps) /\ made.pieces = Decomposed(steps) BY DEF Sound
<1>2. n \in Nat /\ DOMAIN steps = 1 .. n BY <1>1 DEF TypedSteps
<1>3. p \in 1 .. Len(split) /\ made.pieces[p].steps = split[p]
  BY <1>1, DecomposedFacts
<1>4. split \in Seq(Seq(1 .. n)) /\ Lists(FlattenSeq(split), 1 .. n)
  BY <1>1, SplitFacts
<1>5. PICK T : /\ Grouped(steps, groups, T)
               /\ \A g \in 1 .. Len(groups) : \A x \in T[g] :
                    \E r \in 1 .. Len(split) :
                      /\ x \in Range(split[r])
                      /\ \A y \in T[g] :
                           Root(Merged(steps, groups[g]), steps[y].number)
                               = Root(Merged(steps, groups[g]), steps[x].number)
                           => y \in Range(split[r])
  BY <1>1, SplitFacts
<1>6. i \in 1 .. n
  <2> DEFINE s == split[p]
  <2>1. s \in Seq(1 .. n) /\ i \in Range(s) BY <1>3, <1>4
  <2> HIDE DEF s, n
  <2> QED BY <2>1, RangeOf
<1> HIDE DEF split, groups
<1>7. PICK g \in 1 .. Len(groups) : i \in T[g]
  BY <1>5, <1>6 DEF Grouped, Covered
<1> DEFINE parent == Merged(steps, groups[g])
           S == { x \in T[g] : Root(parent, steps[x].number) = Root(parent, steps[i].number) }
<1>8. T[g] \in SUBSET (1 .. n) /\ Lists(groups[g], T[g])
      /\ \A x \in T[g], y \in 1 .. n : SameProject(steps, x, y) <=> y \in T[g]
  BY <1>5, <1>7 DEF Grouped
<1>9. ASSUME NEW a \in S, NEW b \in DOMAIN steps, SameProject(steps, a, b), Bound(steps, a, b)
      PROVE  b \in S
  <2>1. a \in T[g] /\ b \in T[g] /\ Root(parent, steps[a].number) = Root(parent, steps[i].number)
    BY <1>2, <1>8, <1>9
  <2>2. CASE steps[b].number \in Range(steps[a].depends)
    <3>1. Root(parent, steps[a].number) = Root(parent, steps[b].number)
      BY <1>1, <1>8, <2>1, <2>2, BoundRoots
    <3> QED BY <2>1, <3>1
  <2>3. CASE steps[a].number \in Range(steps[b].depends)
    <3>1. Root(parent, steps[b].number) = Root(parent, steps[a].number)
      BY <1>1, <1>8, <2>1, <2>3, BoundRoots
    <3> QED BY <2>1, <3>1
  <2> QED BY <1>9, <2>2, <2>3 DEF Bound
<1>10. S \in SUBSET DOMAIN steps /\ i \in S BY <1>2, <1>7, <1>8
<1>11. j \in S
  <2> HIDE DEF S, steps
  <2>1. Connected(steps, i, j) BY DEF steps
  <2> QED BY <1>9, <1>10, <2>1 DEF Connected
<1>12. PICK r \in 1 .. Len(split) :
          /\ i \in Range(split[r])
          /\ \A y \in T[g] : Root(parent, steps[y].number) = Root(parent, steps[i].number)
                               => y \in Range(split[r])
  BY <1>5, <1>7
<1>13. j \in Range(split[r]) BY <1>11, <1>12
<1>14. r = p
  <2>1. i \in Range(split[p]) BY <1>3
  <2>2. p \in Nat /\ r \in Nat BY <1>3
  <2>3. ~(p < r) BY <1>3, <1>4, <1>12, <2>1, OnePart
  <2>4. ~(r < p) BY <1>3, <1>4, <1>12, <2>1, OnePart
  <2> QED BY <2>2, <2>3, <2>4
<1> QED BY <1>3, <1>13, <1>14

-----------------------------------------------------------------------------
\* The load of steps.

\* An effort that counts is no less than nothing: only those of which a
\* part is above zero and none below are readable.
LEMMA EffortCounts ==
    ASSUME NEW steps, TypedSteps(steps), NEW i \in 1 .. Len(steps), Counts(steps, i)
    PROVE  EffortOf(steps[i].effort) \in Nat
<1> DEFINE effort == steps[i].effort
           most == Max(Range(effort.parts))
           a == most * Minutes[effort.unit]
<1>1. effort.parts \in Seq(Int) /\ effort.parts # <<>> /\ effort.unit \in {"day", "hour", "minute"}
      /\ \A k \in DOMAIN effort.parts : effort.parts[k] >= 0
  BY DEF TypedSteps, Counts, Readable, Minutes
<1>2. Minutes[effort.unit] \in Nat BY <1>1 DEF Minutes
<1>3. most \in Nat
  <2>1. most \in Int /\ most \in Range(effort.parts) BY <1>1, MaxOfInts
  <2> HIDE DEF most, effort
  <2>2. PICK k \in DOMAIN effort.parts : effort.parts[k] = most
    BY <2>1 DEF Range
  <2>3. most >= 0 BY <1>1, <2>2
  <2> QED BY <2>1, <2>3
<1> HIDE DEF most
<1>4. \A x, y \in Nat : x * y \in Nat OBVIOUS
<1>5. a \in Nat /\ Word - 1 \in Nat
  <2>1. Word - 1 \in Nat BY DecomposeAssumption
  <2> QED BY <1>2, <1>3, <1>4, <2>1
<1>6. EffortOf(effort) = Min({a, Word - 1}) BY DEF EffortOf, most
<1> HIDE DEF a
<1>7. \A x, y \in Nat : Min({x, y}) \in Nat
  <2> SUFFICES ASSUME NEW x \in Nat, NEW y \in Nat PROVE Min({x, y}) \in Nat
    OBVIOUS
  <2>1. \E z \in {x, y} : \A u \in {x, y} : z <= u OBVIOUS
  <2>2. Min({x, y}) \in {x, y} BY <2>1 DEF Min
  <2> QED BY <2>2
<1> QED BY <1>5, <1>6, <1>7

LEMMA WorthType ==
    ASSUME NEW steps, TypedSteps(steps), NEW i \in 1 .. Len(steps)
    PROVE  Worth(steps, i) \in Nat
<1>1. Counts(steps, i) => EffortOf(steps[i].effort) \in Nat BY EffortCounts
<1> QED BY <1>1 DEF Worth

\* g sums up the steps of S one after the other.
Sums(g, steps, S, n) ==
    /\ g \in [0 .. n -> Nat] /\ g[0] = 0
    /\ \A k \in 1 .. n : g[k] = g[k - 1] + IF k \in S THEN Worth(steps, k) ELSE 0

LEMMA LoadSums ==
    ASSUME NEW steps, TypedSteps(steps), NEW S
    PROVE  \E g : Sums(g, steps, S, Len(steps)) /\ Load(steps, S) = g[Len(steps)]
<1> DEFINE n == Len(steps)
           q == [i \in DOMAIN steps |-> i]
           turn(a, i) == IF i \in S THEN a + Worth(steps, i) ELSE a
           step == [x \in Nat \X (1 .. n) |-> turn(x[1], q[x[2]])]
           Eq(f) == f = [t \in SUBSET (1 .. n) |->
                            IF t = {} THEN 0 ELSE turn(f[t \ {Max(t)}], q[Max(t)])]
           f == CHOOSE f : Eq(f)
<1>0. 0 \in Nat OBVIOUS
<1>1. n \in Nat /\ DOMAIN steps = 1 .. n /\ DOMAIN q = 1 .. n /\ \A k \in 1 .. n : q[k] = k
  BY DEF TypedSteps
<1>2. Load(steps, S) = f[1 .. n]
  BY <1>1 DEF Load, FoldLeftDomain, FoldLeft, MapThenFoldSet
<1>3. \A a \in Nat, k \in 1 .. n : turn(a, q[k]) \in Nat BY <1>1, WorthType
<1> HIDE DEF turn
<1>4. step \in [Nat \X (1 .. n) -> Nat] BY <1>3
<1>5. \A a \in Nat, k \in 1 .. n : step[<<a, k>>] = turn(a, q[k]) OBVIOUS
<1> HIDE DEF step, n, q
<1>6. Eq(f)
  <2>1. PICK g \in [SUBSET (1 .. n) -> Nat] : Folding(g, 0, step, n)
    BY <1>0, <1>1, <1>4, FoldExists
  <2>2. ASSUME NEW t \in SUBSET (1 .. n)
        PROVE  g[t] = IF t = {} THEN 0 ELSE turn(g[t \ {Max(t)}], q[Max(t)])
    <3>1. t # {} => Max(t) \in 1 .. n BY <1>1, MaxOf
    <3>2. g[t \ {Max(t)}] \in Nat OBVIOUS
    <3>3. g[t] = IF t = {} THEN 0 ELSE step[<<g[t \ {Max(t)}], Max(t)>>]
      BY <2>1 DEF Folding
    <3> QED BY <1>5, <3>1, <3>2, <3>3
  <2>3. Eq(g) BY <2>2
  <2> QED BY <2>3
<1> HIDE DEF f
<1>7. FoldingIn(f, Nat, 0, step, n)
  <2> SUFFICES ASSUME NEW t \in SUBSET (1 .. n)
               PROVE  /\ t = {} => f[t] = 0
                      /\ t # {} /\ f[t \ {Max(t)}] \in Nat =>
                             f[t] = step[<<f[t \ {Max(t)}], Max(t)>>]
    BY DEF FoldingIn
  <2>1. t # {} => Max(t) \in 1 .. n BY <1>1, MaxOf
  <2> QED BY <1>5, <1>6, <2>1
<1>8. PICK g : Chained(g, f, Nat, 0, step, n)
  BY <1>0, <1>1, <1>4, <1>7, FoldChain
<1>9. g \in [0 .. n -> Nat] /\ g[0] = 0 /\ g[n] = f[1 .. n] BY <1>8 DEF Chained
<1>10. ASSUME NEW k \in 1 .. n PROVE g[k] = g[k - 1] + IF k \in S THEN Worth(steps, k) ELSE 0
  <2>1. k - 1 \in 0 .. n BY <1>1
  <2>2. g[k - 1] \in Nat /\ g[k] = step[<<g[k - 1], k>>]
    BY <1>8, <1>9, <2>1 DEF Chained
  <2>3. g[k] = turn(g[k - 1], k) BY <1>1, <1>5, <2>2
  <2> QED BY <2>2, <2>3 DEF turn
<1>11. Sums(g, steps, S, n) BY <1>9, <1>10 DEF Sums
<1> QED BY <1>2, <1>9, <1>11 DEF n

LEMMA LoadType ==
    ASSUME NEW steps, TypedSteps(steps), NEW S
    PROVE  Load(steps, S) \in Nat
<1>1. PICK g : Sums(g, steps, S, Len(steps)) /\ Load(steps, S) = g[Len(steps)]
  BY LoadSums
<1>2. Len(steps) \in 0 .. Len(steps) BY DEF TypedSteps
<1> QED BY <1>1, <1>2 DEF Sums

\* The load of disjoint sets is the sum of theirs.
LEMMA LoadParts ==
    ASSUME NEW steps, TypedSteps(steps), NEW A, NEW B, A \cap B = {}
    PROVE  Load(steps, A \cup B) = Load(steps, A) + Load(steps, B)
<1> DEFINE n == Len(steps)
           C == A \cup B
<1>1. PICK f : Sums(f, steps, A, n) /\ Load(steps, A) = f[n] BY LoadSums
<1>2. PICK g : Sums(g, steps, B, n) /\ Load(steps, B) = g[n] BY LoadSums
<1>3. PICK h : Sums(h, steps, C, n) /\ Load(steps, C) = h[n] BY LoadSums
<1>4. n \in Nat BY DEF TypedSteps
<1>5. \A k \in 1 .. n : Worth(steps, k) \in Nat BY WorthType
<1>6. \A k : k \in C <=> (k \in A \/ k \in B) OBVIOUS
<1> HIDE DEF n, C
<1> DEFINE S == {k \in 0 .. n : h[k] = f[k] + g[k]}
<1>7. 0 \in S BY <1>1, <1>2, <1>3, <1>4 DEF Sums
<1>8. ASSUME NEW k \in Nat, k < n, k \in S PROVE k + 1 \in S
  <2> DEFINE w == Worth(steps, k + 1)
             a == f[k]
             b == g[k]
             i == k + 1
  <2>1. i \in 1 .. n /\ i - 1 = k /\ k \in 0 .. n /\ i \in 0 .. n BY <1>4, <1>8
  <2>2. /\ a \in Nat /\ b \in Nat /\ w \in Nat /\ h[k] = a + b
        /\ f[i] = a + (IF i \in A THEN w ELSE 0)
        /\ g[i] = b + (IF i \in B THEN w ELSE 0)
        /\ h[i] = h[k] + (IF i \in C THEN w ELSE 0)
    BY <1>1, <1>2, <1>3, <1>5, <1>8, <2>1 DEF Sums
  <2> HIDE DEF w, a, b, i
  <2>3. CASE i \in A
    <3>1. i \notin B /\ i \in C BY <1>6, <2>3
    <3>2. f[i] = a + w /\ g[i] = b /\ h[i] = (a + b) + w BY <2>2, <2>3, <3>1
    <3> QED BY <2>1, <2>2, <3>2 DEF i
  <2>4. CASE i \in B
    <3>1. i \notin A /\ i \in C BY <1>6, <2>4
    <3>2. f[i] = a /\ g[i] = b + w /\ h[i] = (a + b) + w BY <2>2, <2>4, <3>1
    <3> QED BY <2>1, <2>2, <3>2 DEF i
  <2>5. CASE i \notin A /\ i \notin B
    <3>1. f[i] = a /\ g[i] = b /\ h[i] = a + b BY <1>6, <2>2, <2>5
    <3> QED BY <2>1, <3>1 DEF i
  <2> QED BY <2>3, <2>4, <2>5
<1>9. n \in S
  <2> HIDE DEF S
  <2> QED BY <1>4, <1>7, <1>8, Climb
<1> QED BY <1>1, <1>2, <1>3, <1>9 DEF C

\* More steps are no less load.
LEMMA LoadWithin ==
    ASSUME NEW steps, TypedSteps(steps), NEW B, NEW A \in SUBSET B
    PROVE  Load(steps, A) <= Load(steps, B)
<1> DEFINE C == B \ A
           a == Load(steps, A)
           c == Load(steps, C)
<1>1. A \cap C = {} /\ A \cup C = B OBVIOUS
<1> HIDE DEF C
<1>2. Load(steps, B) = a + c BY <1>1, LoadParts
<1>3. a \in Nat /\ c \in Nat BY LoadType
<1> HIDE DEF a, c
<1>4. a <= a + c BY <1>3
<1> QED BY <1>2, <1>4 DEF a

LEMMA LoadNone ==
    ASSUME NEW steps, TypedSteps(steps)
    PROVE  Load(steps, {}) = 0
<1> DEFINE none == Load(steps, {})
<1>1. {} \cap {} = {} /\ {} \cup {} = {} OBVIOUS
<1>2. Load(steps, {} \cup {}) = none + none BY <1>1, LoadParts
<1>3. none \in Nat /\ none = none + none BY <1>1, <1>2, LoadType
<1> HIDE DEF none
<1>4. none = 0 BY <1>3
<1> QED BY <1>4 DEF none

LEMMA LoadOne ==
    ASSUME NEW steps, TypedSteps(steps), NEW i \in 1 .. Len(steps)
    PROVE  Load(steps, {i}) = Worth(steps, i)
<1> DEFINE n == Len(steps)
           A == {i}
           w == Worth(steps, i)
<1>1. PICK g : Sums(g, steps, A, n) /\ Load(steps, A) = g[n] BY LoadSums
<1>2. n \in Nat /\ i \in 1 .. n BY DEF TypedSteps
<1>3. w \in Nat BY WorthType
<1>4. \A k : k \in A <=> k = i OBVIOUS
<1> HIDE DEF n, A
<1> DEFINE S == {k \in 0 .. n : g[k] = IF k < i THEN 0 ELSE w}
<1>5. 0 \in S BY <1>1, <1>2 DEF Sums
<1>6. ASSUME NEW k \in Nat, k < n, k \in S PROVE k + 1 \in S
  <2> DEFINE j == k + 1
  <2>1. j \in 1 .. n /\ j - 1 = k /\ j \in 0 .. n BY <1>2, <1>6
  <2>2. /\ g[k] = IF k < i THEN 0 ELSE w
        /\ g[j] = g[k] + IF j \in A THEN Worth(steps, j) ELSE 0
    BY <1>1, <1>6, <2>1 DEF Sums
  <2>3. j = i => g[j] = w
    <3>1. ASSUME j = i PROVE k < i BY <3>1, <1>2
    <3> QED BY <1>3, <1>4, <2>2, <3>1
  <2>4. j < i => g[j] = 0
    <3>1. ASSUME j < i PROVE k < i /\ j # i BY <3>1, <1>2
    <3> QED BY <1>4, <2>2, <3>1
  <2>5. j > i => g[j] = w
    <3>1. ASSUME j > i PROVE ~(k < i) /\ j # i BY <3>1, <1>2
    <3> QED BY <1>3, <1>4, <2>2, <3>1
  <2>6. g[j] = IF j < i THEN 0 ELSE w
    <3>1. j < i \/ j = i \/ j > i BY <1>2, <2>1
    <3>2. j = i \/ j > i => ~(j < i) BY <1>2, <2>1
    <3> QED BY <2>3, <2>4, <2>5, <3>1, <3>2
  <2> QED BY <2>1, <2>6
<1>7. n \in S
  <2> HIDE DEF S
  <2> QED BY <1>2, <1>5, <1>6, Climb
<1>8. ~(n < i) BY <1>2
<1> QED BY <1>1, <1>7, <1>8 DEF A

\* The first k members of a sequence.
First(q, k) == { q[i] : i \in 1 .. k }

LEMMA SmallMod ==
    ASSUME NEW a \in Nat, NEW m \in Nat \ {0}, a < m
    PROVE  a % m = a
  OBVIOUS

\* The load of a chunk grows by the worth of each of its steps.
LEMMA FirstLoad ==
    ASSUME NEW steps, TypedSteps(steps), NEW C \in SUBSET (1 .. Len(steps)),
           NEW chunk, Lists(chunk, C), NEW k \in Nat, k < Len(chunk)
    PROVE  /\ chunk[k + 1] \in C
           /\ Load(steps, First(chunk, k + 1)) = Load(steps, First(chunk, k)) + Worth(steps, chunk[k + 1])
           /\ Load(steps, First(chunk, k + 1)) <= Load(steps, C)
<1> DEFINE m == Len(chunk)
           A == First(chunk, k)
           i == chunk[k + 1]
<1>1. /\ m \in Nat /\ DOMAIN chunk = 1 .. m /\ \A j \in 1 .. m : chunk[j] \in C
      /\ \A a, b \in 1 .. m : chunk[a] = chunk[b] => a = b
  BY DEF Lists
<1>2. k + 1 \in 1 .. m /\ 1 .. k + 1 = (1 .. k) \cup {k + 1}
      /\ \A j \in 1 .. k : j \in 1 .. m /\ j # k + 1
  BY <1>1
<1>3. i \in C /\ i \in 1 .. Len(steps) BY <1>1, <1>2
<1>4. First(chunk, k + 1) = A \cup {i} BY <1>2 DEF First
<1>5. A \cap {i} = {}
  <2> SUFFICES ASSUME NEW j \in 1 .. k, chunk[j] = i PROVE FALSE BY DEF First
  <2> QED BY <1>1, <1>2
<1>6. A \cup {i} \in SUBSET C
  <2>1. A \in SUBSET C BY <1>1, <1>2 DEF First
  <2> QED BY <1>3, <2>1
<1> HIDE DEF A, i
<1>7. Load(steps, A \cup {i}) = Load(steps, A) + Worth(steps, i)
  <2>1. Load(steps, A \cup {i}) = Load(steps, A) + Load(steps, {i})
    BY <1>5, LoadParts
  <2> QED BY <1>3, <2>1, LoadOne
<1>8. Load(steps, A \cup {i}) <= Load(steps, C) BY <1>6, LoadWithin
<1> QED BY <1>3, <1>4, <1>7, <1>8 DEF A, i

LEMMA FirstAll ==
    ASSUME NEW C, NEW chunk, Lists(chunk, C)
    PROVE  First(chunk, 0) = {} /\ First(chunk, Len(chunk)) = C
<1>1. /\ Len(chunk) \in Nat /\ DOMAIN chunk = 1 .. Len(chunk)
      /\ \A j \in 1 .. Len(chunk) : chunk[j] \in C
      /\ \A x \in C : \E j \in DOMAIN chunk : chunk[j] = x
  BY DEF Lists
<1>2. 1 .. 0 = {} OBVIOUS
<1>3. First(chunk, 0) = {} BY <1>2 DEF First
<1>4. First(chunk, Len(chunk)) = C BY <1>1 DEF First
<1> QED BY <1>3, <1>4

\* How the worth of the steps of S is measured.
Measured(steps, S, byEffort) ==
    \A i \in S : Worth(steps, i) =
        IF byEffort THEN IF Counts(steps, i) THEN EffortOf(steps[i].effort) ELSE 0 ELSE 1

\* What chunk_effort_secs returns is the load of the chunk.
LEMMA EffortIsLoad ==
    ASSUME NEW steps, TypedSteps(steps), NEW C \in SUBSET (1 .. Len(steps)),
           NEW chunk, Lists(chunk, C), Measured(steps, C, TRUE), Load(steps, C) < Word
    PROVE  ChunkEffort(steps, chunk) = Load(steps, C)
<1> DEFINE m == Len(chunk)
           L(k) == Load(steps, First(chunk, k))
<1>1. chunk \in Seq(1 .. Len(steps)) /\ m \in Nat
  <2>1. chunk \in Seq(C) /\ m \in Nat BY DEF Lists
  <2>2. Seq(C) \subseteq Seq(1 .. Len(steps)) BY SeqSubset
  <2> QED BY <2>1, <2>2
<1>2. PICK g \in [0 .. m -> Int] :
          /\ g[0] = 0
          /\ \A k \in 1 .. m : g[k] = Tally(steps, g[k - 1], chunk[k])
          /\ ChunkEffort(steps, chunk) = g[m]
  BY <1>1, ChunkEffortSteps
<1>3. L(0) = 0 /\ L(m) = Load(steps, C) BY FirstAll, LoadNone
<1>4. \A k : L(k) \in Nat BY LoadType
<1>5. ASSUME NEW k \in Nat, k < m
      PROVE  chunk[k + 1] \in C /\ L(k + 1) = L(k) + Worth(steps, chunk[k + 1]) /\ L(k + 1) <= Load(steps, C)
  BY <1>5, FirstLoad
<1>6. Word \in Nat \ {0} /\ Load(steps, C) \in Nat
  BY DecomposeAssumption, LoadType
<1> HIDE DEF m, L
<1> DEFINE S == {k \in Nat : g[k] = L(k)}
<1>7. 0 \in S BY <1>2, <1>3
<1>8. ASSUME NEW k \in Nat, k < m, k \in S PROVE k + 1 \in S
  <2> DEFINE j == k + 1
             i == chunk[j]
             w == Worth(steps, i)
  <2>1. j \in 1 .. m /\ j - 1 = k /\ j \in Nat BY <1>1, <1>8
  <2>2. i \in C /\ L(j) = L(k) + w /\ L(j) <= Load(steps, C) /\ L(j) \in Nat /\ L(k) \in Nat
    BY <1>4, <1>5, <1>8
  <2>3. g[j] = Tally(steps, L(k), i) BY <1>2, <1>8, <2>1
  <2>4. w = IF Counts(steps, i) THEN EffortOf(steps[i].effort) ELSE 0
    BY <2>2 DEF Measured
  <2> HIDE DEF w, i, j
  <2>5. L(j) % Word = L(j)
    <3> DEFINE a == L(j)
    <3>1. a \in Nat /\ a < Word BY <1>6, <2>2
    <3> HIDE DEF a
    <3>2. a % Word = a BY <1>6, <3>1, SmallMod
    <3> QED BY <3>2 DEF a
  <2>6. CASE Counts(steps, i)
    <3>1. g[j] = (L(k) + w) % Word BY <2>3, <2>4, <2>6 DEF Tally
    <3> QED BY <2>1, <2>2, <2>5, <3>1 DEF j
  <2>7. CASE ~Counts(steps, i)
    <3>1. g[j] = L(k) /\ w = 0 BY <2>3, <2>4, <2>7 DEF Tally
    <3>2. L(j) = L(k) BY <2>2, <3>1
    <3> QED BY <2>1, <3>1, <3>2 DEF j
  <2> QED BY <2>6, <2>7
<1>9. m \in S
  <2> HIDE DEF S
  <2> QED BY <1>1, <1>7, <1>8, Climb
<1> QED BY <1>2, <1>3, <1>9

\* So is its length, when steps are counted.
LEMMA LengthIsLoad ==
    ASSUME NEW steps, TypedSteps(steps), NEW C \in SUBSET (1 .. Len(steps)),
           NEW chunk, Lists(chunk, C), Measured(steps, C, FALSE)
    PROVE  Len(chunk) = Load(steps, C)
<1> DEFINE m == Len(chunk)
           L(k) == Load(steps, First(chunk, k))
<1>1. m \in Nat BY DEF Lists
<1>2. L(0) = 0 /\ L(m) = Load(steps, C) BY FirstAll, LoadNone
<1>3. ASSUME NEW k \in Nat, k < m
      PROVE  L(k + 1) = L(k) + 1
  <2>1. chunk[k + 1] \in C /\ L(k + 1) = L(k) + Worth(steps, chunk[k + 1])
    BY <1>3, FirstLoad
  <2> QED BY <2>1 DEF Measured
<1> HIDE DEF m, L
<1> DEFINE S == {k \in Nat : L(k) = k}
<1>4. 0 \in S /\ \A k \in Nat : k < m /\ k \in S => k + 1 \in S BY <1>2, <1>3
<1>5. m \in S
  <2> HIDE DEF S
  <2> QED BY <1>1, <1>4, Climb
<1> QED BY <1>2, <1>5 DEF m

-----------------------------------------------------------------------------
\* Full pieces.

\* A piece of the chunks T[1] to T[n] is within the limit, or one of them.
WithinLimit(steps, piece, limit, T, n) ==
    \/ Load(steps, Range(piece)) <= limit
    \/ \E k \in 1 .. n : Range(piece) = T[k]

\* The chunk that the piece after it begins with would not have fitted.
GoesOver(steps, piece, after, limit, T, n) ==
    \E k \in 1 .. n : after[1] \in T[k] /\ limit < Load(steps, Range(piece) \cup T[k])

FilledUp(steps, q, limit, T, n) ==
    \A p \in 1 .. Len(q) :
        /\ q[p] # <<>> /\ WithinLimit(steps, q[p], limit, T, n)
        /\ p + 1 \in 1 .. Len(q) => GoesOver(steps, q[p], q[p + 1], limit, T, n)

\* One more piece.
LEMMA FilledMore ==
    ASSUME NEW steps, NEW limit, NEW T, NEW n, NEW M, NEW q \in Seq(M), NEW c \in M,
           FilledUp(steps, q, limit, T, n), c # <<>>, WithinLimit(steps, c, limit, T, n),
           q # <<>> => GoesOver(steps, q[Len(q)], c, limit, T, n)
    PROVE  FilledUp(steps, Append(q, c), limit, T, n)
<1> DEFINE h == Append(q, c)
           m == Len(q)
<1>1. /\ Len(h) = m + 1 /\ h[m + 1] = c /\ \A p \in 1 .. m : h[p] = q[p]
      /\ 1 .. Len(h) = (1 .. m) \cup {m + 1}
  BY Appended
<1>2. m \in Nat /\ (m # 0 => q # <<>>) OBVIOUS
<1> HIDE DEF h, m
<1> SUFFICES ASSUME NEW p \in 1 .. Len(h)
             PROVE  /\ h[p] # <<>> /\ WithinLimit(steps, h[p], limit, T, n)
                    /\ p + 1 \in 1 .. Len(h) => GoesOver(steps, h[p], h[p + 1], limit, T, n)
  BY DEF FilledUp, h
<1>3. CASE p = m + 1
  <2>1. ~(p + 1 \in 1 .. Len(h)) BY <1>1, <1>2, <1>3
  <2> QED BY <1>1, <1>3, <2>1
<1>4. CASE p \in 1 .. m
  <2>1. h[p] = q[p] /\ q[p] # <<>> /\ WithinLimit(steps, q[p], limit, T, n)
    BY <1>1, <1>4 DEF FilledUp, m
  <2>2. CASE p = m
    <3>1. q # <<>> /\ GoesOver(steps, q[m], c, limit, T, n) /\ h[p + 1] = c
      BY <1>1, <1>2, <1>4, <2>2 DEF m
    <3> QED BY <2>1, <2>2, <3>1
  <2>3. CASE p + 1 \in 1 .. m
    <3>1. h[p + 1] = q[p + 1] /\ GoesOver(steps, q[p], q[p + 1], limit, T, n)
      BY <1>1, <1>4, <2>3 DEF FilledUp, m
    <3> QED BY <2>1, <3>1
  <2>4. p = m \/ p + 1 \in 1 .. m BY <1>2, <1>4
  <2> QED BY <2>2, <2>3, <2>4
<1> QED BY <1>1, <1>3, <1>4

\* The last piece goes on, within the limit.
LEMMA FilledLonger ==
    ASSUME NEW steps, NEW limit, NEW T, NEW n, NEW M, NEW q \in Seq(M), NEW a \in M, NEW b \in M,
           FilledUp(steps, Append(q, a), limit, T, n),
           b # <<>>, b[1] = a[1], Load(steps, Range(b)) <= limit
    PROVE  FilledUp(steps, Append(q, b), limit, T, n)
<1> DEFINE m == Len(q)
           f == Append(q, a)
           h == Append(q, b)
<1>1. /\ Len(h) = m + 1 /\ h[m + 1] = b /\ \A p \in 1 .. m : h[p] = q[p]
      /\ 1 .. Len(h) = (1 .. m) \cup {m + 1}
  BY Appended
<1>2. /\ Len(f) = m + 1 /\ f[m + 1] = a /\ \A p \in 1 .. m : f[p] = q[p]
  BY Appended
<1>3. m \in Nat OBVIOUS
<1>4. FilledUp(steps, f, limit, T, n) OBVIOUS
<1>5. WithinLimit(steps, b, limit, T, n) BY DEF WithinLimit
<1> HIDE DEF f, h, m
<1> SUFFICES ASSUME NEW p \in 1 .. Len(h)
             PROVE  /\ h[p] # <<>> /\ WithinLimit(steps, h[p], limit, T, n)
                    /\ p + 1 \in 1 .. Len(h) => GoesOver(steps, h[p], h[p + 1], limit, T, n)
  BY DEF FilledUp, h
<1>6. CASE p = m + 1
  <2>1. ~(p + 1 \in 1 .. Len(h)) BY <1>1, <1>3, <1>6
  <2> QED BY <1>1, <1>5, <1>6, <2>1
<1>7. CASE p \in 1 .. m
  <2>1. p + 1 \in 1 .. m \/ p + 1 = m + 1 BY <1>3, <1>7
  <2>2. h[p] = f[p] /\ p \in 1 .. Len(f) /\ p + 1 \in 1 .. Len(f)
    BY <1>1, <1>2, <1>3, <1>7
  <2>3. /\ f[p] # <<>> /\ WithinLimit(steps, f[p], limit, T, n)
        /\ GoesOver(steps, f[p], f[p + 1], limit, T, n)
    BY <1>4, <2>2 DEF FilledUp
  <2>4. h[p + 1][1] = f[p + 1][1]
    <3>1. CASE p + 1 \in 1 .. m BY <1>1, <1>2, <3>1
    <3>2. CASE p + 1 = m + 1 BY <1>1, <1>2, <3>2
    <3> QED BY <2>1, <3>1, <3>2
  <2>5. GoesOver(steps, f[p], h[p + 1], limit, T, n) BY <2>3, <2>4 DEF GoesOver
  <2> QED BY <2>2, <2>3, <2>5
<1> QED BY <1>1, <1>6, <1>7

\* A chunk joins the open piece.
LEMMA Lengthened ==
    ASSUME NEW M, NEW a \in Seq(M), NEW c \in Seq(M), c # <<>>
    PROVE  /\ a \o c \in Seq(M) /\ a \o c # <<>>
           /\ a # <<>> => (a \o c)[1] = a[1]
           /\ a = <<>> => a \o c = c
<1> DEFINE b == a \o c
<1>1. b \in Seq(M) /\ Len(b) = Len(a) + Len(c) /\ Len(a) \in Nat /\ Len(c) \in Nat
  OBVIOUS
<1>2. Len(c) # 0 OBVIOUS
<1>3. b # <<>>
  <2>1. Len(b) # 0 BY <1>1, <1>2
  <2> QED BY <2>1
<1>4. a # <<>> => b[1] = a[1]
  <2> HAVE a # <<>>
  <2>1. 1 \in 1 .. Len(a) BY <1>1
  <2> QED BY <2>1
<1>5. a = <<>> => b = c OBVIOUS
<1> QED BY <1>1, <1>3, <1>4, <1>5

\* The pieces so far, the open one last.
Opened(s) == IF s.current = <<>> THEN s.pieces ELSE Append(s.pieces, s.current)

\* The first k of n chunks are packed: the pieces are full, and the running
\* load is that of the open one.
Stowed(steps, s, limit, T, n, k) ==
    /\ FilledUp(steps, Opened(s), limit, T, n)
    /\ s.load = Load(steps, Range(s.current))
    /\ Range(s.current) \subseteq Covered(T, k)
    /\ s.current = <<>> => s.pieces = <<>>

LEMMA StowedStep ==
    ASSUME NEW steps, TypedSteps(steps), Load(steps, 1 .. Len(steps)) < Word,
           NEW M \in SUBSET (1 .. Len(steps)), NEW s \in PackAcc(M), NEW c \in Seq(M),
           NEW limit \in Nat, NEW T, NEW n \in Nat, NEW k \in Nat, k < n,
           Lists(c, T[k + 1]), T[k + 1] # {}, T[k + 1] \in SUBSET M,
           T[k + 1] \cap Covered(T, k) = {},
           Stowed(steps, s, limit, T, n, k)
    PROVE  Stowed(steps, PackLine(s, c, Load(steps, T[k + 1]), limit), limit, T, n, k + 1)
<1> DEFINE C == T[k + 1]
           w == Load(steps, C)
           t == PackLine(s, c, w, limit)
           open == s.current
           ps == s.pieces
           V == Seq(M)
           both == Load(steps, Range(open) \cup C)
<1>1. open \in V /\ ps \in Seq(V) /\ c \in V BY DEF PackAcc
<1>2. /\ FilledUp(steps, Opened(s), limit, T, n)
      /\ s.load = Load(steps, Range(open)) /\ Range(open) \subseteq Covered(T, k)
      /\ open = <<>> => ps = <<>>
  BY DEF Stowed
<1>3. k + 1 \in 1 .. n /\ 1 .. k + 1 = (1 .. k) \cup {k + 1} OBVIOUS
<1>4. Covered(T, k + 1) = Covered(T, k) \cup C BY <1>3 DEF Covered
<1>5. Range(c) = C /\ c # <<>> /\ c[1] \in C
  <2>1. Range(c) = C /\ Len(c) \in Nat /\ DOMAIN c = 1 .. Len(c) /\ \A j \in 1 .. Len(c) : c[j] \in C
    BY ListsRange
  <2>2. Len(c) # 0 BY <2>1 DEF Range
  <2>3. 1 \in 1 .. Len(c) /\ c # <<>> BY <2>1, <2>2
  <2> QED BY <2>1, <2>3
<1>6. both = s.load + w /\ both \in Nat /\ both < Word /\ (s.load + w) % Word = both
  <2>1. Range(open) \cap C = {} BY <1>2
  <2>2. Load(steps, Range(open) \cup C) = Load(steps, Range(open)) + Load(steps, C)
    BY <2>1, LoadParts
  <2>3. Range(open) \cup C \in SUBSET (1 .. Len(steps))
    <3> HIDE DEF open, C
    <3>1. Range(open) \in SUBSET M BY <1>1, RangeOf DEF V
    <3>2. C \in SUBSET M BY DEF C
    <3> QED BY <3>1, <3>2
  <2>4. both <= Load(steps, 1 .. Len(steps)) /\ both \in Nat /\ Load(steps, 1 .. Len(steps)) \in Nat
    BY <2>3, LoadWithin, LoadType
  <2>5. Word \in Nat \ {0} BY DecomposeAssumption
  <2>6. both = s.load + w BY <1>2, <2>2
  <2> HIDE DEF both, w
  <2>7. both < Word BY <2>4, <2>5
  <2>8. both % Word = both BY <2>4, <2>5, <2>7, SmallMod
  <2> QED BY <2>4, <2>6, <2>7, <2>8
<1>7. WithinLimit(steps, c, limit, T, n) BY <1>3, <1>5 DEF WithinLimit
<1>8. t = IF open # <<>> /\ both > limit
          THEN [pieces |-> Append(ps, open), current |-> c, load |-> w]
          ELSE [s EXCEPT !.current = open \o c, !.load = both]
  BY <1>6 DEF PackLine
<1>9. CASE open # <<>> /\ both > limit
  <2> DEFINE q == Append(ps, open)
  <2>1. t.pieces = q /\ t.current = c /\ t.load = w BY <1>8, <1>9
  <2>2. Opened(s) = q /\ Opened(t) = Append(q, c) BY <1>5, <1>9, <2>1 DEF Opened
  <2>3. q \in Seq(V) /\ q # <<>> /\ q[Len(q)] = open
    <3> HIDE DEF V, open, ps
    <3> QED BY <1>1, Appended
  <2>4. GoesOver(steps, open, c, limit, T, n)
    BY <1>3, <1>5, <1>6, <1>9 DEF GoesOver
  <2> HIDE DEF q, V, C, w, t, open
  <2>5. FilledUp(steps, Append(q, c), limit, T, n)
    BY <1>1, <1>2, <1>5, <1>7, <2>2, <2>3, <2>4, FilledMore
  <2>6. t.load = Load(steps, Range(t.current)) /\ Range(t.current) \subseteq Covered(T, k + 1)
    BY <1>4, <1>5, <2>1 DEF w
  <2> QED BY <1>5, <2>1, <2>2, <2>5, <2>6 DEF Stowed, t, w, C
<1>10. CASE ~(open # <<>> /\ both > limit)
  <2> DEFINE b == open \o c
  <2>1. t.pieces = ps /\ t.current = b /\ t.load = both
    BY <1>8, <1>10 DEF PackAcc
  <2>2. Range(b) = Range(open) \cup C BY <1>1, <1>5, RangeConcat
  <2>3. b # <<>> /\ (open # <<>> => b[1] = open[1]) /\ (open = <<>> => b = c) /\ b \in V
    <3> HIDE DEF open
    <3> QED BY <1>1, <1>5, Lengthened
  <2>4. Opened(t) = Append(ps, b) BY <2>1, <2>3 DEF Opened
  <2>5. t.load = Load(steps, Range(t.current)) /\ Range(t.current) \subseteq Covered(T, k + 1)
    BY <1>2, <1>4, <2>1, <2>2
  <2> HIDE DEF b, V, C, w, t
  <2>6. FilledUp(steps, Append(ps, b), limit, T, n)
    <3>1. CASE open = <<>>
      <4>1. FilledUp(steps, ps, limit, T, n) /\ ps = <<>> /\ b = c
        BY <1>2, <2>3, <3>1 DEF Opened
      <4> HIDE DEF ps, open
      <4> QED BY <1>1, <1>5, <1>7, <4>1, FilledMore
    <3>2. CASE open # <<>>
      <4>1. Opened(s) = Append(ps, open) BY <3>2 DEF Opened
      <4>2. Load(steps, Range(b)) <= limit
        <5>1. Load(steps, Range(b)) = both /\ ~(both > limit)
          BY <1>10, <2>2, <3>2
        <5> HIDE DEF both
        <5> QED BY <1>6, <5>1
      <4>3. b # <<>> /\ b[1] = open[1] /\ b \in V BY <2>3, <3>2
      <4> HIDE DEF ps, open
      <4> QED BY <1>1, <1>2, <4>1, <4>2, <4>3, FilledLonger
    <3> QED BY <3>1, <3>2
  <2> HIDE DEF ps
  <2> QED BY <2>1, <2>3, <2>4, <2>5, <2>6 DEF Stowed, t, w, C
<1> QED BY <1>9, <1>10

-----------------------------------------------------------------------------
\* Full groups.

\* The chunks hold the sets of T, each of which has steps of its own.
Held(chunks, M, T) ==
    /\ chunks \in Seq(Seq(M))
    /\ \A k \in 1 .. Len(chunks) : Lists(chunks[k], T[k]) /\ T[k] # {} /\ T[k] \in SUBSET M
    /\ \A j, k \in 1 .. Len(chunks) : j # k => T[j] \cap T[k] = {}

LEMMA PackFilled ==
    ASSUME NEW steps, TypedSteps(steps), Load(steps, 1 .. Len(steps)) < Word,
           NEW M \in SUBSET (1 .. Len(steps)), NEW chunks, NEW T, Held(chunks, M, T),
           Limit(steps, chunks) \in Nat,
           \A k \in 1 .. Len(chunks) : Weight(steps, chunks, chunks[k]) = Load(steps, T[k])
    PROVE  FilledUp(steps, Pack(steps, chunks), Limit(steps, chunks), T, Len(chunks))
<1> DEFINE n == Len(chunks)
           q == Pack(steps, chunks)
           limit == Limit(steps, chunks)
<1>1. /\ chunks \in Seq(Seq(M))
      /\ \A k \in 1 .. n : Lists(chunks[k], T[k]) /\ T[k] # {} /\ T[k] \in SUBSET M
      /\ \A j, k \in 1 .. n : j # k => T[j] \cap T[k] = {}
  BY DEF Held
<1>2. n \in Nat /\ \A k \in 1 .. n : chunks[k] \in Seq(M) BY <1>1
<1>0. chunks \in Seq(Seq(M)) BY DEF Held
<1>3. PICK g \in [0 .. n -> PackAcc(M)] :
          /\ g[0] = PackBase
          /\ \A k \in 1 .. n :
               g[k] = PackLine(g[k - 1], chunks[k], Weight(steps, chunks, chunks[k]), limit)
          /\ q = IF g[n].current = <<>> THEN g[n].pieces
                 ELSE Append(g[n].pieces, g[n].current)
  BY <1>0, PackSteps
<1>4. /\ g[0] = PackBase /\ limit \in Nat
      /\ \A k \in 1 .. n : g[k] = PackLine(g[k - 1], chunks[k], Load(steps, T[k]), limit)
  BY <1>3
<1> DEFINE P(k) == Stowed(steps, g[k], limit, T, n, k)
<1> HIDE DEF n, q, limit
<1>5. P(0)
  <2>1. /\ PackBase.current = <<>> /\ PackBase.pieces = <<>> /\ PackBase.load = 0
        /\ Opened(PackBase) = <<>>
    BY DEF PackBase, Opened
  <2>2. FilledUp(steps, <<>>, limit, T, n) BY DEF FilledUp
  <2>3. Range(<<>>) = {} BY DEF Range
  <2>4. Load(steps, {}) = 0 BY LoadNone
  <2> QED BY <1>4, <2>1, <2>2, <2>3, <2>4 DEF Stowed
<1>6. ASSUME NEW k \in Nat, k < n, P(k) PROVE P(k + 1)
  <2>1. /\ k + 1 \in 1 .. n /\ (k + 1) - 1 = k /\ k \in 0 .. n
        /\ \A i \in 1 .. k : i \in 1 .. n /\ i # k + 1
    BY <1>2, <1>6
  <2>2. g[k + 1] = PackLine(g[k], chunks[k + 1], Load(steps, T[k + 1]), limit)
    BY <1>4, <2>1
  <2>3. T[k + 1] \cap Covered(T, k) = {} BY <1>1, <2>1 DEF Covered
  <2>4. g[k] \in PackAcc(M) BY <2>1
  <2>5. /\ chunks[k + 1] \in Seq(M) /\ Lists(chunks[k + 1], T[k + 1])
        /\ T[k + 1] # {} /\ T[k + 1] \in SUBSET M
    BY <1>1, <1>2, <2>1
  <2>6. Stowed(steps, g[k], limit, T, n, k) BY <1>6
  <2> DEFINE a == g[k]
             c == chunks[k + 1]
             W == 1 .. Len(steps)
  <2>7. k < n /\ n \in Nat /\ limit \in Nat /\ Load(steps, W) < Word /\ M \in SUBSET W
    BY <1>2, <1>4, <1>6
  <2>8. ASSUME a \in PackAcc(M), c \in Seq(M), Lists(c, T[k + 1]),
               Stowed(steps, a, limit, T, n, k)
        PROVE  Stowed(steps, PackLine(a, c, Load(steps, T[k + 1]), limit), limit, T, n, k + 1)
    <3> HIDE DEF a, c
    <3> QED BY <2>3, <2>5, <2>7, <2>8, StowedStep
  <2> QED BY <2>2, <2>4, <2>5, <2>6, <2>8
<1>7. P(n)
  <2> HIDE DEF P
  <2> DEFINE S == {k \in Nat : P(k)}
  <2>1. 0 \in S /\ \A k \in Nat : k < n /\ k \in S => k + 1 \in S BY <1>5, <1>6
  <2> HIDE DEF S
  <2>2. n \in S BY <1>2, <2>1, Climb
  <2> QED BY <2>2 DEF S
<1>8. FilledUp(steps, q, limit, T, n)
  <2>1. q = Opened(g[n]) BY <1>3 DEF Opened
  <2> QED BY <1>7, <2>1 DEF Stowed
<1> QED BY <1>8 DEF q, limit, n

\* All of S hang together.
AllConnected(steps, S) == \A i, j \in S : Connected(steps, i, j)

\* A piece is within the limit or indivisible.
Stuffed(steps, piece) ==
    \/ Load(steps, Range(piece)) <= MostOf(steps, Range(piece))
    \/ AllConnected(steps, Range(piece))

\* What hangs together with the first step of the piece after would not have
\* fitted.
Brimming(steps, piece, after) ==
    \E D \in SUBSET (1 .. Len(steps)) :
        /\ after[1] \in D /\ AllConnected(steps, D)
        /\ MostOf(steps, Range(piece)) < Load(steps, Range(piece) \cup D)

GroupFull(steps, q) ==
    \A p \in 1 .. Len(q) :
        /\ Stuffed(steps, q[p])
        /\ p + 1 \in 1 .. Len(q) => Brimming(steps, q[p], q[p + 1])

\* What is in a concatenation is in one of its parts.
LEMMA FlattenedFrom ==
    ASSUME NEW M, NEW q \in Seq(Seq(M)), NEW x \in DOMAIN FlattenSeq(q)
    PROVE  \E c \in DOMAIN q : \E k \in DOMAIN q[c] : q[c][k] = FlattenSeq(q)[x]
<1> DEFINE n == Len(q)
           all == FlattenSeq(q)
<1>1. PICK F, len, size :
          /\ Rows(n, len, size, F, q)
          /\ len[0] = 0 /\ \A k \in 1 .. n : size[k] = Len(q[k])
          /\ F[n] = all /\ len[n] = Len(all)
  BY FlattenRows
<1>2. all \in Seq(M) BY FlattenType
<1>3. DOMAIN q = 1 .. n /\ \A k \in 1 .. n : DOMAIN q[k] = 1 .. Len(q[k])
  OBVIOUS
<1> HIDE DEF n, all
<1>4. x \in 1 .. len[n]
  <2>1. x \in DOMAIN all BY DEF all
  <2> QED BY <1>1, <1>2, <2>1
<1>5. PICK k \in 1 .. n : \E v \in 1 .. size[k] : x = len[k - 1] + v
  <2>1. Rows(n, len, size, F, q) /\ len[0] = 0 BY <1>1
  <2> QED BY <1>4, <2>1, RowsCover, SMTT(60)
<1>6. PICK v \in 1 .. size[k] : x = len[k - 1] + v BY <1>5
<1>7. F[n][x] = q[k][v]
  <2>1. n \in Nat /\ n \in 0 .. n /\ len[k - 1] \in Nat /\ len[k] = len[k - 1] + size[k]
        /\ size[k] \in Nat /\ F[k][len[k - 1] + v] = q[k][v]
    BY <1>1, <1>5, <1>6 DEF Rows
  <2>2. x \in 1 .. len[k] BY <1>6, <2>1
  <2>3. Rows(n, len, size, F, q) BY <1>1
  <2>4. Stays(len, F, k, n) BY <1>5, <2>1, <2>3, RowsStay
  <2>5. k <= n BY <1>5, <2>1
  <2>6. F[n][x] = F[k][x] BY <2>2, <2>4, <2>5 DEF Stays
  <2> QED BY <1>6, <2>1, <2>6
<1>8. k \in DOMAIN q /\ v \in DOMAIN q[k] BY <1>1, <1>3, <1>5, <1>6
<1> QED BY <1>1, <1>7, <1>8 DEF all

\* The measure of a project is the one its chunks are packed by.
LEMMA ProjectMeasured ==
    ASSUME NEW steps, TypedSteps(steps), NEW S, WholeProject(steps, S),
           NEW chunks \in Seq(Seq(S)), Lists(FlattenSeq(chunks), S)
    PROVE  /\ Measured(steps, S, ByEffort(steps, chunks))
           /\ \A R \in SUBSET S : R # {} => MostOf(steps, R) = Limit(steps, chunks)
<1>1. /\ S \in SUBSET (1 .. Len(steps)) /\ DOMAIN steps = 1 .. Len(steps)
      /\ \A i \in S, j \in 1 .. Len(steps) : SameProject(steps, i, j) <=> j \in S
  BY DEF WholeProject, TypedSteps
<1>2. ByEffort(steps, chunks) <=> \E j \in S : Estimated(steps, j)
  <2>1. DOMAIN chunks = 1 .. Len(chunks) /\ \A c \in DOMAIN chunks : chunks[c] \in Seq(S)
    OBVIOUS
  <2>2. \A c \in DOMAIN chunks : \A k \in DOMAIN chunks[c] : chunks[c][k] \in S
    BY <2>1
  <2>3. ASSUME NEW j \in S PROVE \E c \in DOMAIN chunks : \E k \in DOMAIN chunks[c] : chunks[c][k] = j
    <3>1. PICK x \in DOMAIN FlattenSeq(chunks) : FlattenSeq(chunks)[x] = j
      BY DEF Lists
    <3>2. \E c \in DOMAIN chunks : \E k \in DOMAIN chunks[c] : chunks[c][k] = FlattenSeq(chunks)[x]
      BY <3>1, FlattenedFrom
    <3> QED BY <3>1, <3>2
  <2> QED BY <2>2, <2>3 DEF ByEffort
<1>3. \A i \in S : (\E j \in DOMAIN steps : SameProject(steps, i, j) /\ Estimated(steps, j))
                       <=> ByEffort(steps, chunks)
  BY <1>1, <1>2
<1>4. Measured(steps, S, ByEffort(steps, chunks)) BY <1>3 DEF Measured, Worth
<1>5. ASSUME NEW R \in SUBSET S, R # {} PROVE MostOf(steps, R) = Limit(steps, chunks)
  <2>1. (\E i \in R, j \in DOMAIN steps : SameProject(steps, i, j) /\ Estimated(steps, j))
            <=> ByEffort(steps, chunks)
    BY <1>3, <1>5
  <2> QED BY <2>1 DEF MostOf, Limit
<1> QED BY <1>4, <1>5

-----------------------------------------------------------------------------
\* Full projects.

LEMMA LimitType ==
    ASSUME NEW steps, NEW chunks
    PROVE  Limit(steps, chunks) \in Nat
  BY DecomposeAssumption DEF Limit

\* What a chunk weighs is its load.
LEMMA WeightIsLoad ==
    ASSUME NEW steps, TypedSteps(steps), Load(steps, 1 .. Len(steps)) < Word,
           NEW chunks, NEW chunk, NEW C \in SUBSET (1 .. Len(steps)), Lists(chunk, C),
           Measured(steps, C, ByEffort(steps, chunks))
    PROVE  Weight(steps, chunks, chunk) = Load(steps, C)
<1>1. Load(steps, C) < Word
  <2>1. Load(steps, C) <= Load(steps, 1 .. Len(steps)) BY LoadWithin
  <2>2. Load(steps, C) \in Nat /\ Load(steps, 1 .. Len(steps)) \in Nat /\ Word \in Nat
    BY LoadType, DecomposeAssumption
  <2> QED BY <2>1, <2>2
<1>2. CASE ByEffort(steps, chunks)
  <2>1. Measured(steps, C, TRUE) BY <1>2 DEF Measured
  <2>2. ChunkEffort(steps, chunk) = Load(steps, C) BY <1>1, <2>1, EffortIsLoad
  <2> QED BY <1>2, <2>2 DEF Weight
<1>3. CASE ~ByEffort(steps, chunks)
  <2>1. Measured(steps, C, FALSE) BY <1>3 DEF Measured
  <2>2. Len(chunk) = Load(steps, C) BY <2>1, LengthIsLoad
  <2> QED BY <1>3, <2>2 DEF Weight
<1> QED BY <1>2, <1>3

\* The pieces of a project are full.
LEMMA GroupFilled ==
    ASSUME NEW steps, TypedSteps(steps), Load(steps, 1 .. Len(steps)) < Word,
           RespectDependencies, NumbersUnique(steps),
           NEW S, WholeProject(steps, S), NEW group, Lists(group, S)
    PROVE  GroupFull(steps, Pack(steps, Chunks(steps, group)))
<1> DEFINE chunks == Chunks(steps, group)
           q == Pack(steps, chunks)
           limit == Limit(steps, chunks)
           n == Len(chunks)
           parent == Merged(steps, group)
<1>1. S \in SUBSET (1 .. Len(steps)) BY DEF WholeProject
<1>2. chunks \in Seq(Seq(S)) /\ Lists(FlattenSeq(chunks), S) /\ Classed(steps, chunks, S, parent)
  BY <1>1, ChunksFacts
<1>3. PICK T :
        /\ \A k \in 1 .. n :
             /\ Lists(chunks[k], T[k]) /\ T[k] # {} /\ T[k] \in SUBSET S
             /\ \A i, j \in T[k] :
                  Root(parent, steps[i].number) = Root(parent, steps[j].number)
        /\ \A j, k \in 1 .. n : j # k => T[j] \cap T[k] = {}
  BY <1>2 DEF Classed
<1> HIDE DEF chunks, n, parent
<1>4. ASSUME NEW k \in 1 .. n PROVE AllConnected(steps, T[k]) /\ T[k] \in SUBSET (1 .. Len(steps))
  <2> SUFFICES ASSUME NEW i \in T[k], NEW j \in T[k] PROVE Connected(steps, i, j)
    BY <1>1, <1>3 DEF AllConnected
  <2>1. i \in S /\ j \in S /\ Root(parent, steps[i].number) = Root(parent, steps[j].number)
    BY <1>3
  <2> QED BY <2>1, RootsConnected DEF parent
<1>5. /\ Measured(steps, S, ByEffort(steps, chunks))
      /\ \A R \in SUBSET S : R # {} => MostOf(steps, R) = limit
  BY <1>2, ProjectMeasured
<1> HIDE DEF limit
<1>6. ASSUME NEW k \in 1 .. n PROVE Weight(steps, chunks, chunks[k]) = Load(steps, T[k])
  <2> DEFINE C == T[k]
             chunk == chunks[k]
  <2>1. C \in SUBSET S /\ C \in SUBSET (1 .. Len(steps)) /\ Lists(chunk, C)
    BY <1>1, <1>3
  <2> HIDE DEF C, chunk
  <2>2. Measured(steps, C, ByEffort(steps, chunks)) BY <1>5, <2>1 DEF Measured
  <2>3. Weight(steps, chunks, chunk) = Load(steps, C)
    BY <2>1, <2>2, WeightIsLoad
  <2> QED BY <2>3 DEF C, chunk
<1>7. Held(chunks, S, T) BY <1>2, <1>3 DEF Held, n
<1>8. FilledUp(steps, q, limit, T, n)
  <2>1. Limit(steps, chunks) \in Nat BY LimitType
  <2>2. \A k \in 1 .. Len(chunks) : Weight(steps, chunks, chunks[k]) = Load(steps, T[k])
    BY <1>6 DEF n
  <2>3. FilledUp(steps, Pack(steps, chunks), Limit(steps, chunks), T, Len(chunks))
    BY <1>1, <1>7, <2>1, <2>2, PackFilled
  <2> QED BY <2>3 DEF limit, n
<1>9. ASSUME NEW p \in 1 .. Len(q) PROVE MostOf(steps, Range(q[p])) = limit
  <2>1. q \in Seq(Seq(S)) BY <1>1, <1>2, PackFacts
  <2>2. q[p] \in Seq(S) /\ q[p] # <<>>
    <3> HIDE DEF q
    <3>1. q[p] # <<>> BY <1>8 DEF FilledUp
    <3>2. q[p] \in Seq(S) BY <2>1
    <3> QED BY <3>1, <3>2
  <2> DEFINE piece == q[p]
  <2> HIDE DEF piece, q
  <2>3. piece \in Seq(S) /\ piece # <<>> BY <2>2 DEF piece
  <2>4. Range(piece) \in SUBSET S BY <2>3, RangeOf
  <2>5. Range(piece) # {}
    <3>1. 1 \in DOMAIN piece BY <2>3
    <3> QED BY <3>1 DEF Range
  <2> QED BY <1>5, <2>4, <2>5 DEF piece
<1> HIDE DEF q
<1>10. ASSUME NEW p \in 1 .. Len(q)
       PROVE  /\ Stuffed(steps, q[p])
              /\ p + 1 \in 1 .. Len(q) => Brimming(steps, q[p], q[p + 1])
  <2>1. /\ WithinLimit(steps, q[p], limit, T, n)
        /\ p + 1 \in 1 .. Len(q) => GoesOver(steps, q[p], q[p + 1], limit, T, n)
    BY <1>8 DEF FilledUp
  <2>2. Stuffed(steps, q[p]) BY <1>4, <1>9, <2>1 DEF Stuffed, WithinLimit
  <2>3. ASSUME p + 1 \in 1 .. Len(q) PROVE Brimming(steps, q[p], q[p + 1])
    <3>1. PICK k \in 1 .. n : q[p + 1][1] \in T[k] /\ limit < Load(steps, Range(q[p]) \cup T[k])
      BY <2>1, <2>3 DEF GoesOver
    <3>2. MostOf(steps, Range(q[p])) < Load(steps, Range(q[p]) \cup T[k])
      BY <1>9, <3>1
    <3> QED BY <1>4, <3>1, <3>2 DEF Brimming
  <2> QED BY <2>2, <2>3
<1>11. GroupFull(steps, q) BY <1>10 DEF GroupFull
<1> QED BY <1>11 DEF q, chunks

\* A piece is full if it is within its limit, or indivisible, and what comes
\* after it is of another project or would not have fitted.
PieceFull(steps, pieces, p) ==
    /\ Stuffed(steps, pieces[p])
    /\ p + 1 \in 1 .. Len(pieces) /\ SameProject(steps, pieces[p + 1][1], pieces[p][1])
         => Brimming(steps, pieces[p], pieces[p + 1])

\* All pieces of the steps in S are.
FullUpto(steps, S, F) ==
    /\ F \in Seq(Seq(1 .. Len(steps)))
    /\ \A p \in 1 .. Len(F) : F[p][1] \in S /\ PieceFull(steps, F, p)

LEMMA FullStep ==
    ASSUME NEW steps, NEW A \in SUBSET (1 .. Len(steps)), NEW B, WholeProject(steps, B), A \cap B = {},
           NEW F, FullUpto(steps, A, F), NEW q \in Seq(Seq(1 .. Len(steps))), GroupFull(steps, q),
           \A p \in 1 .. Len(q) : q[p][1] \in B
    PROVE  FullUpto(steps, A \cup B, F \o q)
<1> DEFINE H == F \o q
           a == Len(F)
           b == Len(q)
<1>1. F \in Seq(Seq(1 .. Len(steps))) /\ \A p \in 1 .. a : F[p][1] \in A /\ PieceFull(steps, F, p)
  BY DEF FullUpto
<1>2. H \in Seq(Seq(1 .. Len(steps))) BY <1>1
<1>3. /\ a \in Nat /\ b \in Nat /\ Len(H) = a + b
      /\ \A p \in 1 .. a : H[p] = F[p]
      /\ \A p \in 1 .. b : H[a + p] = q[p]
  BY <1>1
<1>4. /\ B \in SUBSET (1 .. Len(steps))
      /\ \A i \in B, j \in 1 .. Len(steps) : SameProject(steps, i, j) <=> j \in B
  BY DEF WholeProject
<1> HIDE DEF H, a, b
<1>5. ASSUME NEW p \in 1 .. a PROVE H[p][1] \in A /\ PieceFull(steps, H, p)
  <2>1. H[p] = F[p] /\ F[p][1] \in A /\ PieceFull(steps, F, p) BY <1>1, <1>3
  <2>2. Stuffed(steps, H[p]) BY <2>1 DEF PieceFull
  <2>3. ASSUME p + 1 \in 1 .. Len(H), SameProject(steps, H[p + 1][1], H[p][1])
        PROVE  Brimming(steps, H[p], H[p + 1])
    <3>1. p + 1 \in 1 .. a \/ (1 \in 1 .. b /\ p + 1 = a + 1) BY <1>3, <2>3
    <3>2. CASE p + 1 \in 1 .. a
      <4>1. H[p + 1] = F[p + 1] BY <1>3, <3>2
      <4>2. p + 1 \in 1 .. Len(F) /\ SameProject(steps, F[p + 1][1], F[p][1])
        BY <2>1, <2>3, <3>2, <4>1 DEF a
      <4>3. Brimming(steps, F[p], F[p + 1]) BY <2>1, <4>2 DEF PieceFull
      <4> QED BY <2>1, <4>1, <4>3
    <3>3. CASE 1 \in 1 .. b /\ p + 1 = a + 1
      <4>1. H[p + 1][1] \in B
        <5>1. H[a + 1] = q[1] /\ q[1][1] \in B BY <1>3, <3>3 DEF b
        <5> QED BY <3>3, <5>1
      <4>2. F[p][1] \in B BY <1>4, <2>1, <2>3, <4>1
      <4> QED BY <2>1, <4>2
    <3> QED BY <3>1, <3>2, <3>3
  <2> QED BY <2>1, <2>2, <2>3 DEF PieceFull
<1>6. ASSUME NEW r \in 1 .. b PROVE H[a + r][1] \in B /\ PieceFull(steps, H, a + r)
  <2>1. H[a + r] = q[r] /\ q[r][1] \in B /\ Stuffed(steps, q[r])
    BY <1>3 DEF GroupFull, b
  <2>2. ASSUME (a + r) + 1 \in 1 .. Len(H) PROVE Brimming(steps, H[a + r], H[(a + r) + 1])
    <3>1. r + 1 \in 1 .. b /\ a + (r + 1) = (a + r) + 1 BY <1>3, <2>2
    <3>2. H[(a + r) + 1] = q[r + 1] BY <1>3, <3>1
    <3>3. Brimming(steps, q[r], q[r + 1]) BY <3>1 DEF GroupFull, b
    <3> QED BY <2>1, <3>2, <3>3
  <2> QED BY <2>1, <2>2 DEF PieceFull
<1>7. ASSUME NEW p \in 1 .. Len(H) PROVE H[p][1] \in A \cup B /\ PieceFull(steps, H, p)
  <2>1. p \in 1 .. a \/ (p - a \in 1 .. b /\ a + (p - a) = p) BY <1>3
  <2>2. CASE p \in 1 .. a BY <1>5, <2>2
  <2>3. CASE p - a \in 1 .. b /\ a + (p - a) = p
    <3> DEFINE r == p - a
    <3>1. r \in 1 .. b /\ a + r = p BY <2>3
    <3> HIDE DEF r
    <3>2. H[a + r][1] \in B /\ PieceFull(steps, H, a + r) BY <1>6, <3>1
    <3> QED BY <3>1, <3>2
  <2> QED BY <2>1, <2>2, <2>3
<1>8. FullUpto(steps, A \cup B, H) BY <1>2, <1>7 DEF FullUpto
<1> QED BY <1>8 DEF H

-----------------------------------------------------------------------------
\* Full handoffs.

LEMMA NextPlace ==
    ASSUME NEW m \in Nat, NEW k \in Nat, k < m
    PROVE  /\ k + 1 \in 1 .. m /\ (k + 1) - 1 = k /\ 1 .. k + 1 = (1 .. k) \cup {k + 1}
           /\ \A i \in 1 .. k : i \in 1 .. m /\ i # k + 1
  OBVIOUS

\* What one group adds to the pieces of those before it.
LEMMA GroupAdds ==
    ASSUME NEW steps, TypedSteps(steps), Load(steps, 1 .. Len(steps)) < Word,
           RespectDependencies, NumbersUnique(steps),
           NEW S, WholeProject(steps, S), NEW group, Lists(group, S)
    PROVE  LET q == Pack(steps, Chunks(steps, group))
           IN  /\ q \in Seq(Seq(1 .. Len(steps))) /\ GroupFull(steps, q)
               /\ \A p \in 1 .. Len(q) : q[p][1] \in S
<1> DEFINE q == Pack(steps, Chunks(steps, group))
<1>1. S \in SUBSET (1 .. Len(steps)) BY DEF WholeProject
<1>2. GroupFull(steps, q) BY GroupFilled
<1>3. GroupPieces(steps, group, S, q) BY <1>1, GroupPiecesFacts
<1> HIDE DEF q
<1>4. q \in Seq(Seq(S)) /\ \A p \in 1 .. Len(q) : q[p] # <<>>
  BY <1>3 DEF GroupPieces
<1>5. q \in Seq(Seq(1 .. Len(steps)))
  <2> DEFINE A == Seq(S)
             B == Seq(1 .. Len(steps))
  <2>1. A \in SUBSET B BY <1>1, SeqSubset
  <2> HIDE DEF A, B
  <2>2. Seq(A) \subseteq Seq(B) BY <2>1, SeqSubset
  <2>3. q \in Seq(A) BY <1>4 DEF A
  <2>4. q \in Seq(B) BY <2>2, <2>3
  <2> QED BY <2>4 DEF B
<1>6. ASSUME NEW p \in 1 .. Len(q) PROVE q[p][1] \in S
  <2>1. q[p] \in Seq(S) /\ q[p] # <<>> BY <1>4
  <2>2. \A s \in Seq(S) : s # <<>> => s[1] \in S OBVIOUS
  <2> QED BY <2>1, <2>2
<1> QED BY <1>2, <1>5, <1>6 DEF q

\* The pieces of a handoff are full.
LEMMA SplitFilled ==
    ASSUME NEW steps, TypedSteps(steps), Load(steps, 1 .. Len(steps)) < Word,
           RespectDependencies, NumbersUnique(steps)
    PROVE  FullUpto(steps, 1 .. Len(steps), Split(steps))
<1> DEFINE n == Len(steps)
           groups == ProjectGroups(steps)
           m == Len(groups)
           M == Seq(1 .. n)
           PP == [g \in 1 .. m |-> Pack(steps, Chunks(steps, groups[g]))]
<1>1. PICK T : Grouped(steps, groups, T) BY ProjectGroupsFacts
<1>2. /\ m \in Nat
      /\ \A g \in 1 .. m : Lists(groups[g], T[g]) /\ WholeProject(steps, T[g])
      /\ \A g, h \in 1 .. m : g # h => T[g] \cap T[h] = {}
      /\ Covered(T, m) = 1 .. n
  BY <1>1 DEF Grouped, WholeProject
<1>3. Split(steps) = FlattenSeq(PP) BY DEF Split
<1>4. /\ \A g \in 1 .. m : PP[g] = Pack(steps, Chunks(steps, groups[g]))
      /\ PP = [g \in 1 .. m |-> PP[g]]
  OBVIOUS
<1> HIDE DEF PP, m, groups
<1>5. ASSUME NEW g \in 1 .. m
      PROVE  /\ PP[g] \in Seq(M) /\ GroupFull(steps, PP[g])
             /\ \A p \in 1 .. Len(PP[g]) : PP[g][p][1] \in T[g]
  <2>1. Lists(groups[g], T[g]) /\ WholeProject(steps, T[g]) BY <1>2
  <2> DEFINE q == Pack(steps, Chunks(steps, groups[g]))
  <2>2. /\ q \in Seq(M) /\ GroupFull(steps, q)
        /\ \A p \in 1 .. Len(q) : q[p][1] \in T[g]
    BY <2>1, GroupAdds
  <2>3. PP[g] = q BY <1>4
  <2> HIDE DEF q
  <2> QED BY <2>2, <2>3
<1>6. PP \in Seq(Seq(M)) /\ Len(PP) = m
  <2> HIDE DEF M
  <2> DEFINE V == Seq(M)
  <2>1. \A g \in 1 .. m : PP[g] \in V BY <1>5
  <2> HIDE DEF V
  <2>2. PP \in Seq(V) /\ Len(PP) = m BY <1>2, <1>4, <2>1, ListFrom
  <2> QED BY <2>2 DEF V
<1>7. PICK F \in [0 .. m -> Seq(M)] :
          /\ F[0] = <<>>
          /\ \A k \in 1 .. m : F[k] = F[k - 1] \o PP[k]
          /\ FlattenSeq(PP) = F[m]
  <2> HIDE DEF M
  <2> QED BY <1>6, FlattenSteps
<1> DEFINE P(k) == FullUpto(steps, Covered(T, k), F[k])
<1>8. P(0)
  <2>1. <<>> \in Seq(Seq(1 .. Len(steps))) /\ 1 .. Len(<<>>) = {} OBVIOUS
  <2>2. FullUpto(steps, Covered(T, 0), <<>>) BY <2>1 DEF FullUpto
  <2>3. F[0] = <<>> BY <1>7
  <2> QED BY <2>2, <2>3
<1>9. ASSUME NEW k \in Nat, k < m, P(k) PROVE P(k + 1)
  <2>1. /\ k + 1 \in 1 .. m /\ (k + 1) - 1 = k /\ 1 .. k + 1 = (1 .. k) \cup {k + 1}
        /\ \A i \in 1 .. k : i \in 1 .. m /\ i # k + 1
    <3>1. m \in Nat /\ k < m BY <1>2, <1>9
    <3> QED BY <3>1, NextPlace
  <2> DEFINE A == Covered(T, k)
             B == T[k + 1]
             q == PP[k + 1]
             a == F[k]
  <2>2. F[k + 1] = a \o q BY <1>7, <2>1
  <2>3. A \cap B = {} /\ Covered(T, k + 1) = A \cup B
    <3>1. \A g, h \in 1 .. m : g # h => T[g] \cap T[h] = {} BY <1>2
    <3> HIDE DEF M
    <3> QED BY <2>1, <3>1 DEF Covered
  <2>4. A \in SUBSET (1 .. Len(steps)) BY <1>2, <2>1 DEF Covered, WholeProject
  <2>5. WholeProject(steps, B) BY <1>2, <2>1
  <2>6. q \in Seq(Seq(1 .. Len(steps))) /\ GroupFull(steps, q) /\ \A p \in 1 .. Len(q) : q[p][1] \in B
    BY <1>5, <2>1
  <2>7. FullUpto(steps, A, a) BY <1>9
  <2> HIDE DEF A, B, q, a
  <2>8. FullUpto(steps, A \cup B, a \o q)
    BY <2>3, <2>4, <2>5, <2>6, <2>7, FullStep
  <2> QED BY <2>2, <2>3, <2>8
<1>10. P(m)
  <2> HIDE DEF P
  <2> DEFINE S == {k \in Nat : P(k)}
  <2>1. 0 \in S /\ \A k \in Nat : k < m /\ k \in S => k + 1 \in S BY <1>8, <1>9
  <2> HIDE DEF S
  <2>2. m \in S BY <1>2, <2>1, Climb
  <2> QED BY <2>2 DEF S
<1> QED BY <1>2, <1>3, <1>7, <1>10

\* PiecesFilledToTheLimit of one outcome.
AllFull(made) ==
    \A p \in DOMAIN made.pieces :
        LET S == Range(made.pieces[p].steps)
            after == IF p + 1 \in DOMAIN made.pieces THEN made.pieces[p + 1].steps ELSE <<>>
            chunk == { i \in Range(after) : Connected(made.steps, after[1], i) }
        IN  /\ \/ Load(made.steps, S) <= MostOf(made.steps, S)
               \/ \A i, j \in S : Connected(made.steps, i, j)
            /\ after # <<>> /\ SameProject(made.steps, after[1], made.pieces[p].steps[1])
                 => Load(made.steps, S \cup chunk) > MostOf(made.steps, S)

LEMMA MostType ==
    ASSUME NEW steps, NEW S
    PROVE  MostOf(steps, S) \in Nat
  BY DecomposeAssumption DEF MostOf

LEMMA OutcomeFull ==
    ASSUME NEW made, Sound(made), made.error = "none", RespectDependencies,
           NumbersUnique(made.steps), Load(made.steps, DOMAIN made.steps) < Word
    PROVE  AllFull(made)
<1> DEFINE steps == made.steps
           n == Len(steps)
           split == Split(steps)
<1>1. TypedSteps(steps) /\ made.pieces = Decomposed(steps) BY DEF Sound
<1>2. n \in Nat /\ DOMAIN steps = 1 .. n BY <1>1 DEF TypedSteps
<1>3. /\ DOMAIN made.pieces = 1 .. Len(split)
      /\ \A p \in 1 .. Len(split) : made.pieces[p].steps = split[p]
  BY <1>1, DecomposedFacts
<1>4. FullUpto(steps, 1 .. n, split) BY <1>1, <1>2, SplitFilled
<1>5. /\ split \in Seq(Seq(1 .. n))
      /\ \A p \in 1 .. Len(split) : split[p] # <<>>
  BY <1>1, SplitFacts
<1>6. \A p \in DOMAIN made.pieces : \A i \in Range(made.pieces[p].steps), j \in DOMAIN steps :
          Connected(steps, i, j) => j \in Range(made.pieces[p].steps)
  BY TiedTogether
<1> HIDE DEF split, steps, n
<1> SUFFICES ASSUME NEW p \in DOMAIN made.pieces
             PROVE  LET S == Range(made.pieces[p].steps)
                        after == IF p + 1 \in DOMAIN made.pieces
                                 THEN made.pieces[p + 1].steps ELSE <<>>
                        chunk == { i \in Range(after) : Connected(steps, after[1], i) }
                    IN  /\ \/ Load(steps, S) <= MostOf(steps, S)
                           \/ \A i, j \in S : Connected(steps, i, j)
                        /\ after # <<>> /\ SameProject(steps, after[1], made.pieces[p].steps[1])
                             => Load(steps, S \cup chunk) > MostOf(steps, S)
  BY DEF AllFull, steps
<1> DEFINE piece == made.pieces[p].steps
           S == Range(piece)
           after == IF p + 1 \in DOMAIN made.pieces THEN made.pieces[p + 1].steps ELSE <<>>
           chunk == { i \in Range(after) : Connected(steps, after[1], i) }
<1>7. p \in 1 .. Len(split) /\ piece = split[p] /\ PieceFull(steps, split, p)
  BY <1>3, <1>4 DEF FullUpto
<1>8. Load(steps, S) <= MostOf(steps, S) \/ \A i, j \in S : Connected(steps, i, j)
  BY <1>7 DEF PieceFull, Stuffed, AllConnected
<1>9. ASSUME after # <<>>, SameProject(steps, after[1], piece[1])
      PROVE  Load(steps, S \cup chunk) > MostOf(steps, S)
  <2>1. p + 1 \in 1 .. Len(split) /\ after = split[p + 1] /\ after = made.pieces[p + 1].steps
        /\ p + 1 \in DOMAIN made.pieces
    BY <1>3, <1>9
  <2>2. Brimming(steps, piece, after) BY <1>7, <1>9, <2>1 DEF PieceFull
  <2>3. PICK D \in SUBSET (1 .. Len(steps)) :
            /\ after[1] \in D /\ AllConnected(steps, D)
            /\ MostOf(steps, S) < Load(steps, S \cup D)
    BY <2>2 DEF Brimming
  <2>4. after[1] \in Range(after)
    <3>1. after \in Seq(1 .. n) BY <1>5, <2>1
    <3> HIDE DEF after
    <3>2. 1 \in DOMAIN after BY <1>9, <3>1
    <3> QED BY <3>2 DEF Range
  <2>5. D \subseteq chunk
    <3> SUFFICES ASSUME NEW i \in D PROVE i \in chunk OBVIOUS
    <3>1. Connected(steps, after[1], i) /\ i \in DOMAIN steps
      BY <1>2, <2>3 DEF AllConnected, n
    <3>2. i \in Range(after) BY <1>6, <2>1, <2>4, <3>1
    <3> QED BY <3>1, <3>2
  <2> HIDE DEF S, chunk, after, piece
  <2>6. Load(steps, S \cup D) <= Load(steps, S \cup chunk)
    <3>1. S \cup D \in SUBSET (S \cup chunk) BY <2>5
    <3> QED BY <1>1, <3>1, LoadWithin
  <2>7. Load(steps, S \cup D) \in Nat /\ Load(steps, S \cup chunk) \in Nat /\ MostOf(steps, S) \in Nat
    BY <1>1, LoadType, MostType
  <2> QED BY <2>3, <2>6, <2>7
<1> QED BY <1>8, <1>9

-----------------------------------------------------------------------------
\* What is rendered is read back.

Switch == {"files", "verification", "checklist"}

\* Lines a step can hold that neither open a region nor end the step.
Clean(L) == { line \in L : line.is \notin Switch \cup HeadingOrRule }

\* A description is what parse_step makes one of: it begins with running
\* text and goes on without a heading.
Running(d) ==
    d # <<>> => /\ d[1].is \notin Bold \cup {"blank"}
                /\ \A k \in 2 .. Len(d) : d[k].is # "heading4"

Reading(s, L) ==
    /\ s.step.description \in Seq(Clean(L)) /\ Running(s.step.description)
    /\ s.verify \in Seq(Clean(L))
    /\ s.region = "metadata" => s.step.description = <<>>
    /\ s.region = "description" => s.step.description # <<>>

\* What parse_step has read stays fit to be rendered.
LEMMA ReadingStep ==
    ASSUME NEW L, NEW number, NEW title, NEW s \in StepAcc(L, number, title), NEW line \in L,
           line.is \notin HeadingOrRule, Reading(s, L)
    PROVE  Reading(StepLine(s, line), L)
<1> DEFINE t == StepLine(s, line)
           d == s.step.description
<1>1. /\ d \in Seq(Clean(L)) /\ Running(d) /\ s.verify \in Seq(Clean(L))
      /\ s.region = "metadata" => d = <<>>
      /\ s.region = "description" => d # <<>>
  BY DEF Reading
<1>2. CASE line.is \in Switch
  <2>1. t = [s EXCEPT !.region = line.is] BY <1>2 DEF StepLine, Switch
  <2>2. t.region # "metadata" /\ t.step = s.step /\ t.verify = s.verify
    BY <1>2, <2>1 DEF Switch, StepAcc
  <2>3. t.region # "description" BY <1>2, <2>1 DEF Switch, StepAcc
  <2> HIDE DEF t
  <2>4. Reading(t, L) BY <1>1, <2>2, <2>3 DEF Reading
  <2> QED BY <2>4 DEF t
<1>3. CASE line.is \notin Switch
  <2>0. line \in Clean(L) BY <1>3, SMTT(60) DEF Clean
  <2>1. \/ t.step.description = d /\ t.region = s.region /\ t.verify = s.verify
        \/ t.step.description = d /\ t.region = s.region /\ t.verify = Append(s.verify, line)
        \/ /\ t.step.description = Append(d, line) /\ t.verify = s.verify
           /\ t.region = "description"
           /\ \/ s.region = "metadata" /\ line.is \notin Bold \cup {"blank"}
              \/ s.region = "description" /\ line.is # "heading4"
    BY <1>3 DEF StepLine, Switch, StepAcc
  <2>2. Append(s.verify, line) \in Seq(Clean(L)) /\ Append(d, line) \in Seq(Clean(L))
    BY <1>1, <2>0
  <2>5. /\ Len(d) \in Nat /\ Len(Append(d, line)) = Len(d) + 1
        /\ Append(d, line)[Len(d) + 1] = line
        /\ \A k \in 1 .. Len(d) : Append(d, line)[k] = d[k]
        /\ d = <<>> <=> Len(d) = 0
        /\ Append(d, line) # <<>>
    <3> HIDE DEF d
    <3>1. /\ Len(d) \in Nat /\ Len(Append(d, line)) = Len(d) + 1
          /\ Append(d, line)[Len(d) + 1] = line
          /\ \A k \in 1 .. Len(d) : Append(d, line)[k] = d[k]
          /\ d = <<>> <=> Len(d) = 0
      BY <1>1
    <3>2. Len(<<>>) = 0 OBVIOUS
    <3> QED BY <3>1, <3>2
  <2>3. ASSUME \/ d = <<>> /\ line.is \notin Bold \cup {"blank"}
               \/ d # <<>> /\ line.is # "heading4"
        PROVE  Running(Append(d, line))
    <3> DEFINE e == Append(d, line)
    <3> HIDE DEF e
    <3> QED BY <1>1, <2>3, <2>5 DEF Running, e
  <2>7. t.step.description = t.step.description /\ d = s.step.description
    OBVIOUS
  <2> HIDE DEF t, d
  <2>8. Reading(t, L) BY <1>1, <2>1, <2>2, <2>3, <2>5, <2>7 DEF Reading
  <2> QED BY <2>8 DEF t
<1> QED BY <1>2, <1>3

VerificationAcc(C) ==
    [ code : BOOLEAN, command : Seq(C), commands : Seq(Seq(C)),
      paste : BOOLEAN, filled : BOOLEAN, markers : Seq(BOOLEAN) ]

\* parse_verification_block keeps to its lines.
LEMMA VerificationLineType ==
    ASSUME NEW C, NEW v \in VerificationAcc(C), NEW line \in C
    PROVE  VerificationLine(v, line) \in VerificationAcc(C)
<1> DEFINE w == VerificationLine(v, line)
           Acc == VerificationAcc(C)
<1>1. /\ v.code \in BOOLEAN /\ v.command \in Seq(C) /\ v.commands \in Seq(Seq(C))
      /\ v.paste \in BOOLEAN /\ v.filled \in BOOLEAN /\ v.markers \in Seq(BOOLEAN)
  BY DEF VerificationAcc
<1>2. CASE line.is = "fence"
  <2> DEFINE c == IF v.code /\ v.command # <<>> THEN Append(v.commands, v.command) ELSE v.commands
             b == ~v.code
  <2>1. w = [v EXCEPT !.code = b, !.command = <<>>, !.commands = c]
    BY <1>2 DEF VerificationLine, Unindented
  <2>2. c \in Seq(Seq(C)) /\ b \in BOOLEAN /\ <<>> \in Seq(C)
    <3>1. Append(v.commands, v.command) \in Seq(Seq(C))
      <4> DEFINE S == Seq(C)
      <4>1. v.commands \in Seq(S) /\ v.command \in S BY <1>1
      <4> HIDE DEF S
      <4>2. Append(v.commands, v.command) \in Seq(S) BY <4>1
      <4> QED BY <4>2 DEF S
    <3> QED BY <1>1, <3>1
  <2> HIDE DEF w, c, b
  <2> QED BY <2>1, <2>2 DEF VerificationAcc, w
<1>3. CASE line.is # "fence" /\ v.code
  <2> DEFINE c == Append(v.command, line)
  <2>1. w = [v EXCEPT !.command = c] BY <1>3 DEF VerificationLine
  <2>2. c \in Seq(C) BY <1>1
  <2> HIDE DEF w, c
  <2> QED BY <2>1, <2>2 DEF VerificationAcc, w
<1>4. CASE line.is # "fence" /\ Unindented(line).is = "start" /\ ~v.code
  <2> DEFINE c == Append(v.markers, FALSE)
  <2>1. w = [v EXCEPT !.paste = TRUE, !.filled = FALSE, !.markers = c]
    BY <1>4 DEF VerificationLine
  <2>2. c \in Seq(BOOLEAN) BY <1>1
  <2> HIDE DEF w, c
  <2> QED BY <2>1, <2>2 DEF VerificationAcc, w
<1>5. CASE line.is # "fence" /\ Unindented(line).is = "end" /\ ~v.code
  <2> DEFINE m == [v.markers EXCEPT ![Len(v.markers)] = v.filled]
             told == IF v.paste /\ v.markers # <<>> THEN m ELSE v.markers
             c == Append(told, v.filled)
  <2>1. w = [v EXCEPT !.paste = FALSE, !.markers = c]
    BY <1>5 DEF VerificationLine
  <2>2. told \in Seq(BOOLEAN)
    <3>1. m \in Seq(BOOLEAN)
      <4> DEFINE k == Len(v.markers)
                 s == v.markers
      <4>1. s \in Seq(BOOLEAN) /\ k \in Nat /\ DOMAIN s = 1 .. k /\ v.filled \in BOOLEAN
        BY <1>1
      <4>2. \A i \in 1 .. k : s[i] \in BOOLEAN BY <4>1
      <4> HIDE DEF k, s
      <4>3. [s EXCEPT ![k] = v.filled] = [i \in 1 .. k |-> IF i = k THEN v.filled ELSE s[i]]
        BY <4>1
      <4> DEFINE z == [s EXCEPT ![k] = v.filled]
      <4>4. \A i \in 1 .. k : z[i] \in BOOLEAN BY <4>1, <4>2, <4>3, ZenonT(60)
      <4>5. z = [i \in 1 .. k |-> z[i]] BY <4>3
      <4> HIDE DEF z
      <4>6. z \in Seq(BOOLEAN) BY <4>1, <4>4, <4>5, ListFrom
      <4> QED BY <4>6 DEF z, s, k
    <3> QED BY <1>1, <3>1
  <2> HIDE DEF told
  <2>3. c \in Seq(BOOLEAN) BY <1>1, <2>2
  <2> HIDE DEF w, c
  <2> QED BY <2>1, <2>3 DEF VerificationAcc, w
<1>6. CASE /\ line.is # "fence" /\ ~v.code
           /\ Unindented(line).is # "start" /\ Unindented(line).is # "end"
  <2> DEFINE c == v.filled \/ (v.paste /\ line.is \notin Blanks)
  <2>1. w = [v EXCEPT !.filled = c] BY <1>6 DEF VerificationLine
  <2>2. c \in BOOLEAN OBVIOUS
  <2> HIDE DEF w, c
  <2> QED BY <2>1, <2>2 DEF VerificationAcc, w
<1> QED BY <1>1, <1>2, <1>3, <1>4, <1>5, <1>6

\* The commands parse_verification_block finds are made of its lines.
LEMMA VerificationType ==
    ASSUME NEW C, NEW lines \in Seq(C)
    PROVE  Verification(lines).commands \in Seq(Seq(C))
<1> DEFINE n == Len(lines)
           Acc == VerificationAcc(C)
           base == [code |-> FALSE, command |-> <<>>, commands |-> <<>>,
                    paste |-> FALSE, filled |-> FALSE, markers |-> <<>>]
           step == [x \in Acc \X (1 .. n) |-> VerificationLine(x[1], lines[x[2]])]
           Eq(f) == f = [t \in SUBSET (1 .. n) |->
                            IF t = {} THEN base
                            ELSE VerificationLine(f[t \ {Max(t)}], lines[Max(t)])]
           f == CHOOSE f : Eq(f)
           v == f[1 .. n]
           r == IF v.command = <<>> THEN v.commands ELSE Append(v.commands, v.command)
<1>0. base \in Acc BY DEF VerificationAcc
<1>1. n \in Nat /\ DOMAIN lines = 1 .. n /\ \A k \in 1 .. n : lines[k] \in C
  OBVIOUS
<1>2. Verification(lines).commands = r
  <2> HIDE DEF base
  <2>1. FoldLeft(VerificationLine, base, lines) = v
    BY <1>1, SMTT(60) DEF FoldLeft, MapThenFoldSet
  <2> HIDE DEF v
  <2> QED BY <2>1 DEF Verification, base
<1> HIDE DEF n, base
<1>9. \A a \in Acc, k \in 1 .. n : VerificationLine(a, lines[k]) \in Acc
  BY <1>1, VerificationLineType
<1>4. step \in [Acc \X (1 .. n) -> Acc] BY <1>9
<1>5. \A a \in Acc, k \in 1 .. n : step[<<a, k>>] = VerificationLine(a, lines[k])
  BY SMTT(60)
<1> HIDE DEF step, Acc, v
<1>6. Eq(f)
  <2>1. PICK g \in [SUBSET (1 .. n) -> Acc] : Folding(g, base, step, n)
    BY <1>0, <1>1, <1>4, FoldExists
  <2>2. ASSUME NEW t \in SUBSET (1 .. n)
        PROVE  g[t] = IF t = {} THEN base
                      ELSE VerificationLine(g[t \ {Max(t)}], lines[Max(t)])
    <3>1. t # {} => Max(t) \in 1 .. n BY <1>1, MaxOf
    <3>2. g[t \ {Max(t)}] \in Acc OBVIOUS
    <3>3. g[t] = IF t = {} THEN base ELSE step[<<g[t \ {Max(t)}], Max(t)>>]
      BY <2>1 DEF Folding
    <3> QED BY <1>5, <3>1, <3>2, <3>3
  <2>3. Eq(g) BY <2>2
  <2> QED BY <2>3
<1> HIDE DEF f
<1>7. FoldingIn(f, Acc, base, step, n)
  <2> SUFFICES ASSUME NEW t \in SUBSET (1 .. n)
               PROVE  /\ t = {} => f[t] = base
                      /\ t # {} /\ f[t \ {Max(t)}] \in Acc =>
                             f[t] = step[<<f[t \ {Max(t)}], Max(t)>>]
    BY DEF FoldingIn
  <2>1. t # {} => Max(t) \in 1 .. n BY <1>1, MaxOf
  <2> QED BY <1>5, <1>6, <2>1
<1>8. PICK g : Chained(g, f, Acc, base, step, n)
  BY <1>0, <1>1, <1>4, <1>7, FoldChain
<1>10. v \in Acc
  <2>1. g \in [0 .. n -> Acc] /\ g[n] = f[1 .. n] /\ n \in 0 .. n
    BY <1>1, <1>8 DEF Chained
  <2> QED BY <2>1 DEF v
<1>11. v.command \in Seq(C) /\ v.commands \in Seq(Seq(C))
  BY <1>10 DEF Acc, VerificationAcc
<1>12. r \in Seq(Seq(C))
  <2> DEFINE S == Seq(C)
  <2>1. v.commands \in Seq(S) /\ v.command \in S BY <1>11
  <2> HIDE DEF S
  <2>2. r \in Seq(S) BY <2>1
  <2> QED BY <2>2 DEF S
<1> QED BY <1>2, <1>12

\* What render.rs can rely on in a step of lines of L.
Values(L) == { line.of : line \in L }

Renderable(step, L) ==
    /\ step.description \in Seq(Clean(L)) /\ Running(step.description)
    /\ step.description # <<>> =>
         /\ step.description[1].is \notin Blanks \cup {"indented"}
         /\ step.description[Len(step.description)].is \notin Blanks
    /\ step.files \in Seq(Values(L)) /\ step.checklist \in Seq(Values(L))
    /\ step.verification = NoValue \/ step.verification.commands \in Seq(Seq(Clean(L)))

\* The lines of L, and those they are once their white space is gone.
Wide(L) == L \cup { Unindented(line) : line \in L }

\* White space stands before lines with something in it.
Solid(L) ==
    \A line \in L : line.is = "indented" => line.of.is \notin Blanks \cup {"indented"}

\* Trimmed text starts and ends with something said, and goes on with
\* lines it had after its first.
LEMMA TrimmedFacts ==
    ASSUME NEW C, NEW d \in Seq(C)
    PROVE  /\ Trimmed(d) \in Seq(Wide(C))
           /\ Solid(C) /\ Trimmed(d) # <<>> =>
                /\ Trimmed(d)[1].is \notin Blanks \cup {"indented"}
                /\ Trimmed(d)[Len(Trimmed(d))].is \notin Blanks
           /\ \A k \in 2 .. Len(Trimmed(d)) : \E j \in 2 .. Len(d) : Trimmed(d)[k] = d[j]
<1> DEFINE said == { i \in DOMAIN d : d[i].is \notin Blanks }
           t == Trimmed(d)
           a == Min(said)
           m == Max(said)
           q == SubSeq(d, a, m)
           n == m - a + 1
           D == Wide(C)
<1>1. /\ Len(d) \in Nat /\ DOMAIN d = 1 .. Len(d) /\ said \in SUBSET (1 .. Len(d))
      /\ \A i \in 1 .. Len(d) : d[i] \in C
  OBVIOUS
<1>4. C \in SUBSET D /\ \A x \in C : Unindented(x) \in D BY DEF Wide
<1> HIDE DEF D
<1>2. CASE said = {}
  <2>1. t = <<>> /\ Len(t) = 0 /\ t \in Seq(D) BY <1>2 DEF Trimmed
  <2> QED BY <2>1
<1>3. CASE said # {}
  <2>1. t = [q EXCEPT ![1] = Unindented(@)] BY <1>3 DEF Trimmed
  <2> HIDE DEF t
  <2>2. m \in said /\ \A y \in said : y <= m
    <3> HIDE DEF said
    <3> QED BY <1>1, <1>3, MaxOf
  <2>3. a \in said /\ a <= m
    <3>1. said \in SUBSET Nat BY <1>1
    <3> HIDE DEF said
    <3> QED BY <1>3, <2>2, <3>1, MinOf
  <2>4. a \in 1 .. Len(d) /\ m \in 1 .. Len(d) /\ d[a].is \notin Blanks /\ d[m].is \notin Blanks
    BY <1>1, <2>2, <2>3
  <2> HIDE DEF a, m, said
  <2>5. n \in Nat /\ n >= 1 BY <1>1, <2>3, <2>4
  <2>6. q = [k \in 1 .. n |-> d[a + k - 1]] BY <1>1, <2>3, <2>4, SMTT(60)
  <2> HIDE DEF q
  <2>7. \A k \in 1 .. n : a + k - 1 \in 1 .. Len(d) BY <1>1, <2>3, <2>4
  <2>8. a + 1 - 1 = a /\ a + n - 1 = m BY <1>1, <2>4
  <2>9. q[1] = d[a] /\ DOMAIN q = 1 .. n BY <2>5, <2>6, <2>8
  <2>10. t = [k \in 1 .. n |-> IF k = 1 THEN Unindented(d[a]) ELSE d[a + k - 1]]
    BY <2>1, <2>6, <2>9
  <2>11. /\ Unindented(d[a]) \in D
         /\ Solid(C) => Unindented(d[a]).is \notin Blanks \cup {"indented"}
    BY <1>1, <1>4, <2>4 DEF Unindented, Solid
  <2>12. \A k \in 1 .. n : t[k] \in D BY <1>1, <1>4, <2>7, <2>10, <2>11
  <2>13. t = [k \in 1 .. n |-> t[k]] BY <2>10
  <2>14. t \in Seq(D) /\ Len(t) = n BY <2>5, <2>12, <2>13, ListFrom
  <2>15. t[1] = Unindented(d[a]) BY <2>5, <2>10
  <2>16. Solid(C) => t[n].is \notin Blanks
    <3>1. n = 1 \/ t[n] = d[m] BY <2>5, <2>8, <2>10
    <3> QED BY <2>4, <2>11, <2>15, <3>1
  <2>17. ASSUME NEW k \in 2 .. n PROVE \E j \in 2 .. Len(d) : t[k] = d[j]
    <3>1. k \in 1 .. n /\ k # 1 /\ a + k - 1 \in 2 .. Len(d) BY <2>4, <2>5, <2>7
    <3>2. t[k] = d[a + k - 1] BY <2>10, <3>1
    <3> QED BY <3>1, <3>2
  <2> QED BY <2>11, <2>14, <2>15, <2>16, <2>17 DEF t, D
<1> QED BY <1>2, <1>3

\* Trimming keeps what stands before a line that says something, where
\* the first one does.
LEMMA TrimmedKeeps ==
    ASSUME NEW C, NEW d \in Seq(C), NEW l \in 1 .. Len(d),
           d[1].is \notin Blanks \cup {"indented"}, d[l].is \notin Blanks
    PROVE  /\ Trimmed(d) \in Seq(C) /\ l <= Len(Trimmed(d))
           /\ \A k \in 1 .. l : Trimmed(d)[k] = d[k]
<1> DEFINE said == { i \in DOMAIN d : d[i].is \notin Blanks }
           t == Trimmed(d)
           m == Max(said)
           q == SubSeq(d, 1, m)
<1>1. /\ Len(d) \in Nat /\ DOMAIN d = 1 .. Len(d) /\ said \in SUBSET (1 .. Len(d))
      /\ \A i \in 1 .. Len(d) : d[i] \in C
  OBVIOUS
<1>2. 1 \in said /\ l \in said BY <1>1
<1>3. m \in said /\ \A y \in said : y <= m
  <2> HIDE DEF said
  <2> QED BY <1>1, <1>2, MaxOf
<1>4. Min(said) = 1
  <2>1. said \in SUBSET Nat /\ \A y \in said : y >= 1 BY <1>1
  <2> HIDE DEF said
  <2>2. Min(said) \in said /\ \A y \in said : Min(said) <= y
    BY <1>2, <2>1, MinOf
  <2>3. Min(said) \in Nat /\ Min(said) >= 1 /\ Min(said) <= 1
    BY <1>2, <2>1, <2>2
  <2> QED BY <2>3
<1>5. t = [q EXCEPT ![1] = Unindented(@)] BY <1>2, <1>4 DEF Trimmed
<1>6. m \in 1 .. Len(d) /\ l <= m BY <1>1, <1>2, <1>3
<1> HIDE DEF t, m, said
<1>7. q = [k \in 1 .. m |-> d[k]] BY <1>1, <1>6, SMTT(60)
<1> HIDE DEF q
<1>8. q[1] = d[1] /\ Unindented(d[1]) = d[1] BY <1>6, <1>7 DEF Unindented
<1>9. t = q BY <1>5, <1>7, <1>8
<1>10. t = [k \in 1 .. m |-> t[k]] /\ \A k \in 1 .. m : t[k] = d[k] /\ t[k] \in C
  BY <1>1, <1>6, <1>7, <1>9
<1>11. t \in Seq(C) /\ Len(t) = m BY <1>6, <1>10, ListFrom
<1> QED BY <1>6, <1>10, <1>11 DEF t

\* A step of a handoff, parsed of lines with no heading and no rule, and
\* with a description that begins as text.
LEMMA ParsedRenderable ==
    ASSUME NEW L, NEW heading, NEW lines \in Seq(L),
           \A line \in L : line.is \notin HeadingOrRule, Solid(L),
           BeginsPlainly(ParseStep(heading, lines))
    PROVE  Renderable(ParseStep(heading, lines), Wide(L))
<1> DEFINE n == Len(lines)
           Acc == StepAcc(L, heading.number, heading.title)
           r == ParseStep(heading, lines)
<1>1. n \in Nat /\ \A k \in 1 .. n : lines[k] \in L OBVIOUS
<1>2. PICK g \in [0 .. n -> Acc] :
          /\ g[0] = StepBase(heading)
          /\ \A k \in 1 .. n : g[k] = StepLine(g[k - 1], lines[k])
          /\ r = Parsed(g[n])
  BY ParseStepChain, ZenonT(60)
<1> HIDE DEF n, r, Acc
<1> DEFINE S == {k \in 0 .. n : Reading(g[k], L)}
<1>3. 0 \in S
  <2> DEFINE b == StepBase(heading)
  <2>1. b.step.description = <<>> /\ b.verify = <<>> /\ b.region = "metadata"
    BY DEF StepBase, NewStep
  <2> HIDE DEF b
  <2>2. Reading(b, L) BY <2>1 DEF Reading, Running
  <2>3. Reading(StepBase(heading), L) BY <2>2 DEF b
  <2> QED BY <1>1, <1>2, <2>3
<1>4. ASSUME NEW k \in Nat, k < n, k \in S PROVE k + 1 \in S
  <2>1. k + 1 \in 1 .. n /\ (k + 1) - 1 = k /\ k \in 0 .. n /\ k + 1 \in 0 .. n
    BY <1>1, <1>4
  <2>2. g[k + 1] = StepLine(g[k], lines[k + 1]) /\ lines[k + 1] \in L /\ g[k] \in Acc /\ Reading(g[k], L)
    BY <1>1, <1>2, <1>4, <2>1
  <2>3. Reading(g[k + 1], L) BY <2>2, ReadingStep DEF Acc
  <2> QED BY <2>1, <2>3
<1>5. n \in S
  <2> HIDE DEF S
  <2> QED BY <1>1, <1>3, <1>4, Climb
<1> DEFINE s == g[n]
<1>6. Reading(s, L) /\ s \in Acc /\ r = Parsed(s) BY <1>1, <1>2, <1>5
<1> HIDE DEF s, S
<1>7. /\ s.step.description \in Seq(Clean(L)) /\ Running(s.step.description)
      /\ s.verify \in Seq(Clean(L))
      /\ s.step.files \in Seq(Values(L)) /\ s.step.checklist \in Seq(Values(L))
  BY <1>6 DEF Reading, Acc, StepAcc, Values
<1> DEFINE e == s.step.description
           d == Trimmed(e)
           v == IF s.verify = <<>> THEN NoValue ELSE Verification(s.verify)
           W == Wide(L)
<1>8. /\ r.description = d /\ r.files = s.step.files /\ r.checklist = s.step.checklist
      /\ r.verification = v
  <2>1. r = [s.step EXCEPT !.description = d, !.verification = v]
    BY <1>6 DEF Parsed
  <2> HIDE DEF d, v
  <2> QED BY <1>6, <2>1 DEF Acc, StepAcc
<1>12. L \in SUBSET W /\ Clean(L) \in SUBSET Clean(W) /\ Wide(Clean(L)) \in SUBSET W
       /\ Values(L) \in SUBSET Values(W) /\ Solid(Clean(L))
  <2>1. L \in SUBSET W /\ Clean(L) \in SUBSET L BY DEF Wide, Clean
  <2>2. Wide(Clean(L)) \in SUBSET W /\ Solid(Clean(L)) BY <2>1 DEF Wide, Solid
  <2> HIDE DEF W
  <2> QED BY <2>1, <2>2 DEF Clean, Values
<1>13. d # <<>> => d[1].is \notin Bold \cup {"files", "verification"} \cup HeadingOrRule
  <2>1. BeginsPlainly(r) BY DEF r
  <2> HIDE DEF d
  <2> QED BY <1>8, <2>1 DEF BeginsPlainly
<1>9. /\ d \in Seq(Clean(W)) /\ Running(d)
      /\ d # <<>> => d[1].is \notin Blanks \cup {"indented"} /\ d[Len(d)].is \notin Blanks
  <2>1. e \in Seq(Clean(L)) /\ Running(e) BY <1>7
  <2> HIDE DEF e, W
  <2>2. /\ d \in Seq(Wide(Clean(L)))
        /\ d # <<>> => d[1].is \notin Blanks \cup {"indented"} /\ d[Len(d)].is \notin Blanks
        /\ \A k \in 2 .. Len(d) : \E j \in 2 .. Len(e) : d[k] = e[j]
    BY <1>12, <2>1, TrimmedFacts
  <2>3. Len(e) \in Nat /\ \A j \in 2 .. Len(e) : e[j] \in Clean(L) /\ e[j].is # "heading4"
    <3>1. Len(e) \in Nat /\ \A j \in 2 .. Len(e) : e[j] \in Clean(L) /\ e # <<>>
      BY <2>1
    <3> QED BY <2>1, <3>1 DEF Running
  <2> HIDE DEF d
  <2>4. Len(d) \in Nat /\ d = [k \in 1 .. Len(d) |-> d[k]] /\ \A k \in 1 .. Len(d) : d[k] \in W /\ d # <<>>
    BY <1>12, <2>2
  <2>5. \A k \in 2 .. Len(d) : d[k] \in Clean(W) /\ d[k].is # "heading4"
    BY <1>12, <2>2, <2>3
  <2>6. 1 \in 1 .. Len(d) => d[1] \in Clean(W)
    BY <1>13, <2>4 DEF Clean, Bold, Switch
  <2>7. \A k \in 1 .. Len(d) : d[k] \in Clean(W)
    <3>1. \A k \in 1 .. Len(d) : k = 1 \/ k \in 2 .. Len(d) BY <2>4
    <3> QED BY <2>5, <2>6, <3>1
  <2>8. d \in Seq(Clean(W)) BY <2>4, <2>7, ListFrom
  <2>9. Running(d) BY <1>13, <2>2, <2>5 DEF Running, Blanks
  <2> QED BY <2>2, <2>8, <2>9
<1>10. v = NoValue \/ v.commands \in Seq(Seq(Clean(W)))
  <2>1. v = NoValue \/ v.commands \in Seq(Seq(Clean(L)))
    BY <1>7, VerificationType
  <2> DEFINE X == Seq(Clean(L))
             T == Seq(Clean(W))
  <2>2. X \in SUBSET T
    <3> HIDE DEF W
    <3> QED BY <1>12, SeqSubset
  <2>3. v = NoValue \/ v.commands \in Seq(X) BY <2>1
  <2> HIDE DEF X, T, v, W
  <2>4. v = NoValue \/ v.commands \in Seq(T) BY <2>2, <2>3, SeqSubset
  <2> QED BY <2>4 DEF T
<1>14. s.step.files \in Seq(Values(W)) /\ s.step.checklist \in Seq(Values(W))
  <2> HIDE DEF W
  <2> QED BY <1>7, <1>12, SeqSubset
<1> HIDE DEF d, v, W
<1>11. Renderable(r, W) BY <1>8, <1>9, <1>10, <1>14 DEF Renderable
<1> QED BY <1>11 DEF r, W

\* The lines render.rs writes of its own, and a rendered step in the five
\* parts it writes one after the other.
BlankLine == Line("blank", NoValue)
FenceLine == Line("fence", NoValue)
FilesHead == Line("bold", "Files to modify")
VerificationHead == Line("bold", "Verification")
ChecklistHead == Line("checklist", NoValue)
TextLine(x) == Line("text", x)
ItemLine(x) == Line("item", x)
StepHead(step) == Line("step", [number |-> step.number, title |-> step.title])

\* What markdown.rs takes the lines of render.rs for.
LEMMA LineKinds ==
    /\ BlankLine.is = "blank" /\ FenceLine.is = "fence"
    /\ FilesHead.is = "bold" /\ VerificationHead.is = "bold"
    /\ ChecklistHead.is = "checklist"
    /\ \A x : TextLine(x).is = "text"
    /\ \A x : ItemLine(x).is = "item" /\ ItemLine(x).of = x
<1>1. BlankLine.is = "blank" /\ FenceLine.is = "fence"
  BY DEF BlankLine, FenceLine, Line
<1>2. FilesHead.is = "bold" /\ VerificationHead.is = "bold"
  BY DEF FilesHead, VerificationHead, Line
<1>3. ChecklistHead.is = "checklist" BY DEF ChecklistHead, Line
<1>4. \A x : TextLine(x).is = "text" BY DEF TextLine, Line
<1>5. \A x : ItemLine(x).is = "item" /\ ItemLine(x).of = x BY DEF ItemLine, Line
<1> QED BY <1>1, <1>2, <1>3, <1>4, <1>5

Opening(step) == << StepHead(step), BlankLine >>

Telling(step) == When(step.description # <<>>, Append(step.description, BlankLine))

Filing(step) ==
    When(step.files # <<>>,
         << FilesHead, BlankLine >> \o [ k \in DOMAIN step.files |-> TextLine(step.files[k]) ])

Commanded(step) ==
    IF step.verification = NoValue THEN <<>> ELSE FlattenSeq(step.verification.commands)

Verifying(step) ==
    When(step.verification # NoValue,
         << VerificationHead, BlankLine, FenceLine >> \o Commanded(step)
         \o << FenceLine, BlankLine >>)

Ticking(step) ==
    When(step.checklist # <<>>,
         << ChecklistHead, BlankLine >>
         \o [ k \in DOMAIN step.checklist |-> ItemLine(step.checklist[k]) ])

\* A rendered step is its five parts.
LEMMA RenderParts ==
    ASSUME NEW step
    PROVE  RenderStep(step) =
               Opening(step) \o Telling(step) \o Filing(step) \o Verifying(step) \o Ticking(step)
  BY Zenon DEF RenderStep, Opening, Telling, Filing, Commanded, Verifying, Ticking,
            BlankLine, FenceLine, FilesHead, VerificationHead, ChecklistHead, TextLine, ItemLine,
            StepHead

\* A part is there or not.
LEMMA WhenType ==
    ASSUME NEW M, NEW condition, NEW lines \in Seq(M)
    PROVE  When(condition, lines) \in Seq(M)
<1>1. <<>> \in Seq(M) OBVIOUS
<1>2. CASE condition BY <1>2, Zenon DEF When
<1>3. CASE ~condition BY <1>1, <1>3, Zenon DEF When
<1> QED BY <1>2, <1>3

\* The lines of a body as render.rs writes it: those of the description and
\* of the commands, and its own, of which only the checklist's opens a region.
Printed(L) ==
    Clean(L) \cup {BlankLine, FenceLine, FilesHead, VerificationHead}
             \cup { TextLine(x) : x \in Values(L) }

Body(L) == Printed(L) \cup {ChecklistHead} \cup { ItemLine(x) : x \in Values(L) }

\* No line of a rendered step's body is a heading or a rule, and none
\* before the checklist switches the region.
LEMMA PrintedKinds ==
    ASSUME NEW L
    PROVE  /\ \A line \in Printed(L) : line.is \notin Switch
           /\ \A line \in Body(L) : line.is \notin HeadingOrRule
           /\ Printed(L) \in SUBSET Body(L)
<1>2. \A line \in Clean(L) : line.is \notin Switch \cup HeadingOrRule
  BY DEF Clean
<1>3. ASSUME NEW line \in Printed(L) PROVE line.is \notin Switch \cup HeadingOrRule
  <2>1. line \in Clean(L) \/ line.is \in {"blank", "fence", "bold", "text"}
    BY LineKinds DEF Printed
  <2> QED BY <1>2, <2>1 DEF Switch, HeadingOrRule
<1>4. ASSUME NEW line \in Body(L) PROVE line.is \notin HeadingOrRule
  <2>1. line \in Printed(L) \/ line.is \in {"checklist", "item"}
    BY LineKinds DEF Body
  <2> QED BY <1>3, <2>1 DEF HeadingOrRule
<1>5. Printed(L) \in SUBSET Body(L) BY DEF Body
<1> QED BY <1>3, <1>4, <1>5

\* What the parts of a rendered step are made of.
LEMMA PartsType ==
    ASSUME NEW L, NEW step, Renderable(step, L)
    PROVE  /\ Telling(step) \in Seq(Printed(L))
           /\ Filing(step) \in Seq(Printed(L))
           /\ Verifying(step) \in Seq(Printed(L))
           /\ Ticking(step) \in Seq(Body(L))
<1> DEFINE P == Printed(L)
           B == Body(L)
<1>1. /\ BlankLine \in P /\ FenceLine \in P /\ FilesHead \in P /\ VerificationHead \in P
      /\ \A x \in Values(L) : TextLine(x) \in P
      /\ Clean(L) \in SUBSET P
  BY DEF Printed
<1>2. /\ ChecklistHead \in B /\ BlankLine \in B
      /\ \A x \in Values(L) : ItemLine(x) \in B
  BY <1>1 DEF Body
<1> HIDE DEF P, B
<1>3. Telling(step) \in Seq(P)
  <2>1. step.description \in Seq(P)
    <3>1. step.description \in Seq(Clean(L)) BY DEF Renderable
    <3> QED BY <1>1, <3>1, SeqSubset
  <2>2. Append(step.description, BlankLine) \in Seq(P) BY <1>1, <2>1
  <2> QED BY <2>2, WhenType DEF Telling
<1>4. Filing(step) \in Seq(P)
  <2> DEFINE q == [ k \in DOMAIN step.files |-> TextLine(step.files[k]) ]
             n == Len(step.files)
  <2>1. step.files \in Seq(Values(L)) /\ n \in Nat /\ DOMAIN step.files = 1 .. n
        /\ \A k \in 1 .. n : step.files[k] \in Values(L)
    BY DEF Renderable
  <2>2. \A k \in 1 .. n : q[k] \in P BY <1>1, <2>1
  <2>3. q = [k \in 1 .. n |-> q[k]] BY <2>1
  <2> HIDE DEF q, n
  <2>4. q \in Seq(P) BY <2>1, <2>2, <2>3, ListFrom
  <2>5. <<FilesHead, BlankLine>> \o q \in Seq(P) BY <1>1, <2>4
  <2> QED BY <2>5, WhenType DEF Filing, q
<1>5. Verifying(step) \in Seq(P)
  <2>1. Commanded(step) \in Seq(P)
    <3>1. CASE step.verification = NoValue BY <3>1 DEF Commanded
    <3>2. CASE step.verification # NoValue
      <4>1. step.verification.commands \in Seq(Seq(Clean(L)))
        BY <3>2 DEF Renderable
      <4>2. FlattenSeq(step.verification.commands) \in Seq(Clean(L))
        BY <4>1, FlattenType
      <4>3. FlattenSeq(step.verification.commands) \in Seq(P)
        BY <1>1, <4>2, SeqSubset
      <4> QED BY <3>2, <4>3 DEF Commanded
    <3> QED BY <3>1, <3>2
  <2>2. <<VerificationHead, BlankLine, FenceLine>> \in Seq(P) /\ <<FenceLine, BlankLine>> \in Seq(P)
    BY <1>1
  <2>3. <<VerificationHead, BlankLine, FenceLine>> \o Commanded(step)
           \o <<FenceLine, BlankLine>> \in Seq(P)
    BY <2>1, <2>2
  <2> QED BY <2>3, WhenType DEF Verifying
<1>6. Ticking(step) \in Seq(B)
  <2> DEFINE q == [ k \in DOMAIN step.checklist |-> ItemLine(step.checklist[k]) ]
             n == Len(step.checklist)
  <2>1. step.checklist \in Seq(Values(L)) /\ n \in Nat /\ DOMAIN step.checklist = 1 .. n
        /\ \A k \in 1 .. n : step.checklist[k] \in Values(L)
    BY DEF Renderable
  <2>2. \A k \in 1 .. n : q[k] \in B BY <1>2, <2>1
  <2>3. q = [k \in 1 .. n |-> q[k]] BY <2>1
  <2> HIDE DEF q, n
  <2>4. q \in Seq(B) BY <2>1, <2>2, <2>3, ListFrom
  <2>5. <<ChecklistHead, BlankLine>> \o q \in Seq(B) BY <1>2, <2>4
  <2> QED BY <2>5, WhenType DEF Ticking, q
<1> QED BY <1>3, <1>4, <1>5, <1>6 DEF P, B

-----------------------------------------------------------------------------
\* Reading a rendered step.

\* G is where parse_step is after each line, from the j-th of lines on, the
\* first of which is line i + 1.
Along(G, i, lines, j) ==
    \A k \in j .. Len(lines) : G[i + k] = StepLine(G[i + k - 1], lines[k])

\* Reading a sequence is reading its halves in turn.
LEMMA AlongParts ==
    ASSUME NEW M, NEW a \in Seq(M), NEW b \in Seq(M), NEW c, c = a \o b, NEW G,
           Along(G, 0, c, 2)
    PROVE  /\ Along(G, 0, a, 2)
           /\ Len(a) >= 2 => Along(G, Len(a), b, 1)
<1> DEFINE m == Len(a)
           n == Len(b)
<1>1. /\ m \in Nat /\ n \in Nat /\ Len(c) = m + n
      /\ \A k \in 1 .. m : c[k] = a[k]
      /\ \A k \in 1 .. n : c[m + k] = b[k]
  OBVIOUS
<1>2. \A k \in 2 .. Len(c) : G[0 + k] = StepLine(G[0 + k - 1], c[k])
  BY DEF Along
<1> HIDE DEF m, n
<1>3. ASSUME NEW k \in 2 .. m PROVE G[0 + k] = StepLine(G[0 + k - 1], a[k])
  <2>1. k \in 2 .. Len(c) /\ k \in 1 .. m BY <1>1
  <2> QED BY <1>1, <1>2, <2>1
<1>4. ASSUME m >= 2, NEW k \in 1 .. n PROVE G[m + k] = StepLine(G[m + k - 1], b[k])
  <2>1. m + k \in 2 .. Len(c) /\ 0 + (m + k) = m + k /\ 0 + (m + k) - 1 = m + k - 1
    BY <1>1, <1>4
  <2>2. G[0 + (m + k)] = StepLine(G[0 + (m + k) - 1], c[m + k])
    BY <1>2, <2>1, SMTT(60)
  <2>3. c[m + k] = b[k] BY <1>1
  <2> QED BY <2>1, <2>2, <2>3
<1> QED BY <1>3, <1>4 DEF Along, m, n

\* d stands at the head of what has been read, and no box has been ticked.
Kept(s, d) ==
    /\ s.region \in {"metadata", "description"}
    /\ d # <<>> => s.region = "description"
    /\ Len(d) <= Len(s.step.description)
    /\ \A k \in 1 .. Len(d) : s.step.description[k] = d[k]
    /\ s.step.checklist = <<>>

\* A line that switches no region keeps the description's start.
LEMMA KeptStep ==
    ASSUME NEW L, NEW number, NEW title, NEW s \in StepAcc(L, number, title), NEW line \in L,
           line.is \notin Switch, NEW d, Len(d) \in Nat, Kept(s, d)
    PROVE  Kept(StepLine(s, line), d)
<1> DEFINE t == StepLine(s, line)
           e == s.step.description
<1>1. e \in Seq(L) BY DEF StepAcc
<1>2. \/ t = s
      \/ /\ t.region = s.region /\ t.step.checklist = s.step.checklist
         /\ t.step.description = e
      \/ /\ t.region = "description" /\ t.step.checklist = s.step.checklist
         /\ t.step.description = Append(e, line)
  BY DEF StepLine, Switch, StepAcc, Kept
<1>3. /\ Len(e) \in Nat /\ Len(Append(e, line)) = Len(e) + 1
      /\ \A k \in 1 .. Len(e) : Append(e, line)[k] = e[k]
  BY <1>1
<1>4. e = s.step.description OBVIOUS
<1> HIDE DEF t, e
<1>5. Kept(t, d) BY <1>2, <1>3, <1>4, SMTT(60) DEF Kept
<1> QED BY <1>5 DEF t

\* The first k lines of a description have been read.
Told(s, d, k) ==
    /\ s.region = IF k = 0 THEN "metadata" ELSE "description"
    /\ Len(s.step.description) = k
    /\ \A j \in 1 .. k : s.step.description[j] = d[j]
    /\ s.step.checklist = <<>>

\* A line of the description is read back as the next of it.
LEMMA ToldStep ==
    ASSUME NEW L, NEW number, NEW title, NEW s \in StepAcc(L, number, title),
           NEW d \in Seq(Clean(L)), Running(d), NEW k \in Nat, k + 1 <= Len(d), Told(s, d, k)
    PROVE  Told(StepLine(s, d[k + 1]), d, k + 1)
<1> DEFINE line == d[k + 1]
           t == StepLine(s, line)
           e == s.step.description
<1>1. e \in Seq(L) BY DEF StepAcc
<1>2. k + 1 \in 1 .. Len(d) /\ Len(d) \in Nat OBVIOUS
<1>3. line \in Clean(L) /\ d # <<>>
  <2>1. Len(<<>>) = 0 OBVIOUS
  <2>2. d # <<>> BY <1>2, <2>1
  <2> QED BY <1>2, <2>2
<1>4. line.is \notin Switch BY <1>3 DEF Clean
<1>5. IF k = 0 THEN line.is \notin Bold \cup {"blank"} ELSE line.is # "heading4"
  <2>1. k # 0 => k + 1 \in 2 .. Len(d) BY <1>2
  <2> QED BY <1>3, <2>1 DEF Running
<1> HIDE DEF line
<1>6. /\ t.region = "description" /\ t.step.checklist = s.step.checklist
      /\ t.step.description = Append(e, line)
  <2>1. CASE k = 0
    <3>1. s.region = "metadata" /\ line.is \notin Bold \cup {"blank"}
      BY <1>5, <2>1 DEF Told
    <3> QED BY <1>4, <3>1 DEF StepLine, Switch, StepAcc, Bold
  <2>2. CASE k # 0
    <3>1. s.region = "description" /\ line.is # "heading4"
      BY <1>5, <2>2 DEF Told
    <3> QED BY <1>4, <3>1 DEF StepLine, Switch, StepAcc
  <2> QED BY <2>1, <2>2
<1>7. /\ Len(e) \in Nat /\ Len(Append(e, line)) = Len(e) + 1
      /\ Append(e, line)[Len(e) + 1] = line
      /\ \A j \in 1 .. Len(e) : Append(e, line)[j] = e[j]
  BY <1>1, SMTT(60)
<1>8. e = s.step.description OBVIOUS
<1> HIDE DEF t, e
<1>9. Len(e) = k /\ (\A j \in 1 .. k : e[j] = d[j]) /\ s.step.checklist = <<>>
  BY <1>8 DEF Told
<1>10. Told(t, d, k + 1) BY <1>6, <1>7, <1>9 DEF Told, line
<1> QED BY <1>10 DEF t, line

\* k items have been read, and d stands at the head of the description.
Ticked(s, d, c, k) ==
    /\ s.region = "checklist"
    /\ Len(d) <= Len(s.step.description)
    /\ \A j \in 1 .. Len(d) : s.step.description[j] = d[j]
    /\ Len(s.step.checklist) = k
    /\ \A j \in 1 .. k : s.step.checklist[j] = c[j]

\* A box is read back as the next box, and a blank line as nothing.
LEMMA TickedStep ==
    ASSUME NEW L, NEW number, NEW title, NEW s \in StepAcc(L, number, title),
           NEW d, NEW c, NEW k \in Nat, Ticked(s, d, c, k)
    PROVE  /\ Ticked(StepLine(s, BlankLine), d, c, k)
           /\ Ticked(StepLine(s, ItemLine(c[k + 1])), d, c, k + 1)
<1>1. s.region = "checklist" /\ s.step.checklist \in Seq(Values(L))
  BY DEF StepAcc, Values, Ticked
<1>2. StepLine(s, BlankLine) = s
  <2>1. BlankLine.is = "blank" BY LineKinds
  <2> QED BY <1>1, <2>1 DEF StepLine
<1> DEFINE line == ItemLine(c[k + 1])
           t == StepLine(s, line)
           b == s.step.checklist
<1>3. line.is = "item" /\ line.of = c[k + 1] BY LineKinds
<1> HIDE DEF line
<1>4. /\ t.region = "checklist" /\ t.step.description = s.step.description
      /\ t.step.checklist = Append(b, line.of)
  BY <1>1, <1>3 DEF StepLine, StepAcc
<1>5. /\ Len(b) \in Nat
      /\ Len(Append(b, line.of)) = Len(b) + 1
      /\ Append(b, line.of)[Len(b) + 1] = line.of
      /\ \A j \in 1 .. Len(b) : Append(b, line.of)[j] = b[j]
  BY <1>1
<1>6. b = s.step.checklist OBVIOUS
<1> HIDE DEF t, b
<1>7. Ticked(t, d, c, k + 1)
  <2>1. Len(b) = k /\ \A j \in 1 .. k : b[j] = c[j] BY <1>6 DEF Ticked
  <2>2. Len(Append(b, line.of)) = k + 1
        /\ \A j \in 1 .. k + 1 : Append(b, line.of)[j] = c[j]
    BY <1>3, <1>5, <2>1
  <2> QED BY <1>4, <2>2 DEF Ticked
<1> QED BY <1>2, <1>7 DEF t, line

-----------------------------------------------------------------------------
\* The five parts in turn.

\* parse_step has gone from one state to the next on every line.
Course(G, n, L, number, title) ==
    n \in Nat /\ G \in [1 .. n -> StepAcc(L, number, title)]

\* The description is read back whole.
LEMMA TellingRead ==
    ASSUME NEW L, NEW step, Renderable(step, L), NEW G, NEW n, NEW number, NEW title,
           Course(G, n, Body(L), number, title), NEW i \in 1 .. n,
           i + Len(Telling(step)) <= n,
           Along(G, i, Telling(step), 1), Told(G[i], step.description, 0)
    PROVE  Kept(G[i + Len(Telling(step))], step.description)
<1> DEFINE d == step.description
           m == Len(d)
           lines == Telling(step)
<1>1. /\ d \in Seq(Clean(L)) /\ Running(d) /\ m \in Nat
      /\ n \in Nat /\ \A k \in 1 .. n : G[k] \in StepAcc(Body(L), number, title)
  BY DEF Renderable, Course
<1>2. CASE d = <<>>
  <2>1. lines = <<>> /\ Len(lines) = 0 /\ m = 0 BY <1>2 DEF Telling, When
  <2>2. i + Len(lines) = i BY <2>1
  <2>3. G[i] \in StepAcc(Body(L), number, title) BY <1>1
  <2>4. Len(G[i].step.description) = 0 /\ G[i].region = "metadata" /\ G[i].step.checklist = <<>>
    BY DEF Told
  <2>5. Kept(G[i], d)
    <3> HIDE DEF d
    <3> QED BY <1>2, <2>1, <2>4 DEF Kept
  <2> HIDE DEF lines, d
  <2> QED BY <2>2, <2>5 DEF lines, d
<1>3. CASE d # <<>>
  <2>1. lines = Append(d, BlankLine) BY <1>3 DEF Telling, When
  <2>2. /\ Len(lines) = m + 1 /\ lines[m + 1] = BlankLine
        /\ \A k \in 1 .. m : lines[k] = d[k]
    <3> HIDE DEF lines, d
    <3> QED BY <1>1, <2>1 DEF m
  <2>3. m # 0
    <3> HIDE DEF d
    <3> QED BY <1>1, <1>3 DEF m
  <2>4. \A k \in 1 .. Len(lines) : G[i + k] = StepLine(G[i + k - 1], lines[k])
    BY DEF Along
  <2>5. d \in Seq(Clean(Body(L)))
    <3>1. Clean(L) \in SUBSET Clean(Body(L)) BY DEF Clean, Body, Printed
    <3> HIDE DEF d
    <3> QED BY <1>1, <3>1, SeqSubset
  <2>6. i + Len(lines) <= n /\ Told(G[i], d, 0) OBVIOUS
  <2> HIDE DEF lines, d, m
  <2> DEFINE S == {k \in Nat : Told(G[i + k], d, k)}
  <2>7. 0 \in S BY <2>6
  <2>8. ASSUME NEW k \in Nat, k < m, k \in S PROVE k + 1 \in S
    <3>1. /\ k + 1 \in 1 .. Len(lines) /\ k + 1 \in 1 .. m /\ i + (k + 1) - 1 = i + k
          /\ i + k \in 1 .. n
      BY <1>1, <2>2, <2>6, <2>8
    <3>2. G[i + (k + 1)] = StepLine(G[i + k], d[k + 1]) BY <2>2, <2>4, <3>1
    <3>3. Told(G[i + k], d, k) /\ G[i + k] \in StepAcc(Body(L), number, title) /\ k + 1 <= Len(d)
      BY <1>1, <2>8, <3>1 DEF m
    <3>4. Told(StepLine(G[i + k], d[k + 1]), d, k + 1)
      BY <1>1, <2>5, <3>3, ToldStep
    <3> QED BY <3>2, <3>4
  <2>9. m \in S
    <3> HIDE DEF S
    <3> QED BY <1>1, <2>7, <2>8, Climb
  <2>10. Told(G[i + m], d, m) /\ i + m \in 1 .. n /\ G[i + m] \in StepAcc(Body(L), number, title)
    BY <1>1, <2>2, <2>6, <2>9
  <2>11. Kept(G[i + m], d) BY <1>1, <2>3, <2>10 DEF Kept, Told, m
  <2>12. BlankLine \in Body(L) /\ BlankLine.is \notin Switch
    BY LineKinds DEF Body, Printed, Switch
  <2>13. Kept(StepLine(G[i + m], BlankLine), d)
    BY <1>1, <2>10, <2>11, <2>12, KeptStep DEF m
  <2>14. m + 1 \in 1 .. Len(lines) /\ i + (m + 1) - 1 = i + m BY <1>1, <2>2
  <2>15. G[i + (m + 1)] = StepLine(G[i + m], BlankLine) BY <2>2, <2>4, <2>14
  <2>16. Kept(G[i + Len(lines)], d) BY <2>2, <2>13, <2>15
  <2> QED BY <2>16 DEF lines, d
<1> QED BY <1>2, <1>3

\* The files and the verification leave it at the head of what was read.
LEMMA KeptAlong ==
    ASSUME NEW L, NEW d, Len(d) \in Nat, NEW G, NEW n, NEW number, NEW title,
           Course(G, n, Body(L), number, title), NEW i \in 1 .. n,
           NEW lines \in Seq(Printed(L)), i + Len(lines) <= n,
           Along(G, i, lines, 1), Kept(G[i], d)
    PROVE  Kept(G[i + Len(lines)], d)
<1> DEFINE S == {k \in Nat : Kept(G[i + k], d)}
           m == Len(lines)
<1>1. /\ n \in Nat /\ \A k \in 1 .. n : G[k] \in StepAcc(Body(L), number, title)
      /\ m \in Nat /\ \A k \in 1 .. m : lines[k] \in Printed(L)
  BY DEF Course
<1>2. \A k \in 1 .. m : G[i + k] = StepLine(G[i + k - 1], lines[k]) BY DEF Along
<1>3. 0 \in S OBVIOUS
<1> HIDE DEF m
<1>4. ASSUME NEW k \in Nat, k < m, k \in S PROVE k + 1 \in S
  <2>1. k + 1 \in 1 .. m /\ i + (k + 1) - 1 = i + k /\ i + k \in 1 .. n
    BY <1>1, <1>4 DEF m
  <2>2. G[i + (k + 1)] = StepLine(G[i + k], lines[k + 1]) BY <1>2, <2>1
  <2>3. lines[k + 1] \in Body(L) /\ lines[k + 1].is \notin Switch
    BY <1>1, <2>1, PrintedKinds
  <2>4. Kept(G[i + k], d) /\ G[i + k] \in StepAcc(Body(L), number, title)
    BY <1>1, <1>4, <2>1
  <2>5. Kept(StepLine(G[i + k], lines[k + 1]), d) BY <2>3, <2>4, KeptStep
  <2> QED BY <2>2, <2>5
<1>5. m \in S
  <2> HIDE DEF S
  <2> QED BY <1>1, <1>3, <1>4, Climb
<1> QED BY <1>5 DEF m

\* Where the reading ends: d heads the description, and the boxes are c.
Reread(s, d, c) ==
    /\ Len(d) <= Len(s.step.description)
    /\ \A k \in 1 .. Len(d) : s.step.description[k] = d[k]
    /\ s.step.checklist = c

\* The checklist is read back whole, and nothing else of it.
LEMMA TickingRead ==
    ASSUME NEW L, NEW step, Renderable(step, L), NEW G, NEW n, NEW number, NEW title,
           Course(G, n, Body(L), number, title), NEW i \in 1 .. n,
           i + Len(Ticking(step)) <= n,
           Along(G, i, Ticking(step), 1), NEW d, Kept(G[i], d)
    PROVE  Reread(G[i + Len(Ticking(step))], d, step.checklist)
<1> DEFINE c == step.checklist
           m == Len(c)
           lines == Ticking(step)
<1>1. /\ c \in Seq(Values(L)) /\ m \in Nat /\ DOMAIN c = 1 .. m
      /\ n \in Nat /\ \A k \in 1 .. n : G[k] \in StepAcc(Body(L), number, title)
  BY DEF Renderable, Course
<1>2. CASE c = <<>>
  <2>1. lines = <<>> /\ Len(lines) = 0 BY <1>2 DEF Ticking, When
  <2>2. i + Len(lines) = i BY <2>1
  <2> HIDE DEF lines, c
  <2>3. Reread(G[i], d, c) BY <1>2 DEF Reread, Kept
  <2> QED BY <2>2, <2>3 DEF lines, c
<1>3. CASE c # <<>>
  <2> DEFINE q == [ k \in DOMAIN c |-> ItemLine(c[k]) ]
             head == <<ChecklistHead, BlankLine>>
             T == { ItemLine(x) : x \in Values(L) } \cup {ChecklistHead, BlankLine}
  <2>1. lines = head \o q BY <1>3 DEF Ticking, When
  <2>2. q \in Seq(T) /\ Len(q) = m /\ \A k \in 1 .. m : q[k] = ItemLine(c[k])
    <3>1. \A k \in 1 .. m : q[k] = ItemLine(c[k]) /\ q[k] \in T
      <4> HIDE DEF c, m
      <4>1. \A k \in 1 .. m : c[k] \in Values(L) BY <1>1 DEF m
      <4> QED BY <1>1, <4>1
    <3>2. q = [k \in 1 .. m |-> q[k]] BY <1>1
    <3> HIDE DEF q, m, T
    <3> QED BY <1>1, <3>1, <3>2, ListFrom
  <2>3. head \in Seq(T) /\ Len(head) = 2 /\ head[1] = ChecklistHead /\ head[2] = BlankLine
    OBVIOUS
  <2> HIDE DEF q, head, T
  <2>4. /\ Len(head \o q) = m + 2 /\ (head \o q)[1] = ChecklistHead /\ (head \o q)[2] = BlankLine
        /\ \A k \in 1 .. m : (head \o q)[k + 2] = ItemLine(c[k])
    <3> HIDE DEF m, c
    <3>1. /\ Len(head \o q) = Len(head) + Len(q)
          /\ \A k \in 1 .. Len(head) : (head \o q)[k] = head[k]
          /\ \A k \in 1 .. Len(q) : (head \o q)[Len(head) + k] = q[k]
      <4>1. Joined(head \o q, head, q) BY <2>2, <2>3, ConcatParts
      <4> QED BY <4>1, SMTT(60) DEF Joined
    <3>2. \A k \in 1 .. m : 2 + k = k + 2 BY <1>1
    <3> QED BY <1>1, <2>2, <2>3, <3>1, <3>2
  <2>5. \A k \in 1 .. Len(lines) : G[i + k] = StepLine(G[i + k - 1], lines[k])
    BY DEF Along
  <2>6. i + Len(lines) <= n OBVIOUS
  <2> HIDE DEF lines, c, m
  <2>7. 1 \in 1 .. Len(lines) /\ 2 \in 1 .. Len(lines) /\ i + 1 - 1 = i /\ i + 2 - 1 = i + 1
        /\ i + 1 \in 1 .. n /\ i + 2 \in 1 .. n
    BY <1>1, <2>1, <2>4, <2>6
  <2>8. G[i + 1] = StepLine(G[i], ChecklistHead) /\ G[i + 2] = StepLine(G[i + 1], BlankLine)
    BY <2>1, <2>4, <2>5, <2>7
  <2>9. Ticked(G[i + 1], d, c, 0)
    <3>1. G[i + 1] = [G[i] EXCEPT !.region = "checklist"]
      <4>1. ChecklistHead.is = "checklist" BY LineKinds
      <4> QED BY <2>8, <4>1 DEF StepLine
    <3>2. G[i] \in StepAcc(Body(L), number, title) BY <1>1
    <3>3. G[i + 1].region = "checklist" /\ G[i + 1].step = G[i].step
      BY <3>1, <3>2 DEF StepAcc
    <3> QED BY <3>3 DEF Ticked, Kept
  <2>10. Ticked(G[i + 2], d, c, 0) BY <1>1, <2>7, <2>8, <2>9, TickedStep
  <2> DEFINE S == {k \in Nat : Ticked(G[i + 2 + k], d, c, k)}
  <2>11. 0 \in S
    <3>1. i + 2 + 0 = i + 2 OBVIOUS
    <3> QED BY <2>10, <3>1
  <2>12. ASSUME NEW k \in Nat, k < m, k \in S PROVE k + 1 \in S
    <3>1. /\ k + 1 \in 1 .. m /\ (k + 1) + 2 \in 1 .. Len(lines)
          /\ i + ((k + 1) + 2) - 1 = i + 2 + k /\ i + ((k + 1) + 2) = i + 2 + (k + 1)
          /\ i + 2 + k \in 1 .. n
      BY <1>1, <2>1, <2>4, <2>6, <2>12
    <3>2. G[i + 2 + (k + 1)] = StepLine(G[i + 2 + k], ItemLine(c[k + 1]))
      BY <2>1, <2>4, <2>5, <3>1
    <3>3. Ticked(G[i + 2 + k], d, c, k) /\ G[i + 2 + k] \in StepAcc(Body(L), number, title)
      BY <1>1, <2>12, <3>1
    <3>4. Ticked(StepLine(G[i + 2 + k], ItemLine(c[k + 1])), d, c, k + 1)
      BY <3>3, TickedStep
    <3> QED BY <3>2, <3>4
  <2>13. m \in S
    <3> HIDE DEF S
    <3> QED BY <1>1, <2>11, <2>12, Climb
  <2> DEFINE s == G[i + Len(lines)]
  <2>14. Ticked(s, d, c, m) /\ s \in StepAcc(Body(L), number, title)
    <3>1. i + Len(lines) = i + 2 + m /\ i + Len(lines) \in 1 .. n
      BY <1>1, <2>1, <2>4, <2>6
    <3> QED BY <1>1, <2>13, <3>1
  <2> HIDE DEF s
  <2>15. s.step.checklist = c
    <3> DEFINE b == s.step.checklist
    <3>1. b \in Seq(Values(Body(L))) BY <2>14 DEF StepAcc, Values
    <3>2. Len(b) = m /\ \A j \in 1 .. m : b[j] = c[j] BY <2>14 DEF Ticked
    <3> HIDE DEF b
    <3>3. b = c BY <1>1, <3>1, <3>2 DEF m
    <3> QED BY <3>3 DEF b
  <2>16. Reread(s, d, c) BY <2>14, <2>15 DEF Reread, Ticked
  <2> QED BY <2>16 DEF s, lines, c
<1> QED BY <1>2, <1>3

\* A rendered step: its heading, then lines that are none.
Block(block, step, L) ==
    /\ block \in Seq(Body(L) \cup {StepHead(step)}) /\ Len(block) >= 2
    /\ block[1] = StepHead(step)
    /\ \A k \in 2 .. Len(block) : block[k] \in Body(L)

\* A block goes on with lines of a body.
LEMMA BlockStarts ==
    ASSUME NEW L, NEW step, NEW a, Block(a, step, L), NEW b \in Seq(Body(L))
    PROVE  /\ Block(a \o b, step, L)
           /\ Len(a \o b) = Len(a) + Len(b)
<1> DEFINE c == a \o b
           B == Body(L)
           M == B \cup {StepHead(step)}
<1>0. /\ a \in Seq(M) /\ Len(a) >= 2 /\ a[1] = StepHead(step)
      /\ \A k \in 2 .. Len(a) : a[k] \in B
  BY DEF Block
<1>1. b \in Seq(M) /\ \A k \in 1 .. Len(b) : b[k] \in B
  <2>1. B \in SUBSET M OBVIOUS
  <2> HIDE DEF B
  <2>2. b \in Seq(B) BY DEF B
  <2>3. b \in Seq(M) BY <2>1, <2>2, SeqSubset
  <2> QED BY <2>2, <2>3
<1>2. c \in Seq(M) /\ Joined(c, a, b) BY <1>0, <1>1, ConcatParts
<1> HIDE DEF c, B, M
<1>3. /\ Len(a) \in Nat /\ Len(b) \in Nat /\ Len(c) = Len(a) + Len(b)
      /\ \A k \in 1 .. Len(a) : c[k] = a[k]
      /\ \A k \in 1 .. Len(b) : c[Len(a) + k] = b[k]
  BY <1>2 DEF Joined
<1>4. ASSUME NEW k \in 2 .. Len(c) PROVE c[k] \in B
  <2>1. CASE k <= Len(a) BY <1>0, <1>3, <2>1
  <2>2. CASE k > Len(a)
    <3>1. k - Len(a) \in 1 .. Len(b) /\ Len(a) + (k - Len(a)) = k BY <1>3, <2>2
    <3>2. c[k] = b[k - Len(a)] BY <1>3, <3>1
    <3> QED BY <1>1, <3>1, <3>2
  <2> QED BY <1>3, <2>1, <2>2
<1>5. c[1] = StepHead(step) /\ Len(c) >= 2 BY <1>0, <1>3
<1>6. Block(c, step, L) BY <1>2, <1>4, <1>5 DEF Block, B, M
<1> QED BY <1>3, <1>6 DEF c

\* The parts of a block, each standing on those before it.
Stacked(step, L, block, a2, a3, a4) ==
    LET M == Body(L) \cup {StepHead(step)} IN
    /\ a2 = Opening(step) \o Telling(step) /\ a3 = a2 \o Filing(step)
    /\ a4 = a3 \o Verifying(step) /\ block = a4 \o Ticking(step)
    /\ {Opening(step), a2, a3, a4, Telling(step), Filing(step), Verifying(step), Ticking(step)}
           \subseteq Seq(M)
    /\ Len(Opening(step)) = 2 /\ Len(a2) = 2 + Len(Telling(step))
    /\ Len(a3) = Len(a2) + Len(Filing(step)) /\ Len(a4) = Len(a3) + Len(Verifying(step))
    /\ Len(block) = Len(a4) + Len(Ticking(step))

\* A rendered step is a block.
LEMMA BlockParts ==
    ASSUME NEW L, NEW step, Renderable(step, L)
    PROVE  /\ Block(RenderStep(step), step, L)
           /\ \E a2, a3, a4 : Stacked(step, L, RenderStep(step), a2, a3, a4)
<1> DEFINE B == Body(L)
           M == B \cup {StepHead(step)}
           a1 == Opening(step)
           a2 == a1 \o Telling(step)
           a3 == a2 \o Filing(step)
           a4 == a3 \o Verifying(step)
           a5 == a4 \o Ticking(step)
<1>1. /\ Telling(step) \in Seq(B) /\ Filing(step) \in Seq(B)
      /\ Verifying(step) \in Seq(B) /\ Ticking(step) \in Seq(B)
  <2>1. /\ Telling(step) \in Seq(Printed(L)) /\ Filing(step) \in Seq(Printed(L))
        /\ Verifying(step) \in Seq(Printed(L)) /\ Ticking(step) \in Seq(B)
    BY PartsType
  <2>2. Printed(L) \in SUBSET B BY PrintedKinds
  <2> HIDE DEF B
  <2> QED BY <2>1, <2>2, SeqSubset
<1>2. Block(a1, step, L) /\ Len(a1) = 2
  <2>1. BlankLine \in B BY DEF Body, Printed
  <2> HIDE DEF B
  <2>2. /\ a1 \in Seq(M) /\ Len(a1) = 2 /\ a1[1] = StepHead(step)
        /\ \A k \in 2 .. Len(a1) : a1[k] \in B
    BY <2>1 DEF Opening
  <2> HIDE DEF M, a1
  <2> QED BY <2>2 DEF Block, M, B
<1> HIDE DEF B, M, a1
<1>3. M = B \cup {StepHead(step)} BY DEF M
<1>4. Block(a2, step, L) /\ Len(a2) = Len(a1) + Len(Telling(step))
  BY <1>1, <1>2, BlockStarts, ZenonT(60) DEF B
<1> HIDE DEF a2
<1>5. Block(a3, step, L) /\ Len(a3) = Len(a2) + Len(Filing(step))
  BY <1>1, <1>4, BlockStarts, ZenonT(60) DEF B
<1> HIDE DEF a3
<1>6. Block(a4, step, L) /\ Len(a4) = Len(a3) + Len(Verifying(step))
  BY <1>1, <1>5, BlockStarts, ZenonT(60) DEF B
<1> HIDE DEF a4
<1>7. Block(a5, step, L) /\ Len(a5) = Len(a4) + Len(Ticking(step))
  BY <1>1, <1>6, BlockStarts, ZenonT(60) DEF B
<1>8. RenderStep(step) = a5 BY RenderParts, Zenon DEF a1, a2, a3, a4
<1>9. /\ Telling(step) \in Seq(M) /\ Filing(step) \in Seq(M)
      /\ Verifying(step) \in Seq(M) /\ Ticking(step) \in Seq(M)
  <2>1. B \in SUBSET M BY <1>3
  <2> QED BY <1>1, <2>1, SeqSubset
<1> HIDE DEF a5
<1>10. a1 \in Seq(M) /\ a2 \in Seq(M) /\ a3 \in Seq(M) /\ a4 \in Seq(M)
  BY <1>2, <1>4, <1>5, <1>6, Zenon DEF Block, B, M
<1>11. Stacked(step, L, a5, a2, a3, a4)
  <2>1. a2 = Opening(step) \o Telling(step) /\ a3 = a2 \o Filing(step)
        /\ a4 = a3 \o Verifying(step) /\ a5 = a4 \o Ticking(step)
    BY Zenon DEF a1, a2, a3, a4, a5
  <2>2. {Opening(step), a2, a3, a4, Telling(step), Filing(step), Verifying(step), Ticking(step)}
           \subseteq Seq(M)
    BY <1>9, <1>10, Zenon DEF a1
  <2>3. Len(Opening(step)) = 2 /\ Len(a2) = 2 + Len(Telling(step))
    BY <1>2, <1>4 DEF a1
  <2> QED BY <1>5, <1>6, <1>7, <2>1, <2>2, <2>3, Zenon DEF Stacked, M, B
<1> QED BY <1>7, <1>8, <1>11

\* A parsed step kept its number, title and boxes, and its description's start.
Faithful(now, step) ==
    /\ now.number = step.number /\ now.title = step.title /\ now.checklist = step.checklist
    /\ IsPrefix(step.description, now.description)

\* parse_step makes of a rendered step a step with its number, its title,
\* its boxes and its description's start.
LEMMA BlockReread ==
    ASSUME NEW L, NEW step, Renderable(step, L)
    PROVE  LET block == RenderStep(step)
           IN  Faithful(ParseStep(block[1].of, SubSeq(block, 2, Len(block))), step)
<1> DEFINE block == RenderStep(step)
           B == Body(L)
           M == B \cup {StepHead(step)}
           n == Len(block)
           heading == block[1].of
           lines == SubSeq(block, 2, n)
           now == ParseStep(heading, lines)
           d == step.description
<1>1. Block(block, step, L) /\ \E a2, a3, a4 : Stacked(step, L, block, a2, a3, a4)
  BY BlockParts
<1>2. PICK a2, a3, a4 : Stacked(step, L, block, a2, a3, a4) BY <1>1
<1>3. heading.number = step.number /\ heading.title = step.title
  <2>1. block[1] = StepHead(step) BY <1>1 DEF Block
  <2> HIDE DEF block
  <2> QED BY <2>1 DEF StepHead, Line
<1> HIDE DEF block, heading
<1>4. n \in Nat /\ n >= 2 /\ \A k \in 2 .. n : block[k] \in B BY <1>1 DEF Block
<1>5. lines \in Seq(B) /\ Len(lines) = n - 1 /\ \A k \in 1 .. n - 1 : lines[k] = block[k + 1]
  <2>1. block \in Seq(M) BY <1>1 DEF Block
  <2> HIDE DEF B, M, n
  <2>2. Len(lines) = n - 1 /\ lines = [k \in 1 .. n - 1 |-> block[k + 1]]
    BY <1>4, <2>1 DEF n
  <2>3. \A k \in 1 .. n - 1 : k + 1 \in 2 .. n BY <1>4
  <2> HIDE DEF lines
  <2>4. \A k \in 1 .. n - 1 : lines[k] \in B BY <1>4, <2>2, <2>3
  <2>5. lines = [k \in 1 .. n - 1 |-> lines[k]] /\ n - 1 \in Nat BY <1>4, <2>2
  <2>6. lines \in Seq(B) BY <2>4, <2>5, ListFrom
  <2> QED BY <2>2, <2>6
<1> HIDE DEF B, M, n, lines
<1> DEFINE Acc == StepAcc(B, heading.number, heading.title)
<1>6. PICK g \in [0 .. Len(lines) -> Acc] :
          /\ g[0] = StepBase(heading)
          /\ \A k \in 1 .. Len(lines) : g[k] = StepLine(g[k - 1], lines[k])
          /\ now = Parsed(g[Len(lines)])
  BY <1>5, ParseStepChain, ZenonT(60)
<1> HIDE DEF Acc, now
<1> DEFINE G == [k \in 1 .. n |-> g[k - 1]]
<1>7. G \in [1 .. n -> Acc] /\ G[1] = StepBase(heading) /\ now = Parsed(G[n])
  <2>1. \A k \in 1 .. n : k - 1 \in 0 .. Len(lines) BY <1>4, <1>5
  <2>2. 1 \in 1 .. n /\ n \in 1 .. n /\ n - 1 = Len(lines) /\ 1 - 1 = 0
    BY <1>4, <1>5
  <2> QED BY <1>6, <2>1, <2>2
<1>8. \A k \in 2 .. n : G[k] = StepLine(G[k - 1], block[k])
  <2> SUFFICES ASSUME NEW k \in 2 .. n PROVE G[k] = StepLine(G[k - 1], block[k])
    OBVIOUS
  <2>1. k \in 1 .. n /\ k - 1 \in 1 .. n /\ k - 1 \in 1 .. Len(lines) /\ (k - 1) + 1 = k
    BY <1>4, <1>5
  <2>2. g[k - 1] = StepLine(g[k - 1 - 1], lines[k - 1]) /\ lines[k - 1] = block[k]
    BY <1>5, <1>6, <2>1
  <2> QED BY <2>1, <2>2
<1> HIDE DEF G
<1>9. Course(G, n, Body(L), heading.number, heading.title) /\ n = Len(block)
  <2>1. Course(G, n, B, heading.number, heading.title)
    BY <1>4, <1>7 DEF Course, Acc
  <2>2. n = Len(block) BY DEF n
  <2> QED BY <2>1, <2>2 DEF B
<1>10. /\ Len(Opening(step)) = 2 /\ Len(a2) = 2 + Len(Telling(step))
       /\ Len(a3) = Len(a2) + Len(Filing(step)) /\ Len(a4) = Len(a3) + Len(Verifying(step))
       /\ n = Len(a4) + Len(Ticking(step))
       /\ Len(Telling(step)) \in Nat /\ Len(Filing(step)) \in Nat
       /\ Len(Verifying(step)) \in Nat /\ Len(Ticking(step)) \in Nat
       /\ Along(G, 0, Opening(step), 2) /\ Along(G, 2, Telling(step), 1)
       /\ Along(G, Len(a2), Filing(step), 1) /\ Along(G, Len(a3), Verifying(step), 1)
       /\ Along(G, Len(a4), Ticking(step), 1)
  <2> DEFINE U == Body(L) \cup {StepHead(step)}
             o == Opening(step)
             b == Telling(step)
             c == Filing(step)
             e == Verifying(step)
             k == Ticking(step)
  <2>1. /\ a2 = o \o b /\ a3 = a2 \o c /\ a4 = a3 \o e /\ block = a4 \o k
        /\ o \in Seq(U) /\ a2 \in Seq(U) /\ a3 \in Seq(U) /\ a4 \in Seq(U)
        /\ b \in Seq(U) /\ c \in Seq(U) /\ e \in Seq(U) /\ k \in Seq(U)
    BY <1>2, Zenon DEF Stacked
  <2>2. /\ Len(o) = 2 /\ Len(a2) = 2 + Len(b) /\ Len(a3) = Len(a2) + Len(c)
        /\ Len(a4) = Len(a3) + Len(e) /\ Len(block) = Len(a4) + Len(k)
    BY <1>2, Zenon DEF Stacked
  <2> HIDE DEF U, o, b, c, e, k
  <2>3. Len(b) \in Nat /\ Len(c) \in Nat /\ Len(e) \in Nat /\ Len(k) \in Nat
    BY <2>1
  <2>4. \A i \in {Len(o), Len(a2), Len(a3), Len(a4)} : i >= 2 BY <2>2, <2>3
  <2>5. Along(G, 0, block, 2)
    <3>1. \A j \in 2 .. Len(block) : G[0 + j] = StepLine(G[0 + j - 1], block[j])
      <4>1. \A j \in 2 .. n : 0 + j = j BY <1>4
      <4> QED BY <1>8, <1>9, <4>1
    <3> QED BY <3>1 DEF Along
  <2>6. Along(G, 0, a4, 2) /\ Along(G, Len(a4), k, 1)
    BY <2>1, <2>4, <2>5, AlongParts
  <2>7. Along(G, 0, a3, 2) /\ Along(G, Len(a3), e, 1)
    BY <2>1, <2>4, <2>6, AlongParts
  <2>8. Along(G, 0, a2, 2) /\ Along(G, Len(a2), c, 1)
    BY <2>1, <2>4, <2>7, AlongParts
  <2>9. Along(G, 0, o, 2) /\ Along(G, 2, b, 1)
    BY <2>1, <2>2, <2>4, <2>8, AlongParts
  <2> QED BY <1>9, <2>2, <2>3, <2>6, <2>7, <2>8, <2>9 DEF o, b, c, e, k
<1>11. Told(G[2], d, 0)
  <2>1. G[2] = StepLine(StepBase(heading), BlankLine)
    <3>1. 2 \in 2 .. n /\ 2 - 1 = 1 BY <1>4
    <3>2. block[2] = BlankLine
      <4> DEFINE U == Body(L) \cup {StepHead(step)}
      <4>1. /\ block = a4 \o Ticking(step) /\ a4 = a3 \o Verifying(step)
            /\ a3 = a2 \o Filing(step) /\ a2 = Opening(step) \o Telling(step)
            /\ Opening(step) \in Seq(U) /\ a2 \in Seq(U) /\ a3 \in Seq(U) /\ a4 \in Seq(U)
            /\ Telling(step) \in Seq(U) /\ Filing(step) \in Seq(U)
            /\ Verifying(step) \in Seq(U) /\ Ticking(step) \in Seq(U)
        BY <1>2, Zenon DEF Stacked
      <4> HIDE DEF U
      <4>2. /\ Joined(block, a4, Ticking(step)) /\ Joined(a4, a3, Verifying(step))
            /\ Joined(a3, a2, Filing(step)) /\ Joined(a2, Opening(step), Telling(step))
        BY <4>1, ConcatParts
      <4>3. Len(Opening(step)) = 2 /\ Len(a2) >= 2 /\ Len(a3) >= 2 /\ Len(a4) >= 2
        BY <1>10
      <4>4. /\ block[2] = a4[2] /\ a4[2] = a3[2] /\ a3[2] = a2[2] /\ a2[2] = Opening(step)[2]
        BY <4>2, <4>3 DEF Joined
      <4>5. Opening(step)[2] = BlankLine BY DEF Opening
      <4> QED BY <4>4, <4>5
    <3> QED BY <1>7, <1>8, <3>1, <3>2
  <2>2. StepLine(StepBase(heading), BlankLine) = StepBase(heading)
    <3>1. BlankLine.is = "blank" BY LineKinds
    <3> DEFINE b == StepBase(heading)
    <3>2. b.region = "metadata" BY DEF StepBase
    <3> HIDE DEF b
    <3>3. StepLine(b, BlankLine) = b BY <3>1, <3>2 DEF StepLine
    <3> QED BY <3>3 DEF b
  <2> DEFINE b == G[2]
  <2>3. b = StepBase(heading) BY <2>1, <2>2
  <2> HIDE DEF b, d
  <2>4. b.region = "metadata" /\ b.step.description = <<>> /\ b.step.checklist = <<>>
    BY <2>3 DEF StepBase, NewStep
  <2>5. Told(b, d, 0) BY <2>4 DEF Told
  <2> QED BY <2>5 DEF b
<1>20. /\ d \in Seq(Clean(L)) /\ Len(d) \in Nat
       /\ d # <<>> => /\ d[1].is \notin Blanks \cup {"indented"}
                       /\ d[Len(d)].is \notin Blanks /\ Len(d) # 0
  <2>1. /\ d \in Seq(Clean(L))
        /\ d # <<>> => /\ d[1].is \notin Blanks \cup {"indented"}
                        /\ d[Len(d)].is \notin Blanks
    BY DEF Renderable
  <2> HIDE DEF d
  <2> QED BY <2>1
<1> HIDE DEF d
<1> DEFINE i2 == 2 + Len(Telling(step))
           i3 == i2 + Len(Filing(step))
           i4 == i3 + Len(Verifying(step))
           i5 == i4 + Len(Ticking(step))
<1>12. /\ 2 \in 1 .. n /\ i2 \in 1 .. n /\ i3 \in 1 .. n /\ i4 \in 1 .. n /\ i5 = n
       /\ i2 <= n /\ i3 <= n /\ i4 <= n /\ i5 <= n
       /\ i2 = Len(a2) /\ i3 = Len(a3) /\ i4 = Len(a4)
  BY <1>4, <1>10
<1>21. /\ Along(G, i2, Filing(step), 1) /\ Along(G, i3, Verifying(step), 1)
       /\ Along(G, i4, Ticking(step), 1)
  BY <1>10, <1>12
<1> HIDE DEF i2, i3, i4, i5
<1>13. Kept(G[i2], d) BY <1>9, <1>10, <1>11, <1>12, TellingRead DEF i2, d
<1>14. Kept(G[i3], d)
  BY <1>9, <1>12, <1>13, <1>20, <1>21, PartsType, KeptAlong DEF i3
<1>15. Kept(G[i4], d)
  BY <1>9, <1>12, <1>14, <1>20, <1>21, PartsType, KeptAlong DEF i4
<1>16. Reread(G[n], d, step.checklist)
  BY <1>9, <1>12, <1>15, <1>21, TickingRead DEF i5
<1> DEFINE s == G[n]
<1>17. s \in Acc /\ now = Parsed(s) /\ Reread(s, d, step.checklist)
  <2>1. n \in 1 .. n BY <1>4
  <2> QED BY <1>7, <1>16, <2>1
<1> HIDE DEF s
<1>18. /\ now.number = heading.number /\ now.title = heading.title
       /\ now.checklist = s.step.checklist /\ now.description = Trimmed(s.step.description)
  <2> DEFINE e == Trimmed(s.step.description)
             v == IF s.verify = <<>> THEN NoValue ELSE Verification(s.verify)
  <2>1. now = [s.step EXCEPT !.description = e, !.verification = v]
    BY <1>17 DEF Parsed
  <2> HIDE DEF e, v
  <2>2. now.description = e BY <1>17, <2>1 DEF Acc, StepAcc
  <2> QED BY <1>17, <2>1, <2>2 DEF Acc, StepAcc, e
<1>19. IsPrefix(d, now.description)
  <2> DEFINE e == s.step.description
             f == Trimmed(e)
  <2>1. e \in Seq(B) /\ Len(e) \in Nat
    <3>1. e \in Seq(B) BY <1>17 DEF Acc, StepAcc
    <3> HIDE DEF e
    <3> QED BY <3>1
  <2>2. Len(d) <= Len(e) /\ \A k \in 1 .. Len(d) : e[k] = d[k]
    BY <1>17 DEF Reread
  <2>3. now.description = f BY <1>18
  <2> HIDE DEF e
  <2>4. f \in Seq(Wide(B)) BY <2>1, TrimmedFacts
  <2>5. /\ f \in Seq(Wide(B)) /\ Len(f) \in Nat /\ Len(d) <= Len(f)
        /\ \A k \in 1 .. Len(d) : f[k] = d[k]
    <3>1. CASE d # <<>>
      <4>1. 1 \in 1 .. Len(d) /\ Len(d) \in 1 .. Len(d) /\ Len(d) \in 1 .. Len(e)
        BY <1>20, <2>1, <2>2, <3>1
      <4>2. e[1].is \notin Blanks \cup {"indented"} /\ e[Len(d)].is \notin Blanks
        BY <1>20, <2>2, <3>1, <4>1
      <4>3. f \in Seq(B) /\ Len(d) <= Len(f) /\ \A k \in 1 .. Len(d) : f[k] = e[k]
        BY <2>1, <4>1, <4>2, TrimmedKeeps
      <4> HIDE DEF f
      <4> QED BY <2>2, <2>4, <4>3
    <3>2. CASE d = <<>>
      <4> HIDE DEF f
      <4> QED BY <2>4, <3>2
    <3> QED BY <3>1, <3>2
  <2> HIDE DEF f
  <2>8. SubSeq(d, 1, Len(d)) = SubSeq(f, 1, Len(d))
    <3> DEFINE x == SubSeq(d, 1, Len(d))
               y == SubSeq(f, 1, Len(d))
    <3>1. x = [k \in 1 .. Len(d) |-> d[k]] BY <1>20
    <3>2. y = [k \in 1 .. Len(d) |-> f[k]] BY <1>20, <2>4, <2>5
    <3> HIDE DEF x, y
    <3>3. x = y BY <2>5, <3>1, <3>2
    <3> QED BY <3>3 DEF x, y
  <2>9. IsPrefix(d, f) BY <2>5, <2>8 DEF IsPrefix
  <2> QED BY <2>3, <2>9
<1> QED BY <1>3, <1>17, <1>18, <1>19 DEF Faithful, Reread, now, d, heading, lines, n, block

\* P stands in z, each of its entries alone at its place, in order.
Marks(z, P, pos) ==
    /\ pos \in [1 .. Len(P) -> 1 .. Len(z)]
    /\ \A j, k \in 1 .. Len(P) : j < k => pos[j] < pos[k]
    /\ \A k \in 1 .. Len(P) : z[pos[k]] = <<P[k]>>
    /\ \A i \in 1 .. Len(z) : (\A k \in 1 .. Len(P) : pos[k] # i) => z[i] = <<>>

\* As many of P as stand up to i.
Upto(f, P, pos, i, c) ==
    /\ c \in 0 .. Len(P) /\ Len(f) = c
    /\ \A k \in 1 .. Len(P) : k <= c <=> pos[k] <= i
    /\ \A k \in 1 .. c : f[k] = P[k]

\* Of sequences of one entry or none, flattening leaves the entries.
LEMMA FlattenMarked ==
    ASSUME NEW M, NEW z \in Seq(Seq(M)), NEW P \in Seq(M), NEW pos, Marks(z, P, pos)
    PROVE  FlattenSeq(z) = P
<1> DEFINE n == Len(z)
           m == Len(P)
<1>1. n \in Nat /\ m \in Nat /\ \A k \in 1 .. m : P[k] \in M OBVIOUS
<1>2. PICK F \in [0 .. n -> Seq(M)] :
          /\ F[0] = <<>>
          /\ \A k \in 1 .. n : F[k] = F[k - 1] \o z[k]
          /\ FlattenSeq(z) = F[n]
  BY FlattenSteps
<1>3. /\ pos \in [1 .. m -> 1 .. n]
      /\ \A j, k \in 1 .. m : j < k => pos[j] < pos[k]
      /\ \A k \in 1 .. m : z[pos[k]] = <<P[k]>>
      /\ \A i \in 1 .. n : (\A k \in 1 .. m : pos[k] # i) => z[i] = <<>>
  BY DEF Marks
<1>4. P = [k \in 1 .. m |-> P[k]] OBVIOUS
<1> HIDE DEF n, m
<1> DEFINE S == {i \in 0 .. n : \E c : Upto(F[i], P, pos, i, c)}
<1>5. 0 \in S
  <2>1. \A k \in 1 .. m : pos[k] \in 1 .. n /\ ~(k <= 0) /\ ~(pos[k] <= 0)
    BY <1>1, <1>3, SMTT(60)
  <2>2. Len(F[0]) = 0 BY <1>2
  <2>3. Upto(F[0], P, pos, 0, 0) BY <1>1, <2>1, <2>2 DEF Upto, m
  <2> QED BY <1>1, <2>3
<1>6. ASSUME NEW i \in Nat, i < n, i \in S PROVE i + 1 \in S
  <2>1. i + 1 \in 1 .. n /\ (i + 1) - 1 = i /\ i \in 0 .. n /\ i + 1 \in 0 .. n
    BY <1>1, <1>6
  <2>2. PICK c : Upto(F[i], P, pos, i, c) BY <1>6
  <2> DEFINE f == F[i]
             g == F[i + 1]
  <2>3. f \in Seq(M) /\ g = f \o z[i + 1] BY <1>2, <2>1
  <2> HIDE DEF S, f, g
  <2>4. /\ c \in 0 .. m /\ c \in Nat /\ Len(f) = c
        /\ \A k \in 1 .. m : k <= c <=> pos[k] <= i
        /\ \A k \in 1 .. c : f[k] = P[k]
    BY <1>1, <2>2 DEF Upto, m, f
  <2>5. CASE \A k \in 1 .. m : pos[k] # i + 1
    <3>1. z[i + 1] = <<>> BY <1>3, <2>1, <2>5
    <3>2. g = f BY <2>3, <3>1
    <3>3. ASSUME NEW k \in 1 .. m PROVE pos[k] <= i <=> pos[k] <= i + 1
      <4>1. pos[k] \in 1 .. n /\ pos[k] \in Nat /\ pos[k] # i + 1
        BY <1>1, <1>3, <2>5
      <4> QED BY <4>1
    <3>4. Upto(g, P, pos, i + 1, c) BY <2>4, <3>2, <3>3 DEF Upto, m
    <3> QED BY <2>1, <3>4 DEF S, g
  <2>6. CASE \E k \in 1 .. m : pos[k] = i + 1
    <3>1. PICK k \in 1 .. m : pos[k] = i + 1 BY <2>6
    <3>2. k = c + 1
      <4>1. ~(pos[k] <= i) /\ ~(k <= c) /\ k > c BY <1>1, <2>4, <3>1
      <4>2. ASSUME k > c + 1 PROVE FALSE
        <5>1. c + 1 \in 1 .. m /\ c + 1 < k BY <1>1, <2>4, <4>2
        <5>2. pos[c + 1] < i + 1 /\ pos[c + 1] \in 1 .. n BY <1>3, <3>1, <5>1
        <5>3. pos[c + 1] <= i BY <1>1, <5>2
        <5> QED BY <2>4, <5>1, <5>3
      <4> QED BY <1>1, <2>4, <4>1, <4>2
    <3>3. z[i + 1] = <<P[c + 1]>> /\ P[c + 1] \in M BY <1>1, <1>3, <3>1, <3>2
    <3>4. /\ Len(g) = c + 1 /\ g[c + 1] = P[c + 1]
          /\ \A j \in 1 .. c : g[j] = f[j]
      <4> DEFINE b == <<P[c + 1]>>
      <4>1. b \in Seq(M) /\ Len(b) = 1 /\ b[1] = P[c + 1] BY <3>3
      <4>2. g = f \o b BY <2>3, <3>3
      <4> HIDE DEF b
      <4>3. Joined(f \o b, f, b) BY <2>3, <4>1, ConcatParts
      <4>4. Joined(g, f, b) BY <4>2, <4>3
      <4> QED BY <2>4, <4>1, <4>4 DEF Joined
    <3>5. ASSUME NEW j \in 1 .. m PROVE j <= c + 1 <=> pos[j] <= i + 1
      <4>1. CASE j <= c BY <1>1, <1>3, <2>4, <4>1
      <4>2. CASE j = c + 1 BY <1>1, <3>1, <3>2, <4>2
      <4>3. CASE j > c + 1
        <5>1. pos[k] < pos[j] /\ pos[j] \in 1 .. n BY <1>3, <3>2, <4>3
        <5> QED BY <1>1, <2>4, <3>1, <4>3, <5>1, SMTT(60)
      <4> QED BY <1>1, <2>4, <4>1, <4>2, <4>3
    <3>6. \A j \in 1 .. c + 1 : g[j] = P[j] BY <2>4, <3>4, SMTT(60)
    <3>7. c + 1 \in 0 .. m BY <1>1, <3>2
    <3>8. Upto(g, P, pos, i + 1, c + 1) BY <3>4, <3>5, <3>6, <3>7 DEF Upto, m
    <3> QED BY <2>1, <3>8 DEF S, g
  <2> QED BY <2>5, <2>6
<1>7. n \in S
  <2> HIDE DEF S
  <2> QED BY <1>1, <1>5, <1>6, Climb
<1>8. PICK c : Upto(F[n], P, pos, n, c) BY <1>7
<1> DEFINE f == F[n]
<1>9. f \in Seq(M) /\ FlattenSeq(z) = f BY <1>1, <1>2
<1> HIDE DEF f
<1>10. c = m /\ Len(f) = c /\ \A k \in 1 .. c : f[k] = P[k]
  <2>1. /\ c \in 0 .. m /\ Len(f) = c
        /\ \A k \in 1 .. m : k <= c <=> pos[k] <= n
        /\ \A k \in 1 .. c : f[k] = P[k]
    BY <1>8 DEF Upto, m, f
  <2>2. m # 0 => m \in 1 .. m /\ pos[m] \in 1 .. n /\ pos[m] <= n BY <1>1, <1>3
  <2> QED BY <1>1, <2>1, <2>2
<1>11. f = [k \in 1 .. m |-> f[k]] BY <1>9, <1>10
<1>12. f = P BY <1>4, <1>10, <1>11
<1> QED BY <1>9, <1>12

\* A document of a front, the rows of q from pos[k] on, and a back.
Laid(doc, front, q, back, pos) ==
    /\ Len(doc) \in Nat /\ Len(q) \in Nat /\ Len(front) \in Nat /\ Len(back) \in Nat
    /\ pos \in [1 .. Len(q) + 1 -> Nat]
    /\ \A k \in 1 .. Len(q) + 1 : Len(front) < pos[k] /\ pos[k] <= pos[Len(q) + 1]
    /\ \A k \in 1 .. Len(q) :
         /\ Len(q[k]) \in Nat /\ pos[k + 1] = pos[k] + Len(q[k])
         /\ \A v \in 1 .. Len(q[k]) : doc[(pos[k] + v) - 1] = q[k][v]
    /\ Len(doc) = (pos[Len(q) + 1] - 1) + Len(back)
    /\ \A v \in 1 .. Len(back) : doc[(pos[Len(q) + 1] + v) - 1] = back[v]
    /\ \A i \in 1 .. Len(doc) :
         \/ i <= Len(front) /\ doc[i] = front[i]
         \/ \E k \in 1 .. Len(q) : \E v \in 1 .. Len(q[k]) : i = (pos[k] + v) - 1
         \/ \E v \in 1 .. Len(back) : i = (pos[Len(q) + 1] + v) - 1

\* Where the blocks of a document stand.
LEMMA DocumentLaid ==
    ASSUME NEW M, NEW front \in Seq(M), NEW q \in Seq(Seq(M)), NEW back \in Seq(M)
    PROVE  \E pos : Laid((front \o FlattenSeq(q)) \o back, front, q, back, pos)
<1> DEFINE n == Len(q)
           a == Len(front)
           mid == FlattenSeq(q)
           top == front \o mid
           doc == top \o back
<1>1. n \in Nat /\ a \in Nat /\ Len(back) \in Nat /\ \A k \in 1 .. n : Len(q[k]) \in Nat
  OBVIOUS
<1>2. PICK F, len, size :
          /\ Rows(n, len, size, F, q)
          /\ len[0] = 0 /\ \A k \in 1 .. n : size[k] = Len(q[k])
          /\ F[n] = mid /\ len[n] = Len(mid)
  BY FlattenRows
<1>3. mid \in Seq(M) BY FlattenType
<1>4. top \in Seq(M) /\ Joined(top, front, mid) /\ doc \in Seq(M) /\ Joined(doc, top, back)
  <2>1. top \in Seq(M) /\ Joined(top, front, mid) BY <1>3, ConcatParts
  <2> HIDE DEF top
  <2> QED BY <2>1, ConcatParts
<1> HIDE DEF n, a, mid, top, doc
<1>5. /\ Len(mid) = len[n] /\ len[n] \in Nat /\ Len(top) = a + len[n]
      /\ Len(doc) = (a + len[n]) + Len(back)
      /\ \A k \in 1 .. a : top[k] = front[k]
      /\ \A k \in 1 .. len[n] : top[a + k] = mid[k]
      /\ \A k \in 1 .. a + len[n] : doc[k] = top[k]
      /\ \A k \in 1 .. Len(back) : doc[(a + len[n]) + k] = back[k]
  <2>1. len[n] \in Nat BY <1>1, <1>2 DEF Rows
  <2> QED BY <1>2, <1>4, <2>1 DEF Joined, a
<1>15. a \in Nat /\ len[n] \in Nat /\ Len(back) \in Nat /\ Len(doc) = (a + len[n]) + Len(back)
  BY <1>1, <1>5
<1> DEFINE pos == [k \in 1 .. n + 1 |-> (a + len[k - 1]) + 1]
<1>6. /\ len \in [0 .. n -> Nat]
      /\ \A k \in 1 .. n : size[k] \in Nat /\ len[k] = len[k - 1] + size[k]
  BY <1>2, SMTT(60) DEF Rows
<1>7. ASSUME NEW k \in 1 .. n + 1 PROVE pos[k] \in Nat /\ a < pos[k] /\ pos[k] <= pos[n + 1]
  <2>1. k - 1 \in 0 .. n /\ len[k - 1] \in Nat /\ n + 1 \in 1 .. n + 1 /\ (n + 1) - 1 = n
    BY <1>1, <1>6
  <2>2. len[k - 1] <= len[n]
    <3>1. CASE k - 1 = 0 BY <1>2, <1>5, <3>1
    <3>2. CASE k - 1 # 0
      <4>1. k - 1 \in 1 .. n /\ n \in 0 .. n /\ k - 1 <= n BY <1>1, <2>1, <3>2
      <4>2. Stays(len, F, k - 1, n) BY <1>2, <4>1, RowsStay
      <4> QED BY <4>1, <4>2 DEF Stays
    <3> QED BY <3>1, <3>2
  <2>3. k \in 1 .. n + 1 /\ pos[k] = (a + len[k - 1]) + 1 /\ pos[n + 1] = (a + len[n]) + 1
    BY <2>1
  <2> DEFINE x == len[k - 1]
             most == len[n]
  <2>4. x \in Nat /\ most \in Nat /\ x <= most /\ a \in Nat BY <1>15, <2>1, <2>2
  <2>5. pos[k] = (a + x) + 1 /\ pos[n + 1] = (a + most) + 1 BY <2>3
  <2> HIDE DEF pos, x, most
  <2>6. (a + x) + 1 \in Nat /\ a < (a + x) + 1 /\ (a + x) + 1 <= (a + most) + 1
    BY <2>4
  <2> QED BY <2>5, <2>6
<1>8. pos[n + 1] = (a + len[n]) + 1 BY <1>1
<1>9. ASSUME NEW k \in 1 .. n
      PROVE  /\ pos[k + 1] = pos[k] + Len(q[k])
             /\ pos[k] = (a + len[k - 1]) + 1 /\ len[k - 1] \in Nat /\ size[k] = Len(q[k])
             /\ \A v \in 1 .. Len(q[k]) : doc[(pos[k] + v) - 1] = q[k][v]
  <2>1. /\ k - 1 \in 0 .. n /\ k \in 0 .. n /\ k \in 1 .. n + 1 /\ k + 1 \in 1 .. n + 1
        /\ (k + 1) - 1 = k /\ n \in 0 .. n /\ k <= n
    BY <1>1
  <2>2. /\ len[k] = len[k - 1] + Len(q[k]) /\ len[k] \in Nat /\ len[k - 1] \in Nat
        /\ size[k] = Len(q[k])
    BY <1>2, <1>6, <2>1
  <2>3. pos[k] = (a + len[k - 1]) + 1 /\ pos[k + 1] = (a + len[k]) + 1 BY <2>1
  <2> HIDE DEF pos
  <2>4. len[k] <= len[n] /\ \A u \in 1 .. len[k] : F[n][u] = F[k][u]
    <3>1. Stays(len, F, k, n) BY <1>2, <2>1, RowsStay
    <3> QED BY <2>1, <3>1 DEF Stays
  <2>5. ASSUME NEW v \in 1 .. Len(q[k]) PROVE doc[(pos[k] + v) - 1] = q[k][v]
    <3>1. /\ len[k - 1] + v \in 1 .. len[k] /\ len[k - 1] + v \in 1 .. len[n]
          /\ (pos[k] + v) - 1 = a + (len[k - 1] + v)
          /\ a + (len[k - 1] + v) \in 1 .. a + len[n]
      <4> DEFINE w == Len(q[k])
      <4>1. w \in Nat /\ v \in 1 .. w /\ len[k] = len[k - 1] + w BY <1>1, <2>2
      <4>2. len[k - 1] \in Nat /\ len[k] <= len[n] /\ pos[k] = (a + len[k - 1]) + 1
        BY <2>2, <2>3, <2>4
      <4> DEFINE x == len[k - 1]
                 y == len[k]
                 most == len[n]
                 here == pos[k]
      <4>3. /\ x \in Nat /\ most \in Nat /\ y <= most /\ y = x + w /\ a \in Nat
            /\ here = (a + x) + 1 /\ w \in Nat /\ v \in 1 .. w
        BY <1>15, <4>1, <4>2
      <4> HIDE DEF w, x, y, most, here
      <4>4. /\ x + v \in 1 .. y /\ x + v \in 1 .. most /\ (here + v) - 1 = a + (x + v)
            /\ a + (x + v) \in 1 .. a + most
        BY <4>3
      <4> QED BY <4>4 DEF x, y, most, here
    <3>2. F[k][len[k - 1] + v] = q[k][v] BY <1>2, <2>2 DEF Rows
    <3>3. mid[len[k - 1] + v] = q[k][v] BY <1>2, <2>4, <3>1, <3>2
    <3> QED BY <1>5, <3>1, <3>3
  <2>6. pos[k + 1] = pos[k] + Len(q[k])
    <3>1. Len(q[k]) \in Nat BY <1>1
    <3> QED BY <1>15, <2>2, <2>3, <3>1, SMTT(60)
  <2> QED BY <2>2, <2>3, <2>5, <2>6
<1>10. pos \in [1 .. n + 1 -> Nat] BY <1>7
<1> HIDE DEF pos
<1>11. ASSUME NEW v \in 1 .. Len(back) PROVE doc[(pos[n + 1] + v) - 1] = back[v]
  <2>1. (pos[n + 1] + v) - 1 = (a + len[n]) + v BY <1>8, <1>15, SMTT(60)
  <2> QED BY <1>5, <2>1
<1>12. ASSUME NEW i \in 1 .. Len(doc)
       PROVE  \/ i <= a /\ doc[i] = front[i]
              \/ \E k \in 1 .. n : \E v \in 1 .. Len(q[k]) : i = (pos[k] + v) - 1
              \/ \E v \in 1 .. Len(back) : i = (pos[n + 1] + v) - 1
  <2>1. CASE i <= a
    <3>1. i \in 1 .. a /\ i \in 1 .. a + len[n] BY <1>15, <2>1
    <3> QED BY <1>5, <2>1, <3>1
  <2>2. CASE a < i /\ i <= a + len[n]
    <3>1. i - a \in 1 .. len[n] BY <1>15, <2>2
    <3>4. PICK k \in 1 .. n : \E v \in 1 .. size[k] : i - a = len[k - 1] + v
      BY <1>2, <3>1, RowsCover, SMTT(60)
    <3>2. PICK v \in 1 .. size[k] : i - a = len[k - 1] + v BY <3>4
    <3>3. v \in 1 .. Len(q[k]) /\ i = (pos[k] + v) - 1
      <4>1. size[k] = Len(q[k]) /\ pos[k] = (a + len[k - 1]) + 1 /\ len[k - 1] \in Nat
        BY <1>9
      <4>2. v \in Int /\ i \in Int /\ i = a + (len[k - 1] + v)
        <5>1. size[k] \in Nat BY <1>6
        <5> QED BY <1>15, <3>2, <4>1, <5>1, SMTT(60)
      <4> QED BY <1>15, <4>1, <4>2, SMTT(60)
    <3> QED BY <3>3
  <2>3. CASE a + len[n] < i
    <3>1. i - (a + len[n]) \in 1 .. Len(back) /\ i = (pos[n + 1] + (i - (a + len[n]))) - 1
      BY <1>8, <1>15, <2>3, SMTT(60)
    <3> QED BY <3>1
  <2> QED BY <1>15, <2>1, <2>2, <2>3
<1>13. Len(doc) \in Nat /\ Len(doc) = (pos[n + 1] - 1) + Len(back)
  BY <1>8, <1>15
<1>14. Laid(doc, front, q, back, pos)
  BY <1>1, <1>7, <1>9, <1>10, <1>11, <1>12, <1>13 DEF Laid, n, a
<1> QED BY <1>14 DEF doc, top, mid

\* The least element is the minimum.
LEMMA LeastIs ==
    ASSUME NEW S, S \in SUBSET Nat, NEW x \in S, \A y \in S : x <= y
    PROVE  Min(S) = x
<1>1. Min(S) \in S /\ \A y \in S : Min(S) <= y BY DEF Min
<1>2. Min(S) <= x /\ x <= Min(S) /\ x \in Nat /\ Min(S) \in Nat BY <1>1
<1> QED BY <1>2

\* A step ends before the first heading or rule after it.
LEMMA StepEndIs ==
    ASSUME NEW doc, Len(doc) \in Nat, NEW i \in 1 .. Len(doc), NEW j \in i + 1 .. Len(doc),
           doc[j].is \in HeadingOrRule,
           \A l \in i + 1 .. j - 1 : doc[l].is \notin HeadingOrRule
    PROVE  StepEnd(doc, i) = j - 1
<1> DEFINE ends == { l \in i + 1 .. Len(doc) : doc[l].is \in HeadingOrRule }
<1>1. j \in ends /\ ends # {} /\ ends \in SUBSET Nat OBVIOUS
<1>2. ASSUME NEW l \in ends PROVE j <= l
  <2>1. l \in i + 1 .. Len(doc) /\ doc[l].is \in HeadingOrRule OBVIOUS
  <2>2. ASSUME ~(j <= l) PROVE FALSE
    <3>1. l \in i + 1 .. j - 1 BY <2>1, <2>2
    <3> QED BY <2>1, <3>1
  <2> QED BY <2>2
<1>3. StepEnd(doc, i) = Min(ends) - 1 BY <1>1 DEF StepEnd
<1> HIDE DEF ends
<1>4. Min(ends) = j BY <1>1, <1>2, LeastIs
<1> QED BY <1>3, <1>4

\* A block of lines that parse_handoff takes for one step.
Headed(block) ==
    /\ IsStep(block[1]) /\ Len(block) >= 1
    /\ \A v \in 2 .. Len(block) : block[v].is \notin HeadingOrRule

\* The step it takes it for.
StepOf(block) == ParseStep(block[1].of, SubSeq(block, 2, Len(block)))

\* A document of a front, blocks that are steps, and a back that begins at a
\* heading or a rule.
Composed(M, front, q, back) ==
    /\ front \in Seq(M) /\ q \in Seq(Seq(M)) /\ back \in Seq(M)
    /\ \A i \in 1 .. Len(front) : front[i].is # "step"
    /\ \A i \in 1 .. Len(back) : back[i].is # "step"
    /\ Len(back) >= 1 /\ back[1].is \in HeadingOrRule
    /\ \A k \in 1 .. Len(q) : Headed(q[k])

\* parse_handoff finds in such a document the blocks' steps, in their
\* order, and no others.
LEMMA DocumentSteps ==
    ASSUME NEW M, NEW front, NEW q, NEW back, Composed(M, front, q, back)
    PROVE  ExtractSteps((front \o FlattenSeq(q)) \o back) = [k \in 1 .. Len(q) |-> StepOf(q[k])]
<1>17. /\ front \in Seq(M) /\ q \in Seq(Seq(M)) /\ back \in Seq(M)
       /\ \A i \in 1 .. Len(front) : front[i].is # "step"
       /\ \A i \in 1 .. Len(back) : back[i].is # "step"
       /\ Len(back) >= 1 /\ back[1].is \in HeadingOrRule
       /\ \A k \in 1 .. Len(q) : Headed(q[k])
  BY DEF Composed
<1> USE <1>17
<1> DEFINE doc == (front \o FlattenSeq(q)) \o back
           n == Len(q)
           m == Len(doc)
           P == [k \in 1 .. n |-> StepOf(q[k])]
           z == [i \in 1 .. m |-> StepAt(doc, i)]
<1>1. PICK pos : Laid(doc, front, q, back, pos) BY DocumentLaid
<1>0. doc \in Seq(M)
  <2>1. FlattenSeq(q) \in Seq(M) BY FlattenType
  <2> DEFINE mid == FlattenSeq(q)
  <2>2. mid \in Seq(M) BY <2>1
  <2> HIDE DEF mid
  <2>3. (front \o mid) \o back \in Seq(M) BY <2>2
  <2> QED BY <2>3 DEF mid
<1>2. ExtractSteps(doc) = FlattenSeq(z) BY DEF ExtractSteps
<1> HIDE DEF doc
<1> DEFINE end == pos[n + 1]
<1>3. /\ m \in Nat /\ n \in Nat /\ Len(front) \in Nat /\ Len(back) \in Nat /\ end \in Nat
      /\ m = (end - 1) + Len(back)
      /\ \A k \in 1 .. n + 1 : pos[k] \in Nat /\ Len(front) < pos[k] /\ pos[k] <= end
      /\ \A k \in 1 .. n : Len(q[k]) \in Nat /\ pos[k + 1] = pos[k] + Len(q[k])
  <2>1. Len(q) \in Nat /\ Len(q) + 1 \in 1 .. Len(q) + 1 BY <1>1 DEF Laid
  <2> QED BY <1>1, <2>1 DEF Laid
<1>4. /\ \A k \in 1 .. n : \A v \in 1 .. Len(q[k]) : doc[(pos[k] + v) - 1] = q[k][v]
      /\ \A v \in 1 .. Len(back) : doc[(end + v) - 1] = back[v]
      /\ \A i \in 1 .. m :
           \/ i <= Len(front) /\ doc[i] = front[i]
           \/ \E k \in 1 .. n : \E v \in 1 .. Len(q[k]) : i = (pos[k] + v) - 1
           \/ \E v \in 1 .. Len(back) : i = (end + v) - 1
  BY <1>1, SMTT(60) DEF Laid
<1>5. \A k \in 1 .. n : Len(q[k]) >= 1 BY DEF Headed
<1> HIDE DEF n, m, end
<1>14. \A k \in 1 .. n : Headed(q[k]) BY DEF n
<1>15. n + 1 \in 1 .. n + 1 /\ pos[n + 1] = end /\ \A k \in 1 .. n : k \in 1 .. n + 1 /\ k + 1 \in 1 .. n + 1
  BY <1>3 DEF end
<1>6. \A k \in 1 .. n : pos[k] \in 1 .. m /\ pos[k + 1] \in pos[k] + 1 .. m
  <2> TAKE k \in 1 .. n
  <2> DEFINE x == pos[k]
             y == pos[k + 1]
             w == Len(q[k])
             b == Len(back)
             a == Len(front)
  <2>1. /\ x \in Nat /\ y \in Nat /\ w \in Nat /\ b \in Nat /\ a \in Nat /\ w >= 1 /\ b >= 1
        /\ a < x /\ y = x + w /\ y <= end /\ m = (end - 1) + b
    BY <1>3, <1>5, <1>15
  <2> HIDE DEF x, y, w, b, a
  <2>2. x \in 1 .. m /\ y \in x + 1 .. m BY <1>3, <2>1
  <2> QED BY <2>2 DEF x, y
<1>7. \A k \in 1 .. n + 1 : doc[pos[k]].is \in HeadingOrRule
  <2> TAKE k \in 1 .. n + 1
  <2>1. CASE k = n + 1
    <3>1. 1 \in 1 .. Len(back) /\ (end + 1) - 1 = end BY <1>3
    <3>2. doc[end] = back[1] BY <1>4, <3>1
    <3> QED BY <1>15, <2>1, <3>2
  <2>2. CASE k # n + 1
    <3>1. k \in 1 .. n BY <1>3, <2>2
    <3>2. 1 \in 1 .. Len(q[k]) /\ (pos[k] + 1) - 1 = pos[k]
      BY <1>3, <1>5, <3>1, SMTT(60)
    <3>3. doc[pos[k]] = q[k][1] BY <1>4, <3>1, <3>2
    <3>4. q[k][1].is = "step" BY <1>14, <3>1 DEF Headed, IsStep
    <3> QED BY <3>3, <3>4 DEF HeadingOrRule
  <2> QED BY <2>1, <2>2
<1>8. ASSUME NEW k \in 1 .. n
      PROVE  StepAt(doc, pos[k]) = <<P[k]>> /\ StepEnd(doc, pos[k]) = pos[k + 1] - 1
  <2> DEFINE x == pos[k]
             y == pos[k + 1]
             w == Len(q[k])
  <2>14. x \in Nat /\ y \in Nat /\ w \in Nat /\ w >= 1 /\ y = x + w
    <3>1. k \in 1 .. n + 1 /\ k + 1 \in 1 .. n + 1 BY <1>15
    <3>2. x \in Nat /\ y \in Nat BY <1>3, <3>1
    <3> QED BY <1>3, <1>5, <3>2
  <2>1. m \in Nat /\ x \in 1 .. m /\ y \in x + 1 .. m BY <1>3, <1>6, SMTT(60)
  <2>2. \A v \in 1 .. w : doc[(x + v) - 1] = q[k][v] BY <1>4
  <2>3. IsStep(q[k][1]) /\ \A v \in 2 .. w : q[k][v].is \notin HeadingOrRule
    BY <1>14 DEF Headed
  <2>10. doc[y].is \in HeadingOrRule BY <1>7, <1>15
  <2>11. q[k] \in Seq(M) BY DEF n
  <2> DEFINE block == q[k]
  <2>12. block \in Seq(M) /\ w = Len(block) /\ P[k] = StepOf(block) BY <2>11
  <2> HIDE DEF x, y, w
  <2>4. \A l \in x + 1 .. y - 1 : doc[l].is \notin HeadingOrRule
    <3> TAKE l \in x + 1 .. y - 1
    <3>1. (l - x) + 1 \in 2 .. w /\ (l - x) + 1 \in 1 .. w /\ (x + ((l - x) + 1)) - 1 = l
      BY <2>14
    <3> QED BY <2>2, <2>3, <3>1
  <2>5. StepEnd(doc, x) = y - 1
    BY <1>3, <2>1, <2>4, <2>10, <2>14, StepEndIs DEF m
  <2>6. doc[x] = block[1]
    <3>1. 1 \in 1 .. w /\ (x + 1) - 1 = x BY <2>14
    <3> QED BY <2>2, <3>1
  <2> HIDE DEF block, P
  <2>13. block \in Seq(M) /\ w = Len(block) /\ P[k] = StepOf(block)
         /\ \A v \in 1 .. w : doc[(x + v) - 1] = block[v]
    BY <2>2, <2>12 DEF block
  <2>7. SubSeq(doc, x + 1, y - 1) = SubSeq(block, 2, w)
    <3> DEFINE s == SubSeq(doc, x + 1, y - 1)
               t == SubSeq(block, 2, w)
    <3>1. x + 1 \in 1 .. m + 1 /\ y - 1 \in 0 .. m /\ (y - 1) - (x + 1) + 1 = w - 1
      BY <2>1, <2>14
    <3>2. /\ Len(s) = w - 1 /\ s \in Seq(M)
          /\ \A u \in 1 .. w - 1 : s[u] = doc[(x + 1) + u - 1]
      BY <1>0, <2>1, <2>14, <3>1 DEF m
    <3>3. /\ Len(t) = w - 1 /\ t \in Seq(M)
          /\ \A u \in 1 .. w - 1 : t[u] = block[2 + u - 1]
      BY <2>13, <2>14, SMTT(60)
    <3> HIDE DEF s, t
    <3>4. \A u \in 1 .. w - 1 : s[u] = t[u]
      <4> TAKE u \in 1 .. w - 1
      <4>1. u + 1 \in 1 .. w /\ (x + (u + 1)) - 1 = (x + 1) + u - 1 /\ 2 + u - 1 = u + 1
        BY <2>14
      <4>2. doc[(x + (u + 1)) - 1] = block[u + 1] BY <2>13, <4>1
      <4> QED BY <3>2, <3>3, <4>1, <4>2
    <3>5. s = [u \in 1 .. w - 1 |-> s[u]] /\ t = [u \in 1 .. w - 1 |-> t[u]]
      BY <3>2, <3>3
    <3>6. s = t BY <3>4, <3>5
    <3> QED BY <3>6 DEF s, t
  <2>8. StepAt(doc, x) = <<P[k]>>
    <3>1. IsStep(doc[x]) BY <2>3, <2>6 DEF block
    <3>2. ParseStep(doc[x].of, SubSeq(doc, x + 1, StepEnd(doc, x))) = P[k]
      BY <2>5, <2>6, <2>7, <2>13, Zenon DEF StepOf
    <3> QED BY <3>1, <3>2, Zenon DEF StepAt
  <2> QED BY <2>5, <2>8 DEF x, y
<1>9. ASSUME NEW i \in 1 .. m, \A k \in 1 .. n : pos[k] # i PROVE StepAt(doc, i) = <<>>
  <2>1. ~IsStep(doc[i])
    <3>1. CASE i <= Len(front) /\ doc[i] = front[i]
      <4>1. i \in 1 .. Len(front) BY <1>3, <3>1
      <4> QED BY <3>1, <4>1 DEF IsStep
    <3>2. CASE \E k \in 1 .. n : \E v \in 1 .. Len(q[k]) : i = (pos[k] + v) - 1
      <4>1. PICK k \in 1 .. n : \E v \in 1 .. Len(q[k]) : i = (pos[k] + v) - 1
        BY <3>2
      <4>2. PICK v \in 1 .. Len(q[k]) : i = (pos[k] + v) - 1 BY <4>1
      <4>3. pos[k] \in Nat /\ Len(q[k]) \in Nat /\ pos[k] # i
        BY <1>3, <1>9, <1>15
      <4>4. v \in 2 .. Len(q[k]) BY <4>2, <4>3, SMTT(60)
      <4>5. doc[i] = q[k][v] BY <1>4, <4>2
      <4>6. q[k][v].is \notin HeadingOrRule BY <1>14, <4>4 DEF Headed
      <4> QED BY <4>5, <4>6 DEF HeadingOrRule, IsStep
    <3>3. CASE \E v \in 1 .. Len(back) : i = (end + v) - 1
      <4>1. PICK v \in 1 .. Len(back) : i = (end + v) - 1 BY <3>3
      <4>2. doc[i] = back[v] BY <1>4, <4>1
      <4> QED BY <4>2 DEF IsStep
    <3> QED BY <1>4, <3>1, <3>2, <3>3
  <2> QED BY <2>1, Zenon DEF StepAt
<1>10. \A j, k \in 1 .. n : j < k => pos[j] < pos[k]
  <2> SUFFICES ASSUME NEW j \in 1 .. n, NEW k \in 1 .. n, j < k PROVE pos[j] < pos[k]
    OBVIOUS
  <2> DEFINE S == {l \in Nat : j < l => pos[j] < pos[l]}
  <2>1. 0 \in S BY <1>3
  <2>2. ASSUME NEW l \in Nat, l < k, l \in S PROVE l + 1 \in S
    <3>1. CASE l < j BY <1>3, <3>1
    <3>2. CASE l >= j
      <4>1. l \in 1 .. n BY <1>3, <2>2, <3>2, SMTT(60)
      <4> DEFINE x == pos[j]
                 y == pos[l]
                 w == Len(q[l])
      <4>2. /\ x \in Nat /\ y \in Nat /\ w \in Nat /\ w >= 1 /\ pos[l + 1] = y + w
            /\ j < l => x < y
        <5>1. l \in 1 .. n + 1 /\ j \in 1 .. n + 1 BY <1>15, <4>1
        <5>2. x \in Nat /\ y \in Nat BY <1>3, <5>1, SMTT(60)
        <5>3. w \in Nat /\ w >= 1 /\ pos[l + 1] = y + w BY <1>3, <1>5, <4>1
        <5> QED BY <2>2, <5>2, <5>3
      <4>3. l = j => x = y OBVIOUS
      <4> HIDE DEF x, y, w
      <4>4. x <= y BY <1>3, <3>2, <4>2, <4>3
      <4>5. x < y + w BY <4>2, <4>4
      <4> QED BY <4>2, <4>5 DEF x
    <3> QED BY <1>3, <3>1, <3>2
  <2> HIDE DEF S
  <2>3. k \in S BY <1>3, <2>1, <2>2, Climb
  <2> QED BY <2>3 DEF S
<1> DEFINE at == [k \in 1 .. n |-> pos[k]]
           N == {P[k] : k \in 1 .. n}
<1>11. P \in Seq(N) /\ Len(P) = n
  <2>1. P = [k \in 1 .. n |-> P[k]] /\ \A k \in 1 .. n : P[k] \in N OBVIOUS
  <2> HIDE DEF P, N
  <2> QED BY <1>3, <2>1, ListFrom
<1>12. z \in Seq(Seq(N)) /\ Len(z) = m
  <2>1. ASSUME NEW i \in 1 .. m PROVE z[i] \in Seq(N)
    <3>1. z[i] = StepAt(doc, i) OBVIOUS
    <3>2. CASE \E k \in 1 .. n : pos[k] = i
      <4>1. PICK k \in 1 .. n : pos[k] = i BY <3>2
      <4>2. z[i] = <<P[k]>> /\ P[k] \in N BY <1>8, <3>1, <4>1
      <4> HIDE DEF z, P, N
      <4> QED BY <4>2
    <3>3. CASE \A k \in 1 .. n : pos[k] # i
      <4>1. z[i] = <<>> BY <1>9, <3>1, <3>3
      <4> HIDE DEF z, P, N
      <4> QED BY <4>1
    <3> QED BY <3>2, <3>3
  <2>2. z = [i \in 1 .. m |-> z[i]] OBVIOUS
  <2> DEFINE R == Seq(N)
  <2>3. m \in Nat /\ \A i \in 1 .. m : z[i] \in R BY <1>3, <2>1
  <2> HIDE DEF z, P, N, R
  <2>4. z \in Seq(R) /\ Len(z) = m BY <2>2, <2>3, ListFrom
  <2> QED BY <2>4 DEF R
<1>13. Marks(z, P, at)
  <2>1. at \in [1 .. n -> 1 .. m] /\ \A k \in 1 .. n : at[k] = pos[k] BY <1>6
  <2>2. \A k \in 1 .. n : z[at[k]] = <<P[k]>> BY <1>6, <1>8
  <2>3. \A i \in 1 .. m : (\A k \in 1 .. n : at[k] # i) => z[i] = <<>> BY <1>9
  <2> HIDE DEF z, P, at
  <2>4. \A j, k \in 1 .. n : j < k => at[j] < at[k] BY <1>10, <2>1
  <2> QED BY <1>11, <1>12, <2>1, <2>2, <2>3, <2>4 DEF Marks
<1> HIDE DEF z, P, at, N
<1>16. FlattenSeq(z) = P BY <1>11, <1>12, <1>13, FlattenMarked
<1> QED BY <1>2, <1>16 DEF P, n, doc

\* Concatenation associates.
LEMMA ConcatAssociates ==
    ASSUME NEW M, NEW a \in Seq(M), NEW b \in Seq(M), NEW c \in Seq(M)
    PROVE  (a \o b) \o c = a \o (b \o c)
  BY SMTT(60)

\* A piece: what render.rs writes before its steps, and what after them.
TitleLine(x) == Line("title", x)
ProblemHead == Line("section", "Problem")
StepsHead == Line("section", "Steps")
CompletionHead == Line("section", "Completion Protocol")
ContextHead == Line("section", "Context")
ChildLine == Line("text", "child piece")
RunAllLine == Line("text", "run all")
FromLine == Line("text", "decomposed from")
DependsLine == Line("text", "depends on pieces")

Leading(handoff) ==
    << TitleLine(handoff.title), ProblemHead, ChildLine,
       StepsHead >>

Closing ==
    << CompletionHead, RunAllLine, ContextHead,
       FromLine >>

Back(piece) == Closing \o When(piece.depends # {}, << DependsLine >>)

Blocks(handoff, piece) == [k \in DOMAIN piece.steps |-> RenderStep(handoff.steps[piece.steps[k]])]

\* The lines of the frame.
Frame(handoff) ==
    { TitleLine(handoff.title), ProblemHead, ChildLine,
      StepsHead, CompletionHead, RunAllLine,
      ContextHead, FromLine, DependsLine }

Noted == << DependsLine >>

\* No line of the frame begins a step, and the first after the steps is a
\* heading.
LEMMA FrameFacts ==
    ASSUME NEW handoff, NEW piece
    PROVE  /\ Leading(handoff) \in Seq(Frame(handoff)) /\ Closing \in Seq(Frame(handoff))
           /\ When(piece.depends # {}, Noted) \in Seq(Frame(handoff))
           /\ Back(piece) \in Seq(Frame(handoff)) /\ Len(Back(piece)) >= 1
           /\ Back(piece)[1].is \in HeadingOrRule
           /\ \A line \in Frame(handoff) : line.is # "step"
<1> DEFINE W == Frame(handoff)
           when == When(piece.depends # {}, Noted)
<1>1. /\ TitleLine(handoff.title) \in W /\ ProblemHead \in W
      /\ ChildLine \in W /\ StepsHead \in W
      /\ CompletionHead \in W /\ RunAllLine \in W
      /\ ContextHead \in W /\ FromLine \in W
      /\ DependsLine \in W
  BY Zenon DEF Frame
<1>2. /\ TitleLine(handoff.title).is = "title"
      /\ \A line \in {ProblemHead, StepsHead, CompletionHead, ContextHead} : line.is = "section"
      /\ \A line \in {ChildLine, RunAllLine, FromLine, DependsLine} : line.is = "text"
  <2>1. TitleLine(handoff.title).is = "title" BY DEF TitleLine, Line
  <2>2. /\ ProblemHead.is = "section" /\ StepsHead.is = "section"
        /\ CompletionHead.is = "section" /\ ContextHead.is = "section"
    BY DEF ProblemHead, StepsHead, CompletionHead, ContextHead, Line
  <2>3. /\ ChildLine.is = "text" /\ RunAllLine.is = "text"
        /\ FromLine.is = "text" /\ DependsLine.is = "text"
    BY DEF ChildLine, RunAllLine, FromLine, DependsLine, Line
  <2> QED BY <2>1, <2>2, <2>3
<1>3. \A line \in W : line.is \in {"title", "section", "text"} BY <1>2 DEF Frame
<1> HIDE DEF W
<1>4. Leading(handoff) \in Seq(W) BY <1>1 DEF Leading
<1>5. Closing \in Seq(W) /\ Len(Closing) = 4 /\ Closing[1] = CompletionHead
  BY <1>1 DEF Closing
<1>6. when \in Seq(W)
  <2>1. Noted \in Seq(W) BY <1>1 DEF Noted
  <2> QED BY <2>1, WhenType
<1>7. Back(piece) = Closing \o when BY Zenon DEF Back, Noted
<1> HIDE DEF when
<1>8. Back(piece) \in Seq(W) /\ Len(Back(piece)) >= 1 /\ Back(piece)[1] = Closing[1]
  <2>1. Joined(Closing \o when, Closing, when) /\ Closing \o when \in Seq(W)
    BY <1>5, <1>6, ConcatParts
  <2>2. Len(Closing \o when) = 4 + Len(when) /\ Len(when) \in Nat
        /\ (Closing \o when)[1] = Closing[1]
    BY <1>5, <1>6, <2>1 DEF Joined
  <2> QED BY <1>7, <2>1, <2>2
<1>9. Back(piece)[1].is = "section" BY <1>2, <1>5, <1>8
<1> QED BY <1>3, <1>4, <1>5, <1>6, <1>8, <1>9 DEF W, when, HeadingOrRule

\* A rendered piece is its front, its steps and its back.
LEMMA RenderFrame ==
    ASSUME NEW M, NEW handoff, NEW piece, FlattenSeq(Blocks(handoff, piece)) \in Seq(M),
           Frame(handoff) \subseteq M
    PROVE  Render(handoff, piece) =
               (Leading(handoff) \o FlattenSeq(Blocks(handoff, piece))) \o Back(piece)
<1> DEFINE front == Leading(handoff)
           mid == FlattenSeq(Blocks(handoff, piece))
           when == When(piece.depends # {}, Noted)
<1>1. Render(handoff, piece) = ((front \o mid) \o Closing) \o when
  BY Zenon DEF Render, Leading, Closing, Blocks, Noted, TitleLine,
            ProblemHead, StepsHead, CompletionHead, ContextHead, ChildLine, RunAllLine, FromLine,
            DependsLine
<1>2. front \in Seq(M) /\ Closing \in Seq(M) /\ when \in Seq(M) /\ mid \in Seq(M)
  <2>1. /\ front \in Seq(Frame(handoff)) /\ Closing \in Seq(Frame(handoff))
        /\ when \in Seq(Frame(handoff))
    BY FrameFacts
  <2> HIDE DEF front, mid, when
  <2> DEFINE W == Frame(handoff)
  <2>2. W \in SUBSET M OBVIOUS
  <2>4. front \in Seq(W) /\ Closing \in Seq(W) /\ when \in Seq(W) BY <2>1
  <2> HIDE DEF W
  <2>3. mid \in Seq(M) BY DEF mid
  <2> QED BY <2>2, <2>3, <2>4, SeqSubset
<1>3. Back(piece) = Closing \o when BY Zenon DEF Back, Noted
<1> HIDE DEF front, mid, when
<1> DEFINE top == front \o mid
<1>4. top \in Seq(M) BY <1>2
<1> HIDE DEF top
<1>5. (top \o Closing) \o when = top \o (Closing \o when)
  BY <1>2, <1>4, ConcatAssociates, SMTT(60)
<1> QED BY <1>1, <1>3, <1>5, Zenon DEF top, front, mid

\* A piece of n steps that were parsed of lines of L.
PieceMade(handoff, piece, n, L) ==
    /\ n \in Nat /\ DOMAIN piece.steps = 1 .. n
    /\ \A k \in 1 .. n : /\ Renderable(handoff.steps[piece.steps[k]], L)
                         /\ handoff.steps[piece.steps[k]].number # NoNumber

\* The steps parse_handoff finds in a rendered piece.
LEMMA RenderSteps ==
    ASSUME NEW L, NEW handoff, NEW piece, NEW n, PieceMade(handoff, piece, n, L)
    PROVE  ExtractSteps(Render(handoff, piece)) =
               [k \in 1 .. n |-> StepOf(RenderStep(handoff.steps[piece.steps[k]]))]
<1>14. /\ n \in Nat /\ DOMAIN piece.steps = 1 .. n
       /\ \A k \in 1 .. n : /\ Renderable(handoff.steps[piece.steps[k]], L)
                            /\ handoff.steps[piece.steps[k]].number # NoNumber
  BY DEF PieceMade
<1> USE <1>14
<1> DEFINE q == Blocks(handoff, piece)
           S(k) == handoff.steps[piece.steps[k]]
           Heads == { StepHead(S(k)) : k \in 1 .. n }
           W == Frame(handoff)
           M == (Body(L) \cup Heads) \cup W
<1>1. q = [k \in 1 .. n |-> RenderStep(S(k))] BY DEF Blocks
<1>2. ASSUME NEW k \in 1 .. n PROVE RenderStep(S(k)) \in Seq(M) /\ Headed(RenderStep(S(k)))
  <2> DEFINE step == S(k)
             block == RenderStep(step)
             B == Body(L)
             N == B \cup {StepHead(step)}
  <2>1. Block(block, step, L) BY BlockParts
  <2>2. step.number # NoNumber /\ StepHead(step) \in Heads OBVIOUS
  <2> HIDE DEF block, step, Heads, W
  <2>3. N \in SUBSET M BY <2>2
  <2>4. \A line \in B : line.is \notin HeadingOrRule BY PrintedKinds
  <2> HIDE DEF B, M
  <2>5. /\ block \in Seq(N) /\ Len(block) >= 2 /\ block[1] = StepHead(step)
        /\ \A v \in 2 .. Len(block) : block[v] \in B
    BY <2>1 DEF Block, B
  <2>6. block \in Seq(M)
    <3> HIDE DEF N
    <3> QED BY <2>3, <2>5, SeqSubset
  <2>7. IsStep(block[1])
    <3>1. StepHead(step).is = "step" /\ StepHead(step).of.number = step.number
      BY DEF StepHead, Line
    <3> QED BY <2>2, <2>5, <3>1 DEF IsStep
  <2>8. Headed(block) BY <2>4, <2>5, <2>7 DEF Headed
  <2> QED BY <2>6, <2>8 DEF block, step
<1> HIDE DEF S, M
<1>3. q \in Seq(Seq(M)) /\ Len(q) = n
  <2> DEFINE R == Seq(M)
  <2>1. q = [k \in 1 .. n |-> q[k]] /\ \A k \in 1 .. n : q[k] \in R
    BY <1>1, <1>2
  <2> HIDE DEF R, q
  <2>2. q \in Seq(R) /\ Len(q) = n BY <2>1, ListFrom
  <2> QED BY <2>2 DEF R
<1> HIDE DEF q
<1>4. FlattenSeq(q) \in Seq(M) BY <1>3, FlattenType
<1>5. W \in SUBSET M BY DEF M
<1>6. Render(handoff, piece) = (Leading(handoff) \o FlattenSeq(q)) \o Back(piece)
  BY <1>4, <1>5, RenderFrame DEF q
<1>7. /\ Leading(handoff) \in Seq(W) /\ Back(piece) \in Seq(W) /\ Len(Back(piece)) >= 1
      /\ Back(piece)[1].is \in HeadingOrRule
      /\ \A line \in W : line.is # "step"
  BY FrameFacts
<1> DEFINE front == Leading(handoff)
           back == Back(piece)
<1>8. /\ front \in Seq(W) /\ back \in Seq(W) /\ Len(back) >= 1 /\ back[1].is \in HeadingOrRule
      /\ \A line \in W : line.is # "step"
  BY <1>7
<1>9. Render(handoff, piece) = (front \o FlattenSeq(q)) \o back BY <1>6
<1> HIDE DEF front, back, W
<1>10. /\ front \in Seq(M) /\ back \in Seq(M)
       /\ \A i \in 1 .. Len(front) : front[i].is # "step"
       /\ \A i \in 1 .. Len(back) : back[i].is # "step"
  <2>1. front \in Seq(M) /\ back \in Seq(M) BY <1>5, <1>8, SeqSubset
  <2>2. \A i \in 1 .. Len(front) : front[i] \in W BY <1>8
  <2>3. \A i \in 1 .. Len(back) : back[i] \in W BY <1>8
  <2> QED BY <1>8, <2>1, <2>2, <2>3
<1>11. \A k \in 1 .. Len(q) : Headed(q[k]) BY <1>1, <1>2, <1>3
<1>12. ExtractSteps((front \o FlattenSeq(q)) \o back) = [k \in 1 .. Len(q) |-> StepOf(q[k])]
  <2>1. Composed(M, front, q, back) BY <1>3, <1>8, <1>10, <1>11 DEF Composed
  <2> QED BY <2>1, DocumentSteps
<1>13. [k \in 1 .. Len(q) |-> StepOf(q[k])] = [k \in 1 .. n |-> StepOf(RenderStep(S(k)))]
  <2>1. \A k \in 1 .. n : q[k] = RenderStep(S(k)) BY <1>1
  <2>2. \A k \in 1 .. n : StepOf(q[k]) = StepOf(RenderStep(S(k))) BY <2>1, Zenon
  <2>3. Len(q) = n BY <1>3
  <2> QED BY <2>2, <2>3, Zenon
<1> QED BY <1>9, <1>12, <1>13 DEF S

\* Up to its end a step has no heading and no rule.
LEMMA StepEndClear ==
    ASSUME NEW doc, Len(doc) \in Nat, NEW i \in 1 .. Len(doc)
    PROVE  \A l \in i + 1 .. StepEnd(doc, i) : doc[l].is \notin HeadingOrRule
<1> DEFINE ends == { j \in i + 1 .. Len(doc) : doc[j].is \in HeadingOrRule }
<1>1. StepEnd(doc, i) \in i .. Len(doc) BY StepEndFacts
<1>2. SUFFICES ASSUME NEW l \in i + 1 .. StepEnd(doc, i), doc[l].is \in HeadingOrRule PROVE FALSE
  OBVIOUS
<1>3. l \in ends
  <2>1. l \in i + 1 .. Len(doc) BY <1>1
  <2> QED BY <1>2, <2>1
<1>4. PICK x \in ends : \A y \in ends : x <= y
  <2>1. ends \in SUBSET Nat /\ ends # {} BY <1>3
  <2> HIDE DEF ends
  <2> QED BY <2>1, LeastNumber
<1>5. StepEnd(doc, i) = Min(ends) - 1 /\ ends \in SUBSET Nat BY <1>3 DEF StepEnd
<1> HIDE DEF ends
<1>6. Min(ends) = x /\ x <= l /\ x \in Nat BY <1>3, <1>4, <1>5, LeastIs
<1> QED BY <1>1, <1>5, <1>6

\* The lines of a document a step can be made of.
Prose(doc) == { line \in { doc[i] : i \in 1 .. Len(doc) } : line.is \notin HeadingOrRule }

\* Steps a piece can be rendered from.
RenderableSteps(steps, L) ==
    \A i \in DOMAIN steps : /\ BeginsPlainly(steps[i]) => Renderable(steps[i], L)
                            /\ steps[i].number # NoNumber

\* What parse_handoff makes of a draft's steps can be rendered.
LEMMA DraftSteps ==
    ASSUME NEW doc, IsDraft(doc)
    PROVE  RenderableSteps(ExtractSteps(doc), Wide(Prose(doc)))
<1> DEFINE n == Len(doc)
           L == Prose(doc)
           Lines == { doc[i] : i \in 1 .. n }
           lines(i) == SubSeq(doc, i + 1, StepEnd(doc, i))
           begins == { i \in 1 .. n : IsStep(doc[i]) }
           at(i) == ParseStep(doc[i].of, lines(i))
           M == { at(i) : i \in begins }
           q == [i \in 1 .. n |-> StepAt(doc, i)]
           steps == ExtractSteps(doc)
<1>1. n \in Nat /\ DOMAIN doc = 1 .. n /\ doc = [i \in 1 .. n |-> doc[i]]
  BY DEF IsDraft
<1>2. doc \in Seq(Lines)
  <2>1. \A i \in 1 .. n : doc[i] \in Lines OBVIOUS
  <2> HIDE DEF n, Lines
  <2> QED BY <1>1, <2>1, ListFrom
<1>3. ASSUME NEW i \in 1 .. n PROVE lines(i) \in Seq(L)
  <2> DEFINE e == StepEnd(doc, i)
             s == lines(i)
  <2>1. e \in i .. n /\ \A l \in i + 1 .. e : doc[l].is \notin HeadingOrRule
    BY <1>1, StepEndFacts, StepEndClear
  <2>2. s = SubSeq(doc, i + 1, e) OBVIOUS
  <2>3. \A l \in i + 1 .. e : l \in 1 .. n BY <1>1, <2>1
  <2>4. \A l \in i + 1 .. e : doc[l] \in L BY <2>1, <2>3 DEF Prose
  <2> HIDE DEF e, s, L, Lines, n
  <2>5. /\ e - i \in Nat /\ Len(s) = e - i /\ s \in Seq(Lines)
        /\ \A u \in 1 .. e - i : s[u] = doc[(i + 1) + u - 1]
    BY <1>1, <1>2, <2>1, <2>2, SMTT(60) DEF n
  <2>6. \A u \in 1 .. e - i : (i + 1) + u - 1 \in i + 1 .. e BY <1>1, <2>1, <2>5
  <2>7. \A u \in 1 .. e - i : s[u] \in L BY <2>4, <2>5, <2>6
  <2>8. s = [u \in 1 .. e - i |-> s[u]] BY <2>5
  <2>9. s \in Seq(L) BY <2>5, <2>7, <2>8, ListFrom
  <2> QED BY <2>9 DEF s
<1>4. (\A line \in L : line.is \notin HeadingOrRule) /\ Solid(L)
  BY <1>1 DEF Prose, Solid, IsDraft
<1> HIDE DEF L, lines, Lines
<1>5. ASSUME NEW r \in M PROVE (BeginsPlainly(r) => Renderable(r, Wide(L))) /\ r.number # NoNumber
  <2>1. PICK i \in begins : r = at(i) OBVIOUS
  <2>2. lines(i) \in Seq(L) BY <1>3
  <2>3. BeginsPlainly(at(i)) => Renderable(at(i), Wide(L))
    BY <1>4, <2>2, ParsedRenderable
  <2>4. doc[i].of.number # NoNumber BY DEF IsStep
  <2>5. ParseStep(doc[i].of, lines(i)).number = doc[i].of.number
    BY <2>2, ParseStepType
  <2> QED BY <2>1, <2>3, <2>4, <2>5
<1>6. q \in Seq(Seq(M))
  <2> DEFINE R == Seq(M)
  <2>1. ASSUME NEW i \in 1 .. n PROVE q[i] \in R
    <3>1. CASE IsStep(doc[i])
      <4>1. at(i) \in M /\ q[i] = <<at(i)>> BY <3>1 DEF StepAt, lines
      <4> HIDE DEF M, at, q
      <4> QED BY <4>1
    <3>2. CASE ~IsStep(doc[i])
      <4>1. q[i] = <<>> BY <3>2 DEF StepAt
      <4> HIDE DEF M, q
      <4> QED BY <4>1
    <3> QED BY <3>1, <3>2
  <2>2. q = [i \in 1 .. n |-> q[i]] OBVIOUS
  <2> HIDE DEF n, q, R
  <2>3. q \in Seq(R) BY <1>1, <2>1, <2>2, ListFrom
  <2> QED BY <2>3 DEF R
<1>7. steps \in Seq(M)
  <2>1. steps = FlattenSeq(q) BY DEF ExtractSteps
  <2> HIDE DEF q, M, steps
  <2> QED BY <1>6, <2>1, FlattenType
<1> HIDE DEF M, steps
<1>8. \A i \in DOMAIN steps : steps[i] \in M BY <1>7
<1>9. RenderableSteps(steps, Wide(L)) BY <1>5, <1>8 DEF RenderableSteps
<1> QED BY <1>9 DEF steps, L

\* Joined to nothing a sequence stays what it was.
LEMMA JoinedToNothing ==
    ASSUME NEW n \in Nat, NEW f, f = [i \in 1 .. n |-> f[i]], NEW i \in 1 .. n
    PROVE  (f \o <<>>)[i] = f[i]
<1> DEFINE S == { f[j] : j \in 1 .. n }
<1>1. \A j \in 1 .. n : f[j] \in S OBVIOUS
<1> HIDE DEF S
<1>2. f \in Seq(S) /\ Len(f) = n BY <1>1, ListFrom
<1> QED BY <1>2

\* StepsSurvive of one outcome.
Survives(made) ==
    \A p \in DOMAIN made.pieces :
        (\A k \in DOMAIN made.pieces[p].steps : BeginsPlainly(made.steps[made.pieces[p].steps[k]])) =>
        /\ Len(made.reread[p].steps) = Len(made.pieces[p].steps)
        /\ \A k \in DOMAIN made.pieces[p].steps :
             Faithful(made.reread[p].steps[k], made.steps[made.pieces[p].steps[k]])

\* StepsSurvive of one outcome.
LEMMA OutcomeSurvives ==
    ASSUME NEW h \in DraftIds, Outcomes[h].error = "none"
    PROVE  Survives(Outcomes[h])
<1> DEFINE doc == Drafts[h]
           made == Outcome(doc)
           handoff == ParseHandoff(doc)
           steps == ExtractSteps(doc)
           pieces == Decomposed(steps)
           N == Len(pieces)
           rendered == [p \in DOMAIN pieces |-> Render(handoff, pieces[p])]
           read == [p \in DOMAIN pieces |->
                       [error |-> ParseError((rendered \o <<>>)[p]),
                        steps |-> ExtractSteps((rendered \o <<>>)[p])]]
<1>1. Outcomes[h] = made /\ IsDraft(doc) BY OutcomeOf
<1>2. ParseError(doc) = "none" BY <1>1 DEF Outcome
<1>3. handoff.steps = steps BY DEF ParseHandoff
<1>4. made.steps = steps /\ made.pieces = pieces /\ made.reread = read \o <<>>
  BY <1>2, <1>3 DEF Outcome
<1>5. TypedSteps(steps) /\ RenderableSteps(steps, Wide(Prose(doc)))
  BY <1>1, ExtractTyped, DraftSteps
<1> HIDE DEF doc, made, handoff, steps, pieces
<1>6. /\ N \in Nat /\ DOMAIN pieces = 1 .. N
      /\ \A p \in 1 .. N : pieces[p].steps = Split(steps)[p]
      /\ N = Len(Split(steps))
  BY <1>5, DecomposedFacts DEF pieces
<1>7. Split(steps) \in Seq(Seq(1 .. Len(steps))) /\ Len(steps) \in Nat /\ DOMAIN steps = 1 .. Len(steps)
  BY <1>5, SplitFacts DEF TypedSteps
<1> HIDE DEF N
<1>8. ASSUME NEW p \in 1 .. N,
             \A k \in DOMAIN pieces[p].steps : BeginsPlainly(steps[pieces[p].steps[k]])
      PROVE  /\ Len(made.reread[p].steps) = Len(pieces[p].steps)
             /\ \A k \in DOMAIN pieces[p].steps :
                  Faithful(made.reread[p].steps[k], steps[pieces[p].steps[k]])
  <2> DEFINE piece == pieces[p]
             ps == piece.steps
             n == Len(ps)
             L == Wide(Prose(doc))
  <2>1. ps \in Seq(1 .. Len(steps)) /\ n \in Nat /\ DOMAIN ps = 1 .. n
        /\ \A k \in 1 .. n : ps[k] \in DOMAIN steps
    <3>1. ps \in Seq(1 .. Len(steps)) BY <1>6, <1>7
    <3> HIDE DEF ps
    <3> QED BY <1>7, <3>1
  <2>2. (rendered \o <<>>)[p] = Render(handoff, piece)
    <3>1. rendered = [i \in 1 .. N |-> rendered[i]] /\ rendered[p] = Render(handoff, piece)
      BY <1>6
    <3> HIDE DEF rendered, piece
    <3> QED BY <1>6, <3>1, JoinedToNothing
  <2>3. (read \o <<>>)[p] = read[p]
    <3>1. read = [i \in 1 .. N |-> read[i]] BY <1>6
    <3> HIDE DEF read
    <3> QED BY <1>6, <3>1, JoinedToNothing
  <2>4. read[p].steps = ExtractSteps(Render(handoff, piece))
    <3>1. p \in DOMAIN pieces BY <1>6
    <3>2. read[p].steps = ExtractSteps((rendered \o <<>>)[p]) BY <3>1
    <3> QED BY <2>2, <3>2
  <2> HIDE DEF piece, ps, n, L, read, rendered
  <2>5. DOMAIN piece.steps = 1 .. n BY <2>1 DEF ps
  <2>6. \A k \in 1 .. n : Renderable(steps[ps[k]], L) /\ steps[ps[k]].number # NoNumber
    BY <1>5, <1>8, <2>1 DEF RenderableSteps, L, ps, piece
  <2>7. \A k \in 1 .. n : /\ Renderable(handoff.steps[piece.steps[k]], L)
                          /\ handoff.steps[piece.steps[k]].number # NoNumber
    BY <1>3, <2>6 DEF ps
  <2>8. ExtractSteps(Render(handoff, piece)) =
            [k \in 1 .. n |-> StepOf(RenderStep(handoff.steps[piece.steps[k]]))]
    <3>1. PieceMade(handoff, piece, n, L) BY <2>1, <2>5, <2>7 DEF PieceMade
    <3> QED BY <3>1, RenderSteps
  <2> DEFINE reread == made.reread[p].steps
  <2>9. reread = [k \in 1 .. n |-> StepOf(RenderStep(steps[ps[k]]))]
    BY <1>3, <1>4, <2>3, <2>4, <2>8 DEF ps
  <2> HIDE DEF reread
  <2>10. Len(reread) = n BY <2>1, <2>9
  <2>11. ASSUME NEW k \in 1 .. n PROVE Faithful(reread[k], steps[ps[k]])
    <3> DEFINE step == steps[ps[k]]
    <3>1. Renderable(step, L) BY <2>6
    <3> HIDE DEF step
    <3>2. Faithful(StepOf(RenderStep(step)), step)
      BY <3>1, BlockReread, Zenon DEF StepOf
    <3>3. reread[k] = StepOf(RenderStep(step)) BY <2>9 DEF step
    <3> QED BY <3>2, <3>3 DEF step
  <2> QED BY <2>1, <2>10, <2>11 DEF reread, ps, n, piece
<1> QED BY <1>1, <1>4, <1>6, <1>8 DEF Survives

-----------------------------------------------------------------------------
\* The runs and the directory.

\* A run that has split has pieces, and names for them.
LEMMA RunFiles ==
    ASSUME NEW x \in Run, x.made.error = "none"
    PROVE  /\ Sound(x.made)
           /\ Len(x.made.pieces) \in Nat /\ DOMAIN x.made.pieces = 1 .. Len(x.made.pieces)
           /\ \A i \in 1 .. Len(x.made.pieces) :
                /\ i \in 1 .. MostPieces
                /\ Name(x, i) \in Files
                /\ Name(x, i) # Source
<1> DEFINE made == x.made
           n == Len(made.pieces)
<1>1. PICK h \in DraftIds : made = Outcomes[h] BY DEF Run, NoOutcome
<1>2. Sound(made) BY <1>1, OutcomesSound
<1>3. /\ TypedSteps(made.steps) /\ Len(made.steps) <= MostPieces
      /\ made.title \in DOMAIN Slug /\ made.pieces = Decomposed(made.steps)
  BY <1>2 DEF Sound
<1>4. n \in Nat /\ DOMAIN made.pieces = 1 .. n /\ n <= Len(made.steps)
  BY <1>3, DecomposedFacts
<1>5. n <= MostPieces /\ MostPieces \in Nat
  <2>1. Len(made.steps) \in Nat /\ MostPieces \in Nat
    BY <1>3, DecomposeAssumption DEF TypedSteps
  <2> HIDE DEF n
  <2> QED BY <1>3, <1>4, <2>1
<1>6. Slug[made.title] \in Range(Slug) BY <1>3 DEF Range
<1> HIDE DEF n
<1>7. ASSUME NEW i \in 1 .. n
      PROVE  i \in 1 .. MostPieces /\ <<Slug[made.title], i>> \in Files /\ <<Slug[made.title], i>> # Source
  <2>1. i \in 1 .. MostPieces /\ i # 0 BY <1>4, <1>5
  <2> QED BY <1>6, <2>1 DEF Files, Source
<1> QED BY <1>2, <1>4, <1>7 DEF n, Name

\* From x to y a run keeps what it has split, and does not go back.
Onward(x, y) ==
    /\ x.made.error = "none" =>
         /\ y.made = x.made /\ y.of = x.of /\ y.dry = x.dry
         /\ y.next = x.next \/ y.next = x.next + 1
         /\ y.pc = "ok" => x.next > Len(x.made.pieces)

LEMMA ReachedOnward ==
    ASSUME NEW x \in Run, NEW y \in Run, Onward(x, y), NEW f, ReachedBy(x, f)
    PROVE  ReachedBy(y, f)
<1>1. x.made.error = "none" /\ ~x.dry BY DEF ReachedBy
<1>2. PICK i \in 1 .. x.next : /\ i <= Len(x.made.pieces) /\ Name(x, i) = f
                               /\ i < x.next \/ x.pc # "ok"
  BY DEF ReachedBy
<1>3. /\ y.made = x.made /\ y.dry = x.dry /\ (y.next = x.next \/ y.next = x.next + 1)
      /\ y.pc = "ok" => x.next > Len(x.made.pieces)
  BY <1>1 DEF Onward
<1>4. x.next \in Nat /\ Len(x.made.pieces) \in Nat BY <1>1, RunFiles DEF Run
<1>5. i \in 1 .. y.next /\ (i < y.next \/ y.pc # "ok") BY <1>2, <1>3, <1>4
<1> QED BY <1>1, <1>2, <1>3, <1>5 DEF ReachedBy, Name

\* A step of run r changes its record to y.
StepTo(r, y) == y \in Run /\ run' = [run EXCEPT ![r] = y] /\ Onward(run[r], y) /\ Consistent(y)

LEMMA StepFacts ==
    ASSUME CommandInv, NEW r \in Runs, NEW y, StepTo(r, y)
    PROVE  /\ run' \in [Runs -> Run]
           /\ run'[r] = y /\ \A q \in Runs : q # r => run'[q] = run[q]
           /\ \A q \in Runs : Consistent(run'[q])
           /\ \A q \in Runs : \A f : ReachedBy(run[q], f) =>
                 ReachedBy(run'[q], f) /\ run'[q].of = run[q].of
<1>1. run \in [Runs -> Run] /\ y \in Run /\ run' = [run EXCEPT ![r] = y]
  BY DEF CommandInv, CommandTypeOK, StepTo
<1>2. run' \in [Runs -> Run] /\ run'[r] = y /\ \A q \in Runs : q # r => run'[q] = run[q]
  BY <1>1
<1>3. \A q \in Runs : Consistent(run'[q])
  <2>1. Consistent(y) BY DEF StepTo
  <2> QED BY <1>2, <2>1 DEF CommandInv
<1>4. ASSUME NEW q \in Runs, NEW f, ReachedBy(run[q], f)
      PROVE  ReachedBy(run'[q], f) /\ run'[q].of = run[q].of
  <2>1. CASE q = r
    <3>1. Onward(run[r], y) /\ run[r].made.error = "none"
      BY <1>4, <2>1 DEF StepTo, ReachedBy
    <3>2. ReachedBy(y, f) BY <1>1, <1>4, <2>1, <3>1, ReachedOnward
    <3> QED BY <1>2, <2>1, <3>1, <3>2 DEF Onward
  <2>2. CASE q # r BY <1>2, <1>4, <2>2
  <2> QED BY <2>1, <2>2
<1> QED BY <1>2, <1>3, <1>4

\* What accounts for a file goes on accounting for it.
LEMMA StepKeeps ==
    ASSUME CommandInv, NEW r \in Runs, NEW y, StepTo(r, y), run[r].pc # "failed"
    PROVE  /\ \A f : TornFor(f) => TornFor(f)'
           /\ \A f : \A c : CameFrom(c, f) => CameFrom(c, f)'
           /\ \A q \in Runs \ {r} : \A f : StandsAt(run[q], f) => StandsAt(run'[q], f)
<1>1. /\ \A q \in Runs : q # r => run'[q] = run[q]
      /\ \A q \in Runs : \A f : ReachedBy(run[q], f) =>
            ReachedBy(run'[q], f) /\ run'[q].of = run[q].of
  BY StepFacts
<1>2. \A f : TornFor(f) => TornFor(f)' BY <1>1, Zenon DEF TornFor
<1>3. \A f : \A c : CameFrom(c, f) => CameFrom(c, f)'
  BY <1>1, Zenon DEF CameFrom
<1>4. \A q \in Runs \ {r} : \A f : StandsAt(run[q], f) => StandsAt(run'[q], f)
  BY <1>1
<1> QED BY <1>2, <1>3, <1>4

\* A piece's file changes from one state to the next as far as c goes.
FileStep(f, c) == disk' = [disk EXCEPT ![f] = c]

\* Of a file that was written: what the writing run finds there is its own
\* text, nothing, or a sign that another run has been there.
LEMMA FoundThere ==
    ASSUME CommandInv, NEW r \in Runs, run[r].pc = "fill", NEW f,
           f = Name(run[r], run[r].next), ReachedBy(run[r], f), f \in Files, f # Source,
           disk[f] # Emptied, disk[f] # Missing, disk[f] # Piece(run[r].of, run[r].next)
    PROVE  TornFor(f) /\ \E q \in Runs \ {r} : ReachedBy(run[q], f)
<1>1. f[2] = run[r].next BY DEF Name
<1>2. CASE disk[f] = Torn
  <2>1. TornFor(f) BY <1>2 DEF CommandInv, Flawed
  <2> QED BY <2>1 DEF TornFor, StandsAt
<1>3. CASE disk[f] # Torn
  <2>1. CameFrom(disk[f], f) BY DEF CommandInv, AllCame
  <2>2. PICK q \in Runs : ReachedBy(run[q], f) /\ disk[f] = Piece(run[q].of, f[2])
    BY <1>3, <2>1 DEF CameFrom
  <2>3. run[q].of # run[r].of BY <1>1, <2>2
  <2> QED BY <2>2, <2>3 DEF TornFor
<1> QED BY <1>2, <1>3

\* A step that writes nothing.
LEMMA QuietStep ==
    ASSUME CommandInv, NEW r \in Runs, NEW y, StepTo(r, y), disk' = disk,
           y.made.error = "none" /\ ~y.dry => y.next = run[r].next /\ (y.next = 1 \/ run[r].made.error = "none"),
           run[r].pc # "fill" \/ y.pc = "failed", run[r].pc # "failed"
    PROVE  CommandInv'
<1>1. /\ run' \in [Runs -> Run]
      /\ run'[r] = y /\ \A q \in Runs : q # r => run'[q] = run[q]
      /\ \A q \in Runs : Consistent(run'[q])
      /\ \A q \in Runs : \A f : ReachedBy(run[q], f) => ReachedBy(run'[q], f)
  BY StepFacts
<1>2. CommandTypeOK' BY <1>1 DEF CommandInv, CommandTypeOK
<1>3. Onward(run[r], y) /\ run \in [Runs -> Run]
  BY DEF CommandInv, CommandTypeOK, StepTo
<1>4. Written'
  <2> SUFFICES ASSUME NEW q \in Runs, run'[q].made.error = "none", ~run'[q].dry,
                      NEW i \in 1 .. Len(run'[q].made.pieces), i < run'[q].next
               PROVE  \/ disk[Name(run'[q], i)] = Piece(run'[q].of, i)
                      \/ \E p \in Runs \ {q} : ReachedBy(run'[p], Name(run'[q], i))
    BY DEF Written
  <2>1. run[q].made.error = "none" /\ run'[q].made = run[q].made /\ run'[q].of = run[q].of
        /\ run'[q].dry = run[q].dry /\ run'[q].next = run[q].next
    <3>1. CASE q # r BY <1>1, <3>1
    <3>2. CASE q = r
      <4>1. y.next = run[r].next /\ (y.next = 1 \/ run[r].made.error = "none")
        BY <1>1, <3>2
      <4>2. run[r].made.error = "none"
        <5>1. i >= 1 /\ i < y.next BY <1>1, <3>2
        <5> QED BY <4>1, <5>1
      <4> QED BY <1>1, <1>3, <3>2, <4>1, <4>2 DEF Onward
    <3> QED BY <3>1, <3>2
  <2> DEFINE f == Name(run[q], i)
  <2>2. disk[f] = Piece(run[q].of, i) \/ \E p \in Runs \ {q} : ReachedBy(run[p], f)
    BY <2>1 DEF CommandInv, Written
  <2>3. f = Name(run'[q], i) BY <2>1 DEF Name
  <2> HIDE DEF f
  <2>4. \A p \in Runs : ReachedBy(run[p], f) => ReachedBy(run'[p], f) BY <1>1
  <2> QED BY <2>1, <2>2, <2>3, <2>4
<1>5. Flawed'
  <2> SUFFICES ASSUME NEW f \in Files, disk[f] = Emptied PROVE EmptyFor(f)'
    BY StepKeeps DEF CommandInv, Flawed
  <2>1. PICK q \in Runs : run[q].pc \in {"fill", "failed"} /\ StandsAt(run[q], f)
    BY DEF CommandInv, Flawed, EmptyFor
  <2>2. run'[q].pc \in {"fill", "failed"} /\ run'[q].made = run[q].made /\ run'[q].next = run[q].next
    <3>1. CASE q # r BY <1>1, <2>1, <3>1
    <3>2. CASE q = r
      <4>1. run[r].made.error = "none" /\ ~run[r].dry
        BY <2>1, <3>2 DEF ReachedBy, StandsAt
      <4>2. y.made = run[r].made /\ y.dry = run[r].dry BY <1>3, <4>1 DEF Onward
      <4>3. y.next = run[r].next /\ y.pc = "failed" BY <2>1, <3>2, <4>1, <4>2
      <4> QED BY <1>1, <3>2, <4>2, <4>3
    <3> QED BY <3>1, <3>2
  <2>3. ReachedBy(run'[q], f) BY <1>1, <2>1 DEF StandsAt
  <2> QED BY <2>1, <2>2, <2>3 DEF Name, StandsAt, EmptyFor
<1>6. AllCame' BY StepKeeps DEF CommandInv, AllCame
<1> QED BY <1>1, <1>2, <1>4, <1>5, <1>6 DEF CommandInv

\* A step of a run at its current file, which leaves c there: what else
\* must hold for the directory to be accounted for.
LEMMA FileStepKeeps ==
    ASSUME CommandInv, NEW r \in Runs, NEW y, StepTo(r, y), run[r].pc \in {"write", "fill"},
           ~run[r].dry, run[r].next <= Len(run[r].made.pieces),
           NEW f, f = Name(run[r], run[r].next), NEW c \in Contents, FileStep(f, c),
           y.made = run[r].made, y.next = run[r].next \/ y.next = run[r].next + 1,
           y.next # run[r].next =>
              \/ c = Piece(run[r].of, run[r].next)
              \/ \E q \in Runs \ {r} : ReachedBy(run[q], f),
           CameFrom(c, f)', c = Emptied => EmptyFor(f)', c = Torn => TornFor(f)'
    PROVE  CommandInv'
<1> DEFINE x == run[r]
<1>1. /\ x \in Run /\ Consistent(x) /\ disk \in [Files -> Contents] /\ run \in [Runs -> Run]
      /\ disk' = [disk EXCEPT ![f] = c] /\ ~x.dry /\ x.pc \in {"write", "fill"}
      /\ f = Name(x, x.next)
  BY DEF CommandInv, CommandTypeOK, FileStep
<1>2. /\ x.made.error = "none" /\ Len(x.made.pieces) \in Nat /\ x.next \in 1 .. Len(x.made.pieces)
  <2>1. x.made.error = "none" /\ x.next \in 1 .. Len(x.made.pieces) + 1
    BY <1>1 DEF Consistent
  <2>2. Len(x.made.pieces) \in Nat BY <1>1, <2>1, RunFiles
  <2> QED BY <2>1, <2>2
<1>3. f \in Files /\ f # Source BY <1>1, <1>2, RunFiles
<1>4. ReachedBy(x, f) BY <1>1, <1>2 DEF ReachedBy
<1>5. /\ run' \in [Runs -> Run] /\ run'[r] = y
      /\ \A q \in Runs : q # r => run'[q] = run[q]
      /\ \A q \in Runs : Consistent(run'[q])
      /\ \A q \in Runs : \A g : ReachedBy(run[q], g) =>
            ReachedBy(run'[q], g) /\ run'[q].of = run[q].of
  BY StepFacts
<1>6. /\ y.made = x.made /\ y.dry = x.dry /\ y.of = x.of /\ (y.next = x.next \/ y.next = x.next + 1)
  BY <1>2 DEF StepTo, Onward
<1>8. \A q \in Runs : /\ run'[q].made = run[q].made /\ run'[q].of = run[q].of
                      /\ run'[q].dry = run[q].dry
  BY <1>5, <1>6
<1>7. x.pc # "failed" BY <1>1
<1>9. disk' \in [Files -> Contents] /\ disk'[f] = c /\ \A g \in Files : g # f => disk'[g] = disk[g]
  BY <1>1, <1>3
<1>10. CommandTypeOK'
  <2>1. Source \in Files BY DEF Files
  <2> QED BY <1>3, <1>5, <1>9, <2>1 DEF CommandInv, CommandTypeOK
<1>11. AllCame'
  <2> SUFFICES ASSUME NEW g \in Files \ {Source} PROVE CameFrom(disk[g], g)'
    BY DEF AllCame
  <2>1. CASE g = f
    <3>1. disk'[g] = c BY <1>9, <2>1
    <3>2. CameFrom(c, g)' BY <2>1
    <3> QED BY <3>1, <3>2 DEF CameFrom
  <2>2. CASE g # f
    <3>1. PICK d : d = disk[g] OBVIOUS
    <3>2. CameFrom(d, g) BY <3>1 DEF CommandInv, AllCame
    <3>3. CameFrom(d, g)' BY <1>7, <3>2, StepKeeps
    <3>4. disk'[g] = d BY <1>9, <2>2, <3>1
    <3> QED BY <3>3, <3>4 DEF CameFrom
  <2> QED BY <2>1, <2>2
<1>12. Flawed'
  <2> SUFFICES ASSUME NEW g \in Files
               PROVE  (disk'[g] = Emptied => EmptyFor(g)') /\ (disk'[g] = Torn => TornFor(g)')
    BY DEF Flawed
  <2>1. CASE g = f BY <1>9, <2>1
  <2>2. CASE g # f
    <3>1. disk'[g] = disk[g] BY <1>9, <2>2
    <3>2. disk[g] = Torn => TornFor(g)'
      BY <1>7, StepKeeps DEF CommandInv, Flawed
    <3>3. ASSUME disk[g] = Emptied PROVE EmptyFor(g)'
      <4>1. PICK q \in Runs : run[q].pc \in {"fill", "failed"} /\ StandsAt(run[q], g)
        BY <3>3 DEF CommandInv, Flawed, EmptyFor
      <4>2. q # r BY <1>1, <2>2, <4>1 DEF StandsAt
      <4>3. run'[q] = run[q] BY <1>5, <4>2
      <4> QED BY <4>1, <4>3 DEF EmptyFor
    <3> QED BY <3>1, <3>2, <3>3
  <2> QED BY <2>1, <2>2
<1>13. Written'
  <2> SUFFICES ASSUME NEW q \in Runs, run'[q].made.error = "none", ~run'[q].dry,
                      NEW i \in 1 .. Len(run'[q].made.pieces), i < run'[q].next
               PROVE  \/ disk'[Name(run'[q], i)] = Piece(run'[q].of, i)
                      \/ \E p \in Runs \ {q} : ReachedBy(run'[p], Name(run'[q], i))
    BY DEF Written
  <2> DEFINE g == Name(run[q], i)
  <2>1. g = Name(run'[q], i) /\ g \in Files
    <3>1. g = Name(run'[q], i) BY <1>8 DEF Name
    <3>2. run'[q] \in Run BY <1>5
    <3> QED BY <3>1, <3>2, RunFiles
  <2>2. CASE q = r /\ i = x.next
    <3>1. g = f /\ y.next # x.next
      <4>1. g = f BY <1>1, <2>2
      <4>2. i < y.next BY <1>5, <2>2
      <4> QED BY <1>2, <2>2, <4>1, <4>2
    <3>2. c = Piece(x.of, x.next) \/ \E p \in Runs \ {r} : ReachedBy(run[p], f)
      BY <3>1
    <3>3. run'[q].of = x.of BY <1>8, <2>2
    <3> HIDE DEF g
    <3>4. CASE c = Piece(x.of, x.next) BY <1>9, <2>1, <2>2, <3>1, <3>3, <3>4
    <3>5. CASE \E p \in Runs \ {r} : ReachedBy(run[p], f)
      BY <1>5, <2>1, <2>2, <3>1, <3>5
    <3> QED BY <3>2, <3>4, <3>5
  <2>3. CASE ~(q = r /\ i = x.next)
    <3>1. i < run[q].next
      <4>1. CASE q = r
        <5>1. i < y.next /\ i # x.next /\ i \in Nat /\ x.next \in Nat
          BY <1>2, <1>5, <2>3, <4>1
        <5> QED BY <1>6, <4>1, <5>1
      <4>2. CASE q # r BY <1>5, <4>2
      <4> QED BY <4>1, <4>2
    <3>2. disk[g] = Piece(run[q].of, i) \/ \E p \in Runs \ {q} : ReachedBy(run[p], g)
      BY <1>8, <3>1 DEF CommandInv, Written
    <3>3. CASE g # f
      <4> HIDE DEF g
      <4> QED BY <1>5, <1>8, <1>9, <2>1, <3>2, <3>3
    <3>4. CASE g = f
      <4>1. q # r BY <1>1, <2>3, <3>4 DEF Name
      <4>2. ReachedBy(run'[r], g) BY <1>4, <1>5, <3>4
      <4> HIDE DEF g
      <4> QED BY <2>1, <4>1, <4>2
    <3> QED BY <3>3, <3>4
  <2> QED BY <2>2, <2>3
<1> QED BY <1>5, <1>10, <1>11, <1>12, <1>13 DEF CommandInv

LEMMA EmptyStep ==
    ASSUME CommandInv, NEW r \in Runs, Empty(r)
    PROVE  CommandInv'
<1> DEFINE x == run[r]
           y == [x EXCEPT !.pc = "fill"]
<1>0. PICK f : f = Name(x, x.next) OBVIOUS
<1>1. /\ x \in Run /\ Consistent(x) /\ disk \in [Files -> Contents] /\ run \in [Runs -> Run]
      /\ x.pc = "write" /\ ~x.dry /\ x.next <= Len(x.made.pieces)
      /\ FileStep(f, Emptied) /\ run' = [run EXCEPT ![r] = y]
  BY <1>0 DEF CommandInv, CommandTypeOK, Empty, Left, Current, FileOf, Name, FileStep
<1>2. x.made.error = "none" /\ x.next \in 1 .. Len(x.made.pieces) /\ Len(x.made.pieces) \in Nat
  <2>1. x.made.error = "none" /\ x.next \in 1 .. Len(x.made.pieces) + 1
    BY <1>1 DEF Consistent
  <2>2. Len(x.made.pieces) \in Nat BY <1>1, <2>1, RunFiles
  <2> QED BY <1>1, <2>1, <2>2
<1>3. /\ y \in Run /\ y.pc = "fill" /\ y.made = x.made /\ y.of = x.of /\ y.dry = x.dry /\ y.next = x.next
  BY <1>1 DEF Run
<1>4. run'[r] = y BY <1>1
<1> HIDE DEF x, y
<1>5. Consistent(y) /\ Onward(x, y) BY <1>1, <1>2, <1>3 DEF Consistent, Onward
<1>6. StepTo(r, y) BY <1>1, <1>3, <1>5 DEF StepTo, x
<1>7. StandsAt(y, f) BY <1>0, <1>1, <1>2, <1>3 DEF StandsAt, ReachedBy, Name
<1>8. EmptyFor(f)' BY <1>3, <1>4, <1>7 DEF EmptyFor
<1>9. CameFrom(Emptied, f)' BY DEF CameFrom
<1>10. Emptied \in Contents /\ Emptied # Torn BY DEF Contents, Emptied, Torn
<1> QED BY <1>0, <1>1, <1>3, <1>6, <1>8, <1>9, <1>10, FileStepKeeps DEF x

LEMMA FillStep ==
    ASSUME CommandInv, NEW r \in Runs, Fill(r)
    PROVE  CommandInv'
<1> DEFINE x == run[r]
           y == [x EXCEPT !.pc = "write", !.next = @ + 1]
           text == Piece(x.of, x.next)
<1>0. PICK f : f = Name(x, x.next) OBVIOUS
<1>1. /\ x \in Run /\ Consistent(x) /\ disk \in [Files -> Contents] /\ run \in [Runs -> Run]
      /\ x.pc = "fill" /\ run' = [run EXCEPT ![r] = y]
  BY DEF CommandInv, CommandTypeOK, Fill
<1>2. PICK c \in Over(disk[f], text) : FileStep(f, c)
  BY <1>0 DEF Fill, Current, FileOf, Name, FileStep
<1>3. /\ x.made.error = "none" /\ ~x.dry /\ x.of \in DraftIds
      /\ x.next \in 1 .. Len(x.made.pieces) /\ Len(x.made.pieces) \in Nat
  <2>1. x.made.error = "none" /\ x.next \in 1 .. Len(x.made.pieces) + 1
        /\ ~x.dry /\ x.next <= Len(x.made.pieces) /\ x.of \in DraftIds
    BY <1>1 DEF Consistent
  <2>2. Len(x.made.pieces) \in Nat BY <1>1, <2>1, RunFiles
  <2> QED BY <1>1, <2>1, <2>2
<1>4. f \in Files /\ f # Source /\ x.next \in 1 .. MostPieces
  BY <1>0, <1>1, <1>3, RunFiles
<1>5. /\ y \in Run /\ y.pc = "write" /\ y.made = x.made /\ y.of = x.of /\ y.dry = x.dry
      /\ y.next = x.next + 1
  <2>1. x \in Run /\ x.next + 1 \in Nat BY <1>1 DEF Run
  <2> DEFINE m == x.next + 1
  <2>2. y = [x EXCEPT !.pc = "write", !.next = m] OBVIOUS
  <2> HIDE DEF x, y
  <2>3. m \in Nat BY <2>1
  <2> HIDE DEF m
  <2>4. [x EXCEPT !.pc = "write", !.next = m] \in Run BY <2>1, <2>3 DEF Run
  <2>5. y.pc = "write" /\ y.made = x.made /\ y.of = x.of /\ y.dry = x.dry /\ y.next = m
    BY <2>1, <2>2 DEF Run
  <2> QED BY <2>2, <2>4, <2>5 DEF m
<1>6. run'[r] = y BY <1>1
<1>7. f[2] = x.next BY <1>0 DEF Name
<1> HIDE DEF x, y
<1>8. Consistent(y) /\ Onward(x, y)
  <2>1. x.made = Outcomes[x.of] /\ y.next \in 1 .. Len(y.made.pieces) + 1
    BY <1>1, <1>3, <1>5 DEF Consistent
  <2> QED BY <1>1, <1>3, <1>5, <2>1 DEF Consistent, Onward
<1>9. StepTo(r, y) BY <1>1, <1>5, <1>8 DEF StepTo, x
<1>10. ReachedBy(x, f) /\ x.pc # "failed" BY <1>0, <1>1, <1>3 DEF ReachedBy
<1>11. /\ text \in Contents /\ Torn \in Contents /\ text # Torn /\ text # Emptied /\ Torn # Emptied
  BY <1>3, <1>4 DEF Contents, Piece, Torn, Emptied
<1> HIDE DEF text
<1>12. c \in {text, Torn} /\ (c = Torn => disk[f] \notin {Missing, Emptied, text})
  BY <1>2, <1>11 DEF Over
<1>13. c = Torn => TornFor(f) /\ \E q \in Runs \ {r} : ReachedBy(run[q], f)
  BY <1>0, <1>1, <1>4, <1>10, <1>12, FoundThere DEF x, text
<1>14. c = Torn => TornFor(f)' BY <1>9, <1>10, <1>13, StepKeeps DEF x
<1>15. CameFrom(c, f)'
  <2>1. CASE c = Torn BY <2>1 DEF CameFrom
  <2>2. CASE c = text
    <3>1. CameFrom(c, f) BY <1>7, <1>10, <2>2 DEF CameFrom, x, text
    <3> QED BY <1>9, <1>10, <3>1, StepKeeps DEF x
  <2> QED BY <1>12, <2>1, <2>2
<1>16. c \in Contents /\ c # Emptied BY <1>11, <1>12
<1>17. c = text \/ \E q \in Runs \ {r} : ReachedBy(run[q], f) BY <1>12, <1>13
<1>18. x.next <= Len(x.made.pieces) BY <1>3
<1> QED
  BY <1>0, <1>1, <1>2, <1>3, <1>5, <1>9, <1>14, <1>15, <1>16, <1>17, <1>18, FileStepKeeps DEF x, text

LEMMA AuthorStep ==
    ASSUME CommandInv, Author
    PROVE  CommandInv'
<1>1. PICK content \in {Missing} \cup { Whole(h) : h \in Edits } :
          disk' = [disk EXCEPT ![Source] = content] /\ run' = run
  BY DEF Author
<1>2. Edits \subseteq DraftIds BY DecomposeAssumption
<1>3. content \in Contents /\ content \in {Missing} \cup { Whole(h) : h \in DraftIds } /\ content # Torn /\ content # Emptied
  BY <1>2 DEF Contents, Missing, Whole, Torn, Emptied
<1>4. Source \in Files /\ disk \in [Files -> Contents]
  BY DEF Files, CommandInv, CommandTypeOK
<1>5. /\ disk' \in [Files -> Contents] /\ disk'[Source] = content
      /\ \A f \in Files : f # Source => disk'[f] = disk[f]
  BY <1>1, <1>3, <1>4
<1>6. CommandTypeOK' BY <1>1, <1>3, <1>5 DEF CommandInv, CommandTypeOK
<1>7. Written'
  <2> SUFFICES ASSUME NEW q \in Runs, run[q].made.error = "none", ~run[q].dry,
                      NEW i \in 1 .. Len(run[q].made.pieces), i < run[q].next
               PROVE  \/ disk'[Name(run[q], i)] = Piece(run[q].of, i)
                      \/ \E p \in Runs \ {q} : ReachedBy(run[p], Name(run[q], i))
    BY <1>1 DEF Written
  <2>1. Name(run[q], i) \in Files /\ Name(run[q], i) # Source
    <3>1. run[q] \in Run BY DEF CommandInv, CommandTypeOK
    <3> QED BY <3>1, RunFiles
  <2>2. \/ disk[Name(run[q], i)] = Piece(run[q].of, i)
        \/ \E p \in Runs \ {q} : ReachedBy(run[p], Name(run[q], i))
    BY DEF CommandInv, Written
  <2> QED BY <1>5, <2>1, <2>2
<1>8. Flawed'
  <2> SUFFICES ASSUME NEW f \in Files
               PROVE  (disk[f] = Emptied => EmptyFor(f))' /\ (disk[f] = Torn => TornFor(f))'
    BY DEF Flawed
  <2>1. (disk'[f] = Torn => disk[f] = Torn) /\ (disk'[f] = Emptied => disk[f] = Emptied)
    BY <1>3, <1>5
  <2>2. (EmptyFor(f) => EmptyFor(f)') /\ (TornFor(f) => TornFor(f)')
    BY <1>1 DEF EmptyFor, TornFor
  <2> QED BY <2>1, <2>2 DEF CommandInv, Flawed
<1>9. AllCame' BY <1>1, <1>5 DEF CommandInv, AllCame, CameFrom
<1> QED BY <1>1, <1>6, <1>7, <1>8, <1>9 DEF CommandInv

LEMMA BeginStep ==
    ASSUME CommandInv, NEW r \in Runs, NEW dry \in BOOLEAN, Begin(r, dry)
    PROVE  CommandInv'
<1> DEFINE x == run[r]
           h == disk[Source].of
<1>1. PICK made \in {IF h = NoValue THEN NoOutcome ELSE Outcomes[h]} :
          run' = [run EXCEPT ![r] = IF made.error = "none"
                                    THEN [x EXCEPT !.pc = "write", !.of = h, !.made = made, !.dry = dry]
                                    ELSE [x EXCEPT !.pc = "failed", !.dry = dry]]
  BY DEF Begin
<1> DEFINE y == IF made.error = "none"
                THEN [x EXCEPT !.pc = "write", !.of = h, !.made = made, !.dry = dry]
                ELSE [x EXCEPT !.pc = "failed", !.dry = dry]
<1>2. /\ x \in Run /\ x.pc = "idle" /\ x.made = NoOutcome /\ x.next = 1 /\ disk' = disk
      /\ run' = [run EXCEPT ![r] = y]
  BY <1>1 DEF CommandInv, CommandTypeOK, Consistent, Begin
<1>3. made.error = "none" => h \in DraftIds /\ made = Outcomes[h]
  <2>1. h = NoValue \/ h \in DraftIds
    BY DEF CommandInv, CommandTypeOK, Missing, Whole
  <2>2. NoOutcome.error # "none" BY DEF NoOutcome
  <2> QED BY <1>1, <2>1, <2>2
<1> HIDE DEF x, h
<1>4. CASE made.error = "none"
  <2>1. y = [x EXCEPT !.pc = "write", !.of = h, !.made = made, !.dry = dry]
    BY <1>4
  <2> HIDE DEF y
  <2>2. /\ y \in Run /\ y.pc = "write" /\ y.of = h /\ y.made = made /\ y.next = 1
    BY <1>2, <1>3, <1>4, <2>1 DEF Run
  <2>3. Len(made.pieces) \in Nat BY <1>4, <2>2, RunFiles
  <2>4. Consistent(y) /\ Onward(x, y)
    BY <1>2, <1>3, <1>4, <2>2, <2>3 DEF Consistent, Onward, NoOutcome
  <2>5. StepTo(r, y) BY <1>2, <2>2, <2>4 DEF StepTo, x
  <2> QED BY <1>2, <2>2, <2>5, QuietStep DEF x
<1>5. CASE made.error # "none"
  <2>1. y = [x EXCEPT !.pc = "failed", !.dry = dry] BY <1>5
  <2> HIDE DEF y
  <2>2. /\ y \in Run /\ y.pc = "failed" /\ y.made = NoOutcome /\ y.next = 1
    BY <1>2, <2>1 DEF Run
  <2>3. Consistent(y) /\ Onward(x, y) /\ y.made.error # "none"
    BY <1>2, <2>2 DEF Consistent, Onward, NoOutcome
  <2>4. StepTo(r, y) BY <1>2, <2>2, <2>3 DEF StepTo, x
  <2> QED BY <1>2, <2>2, <2>3, <2>4, QuietStep DEF x
<1> QED BY <1>4, <1>5

LEMMA ShowStep ==
    ASSUME CommandInv, NEW r \in Runs, Show(r)
    PROVE  CommandInv'
<1> DEFINE x == run[r]
           y == [x EXCEPT !.next = @ + 1]
<1>1. /\ x \in Run /\ Consistent(x) /\ x.pc = "write" /\ x.dry /\ x.next <= Len(x.made.pieces)
      /\ disk' = disk /\ run' = [run EXCEPT ![r] = y]
  BY DEF CommandInv, CommandTypeOK, Show, Left
<1>2. y \in Run /\ y.pc = x.pc /\ y.made = x.made /\ y.of = x.of /\ y.dry = x.dry /\ y.next = x.next + 1
  <2> DEFINE m == x.next + 1
  <2>1. x \in Run /\ m \in Nat BY <1>1 DEF Run
  <2>2. y = [x EXCEPT !.next = m] OBVIOUS
  <2> HIDE DEF x, y, m
  <2> QED BY <2>1, <2>2 DEF Run, m
<1> HIDE DEF x, y
<1>3. x.made.error = "none" /\ x.next \in 1 .. Len(x.made.pieces) + 1 /\ Len(x.made.pieces) \in Nat
  <2>1. x.made.error = "none" /\ x.next \in 1 .. Len(x.made.pieces) + 1
    BY <1>1 DEF Consistent
  <2> QED BY <1>1, <2>1, RunFiles
<1>4. Consistent(y) /\ Onward(x, y)
  <2>1. y.next \in 1 .. Len(y.made.pieces) + 1 BY <1>1, <1>2, <1>3
  <2> QED BY <1>1, <1>2, <1>3, <2>1 DEF Consistent, Onward
<1>5. StepTo(r, y) BY <1>1, <1>2, <1>4 DEF StepTo, x
<1> QED BY <1>1, <1>2, <1>5, QuietStep DEF x

LEMMA WriteFailsStep ==
    ASSUME CommandInv, NEW r \in Runs, WriteFails(r)
    PROVE  CommandInv'
<1> DEFINE x == run[r]
           y == [x EXCEPT !.pc = "failed"]
           text == Piece(x.of, x.next)
<1>0. PICK f : f = Name(x, x.next) OBVIOUS
<1>1. /\ x \in Run /\ Consistent(x) /\ x.pc \in {"write", "fill"} /\ run' = [run EXCEPT ![r] = y]
      /\ disk \in [Files -> Contents] /\ run \in [Runs -> Run]
      /\ \/ x.pc = "write" /\ disk' = disk
         \/ x.pc = "fill" /\ \E c \in PartOver(disk[f], text) : FileStep(f, c)
  BY <1>0 DEF CommandInv, CommandTypeOK, WriteFails, Current, FileOf, Name, FileStep
<1>2. y \in Run /\ y.pc = "failed" /\ y.made = x.made /\ y.of = x.of /\ y.dry = x.dry /\ y.next = x.next
  BY <1>1 DEF Run
<1>3. run'[r] = y BY <1>1
<1> HIDE DEF x, y
<1>4. Consistent(y) /\ Onward(x, y) /\ x.made.error = "none"
  BY <1>1, <1>2 DEF Consistent, Onward
<1>5. StepTo(r, y) BY <1>1, <1>2, <1>4 DEF StepTo, x
<1> HIDE DEF text
<1>6. CASE x.pc = "write" BY <1>1, <1>2, <1>4, <1>5, <1>6, QuietStep DEF x
<1>7. CASE x.pc = "fill"
  <2>1. PICK c \in PartOver(disk[f], text) : FileStep(f, c) BY <1>1, <1>7
  <2>2. ~x.dry /\ x.next <= Len(x.made.pieces) /\ x.next \in 1 .. Len(x.made.pieces) + 1
        /\ Len(x.made.pieces) \in Nat
    BY <1>1, <1>4, <1>7, RunFiles DEF Consistent
  <2>3. f \in Files /\ f # Source /\ StandsAt(y, f)
    <3>1. x.next \in 1 .. Len(x.made.pieces) BY <2>2
    <3>2. f \in Files /\ f # Source BY <1>0, <1>1, <1>4, <3>1, RunFiles
    <3>3. ReachedBy(y, f) /\ Name(y, y.next) = f
      BY <1>0, <1>1, <1>2, <1>4, <2>2, <3>1 DEF ReachedBy, Name
    <3> QED BY <3>2, <3>3 DEF StandsAt
  <2>4. EmptyFor(f)' /\ TornFor(f)' BY <1>2, <1>3, <2>3 DEF EmptyFor, TornFor
  <2>5. c \in {disk[f], Torn} BY <2>1 DEF PartOver
  <2>6. c \in Contents BY <1>1, <2>3, <2>5 DEF Contents
  <2>7. CameFrom(c, f)'
    <3>1. CameFrom(disk[f], f) BY <2>3 DEF CommandInv, AllCame
    <3>2. CameFrom(c, f) BY <2>5, <3>1 DEF CameFrom
    <3> QED BY <1>5, <1>7, <3>2, StepKeeps DEF x
  <2> QED
    BY <1>0, <1>2, <1>5, <1>7, <2>1, <2>2, <2>4, <2>6, <2>7, FileStepKeeps DEF x
<1> QED BY <1>1, <1>6, <1>7

LEMMA FinishStep ==
    ASSUME CommandInv, NEW r \in Runs, Finish(r)
    PROVE  CommandInv'
<1> DEFINE x == run[r]
           y == [x EXCEPT !.pc = "ok"]
<1>1. /\ x \in Run /\ Consistent(x) /\ x.pc = "write" /\ ~(x.next <= Len(x.made.pieces))
      /\ disk' = disk /\ run' = [run EXCEPT ![r] = y]
  BY DEF CommandInv, CommandTypeOK, Finish, Left
<1>2. y \in Run /\ y.pc = "ok" /\ y.made = x.made /\ y.of = x.of /\ y.dry = x.dry /\ y.next = x.next
  BY <1>1 DEF Run
<1> HIDE DEF x, y
<1>3. /\ x.made.error = "none" /\ x.next \in 1 .. Len(x.made.pieces) + 1 /\ Len(x.made.pieces) \in Nat
  <2>1. x.made.error = "none" /\ x.next \in 1 .. Len(x.made.pieces) + 1
    BY <1>1 DEF Consistent
  <2> QED BY <1>1, <2>1, RunFiles
<1>4. x.next = Len(x.made.pieces) + 1 /\ x.next > Len(x.made.pieces)
  BY <1>1, <1>3
<1>5. Consistent(y) /\ Onward(x, y)
  BY <1>1, <1>2, <1>3, <1>4 DEF Consistent, Onward
<1>6. StepTo(r, y) BY <1>1, <1>2, <1>5 DEF StepTo, x
<1> QED BY <1>1, <1>2, <1>3, <1>6, QuietStep DEF x

LEMMA CommandInvInit ==
    ASSUME CommandInit
    PROVE  CommandInv
<1>1. PICK h \in DraftIds : disk = [f \in Files |-> IF f = Source THEN Whole(h) ELSE Missing]
  BY DEF CommandInit
<1>2. run = [r \in Runs |-> Fresh] BY DEF CommandInit
<1>3. /\ Source \in Files /\ Missing \notin {Torn, Emptied} /\ Whole(h) \notin {Torn, Emptied}
  BY DEF Files, Missing, Torn, Emptied, Whole
<1>4. Fresh \in Run /\ Consistent(Fresh) /\ Fresh.made.error # "none"
  BY DEF Fresh, Run, Consistent, NoOutcome
<1>5. CommandTypeOK BY <1>1, <1>2, <1>3, <1>4 DEF CommandTypeOK, Contents
<1>6. Written BY <1>2, <1>4 DEF Written
<1>7. Flawed /\ AllCame BY <1>1, <1>3 DEF Flawed, AllCame, CameFrom
<1> QED BY <1>2, <1>4, <1>5, <1>6, <1>7 DEF CommandInv

LEMMA CommandInvNext ==
    ASSUME CommandInv, [CommandNext]_commandVars
    PROVE  CommandInv'
<1>1. ASSUME NEW r \in Runs, NEW dry \in BOOLEAN, Begin(r, dry) PROVE CommandInv'
  BY <1>1, BeginStep
<1>2. ASSUME NEW r \in Runs, Show(r) PROVE CommandInv' BY <1>2, ShowStep
<1>3. ASSUME NEW r \in Runs, Empty(r) PROVE CommandInv' BY <1>3, EmptyStep
<1>4. ASSUME NEW r \in Runs, Fill(r) PROVE CommandInv' BY <1>4, FillStep
<1>5. ASSUME NEW r \in Runs, WriteFails(r) PROVE CommandInv'
  BY <1>5, WriteFailsStep
<1>6. ASSUME NEW r \in Runs, Finish(r) PROVE CommandInv' BY <1>6, FinishStep
<1>7. CASE Author BY <1>7, AuthorStep
<1>8. CASE UNCHANGED commandVars
  BY <1>8 DEF commandVars, CommandInv, CommandTypeOK, Written, AllCame, CameFrom, Flawed,
              EmptyFor, TornFor
<1> QED BY <1>1, <1>2, <1>3, <1>4, <1>5, <1>6, <1>7, <1>8 DEF CommandNext

LEMMA CommandInvariant == CommandSpec => []CommandInv
<1>1. CommandInit => CommandInv BY CommandInvInit
<1>2. CommandInv /\ [CommandNext]_commandVars => CommandInv' BY CommandInvNext
<1> QED BY <1>1, <1>2, PTL DEF CommandSpec

-----------------------------------------------------------------------------
\* The properties of the command.

LEMMA RunSound ==
    ASSUME CommandInv, NEW r \in Runs, HasSplit(r)
    PROVE  Sound(run[r].made)
<1>1. run[r] \in Run /\ run[r].made.error = "none"
  BY DEF CommandInv, CommandTypeOK, HasSplit
<1> QED BY <1>1, RunFiles

(* Every step of a handoff goes to exactly one piece and no piece mixes    *)
(* projects, whatever the handoff: group_by_project, the chunks and        *)
(* pack_chunks of decompose/mod.rs and algorithm.rs lose and double none.  *)
THEOREM Partition == CommandSpec => []EveryStepInOnePiece
<1>1. CommandInv => EveryStepInOnePiece
  <2> SUFFICES ASSUME CommandInv, NEW r \in Runs, HasSplit(r)
               PROVE  LET all == FlattenSeq([ p \in DOMAIN Pieces(r) |-> Pieces(r)[p].steps ])
                      IN  /\ Len(all) = Len(Steps(r))
                          /\ Range(all) = DOMAIN Steps(r)
                          /\ \A p \in DOMAIN Pieces(r) :
                               \A i, j \in Range(Pieces(r)[p].steps) : SameProject(Steps(r), i, j)
    BY DEF EveryStepInOnePiece
  <2>1. Sound(run[r].made) /\ run[r].made.error = "none"
    BY RunSound DEF HasSplit
  <2> QED BY <2>1, PiecesOfSteps DEF Pieces, Steps
<1> QED BY <1>1, CommandInvariant, PTL

(* Steps of one project that depend on one another, in either direction    *)
(* and through however many others, are in one piece: the union-find of    *)
(* merge_dependency_groups joins them in whatever order the hash maps give *)
(* the dependencies, and packing never breaks a chunk up.                  *)
THEOREM Tied == CommandSpec => []DependentStepsTogether
<1>1. CommandInv => DependentStepsTogether
  <2> SUFFICES ASSUME CommandInv, NEW r \in Runs, HasSplit(r), RespectDependencies,
                      NumbersUnique(Steps(r)),
                      NEW p \in DOMAIN Pieces(r), NEW i \in Range(Pieces(r)[p].steps),
                      NEW j \in DOMAIN Steps(r), Connected(Steps(r), i, j)
               PROVE  j \in Range(Pieces(r)[p].steps)
    BY DEF DependentStepsTogether
  <2>1. Sound(run[r].made) /\ run[r].made.error = "none"
    BY RunSound DEF HasSplit
  <2> QED BY <2>1, TiedTogether, SMTT(60) DEF Pieces, Steps
<1> QED BY <1>1, CommandInvariant, PTL

(* As long as no handoff's estimates add up to more than a u64 holds, no   *)
(* piece is over its limit unless it is one indivisible chunk, and none is *)
(* closed before a chunk of its project that would still have fitted,      *)
(* whatever the handoffs and the limits (config limits of                  *)
(* decompose/mod.rs, pack_chunks of algorithm.rs).                         *)
THEOREM Packing == NothingWraps => (CommandSpec => []PiecesFilledToTheLimit)
<1> SUFFICES ASSUME NothingWraps PROVE CommandSpec => []PiecesFilledToTheLimit
  OBVIOUS
<1>1. CommandInv => PiecesFilledToTheLimit
  <2> SUFFICES ASSUME CommandInv PROVE PiecesFilledToTheLimit OBVIOUS
  <2>1. ASSUME NEW r \in Runs, HasSplit(r), RespectDependencies, NumbersUnique(Steps(r))
        PROVE  AllFull(run[r].made)
    <3> DEFINE made == run[r].made
               doc == Drafts[run[r].of]
    <3>1. Consistent(run[r]) /\ made.error = "none"
      BY <2>1 DEF CommandInv, HasSplit
    <3>2. run[r].of \in DraftIds /\ made = Outcomes[run[r].of]
      BY <3>1 DEF Consistent
    <3>3. Sound(made) BY <2>1, RunSound
    <3>4. made = Outcome(doc) BY <3>2, OutcomeOf
    <3>5. made.steps = ExtractSteps(doc) BY <3>1, <3>4, OutcomeSteps
    <3>6. Load(ExtractSteps(doc), DOMAIN ExtractSteps(doc)) < Word
      BY <3>2 DEF NothingWraps
    <3>7. Load(made.steps, DOMAIN made.steps) < Word BY <3>5, <3>6
    <3>8. NumbersUnique(made.steps) BY <2>1 DEF Steps
    <3> HIDE DEF made, doc
    <3>9. AllFull(made) BY <2>1, <3>1, <3>3, <3>7, <3>8, OutcomeFull
    <3> QED BY <3>9 DEF made
  <2> QED BY <2>1, ZenonT(60) DEF PiecesFilledToTheLimit, AllFull, HasSplit, Pieces, Steps
<1> QED BY <1>1, CommandInvariant, PTL

(* The steps of a written piece are still its steps when the parser reads  *)
(* it: the same numbers, titles and checklists in the same order, and the  *)
(* description at least as long, whatever else the handoff holds, when the *)
(* piece's descriptions begin as text: no line that render.rs writes of    *)
(* such a step is one that markdown.rs takes for a heading, a rule or a    *)
(* switch of region before the checklist's own heading.                    *)
THEOREM Survive == CommandSpec => []StepsSurvive
<1>1. CommandInv => StepsSurvive
  <2> SUFFICES ASSUME CommandInv PROVE StepsSurvive OBVIOUS
  <2>1. ASSUME NEW r \in Runs, HasSplit(r) PROVE Survives(run[r].made)
    <3>1. Consistent(run[r]) /\ run[r].made.error = "none"
      BY <2>1 DEF CommandInv, HasSplit
    <3>2. run[r].of \in DraftIds /\ run[r].made = Outcomes[run[r].of]
      BY <3>1 DEF Consistent
    <3> QED BY <3>1, <3>2, OutcomeSurvives
  <2> QED BY <2>1, ZenonT(60) DEF StepsSurvive, SurvivesIn, Survives, Faithful, Pieces, Steps
<1> QED BY <1>1, CommandInvariant, PTL

(* A run of the command that answered "ok" left each piece whole under its *)
(* name unless another run got to that name; a file is empty only where a  *)
(* run is about to fill it or has failed, and torn only where one has      *)
(* failed or runs of different handoffs met: for any number of runs over   *)
(* any handoffs (the loop of commands/decompose.rs).                       *)
THEOREM PiecesWritten == CommandSpec => []OkMeansWritten
<1>1. CommandInv => OkMeansWritten
  <2> SUFFICES ASSUME CommandInv PROVE OkMeansWritten OBVIOUS
  <2>1. \A q \in Runs : \A f : ReachedBy(run[q], f) <=> Reached(q, f)
    BY DEF Reached, ReachedBy, HasSplit, Pieces, FileOf, Name
  <2>2. ASSUME NEW r \in Runs, run[r].pc = "ok", ~run[r].dry, NEW i \in DOMAIN Pieces(r)
        PROVE  \/ disk[FileOf(r, i)] = Piece(run[r].of, i)
               \/ \E q \in Runs \ {r} : Reached(q, FileOf(r, i))
    <3>1. run[r] \in Run /\ Consistent(run[r]) BY DEF CommandInv, CommandTypeOK
    <3>2. run[r].made.error = "none" /\ run[r].next = Len(run[r].made.pieces) + 1
      BY <2>2, <3>1 DEF Consistent
    <3>3. Len(run[r].made.pieces) \in Nat /\ i \in 1 .. Len(run[r].made.pieces)
      BY <2>2, <3>1, <3>2, RunFiles DEF Pieces
    <3>4. i < run[r].next BY <3>2, <3>3
    <3>5. \/ disk[Name(run[r], i)] = Piece(run[r].of, i)
          \/ \E q \in Runs \ {r} : ReachedBy(run[q], Name(run[r], i))
      BY <2>2, <3>2, <3>3, <3>4 DEF CommandInv, Written
    <3>6. Name(run[r], i) = FileOf(r, i) BY DEF Name, FileOf
    <3> QED BY <2>1, <3>5, <3>6
  <2>3. \A q \in Runs : \A f : StandsAt(run[q], f) <=> Stands(q, f)
    BY <2>1 DEF Stands, StandsAt, Name, Current, FileOf
  <2>4. ASSUME NEW f \in Files, disk[f] = Emptied
        PROVE  \E r \in Runs : run[r].pc \in {"fill", "failed"} /\ Stands(r, f)
    <3>1. EmptyFor(f) BY <2>4 DEF CommandInv, Flawed
    <3> QED BY <2>3, <3>1 DEF EmptyFor
  <2>5. ASSUME NEW f \in Files, disk[f] = Torn
        PROVE  \/ \E r \in Runs : run[r].pc = "failed" /\ Stands(r, f)
               \/ \E q, r \in Runs :
                    Reached(q, f) /\ Reached(r, f) /\ run[q].of # run[r].of
    <3>1. TornFor(f) BY <2>5 DEF CommandInv, Flawed
    <3> QED BY <2>1, <2>3, <3>1 DEF TornFor
  <2> QED BY <2>2, <2>4, <2>5, Zenon DEF OkMeansWritten
<1> QED BY <1>1, CommandInvariant, PTL
=============================================================================
