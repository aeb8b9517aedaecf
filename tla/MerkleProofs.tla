----------------------------- MODULE MerkleProofs -----------------------------
(***************************************************************************)
(* Proofs about the Merkle walk, for every tree size and every proof: the  *)
(* counters stay in range and keep the order the code's last test relies   *)
(* on, an accepted proof binds the leaf, or the first root, it is for, and *)
(* the proofs an honest log generates are accepted.                        *)
(***************************************************************************)
EXTENDS MerkleReference, SequenceTheorems, WellFoundedInduction, TLAPS

\* The inductive invariant: types, the order of the counters, and that the walk
\* has counters to speak of only in between start and end.
WalkInv == TypeOK /\ FnWithinSn

\* Halving keeps the range and the order of two counters, and reaches zero only
\* from 0 and 1 (`>>= 1` on both).
LEMMA HalvingOrder ==
    ASSUME NEW a \in Nat, NEW b \in Nat, a <= b
    PROVE  /\ a \div 2 \in Nat /\ a \div 2 <= a
           /\ b \div 2 \in Nat /\ b \div 2 <= b
           /\ a \div 2 <= b \div 2
  OBVIOUS

\* A shift of both counters keeps them in range and in order.
LEMMA HalveKeeps ==
    ASSUME WalkInv, Halve
    PROVE  fn' \in Sizes /\ sn' \in Sizes /\ fn' <= sn'
  <1>1. fn \in Nat /\ sn \in Nat /\ fn <= sn /\ fn <= MaxSize /\ sn <= MaxSize
    BY SizeAssumption DEF WalkInv, TypeOK, FnWithinSn, Sizes
  <1> QED
    BY <1>1, HalvingOrder, SizeAssumption DEF Halve, Sizes

\* Every step keeps the invariant.
LEMMA WalkInvStep == WalkInv /\ [Next]_vars => WalkInv'
  <1> SUFFICES ASSUME WalkInv, [Next]_vars PROVE WalkInv'
    OBVIOUS
  <1> USE SizeAssumption
  <1>0. /\ req.op \in Ops /\ req.m \in Nat /\ req.n \in Nat
        /\ req.m \in Sizes /\ req.n \in Sizes
        /\ fn \in Nat /\ sn \in Nat /\ fn \in Sizes /\ sn \in Sizes /\ fn <= sn
        /\ pc \in Stages
        /\ pc = "skip" => fn = sn /\ fn # 0
    BY DEF WalkInv, TypeOK, FnWithinSn, Sizes
  <1>1. CASE StartInclusion
    BY <1>0, <1>1 DEF StartInclusion, Conclude, WalkInv, TypeOK, FnWithinSn, Sizes, Stages
  <1>2. CASE StartConsistency
    BY <1>0, <1>2 DEF StartConsistency, Conclude, WalkInv, TypeOK, FnWithinSn, Sizes, Stages
  <1>3. CASE StripOnes
    <2>1. pc' = "strip" /\ req' = req /\ Halve
      BY <1>3 DEF StripOnes
    <2> QED
      BY <1>0, <2>1, HalveKeeps DEF WalkInv, TypeOK, FnWithinSn, Stages
  <1>4. CASE Seed
    <2>1. pc' \in {"fold", "rejected"} /\ req' = req /\ fn' = fn /\ sn' = sn
      BY <1>4 DEF Seed, Conclude
    <2> QED
      BY <1>0, <2>1 DEF WalkInv, TypeOK, FnWithinSn, Stages
  <1>5. ASSUME NEW p, FoldInclusion(p) \/ FoldConsistency(p)
        PROVE  WalkInv'
    <2>1. req' = req
      BY <1>5 DEF FoldInclusion, FoldConsistency
    <2>2. CASE sn = 0
      <3>1. pc' = "rejected" /\ fn' = fn /\ sn' = sn
        BY <1>5, <2>2 DEF FoldInclusion, FoldConsistency, Surplus, Conclude
      <3> QED
        BY <1>0, <2>1, <3>1 DEF WalkInv, TypeOK, FnWithinSn, Stages
    <2>3. CASE sn # 0 /\ FromLeft /\ ~lsb(fn)
      <3>1. pc' = "skip" /\ fn' = fn /\ sn' = sn
        BY <1>5, <2>3 DEF FoldInclusion, FoldConsistency, Surplus
      <3>2. fn = sn /\ fn # 0
        BY <2>3 DEF FromLeft
      <3> QED
        BY <1>0, <2>1, <3>1, <3>2 DEF WalkInv, TypeOK, FnWithinSn, Stages
    <2>4. CASE sn # 0 /\ ~(FromLeft /\ ~lsb(fn))
      <3>1. pc' = "fold" /\ Halve
        BY <1>5, <2>4 DEF FoldInclusion, FoldConsistency, Surplus
      <3> QED
        BY <1>0, <2>1, <3>1, HalveKeeps DEF WalkInv, TypeOK, FnWithinSn, Stages
    <2> QED
      BY <2>2, <2>3, <2>4
  <1>6. CASE SkipLevel
    <2>1. req' = req /\ Halve /\ pc' = (IF MoreToSkip THEN "skip" ELSE "fold")
      BY <1>6 DEF SkipLevel
    <2>2. fn = sn /\ fn # 0
      BY <1>0, <1>6 DEF SkipLevel
    <2>3. CASE MoreToSkip
      <3>1. fn' = sn' /\ fn' # 0
        BY <1>0, <2>1, <2>2, <2>3 DEF MoreToSkip, lsb, Halve
      <3> QED
        BY <1>0, <2>1, <2>3, <3>1, HalveKeeps DEF WalkInv, TypeOK, FnWithinSn, Stages
    <2>4. CASE ~MoreToSkip
      BY <1>0, <2>1, <2>4, HalveKeeps DEF WalkInv, TypeOK, FnWithinSn, Stages
    <2> QED
      BY <2>3, <2>4
  <1>7. CASE EndInclusion \/ EndConsistency
    <2>1. pc' \in {"accepted", "rejected"} /\ req' = req /\ fn' = fn /\ sn' = sn
      BY <1>7 DEF EndInclusion, EndConsistency, Conclude
    <2> QED
      BY <1>0, <2>1 DEF WalkInv, TypeOK, FnWithinSn, Stages
  <1>8. CASE UNCHANGED vars
    BY <1>8 DEF vars, WalkInv, TypeOK, FnWithinSn
  <1> QED
    BY <1>1, <1>2, <1>3, <1>4, <1>5, <1>6, <1>7, <1>8 DEF Next

\* WalkInv, of which the two invariants the runs check are parts, holds of the
\* walks of verify_inclusion and verify_consistency in trees of every size.
THEOREM WalkInvariance == Spec => []WalkInv
  <1>1. Init => WalkInv
    BY SizeAssumption DEF Init, WalkInv, TypeOK, FnWithinSn, Sizes, Stages
  <1> QED
    BY <1>1, WalkInvStep, PTL DEF Spec

\* Neither counter of a walk wraps or leaves the range of the sizes, for trees of
\* every size.
THEOREM WalkTypeCorrect == Spec => []TypeOK
  <1>1. WalkInv => TypeOK
    BY DEF WalkInv
  <1> QED
    BY <1>1, WalkInvariance, PTL

\* The walk's counters never cross, and a level is skipped only on the right edge
\* above zero: for trees of every size.
THEOREM CountersStayOrdered == Spec => []FnWithinSn
  <1>1. WalkInv => FnWithinSn
    BY DEF WalkInv
  <1> QED
    BY <1>1, WalkInvariance, PTL

-------------------------------------------------------------------------------
(***************************************************************************)
(* What the reference definitions say.  Each is a recursion over a number, *)
(* and what it computes is shown by induction: a set that holds zero, and  *)
(* with every number the next one, leaves no least number out.             *)
(***************************************************************************)
LEMMA Induction ==
    ASSUME NEW S, 0 \in S, \A n \in Nat : n \in S => n + 1 \in S
    PROVE  Nat \subseteq S
  <1> DEFINE T == Nat \ S
  <1> SUFFICES ASSUME T # {} PROVE FALSE
    OBVIOUS
  <1>1. PICK x \in T : \A y \in T : ~(<<y, x>> \in OpToRel(<, Nat))
    <2>1. T \subseteq Nat
      OBVIOUS
    <2> HIDE DEF T
    <2> QED
      BY <2>1, NatLessThanWellFounded, WFMin
  <1>2. \A y \in T : ~(y < x)
    BY <1>1 DEF OpToRel
  <1>3. x \in Nat /\ x # 0
    BY <1>1
  <1>4. x - 1 \in Nat /\ x - 1 < x /\ x = (x - 1) + 1
    BY <1>3
  <1>5. x - 1 \in S
    BY <1>2, <1>4
  <1>6. x \in S
    BY <1>4, <1>5
  <1> QED
    BY <1>1, <1>6

\* The recursive function Power exists, and its equations hold.
LEMMA PowerDef ==
    /\ Power[0] = 1
    /\ \A e \in 1..MaxSize : Power[e] = 2 * Power[e - 1]
  <1> DEFINE Def(g, n) == [e \in 0..n |-> IF e = 0 THEN 1 ELSE 2 * g[e - 1]]
             S == {n \in Nat : \E g : g = Def(g, n)}
  <1> USE SizeAssumption
  <1>1. 0 \in S
    <2> DEFINE g == [e \in 0..0 |-> 1]
    <2>1. g = Def(g, 0)
      OBVIOUS
    <2> QED
      BY <2>1
  <1>2. ASSUME NEW n \in Nat, n \in S PROVE n + 1 \in S
    <2>1. PICK g : g = Def(g, n)
      BY <1>2
    <2> DEFINE h == [e \in 0..(n + 1) |-> IF e <= n THEN g[e] ELSE 2 * g[n]]
    <2>2. \A e \in 0..(n + 1) : h[e] = IF e = 0 THEN 1 ELSE 2 * h[e - 1]
      <3> SUFFICES ASSUME NEW e \in 0..(n + 1) PROVE h[e] = IF e = 0 THEN 1 ELSE 2 * h[e - 1]
        OBVIOUS
      <3>1. CASE e = 0
        BY <2>1, <3>1
      <3>2. CASE e # 0 /\ e <= n
        <4>1. e \in 0..n /\ e - 1 \in 0..(n + 1) /\ e - 1 <= n
          BY <3>2
        <4>2. h[e] = g[e] /\ h[e - 1] = g[e - 1]
          BY <3>2, <4>1
        <4>3. g[e] = 2 * g[e - 1]
          BY <2>1, <3>2, <4>1
        <4> QED
          BY <3>2, <4>2, <4>3
      <3>3. CASE e = n + 1
        <4>1. h[e] = 2 * g[n] /\ h[e - 1] = g[n] /\ e # 0
          BY <3>3
        <4> QED
          BY <4>1
      <3> QED
        BY <3>1, <3>2, <3>3
    <2>3. h = Def(h, n + 1)
      BY <2>2
    <2>4. \E f : f = Def(f, n + 1)
      <3> HIDE DEF h, Def
      <3> QED
        BY <2>3
    <2>5. n + 1 \in Nat
      OBVIOUS
    <2> HIDE DEF Def
    <2> QED
      BY <2>4, <2>5
  <1>3. MaxSize \in S
    <2> HIDE DEF S
    <2>1. Nat \subseteq S
      BY <1>1, <1>2, Induction
    <2> QED
      BY <2>1
  <1>4. PICK g : g = Def(g, MaxSize)
    BY <1>3
  <1>5. PICK f : f = Power /\ f = Def(f, MaxSize)
    BY <1>4 DEF Power
  <1>6. \A e \in 0..MaxSize : f[e] = IF e = 0 THEN 1 ELSE 2 * f[e - 1]
    BY <1>5
  <1>7. f[0] = 1 /\ \A e \in 1..MaxSize : f[e] = 2 * f[e - 1]
    BY <1>6
  <1> QED
    BY <1>5, <1>7

\* Every descent exists, and goes down step by step.
LEMMA DescentDef ==
    ASSUME NEW x
    PROVE  /\ Descent(x)[0] = x
           /\ \A s \in 1..MaxSize : Descent(x)[s] = Descend(Descent(x)[s - 1])
  <1> DEFINE Def(g, n) == [s \in 0..n |-> IF s = 0 THEN x ELSE Descend(g[s - 1])]
             S == {n \in Nat : \E g : g = Def(g, n)}
  <1> USE SizeAssumption
  <1>1. 0 \in S
    <2> DEFINE g == [s \in 0..0 |-> x]
    <2>1. g = Def(g, 0)
      OBVIOUS
    <2> QED
      BY <2>1
  <1>2. ASSUME NEW n \in Nat, n \in S PROVE n + 1 \in S
    <2>1. PICK g : g = Def(g, n)
      BY <1>2
    <2> DEFINE h == [s \in 0..(n + 1) |-> IF s <= n THEN g[s] ELSE Descend(g[n])]
    <2>2. \A s \in 0..(n + 1) : h[s] = IF s = 0 THEN x ELSE Descend(h[s - 1])
      <3> SUFFICES ASSUME NEW s \in 0..(n + 1) PROVE h[s] = IF s = 0 THEN x ELSE Descend(h[s - 1])
        OBVIOUS
      <3>1. CASE s = 0
        BY <2>1, <3>1
      <3>2. CASE s # 0 /\ s <= n
        <4>1. s \in 0..n /\ s - 1 \in 0..(n + 1) /\ s - 1 <= n
          BY <3>2
        <4>2. h[s] = g[s] /\ h[s - 1] = g[s - 1]
          BY <3>2, <4>1
        <4>3. g[s] = Descend(g[s - 1])
          BY <2>1, <3>2, <4>1
        <4> QED
          BY <3>2, <4>2, <4>3
      <3>3. CASE s = n + 1
        <4>1. h[s] = Descend(g[n]) /\ h[s - 1] = g[n] /\ s # 0
          BY <3>3
        <4> QED
          BY <4>1
      <3> QED
        BY <3>1, <3>2, <3>3
    <2>3. h = Def(h, n + 1)
      BY <2>2
    <2>4. \E f : f = Def(f, n + 1)
      <3> HIDE DEF h, Def
      <3> QED
        BY <2>3
    <2>5. n + 1 \in Nat
      OBVIOUS
    <2> HIDE DEF Def
    <2> QED
      BY <2>4, <2>5
  <1>3. MaxSize \in S
    <2> HIDE DEF S
    <2>1. Nat \subseteq S
      BY <1>1, <1>2, Induction
    <2> QED
      BY <2>1
  <1>4. PICK g : g = Def(g, MaxSize)
    BY <1>3
  <1>5. PICK f : f = Descent(x) /\ f = Def(f, MaxSize)
    BY <1>4 DEF Descent
  <1>6. \A s \in 0..MaxSize : f[s] = IF s = 0 THEN x ELSE Descend(f[s - 1])
    BY <1>5
  <1>7. f[0] = x /\ \A s \in 1..MaxSize : f[s] = Descend(f[s - 1])
    BY <1>6
  <1> QED
    BY <1>5, <1>7

\* Powers of two are numbers that outgrow their exponents, and the next one is at
\* least twice as large.
LEMMA PowerGrows ==
    ASSUME NEW e \in 0..MaxSize
    PROVE  Power[e] \in Nat /\ Power[e] > e
  <1> USE SizeAssumption
  <1> DEFINE S == {n \in Nat : n <= MaxSize => Power[n] \in Nat /\ Power[n] > n}
  <1>1. 0 \in S
    BY PowerDef
  <1>2. ASSUME NEW n \in Nat, n \in S PROVE n + 1 \in S
    <2> SUFFICES ASSUME n + 1 <= MaxSize PROVE Power[n + 1] \in Nat /\ Power[n + 1] > n + 1
      OBVIOUS
    <2>1. n + 1 \in 1..MaxSize /\ (n + 1) - 1 = n
      OBVIOUS
    <2>2. Power[n + 1] = 2 * Power[n]
      BY <2>1, PowerDef
    <2>3. Power[n] \in Nat /\ Power[n] > n
      BY <1>2, <2>1
    <2> QED
      BY <2>2, <2>3
  <1>3. Nat \subseteq S
    <2> HIDE DEF S
    <2> QED
      BY <1>1, <1>2, Induction
  <1> QED
    BY <1>3

LEMMA PowersApart ==
    ASSUME NEW d \in 0..MaxSize, NEW e \in 0..MaxSize, d < e
    PROVE  2 * Power[d] <= Power[e]
  <1> USE SizeAssumption
  <1> DEFINE S == {n \in Nat : d + 1 + n <= MaxSize => 2 * Power[d] <= Power[d + 1 + n]}
  <1>0. Power[d] \in Nat
    BY PowerGrows
  <1>1. 0 \in S
    <2> SUFFICES ASSUME d + 1 + 0 <= MaxSize PROVE 2 * Power[d] <= Power[d + 1 + 0]
      OBVIOUS
    <2>1. d + 1 + 0 = d + 1 /\ d + 1 \in 1..MaxSize /\ (d + 1) - 1 = d
      OBVIOUS
    <2>2. Power[d + 1] = 2 * Power[d]
      BY <2>1, PowerDef
    <2> QED
      BY <1>0, <2>1, <2>2
  <1>2. ASSUME NEW n \in Nat, n \in S PROVE n + 1 \in S
    <2> SUFFICES ASSUME d + 1 + (n + 1) <= MaxSize
                 PROVE  2 * Power[d] <= Power[d + 1 + (n + 1)]
      OBVIOUS
    <2> DEFINE f == d + 1 + n
    <2>1. f \in 0..MaxSize /\ f + 1 \in 1..MaxSize /\ (f + 1) - 1 = f /\ d + 1 + (n + 1) = f + 1
      OBVIOUS
    <2>2. 2 * Power[d] <= Power[f]
      BY <1>2, <2>1
    <2> HIDE DEF f
    <2>3. Power[f + 1] = 2 * Power[f] /\ Power[f] \in Nat
      BY <2>1, PowerDef, PowerGrows
    <2> QED
      BY <1>0, <2>1, <2>2, <2>3
  <1>3. Nat \subseteq S
    <2> HIDE DEF S
    <2> QED
      BY <1>1, <1>2, Induction
  <1>4. e - d - 1 \in Nat /\ d + 1 + (e - d - 1) = e
    OBVIOUS
  <1>5. e - d - 1 \in S
    BY <1>3, <1>4
  <1> QED
    BY <1>4, <1>5

\* A tree of n leaves is split at the one power of two below n that is at least its
\* half.
LEMMA SplitIs ==
    ASSUME NEW n \in 2..MaxSize, NEW e \in 0..MaxSize, Power[e] < n, n <= 2 * Power[e]
    PROVE  Split[n] = Power[e]
  <1> USE SizeAssumption
  <1>1. Power[e] \in 1..(n - 1) /\ e \in 0..n
    BY PowerGrows
  <1>2. ASSUME NEW k \in 1..(n - 1), 2 * k >= n, NEW d \in 0..n, k = Power[d]
        PROVE  k = Power[e]
    <2>1. d \in 0..MaxSize
      OBVIOUS
    <2>2. ~(d < e)
      BY <1>1, <1>2, <2>1, PowersApart
    <2>3. ~(e < d)
      BY <1>1, <1>2, <2>1, PowersApart
    <2>4. d = e
      BY <2>1, <2>2, <2>3
    <2> QED
      BY <1>2, <2>4
  <1>3. Split[n] = CHOOSE k \in 1..(n - 1) : 2 * k >= n /\ \E d \in 0..n : k = Power[d]
    BY DEF Split
  <1>4. 2 * Power[e] >= n
    BY <1>1
  <1> QED
    BY <1>1, <1>2, <1>3, <1>4

\* One step first, then the rest, is the descent itself.
LEMMA DescentShift ==
    ASSUME NEW x, NEW s \in 0..MaxSize, s + 1 <= MaxSize
    PROVE  Descent(x)[s + 1] = Descent(Descend(x))[s]
  <1> USE SizeAssumption
  <1> DEFINE S == {n \in Nat : n + 1 <= MaxSize => Descent(x)[n + 1] = Descent(Descend(x))[n]}
  <1>1. 0 \in S
    <2> SUFFICES ASSUME 0 + 1 <= MaxSize PROVE Descent(x)[0 + 1] = Descent(Descend(x))[0]
      OBVIOUS
    <2>1. 0 + 1 \in 1..MaxSize /\ (0 + 1) - 1 = 0
      OBVIOUS
    <2> QED
      BY <2>1, DescentDef
  <1>2. ASSUME NEW n \in Nat, n \in S PROVE n + 1 \in S
    <2> SUFFICES ASSUME (n + 1) + 1 <= MaxSize
                 PROVE  Descent(x)[(n + 1) + 1] = Descent(Descend(x))[n + 1]
      OBVIOUS
    <2>1. /\ (n + 1) + 1 \in 1..MaxSize /\ ((n + 1) + 1) - 1 = n + 1
          /\ n + 1 \in 1..MaxSize /\ (n + 1) - 1 = n
      OBVIOUS
    <2>2. Descent(x)[n + 1] = Descent(Descend(x))[n]
      BY <1>2, <2>1
    <2>3. Descent(x)[(n + 1) + 1] = Descend(Descent(x)[n + 1])
      BY <2>1, DescentDef
    <2>4. Descent(Descend(x))[n + 1] = Descend(Descent(Descend(x))[n])
      BY <2>1, DescentDef
    <2> QED
      BY <2>2, <2>3, <2>4
  <1>3. Nat \subseteq S
    <2> HIDE DEF S
    <2> QED
      BY <1>1, <1>2, Induction
  <1> QED
    BY <1>3

-------------------------------------------------------------------------------
(***************************************************************************)
(* What a root commits to, bottom up: the rules by which a walk that folds *)
(* one more hash into its root commits to one more level.                  *)
(***************************************************************************)
At(op, h, n, g, m) == [op |-> op, h |-> h, n |-> n, g |-> g, m |-> m]

\* A leaf is itself, and so is a tree that is its own prefix.
LEMMA BindsItself ==
    ASSUME NEW op \in Ops, NEW h, NEW n \in 1..MaxSize,
           op = "inclusion" => n = 1
    PROVE  Binds(op, h, n, h, n)
  <1> USE SizeAssumption
  <1> DEFINE x == At(op, h, n, h, n)
  <1>1. Descent(x)[0] = x
    BY DescentDef
  <1>2. Settled(x) /\ x.h = x.g
    BY DEF Settled, At, Ops
  <1>3. 0 \in 0..(n - 1)
    OBVIOUS
  <1> HIDE DEF x
  <1>4. Settled(Descent(x)[0]) /\ Descent(x)[0].h = Descent(x)[0].g
    BY <1>1, <1>2
  <1> QED
    BY <1>3, <1>4 DEF Binds, x, At

\* What the descent commits to after one step, it committed to before.
LEMMA BindsAbove ==
    ASSUME NEW op, NEW h, NEW n \in 1..MaxSize, NEW g, NEW m,
           NEW h2, NEW n2 \in 1..(n - 1), NEW g2, NEW m2,
           Descend(At(op, h, n, g, m)) = At(op, h2, n2, g2, m2),
           Binds(op, h2, n2, g2, m2)
    PROVE  Binds(op, h, n, g, m)
  <1> USE SizeAssumption
  <1> DEFINE x == At(op, h, n, g, m)
             y == At(op, h2, n2, g2, m2)
  <1>1. PICK s \in 0..(n2 - 1) : Settled(Descent(y)[s]) /\ Descent(y)[s].h = Descent(y)[s].g
    BY DEF Binds, At
  <1>2. s + 1 \in 0..(n - 1) /\ s \in 0..MaxSize /\ s + 1 <= MaxSize
    OBVIOUS
  <1>3. Descent(x)[s + 1] = Descent(y)[s]
    <2>1. Descend(x) = y
      OBVIOUS
    <2> HIDE DEF x, y
    <2> QED
      BY <1>2, <2>1, DescentShift
  <1>4. /\ Settled(Descent(x)[s + 1])
        /\ Descent(x)[s + 1].h = Descent(x)[s + 1].g
    BY <1>1, <1>3
  <1> QED
    BY <1>2, <1>4 DEF Binds, At

\* A descent that has settled goes nowhere.
LEMMA SettledStays ==
    ASSUME NEW x, Settled(x), NEW s \in 0..MaxSize
    PROVE  Descent(x)[s] = x
  <1> USE SizeAssumption
  <1> DEFINE S == {n \in Nat : n <= MaxSize => Descent(x)[n] = x}
  <1>1. 0 \in S
    BY DescentDef
  <1>2. ASSUME NEW n \in Nat, n \in S PROVE n + 1 \in S
    <2> SUFFICES ASSUME n + 1 <= MaxSize PROVE Descent(x)[n + 1] = x
      OBVIOUS
    <2>1. n + 1 \in 1..MaxSize /\ (n + 1) - 1 = n
      OBVIOUS
    <2>2. Descent(x)[n + 1] = Descend(Descent(x)[n]) /\ Descent(x)[n] = x
      BY <1>2, <2>1, DescentDef
    <2> QED
      BY <2>2 DEF Descend
  <1>3. Nat \subseteq S
    <2> HIDE DEF S
    <2> QED
      BY <1>1, <1>2, Induction
  <1> QED
    BY <1>3

\* Of a tree of n leaves there is one prefix of n leaves.
LEMMA BindsWhole ==
    ASSUME NEW h, NEW n \in 1..MaxSize, NEW g, Binds("consistency", h, n, g, n)
    PROVE  h = g
  <1> USE SizeAssumption
  <1> DEFINE x == At("consistency", h, n, g, n)
  <1>1. PICK s \in 0..(n - 1) : Descent(x)[s].h = Descent(x)[s].g
    BY DEF Binds, At
  <1>2. Settled(x) /\ x.h = h /\ x.g = g
    BY DEF Settled, At
  <1>3. s \in 0..MaxSize
    OBVIOUS
  <1> HIDE DEF x
  <1>4. Descent(x)[s] = x
    BY <1>2, <1>3, SettledStays
  <1> QED
    BY <1>1, <1>2, <1>4

\* A hash folded in from the right: the tree so far is the left half.
LEMMA BindsLeft ==
    ASSUME NEW op \in Ops, NEW l, NEW r, NEW n \in 2..MaxSize, NEW k \in 1..(n - 1), Split[n] = k,
           NEW g, NEW m \in 1..k, Binds(op, l, k, g, m)
    PROVE  Binds(op, Node(l, r), n, g, m)
  <1> USE SizeAssumption
  <1> DEFINE x == At(op, Node(l, r), n, g, m)
  <1>1. x.op = op /\ x.h = Node(l, r) /\ x.n = n /\ x.g = g /\ x.m = m
    BY DEF At
  <1>2. ~Settled(x)
    BY <1>1 DEF Settled, Ops
  <1>3. IsNode(x.h) /\ x.h[1] = l
    BY <1>1 DEF IsNode, Node
  <1>4. x.m <= Split[x.n]
    BY <1>1
  <1>5. IntoLeft(x) = At(op, l, k, g, m)
    <2>1. IntoLeft(x) = [x EXCEPT !.h = l, !.n = k]
      BY <1>1, <1>3 DEF IntoLeft
    <2> QED
      BY <2>1 DEF At
  <1>6. Descend(x) = At(op, l, k, g, m)
    BY <1>2, <1>3, <1>4, <1>5 DEF Descend
  <1>7. n \in 1..MaxSize
    OBVIOUS
  <1> QED
    BY <1>6, <1>7, BindsAbove

\* A hash folded in from the left: the tree so far is the right half.
LEMMA BindsRight ==
    ASSUME NEW op \in Ops, NEW l, NEW r, NEW n \in 2..MaxSize, NEW k \in 1..(n - 1), Split[n] = k,
           NEW g, NEW m \in (k + 1)..n, Binds(op, r, n - k, g, m - k)
    PROVE  Binds(op, Node(l, r), n, IF op = "inclusion" THEN g ELSE Node(l, g), m)
  <1> USE SizeAssumption
  <1> DEFINE gg == IF op = "inclusion" THEN g ELSE Node(l, g)
             x == At(op, Node(l, r), n, gg, m)
  <1>1. CASE op = "consistency" /\ m = n
    <2>1. r = g
      <3>1. n - k \in 1..MaxSize
        OBVIOUS
      <3> QED
        BY <1>1, <3>1, BindsWhole
    <2>2. n \in 1..MaxSize
      OBVIOUS
    <2>3. gg = Node(l, r)
      BY <1>1, <2>1
    <2> QED
      BY <1>1, <2>2, <2>3, BindsItself
  <1>2. CASE op = "inclusion" \/ m # n
    <2>1. x.op = op /\ x.h = Node(l, r) /\ x.n = n /\ x.g = gg /\ x.m = m
      BY DEF At
    <2>2. ~Settled(x)
      BY <1>2, <2>1 DEF Settled, Ops
    <2>3. IsNode(x.h) /\ x.h[1] = l /\ x.h[2] = r
      BY <2>1 DEF IsNode, Node
    <2>4. ~(x.m <= Split[x.n])
      BY <2>1
    <2>5. op # "inclusion" => IsNode(x.g) /\ x.g[1] = x.h[1] /\ x.g[2] = g
      BY <2>1 DEF IsNode, Node
    <2>6. IntoRight(x) = At(op, r, n - k, g, m - k)
      <3>1. IntoRight(x) = [x EXCEPT !.h = r, !.n = n - k, !.m = m - k, !.g = g]
        BY <2>1, <2>3, <2>5 DEF IntoRight
      <3> QED
        BY <3>1 DEF At
    <2>7. Descend(x) = At(op, r, n - k, g, m - k)
      <3> HIDE DEF x
      <3> QED
        BY <2>1, <2>2, <2>3, <2>4, <2>5, <2>6 DEF Descend
    <2>8. n \in 1..MaxSize /\ n - k \in 1..(n - 1)
      OBVIOUS
    <2> HIDE DEF gg
    <2>9. Binds(op, Node(l, r), n, gg, m)
      BY <2>7, <2>8, BindsAbove
    <2> QED
      BY <2>9 DEF gg
  <1> QED
    BY <1>1, <1>2 DEF Ops

-------------------------------------------------------------------------------
(***************************************************************************)
(* One level of the tree after the other.  At a level whose nodes stand    *)
(* for 2^e leaves, the node at position a begins at leaf lo, and the last  *)
(* node, at position b and perhaps incomplete, at leaf hi.                 *)
(***************************************************************************)
Level(N, R, a, b, e, lo, hi) ==
    /\ e \in 0..MaxSize /\ lo \in Nat /\ hi \in Nat
    /\ lo = a * Power[e] /\ hi = b * Power[e]
    /\ hi < N /\ N <= hi + Power[e]
    /\ lo < R /\ R <= lo + Power[e]

\* How many leaves that is at position a.
Size(N, a, b, e, lo) == IF a = b THEN N - lo ELSE Power[e]

\* The node h at position a is the root of the leaves it stands for, and commits to
\* g as its leaf R (counted from 1, in the whole tree), or as the root of its leaves
\* up to R.
Stands(op, N, R, a, b, h, g) ==
    \E e, lo, hi : /\ Level(N, R, a, b, e, lo, hi)
                   /\ Binds(op, h, Size(N, a, b, e, lo), g, R - lo)

\* What becomes of g when p is folded in from the left.
WithLeft(op, p, g) == IF op = "inclusion" THEN g ELSE Node(p, g)

LEMMA Products ==
    ASSUME NEW c \in Nat, NEW w \in Nat
    PROVE  /\ (2 * c) * w = c * (2 * w)
           /\ (2 * c + 1) * w = c * (2 * w) + w
  OBVIOUS

LEMMA ProductsOrdered ==
    ASSUME NEW a \in Nat, NEW b \in Nat, NEW w \in Nat, a < b
    PROVE  a * w + w <= b * w
  <1> DEFINE d == b - a - 1
  <1>1. d \in Nat /\ b = a + 1 + d
    OBVIOUS
  <1> HIDE DEF d
  <1>2. (a + 1 + d) * w = a * w + w + d * w /\ d * w \in Nat /\ a * w \in Nat
    BY <1>1
  <1> QED
    BY <1>1, <1>2

LEMMA Halves ==
    ASSUME NEW a \in Nat
    PROVE  /\ a \div 2 \in Nat
           /\ lsb(a) => a = 2 * (a \div 2) + 1
           /\ ~lsb(a) => a = 2 * (a \div 2)
  BY DEF lsb

\* Below the root every level has one above it.
LEMMA LevelUp ==
    ASSUME NEW N \in 1..MaxSize, NEW R \in 1..N, NEW a \in Nat, NEW b \in Nat, a <= b, b # 0,
           NEW e, NEW lo, NEW hi, Level(N, R, a, b, e, lo, hi)
    PROVE  /\ Power[e] \in Nat \ {0} /\ Power[e + 1] = 2 * Power[e] /\ Power[e] < N
           /\ lsb(a) => lo >= Power[e]
           /\ Level(N, R, a \div 2, b \div 2, e + 1,
                    IF lsb(a) THEN lo - Power[e] ELSE lo, IF lsb(b) THEN hi - Power[e] ELSE hi)
  <1> USE SizeAssumption
  <1> DEFINE w == Power[e]
             lo2 == IF lsb(a) THEN lo - w ELSE lo
             hi2 == IF lsb(b) THEN hi - w ELSE hi
             a2 == a \div 2
             b2 == b \div 2
  <1>1. /\ e \in 0..MaxSize /\ lo \in Nat /\ hi \in Nat /\ lo = a * w /\ hi = b * w
        /\ hi < N /\ N <= hi + w /\ lo < R /\ R <= lo + w
    BY DEF Level
  <1>2. w \in Nat /\ w > e
    BY <1>1, PowerGrows
  <1>3. w <= hi
    <2>1. 0 < b /\ 0 * w + w = w
      BY <1>2
    <2>2. 0 * w + w <= b * w
      BY <1>2, <2>1, ProductsOrdered
    <2> QED
      BY <1>1, <2>1, <2>2
  <1>4. e + 1 \in 1..MaxSize /\ (e + 1) - 1 = e
    BY <1>1, <1>2, <1>3
  <1>5. Power[e + 1] = 2 * w
    BY <1>4, PowerDef
  <1>6. a2 \in Nat /\ (lsb(a) => a = 2 * a2 + 1) /\ (~lsb(a) => a = 2 * a2)
    BY Halves
  <1>7. b2 \in Nat /\ (lsb(b) => b = 2 * b2 + 1) /\ (~lsb(b) => b = 2 * b2)
    BY Halves
  <1> HIDE DEF w, a2, b2
  <1>8. lo2 = a2 * (2 * w) /\ (lsb(a) => lo >= w)
    <2>1. a2 * (2 * w) \in Nat
      BY <1>2, <1>6
    <2> QED
      BY <1>1, <1>2, <1>6, <2>1, Products
  <1>9. hi2 = b2 * (2 * w) /\ (lsb(b) => hi >= w)
    <2>1. b2 * (2 * w) \in Nat
      BY <1>2, <1>7
    <2> QED
      BY <1>1, <1>2, <1>7, <2>1, Products
  <1>10. lo2 \in Nat /\ hi2 \in Nat
    BY <1>1, <1>2, <1>8, <1>9
  <1>11. hi2 < N /\ N <= hi2 + 2 * w /\ lo2 < R /\ R <= lo2 + 2 * w
    BY <1>1, <1>2
  <1>12. e + 1 \in 0..MaxSize
    BY <1>4
  <1>13. Level(N, R, a2, b2, e + 1, lo2, hi2)
    <2> HIDE DEF lo2, hi2
    <2> QED
      BY <1>5, <1>8, <1>9, <1>10, <1>11, <1>12 DEF Level
  <1> QED
    BY <1>1, <1>2, <1>3, <1>5, <1>8, <1>13 DEF w, a2, b2

\* At an odd position the subtree is the right half of the one above it.
LEMMA RightHalf ==
    ASSUME NEW N \in 1..MaxSize, NEW R \in 1..N, NEW a \in Nat, NEW b \in Nat, a <= b, lsb(a),
           NEW e, NEW lo, NEW hi, Level(N, R, a, b, e, lo, hi)
    PROVE  \E w, lo2, hi2, sz, sz2 :
              /\ w = Power[e] /\ w \in Nat \ {0} /\ lo \in Nat /\ lo2 \in Nat /\ lo = lo2 + w
              /\ Level(N, R, a \div 2, b \div 2, e + 1, lo2, hi2)
              /\ sz = Size(N, a, b, e, lo) /\ sz2 = Size(N, a \div 2, b \div 2, e + 1, lo2)
              /\ sz \in 1..w /\ sz2 \in 2..MaxSize /\ sz2 = sz + w /\ Split[sz2] = w
              /\ R - lo \in 1..sz
  <1> USE SizeAssumption
  <1> DEFINE w == Power[e]
             a2 == a \div 2
             b2 == b \div 2
             lo2 == lo - w
             hi2 == IF lsb(b) THEN hi - w ELSE hi
             sz == IF a = b THEN N - lo ELSE w
             sz2 == IF a2 = b2 THEN N - lo2 ELSE 2 * w
  <1>2. /\ a2 \in Nat /\ a = 2 * a2 + 1 /\ b2 \in Nat
        /\ (lsb(b) => b = 2 * b2 + 1) /\ (~lsb(b) => b = 2 * b2)
    BY Halves
  <1>3. b # 0
    BY <1>2
  <1>4. /\ w \in Nat \ {0} /\ Power[e + 1] = 2 * w /\ w < N /\ lo >= w
        /\ Level(N, R, a2, b2, e + 1, lo2, hi2)
    BY <1>3, LevelUp
  <1>5. /\ e \in 0..MaxSize /\ lo \in Nat /\ hi \in Nat /\ lo = a * w /\ hi = b * w
        /\ hi < N /\ N <= hi + w /\ lo < R /\ R <= lo + w
    BY DEF Level
  <1>6. a < b => lo + w <= hi
    BY <1>4, <1>5, ProductsOrdered
  <1>7. a = b => lo = hi
    BY <1>5
  <1>8. (a = b) <=> (a2 = b2)
    BY <1>2
  <1> HIDE DEF w, a2, b2
  <1>9. sz2 = sz + w /\ sz \in 1..w
    BY <1>4, <1>5, <1>7, <1>8
  <1>10. sz2 \in 2..MaxSize /\ w < sz2 /\ sz2 <= 2 * w
    BY <1>4, <1>5, <1>6, <1>7, <1>8, <1>9
  <1>11. Split[sz2] = w
    <2> HIDE DEF sz2
    <2> QED
      BY <1>5, <1>10, SplitIs DEF w
  <1>12. R - lo \in 1..sz /\ lo2 \in Nat /\ lo = lo2 + w
    BY <1>4, <1>5, <1>7, <1>8, <1>9
  <1>13. sz = Size(N, a, b, e, lo) /\ sz2 = Size(N, a2, b2, e + 1, lo2)
    BY <1>4 DEF Size, w
  <1> HIDE DEF sz, sz2, lo2, hi2
  <1> QED
    BY <1>4, <1>5, <1>9, <1>10, <1>11, <1>12, <1>13 DEF w, a2, b2

\* At an even position that is not the last it is the left half, and complete.
LEMMA LeftHalf ==
    ASSUME NEW N \in 1..MaxSize, NEW R \in 1..N, NEW a \in Nat, NEW b \in Nat, a < b, ~lsb(a),
           NEW e, NEW lo, NEW hi, Level(N, R, a, b, e, lo, hi)
    PROVE  \E w, hi2, sz2 :
              /\ w = Power[e] /\ w \in Nat \ {0} /\ lo \in Nat
              /\ Level(N, R, a \div 2, b \div 2, e + 1, lo, hi2)
              /\ w = Size(N, a, b, e, lo) /\ sz2 = Size(N, a \div 2, b \div 2, e + 1, lo)
              /\ sz2 \in 2..MaxSize /\ w < sz2 /\ Split[sz2] = w
              /\ R - lo \in 1..w
  <1> USE SizeAssumption
  <1> DEFINE w == Power[e]
             a2 == a \div 2
             b2 == b \div 2
             hi2 == IF lsb(b) THEN hi - w ELSE hi
             sz2 == IF a2 = b2 THEN N - lo ELSE 2 * w
  <1>2. /\ a2 \in Nat /\ a = 2 * a2 /\ b2 \in Nat
        /\ (lsb(b) => b = 2 * b2 + 1) /\ (~lsb(b) => b = 2 * b2)
    BY Halves
  <1>3. b # 0 /\ a <= b
    BY <1>2
  <1>4. /\ w \in Nat \ {0} /\ Power[e + 1] = 2 * w /\ w < N
        /\ Level(N, R, a2, b2, e + 1, lo, hi2)
    BY <1>3, LevelUp
  <1>5. /\ e \in 0..MaxSize /\ lo \in Nat /\ hi \in Nat
        /\ hi < N /\ N <= hi + w /\ lo < R /\ R <= lo + w
    BY DEF Level
  <1>6. lo = a2 * (2 * w) /\ hi2 = b2 * (2 * w) /\ hi2 \in Nat /\ hi2 < N
    BY <1>4 DEF Level
  <1>7. a2 = b2 \/ a2 < b2
    BY <1>2
  <1>8. a2 = b2 => lsb(b)
    BY <1>2
  <1>9. a2 = b2 => hi = lo + w
    BY <1>4, <1>5, <1>6, <1>8
  <1>10. a2 < b2 => lo + 2 * w <= hi2
    BY <1>2, <1>4, <1>6, ProductsOrdered
  <1> HIDE DEF w, a2, b2, hi2
  <1>11. sz2 \in 2..MaxSize /\ w < sz2 /\ sz2 <= 2 * w
    BY <1>4, <1>5, <1>6, <1>7, <1>9, <1>10
  <1>12. Split[sz2] = w
    <2> HIDE DEF sz2
    <2> QED
      BY <1>5, <1>11, SplitIs DEF w
  <1>13. R - lo \in 1..w
    BY <1>4, <1>5
  <1>14. w = Size(N, a, b, e, lo) /\ sz2 = Size(N, a2, b2, e + 1, lo)
    BY <1>3, <1>4 DEF Size, w
  <1> HIDE DEF sz2
  <1> QED
    BY <1>4, <1>5, <1>11, <1>12, <1>13, <1>14 DEF w, a2, b2

\* An even last position has no sibling: the same leaves, one level up.
LEMMA NoHalf ==
    ASSUME NEW N \in 1..MaxSize, NEW R \in 1..N, NEW a \in Nat, a # 0, ~lsb(a),
           NEW e, NEW lo, NEW hi, Level(N, R, a, a, e, lo, hi)
    PROVE  /\ Level(N, R, a \div 2, a \div 2, e + 1, lo, hi)
           /\ Size(N, a \div 2, a \div 2, e + 1, lo) = Size(N, a, a, e, lo)
  <1>1. a <= a
    OBVIOUS
  <1>2. Level(N, R, a \div 2, a \div 2, e + 1, lo, hi)
    BY <1>1, LevelUp
  <1> QED
    BY <1>2 DEF Size

\* So a hash folded in at an odd position is the left sibling, a complete subtree.
LEMMA StandsRight ==
    ASSUME NEW op \in Ops, NEW N \in 1..MaxSize, NEW R \in 1..N, NEW a \in Nat, NEW b \in Nat,
           a <= b, lsb(a), NEW h, NEW g, NEW p, Stands(op, N, R, a, b, h, g)
    PROVE  Stands(op, N, R, a \div 2, b \div 2, Node(p, h), WithLeft(op, p, g))
  <1> USE SizeAssumption
  <1>1. PICK e, lo, hi : /\ Level(N, R, a, b, e, lo, hi)
                         /\ Binds(op, h, Size(N, a, b, e, lo), g, R - lo)
    BY DEF Stands
  <1>2. PICK w, lo2, hi2, sz, sz2 :
              /\ w \in Nat \ {0} /\ lo \in Nat /\ lo2 \in Nat /\ lo = lo2 + w
              /\ Level(N, R, a \div 2, b \div 2, e + 1, lo2, hi2)
              /\ sz = Size(N, a, b, e, lo) /\ sz2 = Size(N, a \div 2, b \div 2, e + 1, lo2)
              /\ sz \in 1..w /\ sz2 \in 2..MaxSize /\ sz2 = sz + w /\ Split[sz2] = w
              /\ R - lo \in 1..sz
    BY <1>1, RightHalf
  <1>3. /\ R - lo2 \in (w + 1)..sz2 /\ (R - lo2) - w = R - lo /\ sz2 - w = sz
        /\ w \in 1..(sz2 - 1)
    BY <1>2
  <1>4. Binds(op, Node(p, h), sz2, WithLeft(op, p, g), R - lo2)
    BY <1>1, <1>2, <1>3, BindsRight DEF WithLeft
  <1> QED
    BY <1>2, <1>4 DEF Stands

\* At an even position that is not the last the hash is the right sibling.
LEMMA StandsLeft ==
    ASSUME NEW op \in Ops, NEW N \in 1..MaxSize, NEW R \in 1..N, NEW a \in Nat, NEW b \in Nat,
           a < b, ~lsb(a), NEW h, NEW g, NEW p, Stands(op, N, R, a, b, h, g)
    PROVE  Stands(op, N, R, a \div 2, b \div 2, Node(h, p), g)
  <1> USE SizeAssumption
  <1>1. PICK e, lo, hi : /\ Level(N, R, a, b, e, lo, hi)
                         /\ Binds(op, h, Size(N, a, b, e, lo), g, R - lo)
    BY DEF Stands
  <1>2. PICK w, hi2, sz2 :
              /\ w \in Nat \ {0} /\ lo \in Nat
              /\ Level(N, R, a \div 2, b \div 2, e + 1, lo, hi2)
              /\ w = Size(N, a, b, e, lo) /\ sz2 = Size(N, a \div 2, b \div 2, e + 1, lo)
              /\ sz2 \in 2..MaxSize /\ w < sz2 /\ Split[sz2] = w
              /\ R - lo \in 1..w
    BY <1>1, LeftHalf
  <1>3. w \in 1..(sz2 - 1)
    BY <1>2
  <1>4. Binds(op, Node(h, p), sz2, g, R - lo)
    BY <1>1, <1>2, <1>3, BindsLeft
  <1> QED
    BY <1>2, <1>4 DEF Stands

\* An even last position folds nothing in.
LEMMA StandsEdge ==
    ASSUME NEW op \in Ops, NEW N \in 1..MaxSize, NEW R \in 1..N, NEW a \in Nat, a # 0, ~lsb(a),
           NEW h, NEW g, Stands(op, N, R, a, a, h, g)
    PROVE  Stands(op, N, R, a \div 2, a \div 2, h, g)
  <1>1. PICK e, lo, hi : /\ Level(N, R, a, a, e, lo, hi)
                         /\ Binds(op, h, Size(N, a, a, e, lo), g, R - lo)
    BY DEF Stands
  <1>2. /\ Level(N, R, a \div 2, a \div 2, e + 1, lo, hi)
        /\ Size(N, a \div 2, a \div 2, e + 1, lo) = Size(N, a, a, e, lo)
    BY <1>1, NoHalf
  <1> QED
    BY <1>1, <1>2 DEF Stands

\* At the root there is one position, and it stands for the whole tree.
LEMMA StandsRoot ==
    ASSUME NEW op, NEW N \in 1..MaxSize, NEW R \in 1..N, NEW h, NEW g,
           Stands(op, N, R, 0, 0, h, g)
    PROVE  Binds(op, h, N, g, R)
  <1>1. PICK e, lo, hi : Level(N, R, 0, 0, e, lo, hi) /\ Binds(op, h, N - lo, g, R - lo)
    BY DEF Stands, Size
  <1>2. lo = 0
    <2>1. Power[e] \in Nat /\ lo = 0 * Power[e]
      BY <1>1, PowerGrows DEF Level
    <2> QED
      BY <2>1
  <1>3. N - lo = N /\ R - lo = R
    BY <1>2
  <1> QED
    BY <1>1, <1>3

\* A leaf stands for itself.
LEMMA StandsLeaf ==
    ASSUME NEW N \in 1..MaxSize, NEW m \in 0..(N - 1), NEW h
    PROVE  Stands("inclusion", N, m + 1, m, N - 1, h, h)
  <1> USE SizeAssumption
  <1>1. Power[0] = 1 /\ 0 \in 0..MaxSize
    BY PowerDef
  <1>2. Level(N, m + 1, m, N - 1, 0, m, N - 1)
    BY <1>1 DEF Level
  <1>3. (IF m = N - 1 THEN N - m ELSE Power[0]) = 1 /\ (m + 1) - m = 1
    BY <1>1
  <1>4. Binds("inclusion", h, 1, h, 1)
    <2>1. 1 \in 1..MaxSize /\ "inclusion" \in Ops
      BY DEF Ops
    <2> QED
      BY <2>1, BindsItself
  <1> QED
    BY <1>2, <1>3, <1>4 DEF Stands, Size

-------------------------------------------------------------------------------
(***************************************************************************)
(* The right edge of the first tree: the subtree that ends with its last   *)
(* leaf is complete, and leaves of the second tree follow it.              *)
(***************************************************************************)
Stripped(N, R, a, b) ==
    \E e, lo, hi : Level(N, R, a, b, e, lo, hi) /\ R = lo + Power[e]

LEMMA StripStart ==
    ASSUME NEW N \in 1..MaxSize, NEW R \in 1..(N - 1)
    PROVE  Stripped(N, R, R - 1, N - 1)
  <1> USE SizeAssumption
  <1>1. Power[0] = 1 /\ 0 \in 0..MaxSize
    BY PowerDef
  <1>2. Level(N, R, R - 1, N - 1, 0, R - 1, N - 1) /\ R = (R - 1) + Power[0]
    BY <1>1 DEF Level
  <1> QED
    BY <1>2 DEF Stripped

LEMMA StripLevel ==
    ASSUME NEW N \in 1..MaxSize, NEW R \in 1..N, NEW a \in Nat, NEW b \in Nat, a <= b, lsb(a),
           Stripped(N, R, a, b)
    PROVE  Stripped(N, R, a \div 2, b \div 2)
  <1> USE SizeAssumption
  <1>1. PICK e, lo, hi : Level(N, R, a, b, e, lo, hi) /\ R = lo + Power[e]
    BY DEF Stripped
  <1>2. b # 0
    BY Halves
  <1> DEFINE hi2 == IF lsb(b) THEN hi - Power[e] ELSE hi
  <1>3. /\ Power[e] \in Nat \ {0} /\ Power[e + 1] = 2 * Power[e]
        /\ Level(N, R, a \div 2, b \div 2, e + 1, lo - Power[e], hi2)
    BY <1>1, <1>2, LevelUp
  <1>4. lo \in Nat
    BY <1>1 DEF Level
  <1>5. R = (lo - Power[e]) + Power[e + 1]
    BY <1>1, <1>3, <1>4
  <1> HIDE DEF hi2
  <1> QED
    BY <1>3, <1>5 DEF Stripped

\* The walk starts from this subtree, which both trees have.
LEMMA StripEnd ==
    ASSUME NEW N \in 1..MaxSize, NEW R \in 1..(N - 1), NEW a \in Nat, NEW b \in Nat, a <= b,
           Stripped(N, R, a, b), NEW h
    PROVE  Stands("consistency", N, R, a, b, h, h)
  <1> USE SizeAssumption
  <1>1. PICK e, lo, hi : Level(N, R, a, b, e, lo, hi) /\ R = lo + Power[e]
    BY DEF Stripped
  <1>2. /\ e \in 0..MaxSize /\ lo \in Nat /\ hi \in Nat /\ lo = a * Power[e] /\ hi = b * Power[e]
        /\ N <= hi + Power[e] /\ Power[e] \in Nat /\ Power[e] > 0
    BY <1>1, PowerGrows DEF Level
  <1>3. a # b
    BY <1>1, <1>2
  <1>4. R - lo = Power[e] /\ Power[e] \in 1..MaxSize
    <2> DEFINE w == Power[e]
    <2>1. R = lo + w /\ w \in Nat /\ w > 0 /\ lo \in Nat
      BY <1>1, <1>2
    <2> HIDE DEF w
    <2>2. R - lo = w /\ w \in 1..MaxSize
      BY <2>1
    <2> QED
      BY <2>2 DEF w
  <1>5. Binds("consistency", h, Power[e], h, Power[e])
    BY <1>4, BindsItself DEF Ops
  <1> QED
    BY <1>1, <1>3, <1>4, <1>5 DEF Stands, Size

-------------------------------------------------------------------------------
(***************************************************************************)
(* The walk.  From its first node on, whatever the proof offers, the node  *)
(* folded so far stands for its leaves and binds what was given.           *)
(***************************************************************************)
\* The leaf the request is about, counted from 1: the leaf itself, or the last one
\* of the first tree.
Reach == IF req.op = "inclusion" THEN req.m + 1 ELSE req.m

Holds(h, g) == Stands(req.op, req.n, Reach, fn, sn, h, g)

\* While levels without a sibling are skipped, the hash p is already folded in from
\* the left: the node h from before is the one that stands at the position.
SkipHolds == \E p, h, g : /\ sr = Node(p, h)
                          /\ fr = WithLeft(req.op, p, g)
                          /\ Holds(h, g)

\* The inductive invariant: what the walk has folded, in each of its loops.
SoundInv ==
    /\ WalkInv
    /\ req.op = "inclusion" => fr = req.given
    /\ pc = "start" => fr = sr
    /\ pc = "strip" => /\ req.op = "consistency" /\ fr = sr
                       /\ Stripped(req.n, Reach, fn, sn)
    /\ pc \in {"strip", "fold", "skip"} => Reach \in 1..req.n
    /\ pc \in {"strip", "fold", "skip"} /\ req.op = "consistency" => Reach # req.n
    /\ pc = "fold" => Holds(sr, fr)
    /\ pc = "skip" => SkipHolds
    /\ InclusionSound
    /\ ConsistencySound

\* What SoundInv says of a walk under way.
LEMMA WalkFacts ==
    ASSUME SoundInv, pc \in {"strip", "fold", "skip"}
    PROVE  /\ req.op \in Ops /\ req.n \in 1..MaxSize /\ Reach \in 1..req.n
           /\ fn \in Nat /\ sn \in Nat /\ fn <= sn
  BY SizeAssumption DEF SoundInv, WalkInv, TypeOK, FnWithinSn, Sizes, Reach, Ops

\* One iteration of the loop over the proof.
LEMMA FoldSound ==
    ASSUME SoundInv, NEW p \in NextElement, FoldInclusion(p) \/ FoldConsistency(p)
    PROVE  SoundInv'
  <1>1. pc = "fold" /\ req' = req /\ Reach' = Reach /\ Reach \in 1..req.n
    BY DEF FoldInclusion, FoldConsistency, SoundInv, Reach
  <1>2. /\ req.op \in Ops /\ req.n \in 1..MaxSize
        /\ fn \in Nat /\ sn \in Nat /\ fn <= sn
    BY <1>1, WalkFacts
  <1>3. WalkInv'
    BY WalkInvStep DEF SoundInv, Next
  <1>4. CASE sn = 0
    <2>1. pc' = "rejected" /\ fr' = fr
      BY <1>4 DEF FoldInclusion, FoldConsistency, Surplus, Conclude
    <2> QED
      BY <1>1, <1>3, <2>1 DEF SoundInv, InclusionSound, ConsistencySound
  <1>5. CASE sn # 0
    <2>1. /\ sr' = IF FromLeft THEN Node(p, sr) ELSE Node(sr, p)
          /\ fr' = IF FromLeft THEN WithLeft(req.op, p, fr) ELSE fr
          /\ IF FromLeft /\ ~lsb(fn) THEN pc' = "skip" /\ fn' = fn /\ sn' = sn
                                    ELSE Halve /\ pc' = "fold"
      BY <1>1, <1>2, <1>5 DEF FoldInclusion, FoldConsistency, Surplus, WithLeft, Ops
    <2>2. Holds(sr, fr)
      BY <1>1 DEF SoundInv
    <2>3. pc' = "fold" => Holds(sr, fr)'
      <3> SUFFICES ASSUME pc' = "fold" PROVE Holds(sr, fr)'
        OBVIOUS
      <3>1. Halve /\ ~(FromLeft /\ ~lsb(fn))
        BY <2>1
      <3>2. CASE lsb(fn)
        <4>1. sr' = Node(p, sr) /\ fr' = WithLeft(req.op, p, fr)
          BY <2>1, <3>2 DEF FromLeft
        <4>2. Stands(req.op, req.n, Reach, fn \div 2, sn \div 2,
                     Node(p, sr), WithLeft(req.op, p, fr))
          BY <1>1, <1>2, <2>2, <3>2, StandsRight DEF Holds
        <4> QED
          BY <1>1, <3>1, <4>1, <4>2 DEF Holds, Halve
      <3>3. CASE ~lsb(fn)
        <4>1. sr' = Node(sr, p) /\ fr' = fr /\ fn < sn
          BY <1>2, <2>1, <3>1, <3>3 DEF FromLeft
        <4>2. Stands(req.op, req.n, Reach, fn \div 2, sn \div 2, Node(sr, p), fr)
          BY <1>1, <1>2, <2>2, <3>3, <4>1, StandsLeft DEF Holds
        <4> QED
          BY <1>1, <3>1, <4>1, <4>2 DEF Holds, Halve
      <3> QED
        BY <3>2, <3>3
    <2>4. pc' = "skip" => SkipHolds'
      <3> SUFFICES ASSUME pc' = "skip" PROVE SkipHolds'
        OBVIOUS
      <3>1. /\ sr' = Node(p, sr) /\ fr' = WithLeft(req.op, p, fr) /\ fn' = fn /\ sn' = sn
        BY <2>1
      <3>2. Stands(req.op, req.n, Reach, fn, sn, sr, fr)
        BY <2>2 DEF Holds
      <3>3. Stands(req'.op, req'.n, Reach', fn', sn', sr, fr)
        BY <1>1, <3>1, <3>2
      <3> QED
        BY <1>1, <3>1, <3>3 DEF SkipHolds, Holds
    <2>5. pc' \in {"fold", "skip"}
      BY <2>1
    <2>6. req.op = "inclusion" => fr' = req.given
      BY <1>1, <2>1 DEF SoundInv, WithLeft
    <2>7. req.op = "consistency" => Reach # req.n
      BY <1>1 DEF SoundInv
    <2> QED
      BY <1>1, <1>3, <2>3, <2>4, <2>5, <2>6, <2>7 DEF SoundInv, InclusionSound, ConsistencySound
  <1> QED
    BY <1>4, <1>5

\* A level without a sibling, and the last one of them, where the hash comes in.
LEMMA SkipSound ==
    ASSUME SoundInv, SkipLevel
    PROVE  SoundInv'
  <1>1. /\ pc = "skip" /\ req' = req /\ Reach' = Reach /\ fr' = fr /\ sr' = sr /\ Halve
        /\ pc' = IF MoreToSkip THEN "skip" ELSE "fold"
    BY DEF SkipLevel, Reach
  <1>2. /\ req.op \in Ops /\ req.n \in 1..MaxSize /\ Reach \in 1..req.n
        /\ fn \in Nat /\ sn \in Nat /\ fn = sn /\ fn # 0
    BY <1>1, WalkFacts DEF SoundInv, WalkInv, FnWithinSn
  <1>3. WalkInv'
    BY WalkInvStep DEF SoundInv, Next
  <1>4. PICK p, h, g : /\ sr = Node(p, h) /\ fr = WithLeft(req.op, p, g)
                       /\ Stands(req.op, req.n, Reach, fn, sn, h, g)
    BY <1>1 DEF SoundInv, SkipHolds, Holds
  <1>5. MoreToSkip => SkipHolds'
    <2> SUFFICES ASSUME MoreToSkip PROVE SkipHolds'
      OBVIOUS
    <2>1. Stands(req.op, req.n, Reach, fn \div 2, sn \div 2, h, g)
      BY <1>2, <1>4, StandsEdge DEF MoreToSkip
    <2> QED
      BY <1>1, <1>4, <2>1 DEF SkipHolds, Holds, Halve
  <1>6. ~MoreToSkip => Holds(sr, fr)'
    <2> SUFFICES ASSUME ~MoreToSkip PROVE Holds(sr, fr)'
      OBVIOUS
    <2>1. lsb(fn) /\ fn <= sn
      BY <1>2 DEF MoreToSkip
    <2>2. Stands(req.op, req.n, Reach, fn \div 2, sn \div 2, Node(p, h), WithLeft(req.op, p, g))
      BY <1>2, <1>4, <2>1, StandsRight
    <2> QED
      BY <1>1, <1>4, <2>2 DEF Holds, Halve
  <1>7. /\ req.op = "inclusion" => fr = req.given
        /\ req.op = "consistency" => Reach # req.n
    BY <1>1 DEF SoundInv
  <1> QED
    BY <1>1, <1>2, <1>3, <1>5, <1>6, <1>7 DEF SoundInv, InclusionSound, ConsistencySound

\* The end of the proof: an accepted walk has reached the root.
LEMMA EndSound ==
    ASSUME SoundInv, EndInclusion \/ EndConsistency
    PROVE  SoundInv'
  <1>1. /\ pc = "fold" /\ req' = req /\ fr' = fr /\ pc' \in {"accepted", "rejected"}
        /\ Reach \in 1..req.n
    BY DEF EndInclusion, EndConsistency, Conclude, SoundInv
  <1>2. WalkInv'
    BY WalkInvStep DEF SoundInv, Next
  <1>3. PathComplete => Binds(req.op, sr, req.n, fr, Reach)
    <2> SUFFICES ASSUME PathComplete PROVE Binds(req.op, sr, req.n, fr, Reach)
      OBVIOUS
    <2>1. fn = 0 /\ sn = 0 /\ req.n \in 1..MaxSize
      BY <1>1, WalkFacts DEF PathComplete
    <2>2. Stands(req.op, req.n, Reach, 0, 0, sr, fr)
      BY <1>1, <2>1 DEF SoundInv, Holds
    <2> QED
      BY <1>1, <2>1, <2>2, StandsRoot
  <1>4. InclusionSound'
    <2> SUFFICES ASSUME pc' = "accepted", req.op = "inclusion"
                 PROVE  Binds("inclusion", roots'[1], req.n, req.given, req.m + 1)
      BY <1>1 DEF InclusionSound
    <2>1. PathComplete /\ roots'[1] = sr
      BY DEF EndInclusion, EndConsistency, Conclude
    <2>2. fr = req.given /\ Reach = req.m + 1
      BY DEF SoundInv, Reach
    <2> QED
      BY <1>3, <2>1, <2>2
  <1>5. ConsistencySound'
    <2> SUFFICES ASSUME pc' = "accepted", req.op = "consistency"
                 PROVE  Binds("consistency", roots'[2], req.n, roots'[1], req.m)
      BY <1>1 DEF ConsistencySound
    <2>1. PathComplete /\ roots'[1] = fr /\ roots'[2] = sr
      BY DEF EndInclusion, EndConsistency, Conclude
    <2>2. Reach = req.m
      BY DEF Reach
    <2> QED
      BY <1>3, <2>1, <2>2
  <1>6. req.op = "inclusion" => fr = req.given
    BY DEF SoundInv
  <1> QED
    BY <1>1, <1>2, <1>4, <1>5, <1>6 DEF SoundInv

\* The start, where equal sizes are decided at once.
LEMMA StartSound ==
    ASSUME SoundInv, StartInclusion \/ StartConsistency
    PROVE  SoundInv'
  <1> USE SizeAssumption
  <1>1. /\ pc = "start" /\ req' = req /\ fr' = fr /\ sr' = sr /\ fr = sr /\ Reach' = Reach
        /\ pc' \in {"strip", "fold", "accepted", "rejected"}
    BY DEF StartInclusion, StartConsistency, Conclude, SoundInv, Reach
  <1>2. req.m \in Nat /\ req.n \in Nat /\ req.m <= MaxSize /\ req.n <= MaxSize
    BY DEF SoundInv, WalkInv, TypeOK, Sizes
  <1>3. WalkInv'
    BY WalkInvStep DEF SoundInv, Next
  <1>4. req.op = "inclusion" => fr = req.given
    BY DEF SoundInv
  <1>5. pc' = "fold" =>
            /\ req.op = "inclusion" /\ req.m < req.n
            /\ fn' = req.m /\ sn' = req.n - 1
    BY DEF StartInclusion, StartConsistency, Conclude
  <1>6. pc' = "strip" =>
            /\ req.op = "consistency" /\ 0 < req.m /\ req.m < req.n
            /\ fn' = req.m - 1 /\ sn' = req.n - 1
    BY DEF StartInclusion, StartConsistency, Conclude
  <1>7. pc' = "accepted" =>
            /\ req.op = "consistency" /\ req.m = req.n /\ req.m # 0
            /\ roots'[1] = req.given /\ roots'[2] = req.given
    BY DEF StartInclusion, StartConsistency, Conclude
  <1>8. pc' = "fold" => Holds(sr, fr)'
    <2> SUFFICES ASSUME pc' = "fold" PROVE Holds(sr, fr)'
      OBVIOUS
    <2>1. req.n \in 1..MaxSize /\ req.m \in 0..(req.n - 1) /\ Reach = req.m + 1
      BY <1>2, <1>5 DEF Reach
    <2>2. Stands("inclusion", req.n, req.m + 1, req.m, req.n - 1, sr, sr)
      BY <2>1, StandsLeaf
    <2> QED
      BY <1>1, <1>5, <2>1, <2>2 DEF Holds
  <1>9. pc' = "strip" => Stripped(req.n, Reach, fn, sn)'
    <2> SUFFICES ASSUME pc' = "strip" PROVE Stripped(req.n, Reach, fn, sn)'
      OBVIOUS
    <2>1. req.n \in 1..MaxSize /\ req.m \in 1..(req.n - 1) /\ Reach = req.m
      BY <1>2, <1>6 DEF Reach
    <2>2. Stripped(req.n, req.m, req.m - 1, req.n - 1)
      BY <2>1, StripStart
    <2> QED
      BY <1>1, <1>6, <2>1, <2>2
  <1>10. pc' \in {"strip", "fold", "skip"} => Reach \in 1..req.n
    BY <1>1, <1>2, <1>5, <1>6 DEF Reach
  <1>11. pc' \in {"strip", "fold", "skip"} /\ req.op = "consistency" => Reach # req.n
    BY <1>1, <1>2, <1>5, <1>6 DEF Reach
  <1>12. pc' = "accepted" => Binds("consistency", roots'[2], req.n, roots'[1], req.m)
    <2> SUFFICES ASSUME pc' = "accepted"
                 PROVE  Binds("consistency", roots'[2], req.n, roots'[1], req.m)
      OBVIOUS
    <2>1. req.n \in 1..MaxSize /\ req.m = req.n
      BY <1>2, <1>7
    <2>2. Binds("consistency", req.given, req.n, req.given, req.n)
      BY <2>1, BindsItself DEF Ops
    <2> QED
      BY <1>7, <2>1, <2>2
  <1>13. InclusionSound' /\ ConsistencySound'
    BY <1>1, <1>7, <1>12 DEF InclusionSound, ConsistencySound
  <1> HIDE DEF Holds, Stripped, Reach
  <1> QED
    BY <1>1, <1>3, <1>4, <1>6, <1>8, <1>9, <1>10, <1>11, <1>13 DEF SoundInv

\* The right edge of the first tree, and the seed of the walk.
LEMMA StripSound ==
    ASSUME SoundInv, StripOnes \/ Seed
    PROVE  SoundInv'
  <1> USE SizeAssumption
  <1>1. /\ pc = "strip" /\ req' = req /\ Reach' = Reach /\ req.op = "consistency"
        /\ fr = sr /\ Stripped(req.n, Reach, fn, sn) /\ Reach \in 1..req.n /\ Reach # req.n
    BY DEF StripOnes, Seed, SoundInv, Reach
  <1>2. req.n \in 1..MaxSize /\ fn \in Nat /\ sn \in Nat /\ fn <= sn
    BY <1>1, WalkFacts
  <1>3. WalkInv'
    BY WalkInvStep DEF SoundInv, Next
  <1>4. CASE StripOnes
    <2>1. pc' = "strip" /\ fr' = fr /\ sr' = sr /\ Halve /\ lsb(fn)
      BY <1>1, <1>4 DEF StripOnes
    <2>2. Stripped(req.n, Reach, fn \div 2, sn \div 2)
      BY <1>1, <1>2, <2>1, StripLevel
    <2>3. Stripped(req.n, Reach, fn, sn)'
      BY <1>1, <2>1, <2>2 DEF Halve
    <2> QED
      BY <1>1, <1>3, <2>1, <2>3 DEF SoundInv, InclusionSound, ConsistencySound
  <1>5. CASE Seed
    <2>1. pc' \in {"fold", "rejected"} /\ fr' = sr' /\ fn' = fn /\ sn' = sn
      BY <1>1, <1>5 DEF Seed, Conclude
    <2>2. Reach \in 1..(req.n - 1)
      BY <1>1, <1>2
    <2>3. Stands("consistency", req.n, Reach, fn, sn, sr', sr')
      BY <1>1, <1>2, <2>2, StripEnd
    <2>4. Holds(sr, fr)'
      BY <1>1, <2>1, <2>3 DEF Holds
    <2> QED
      BY <1>1, <1>3, <2>1, <2>4 DEF SoundInv, InclusionSound, ConsistencySound
  <1> QED
    BY <1>4, <1>5

\* Whatever the bundle's proof offers, a walk of verify_inclusion or of
\* verify_consistency folds only nodes that bind what was given: SoundInv, for
\* trees of every size and every choice of hashes.
THEOREM SoundInvariance == Spec => []SoundInv
  <1>1. Init => SoundInv
    <2> SUFFICES ASSUME Init PROVE SoundInv
      OBVIOUS
    <2>1. WalkInv
      BY SizeAssumption DEF Init, WalkInv, TypeOK, FnWithinSn, Sizes, Stages
    <2> QED
      BY <2>1 DEF Init, SoundInv, InclusionSound, ConsistencySound
  <1>2. SoundInv /\ [Next]_vars => SoundInv'
    <2> SUFFICES ASSUME SoundInv, [Next]_vars PROVE SoundInv'
      OBVIOUS
    <2>1. CASE StartInclusion \/ StartConsistency
      BY <2>1, StartSound
    <2>2. CASE StripOnes \/ Seed
      BY <2>2, StripSound
    <2>3. ASSUME NEW p \in NextElement, FoldInclusion(p) \/ FoldConsistency(p)
          PROVE  SoundInv'
      BY <2>3, FoldSound
    <2>4. CASE SkipLevel
      BY <2>4, SkipSound
    <2>5. CASE EndInclusion \/ EndConsistency
      BY <2>5, EndSound
    <2>6. CASE UNCHANGED vars
      <3>1. WalkInv'
        BY <2>6, WalkInvStep DEF SoundInv
      <3> QED
        BY <2>6, <3>1 DEF vars, SoundInv, Reach, Holds, SkipHolds, InclusionSound, ConsistencySound
    <2> QED
      BY <2>1, <2>2, <2>3, <2>4, <2>5, <2>6 DEF Next
  <1> QED
    BY <1>1, <1>2, PTL DEF Spec

\* An accepted inclusion proof binds the leaf at its index under the root compared
\* with (verify_inclusion): for trees of every size, whatever the proof holds.
THEOREM InclusionBinds == Spec => []InclusionSound
  <1>1. SoundInv => InclusionSound
    BY DEF SoundInv
  <1> QED
    BY <1>1, SoundInvariance, PTL

\* An accepted consistency proof makes the first root the root of the first leaves
\* under the second (verify_consistency): for trees of every size.
THEOREM ConsistencyBinds == Spec => []ConsistencySound
  <1>1. SoundInv => ConsistencySound
    BY DEF SoundInv
  <1> QED
    BY <1>1, SoundInvariance, PTL

-------------------------------------------------------------------------------
(***************************************************************************)
(* What binding is worth.  A descent to a leaf never looks at the leaf it  *)
(* is asked about, so it ends at the same hash for every one of them.      *)
(***************************************************************************)
\* A descent that has settled goes no further.
LEMMA SettledKeeps ==
    ASSUME NEW x, NEW t \in 0..MaxSize, Settled(Descent(x)[t])
    PROVE  Descent(x)[MaxSize] = Descent(x)[t]
  <1> USE SizeAssumption
  <1> DEFINE S == {i \in Nat : t + i <= MaxSize => Descent(x)[t + i] = Descent(x)[t]}
  <1>1. 0 \in S
    OBVIOUS
  <1>2. ASSUME NEW i \in Nat, i \in S PROVE i + 1 \in S
    <2> SUFFICES ASSUME t + (i + 1) <= MaxSize PROVE Descent(x)[t + (i + 1)] = Descent(x)[t]
      OBVIOUS
    <2>1. t + (i + 1) \in 1..MaxSize /\ (t + (i + 1)) - 1 = t + i /\ t + i <= MaxSize
      OBVIOUS
    <2>2. Descent(x)[t + (i + 1)] = Descend(Descent(x)[t + i]) /\ Descent(x)[t + i] = Descent(x)[t]
      BY <1>2, <2>1, DescentDef
    <2> QED
      BY <2>2 DEF Descend
  <1>3. Nat \subseteq S
    <2> HIDE DEF S
    <2> QED
      BY <1>1, <1>2, Induction
  <1>4. MaxSize - t \in Nat /\ t + (MaxSize - t) = MaxSize
    OBVIOUS
  <1>5. MaxSize - t \in S
    BY <1>3, <1>4
  <1> QED
    BY <1>4, <1>5

\* One step of the descent to a leaf, which keeps the leaf and ignores it.
LEMMA DescendToLeaf ==
    ASSUME NEW h, NEW n, NEW m
    PROVE  \E h2, n2, m2 : \A g :
              Descend(At("inclusion", h, n, g, m)) = At("inclusion", h2, n2, g, m2)
  <1> DEFINE x(g) == At("inclusion", h, n, g, m)
  <1>1. \A g : x(g).op = "inclusion" /\ x(g).h = h /\ x(g).n = n /\ x(g).g = g /\ x(g).m = m
    BY DEF At
  <1>2. CASE n = 1 \/ ~IsNode(h)
    <2>1. \A g : Descend(x(g)) = x(g)
      BY <1>1, <1>2 DEF Descend, Settled
    <2> QED
      BY <2>1
  <1>3. CASE ~(n = 1 \/ ~IsNode(h)) /\ m <= Split[n]
    <2>1. \A g : Descend(x(g)) = IntoLeft(x(g))
      BY <1>1, <1>3 DEF Descend, Settled
    <2>2. \A g : IntoLeft(x(g)) = At("inclusion", h[1], Split[n], g, m)
      <3> TAKE g
      <3>1. IntoLeft(x(g)) = [x(g) EXCEPT !.h = h[1], !.n = Split[n]]
        BY <1>1 DEF IntoLeft
      <3> QED
        BY <3>1 DEF At
    <2> QED
      BY <2>1, <2>2
  <1>4. CASE ~(n = 1 \/ ~IsNode(h)) /\ ~(m <= Split[n])
    <2>1. \A g : Descend(x(g)) = IntoRight(x(g))
      BY <1>1, <1>4 DEF Descend, Settled
    <2>2. \A g : IntoRight(x(g)) = At("inclusion", h[2], n - Split[n], g, m - Split[n])
      <3> TAKE g
      <3>1. IntoRight(x(g)) = [x(g) EXCEPT !.h = h[2], !.n = n - Split[n], !.m = m - Split[n],
                                           !.g = g]
        BY <1>1 DEF IntoRight
      <3> QED
        BY <3>1 DEF At
    <2> QED
      BY <2>1, <2>2
  <1> QED
    BY <1>2, <1>3, <1>4

\* So a root of n leaves has one leaf at each place, in trees of every size.
LEMMA LeafIsUnique ==
    ASSUME NEW h, NEW n \in 1..MaxSize, NEW m, NEW g1, NEW g2,
           Binds("inclusion", h, n, g1, m), Binds("inclusion", h, n, g2, m)
    PROVE  g1 = g2
  <1> USE SizeAssumption
  <1> DEFINE x1 == At("inclusion", h, n, g1, m)
             x2 == At("inclusion", h, n, g2, m)
             Alike(s) == \E h2, n2, m2 : /\ Descent(x1)[s] = At("inclusion", h2, n2, g1, m2)
                                         /\ Descent(x2)[s] = At("inclusion", h2, n2, g2, m2)
             S == {s \in Nat : s <= MaxSize => Alike(s)}
  <1>1. 0 \in S
    <2>1. Descent(x1)[0] = x1 /\ Descent(x2)[0] = x2
      BY DescentDef
    <2>2. Alike(0)
      BY <2>1
    <2> QED
      BY <2>2
  <1>2. ASSUME NEW s \in Nat, s \in S PROVE s + 1 \in S
    <2> SUFFICES ASSUME s + 1 <= MaxSize PROVE Alike(s + 1)
      OBVIOUS
    <2>1. s + 1 \in 1..MaxSize /\ (s + 1) - 1 = s /\ s <= MaxSize
      OBVIOUS
    <2>2. PICK h2, n2, m2 : /\ Descent(x1)[s] = At("inclusion", h2, n2, g1, m2)
                            /\ Descent(x2)[s] = At("inclusion", h2, n2, g2, m2)
      BY <1>2, <2>1
    <2>3. PICK h3, n3, m3 : \A g :
              Descend(At("inclusion", h2, n2, g, m2)) = At("inclusion", h3, n3, g, m3)
      BY DescendToLeaf
    <2> HIDE DEF x1, x2
    <2>4. /\ Descent(x1)[s + 1] = Descend(Descent(x1)[s])
          /\ Descent(x2)[s + 1] = Descend(Descent(x2)[s])
      BY <2>1, DescentDef
    <2>5. /\ Descent(x1)[s + 1] = At("inclusion", h3, n3, g1, m3)
          /\ Descent(x2)[s + 1] = At("inclusion", h3, n3, g2, m3)
      BY <2>2, <2>3, <2>4
    <2> QED
      BY <2>5
  <1>3. Nat \subseteq S
    <2> HIDE DEF S
    <2> QED
      BY <1>1, <1>2, Induction
  <1>4. PICK s1 \in 0..(n - 1) : Settled(Descent(x1)[s1]) /\ Descent(x1)[s1].h = Descent(x1)[s1].g
    BY DEF Binds, At
  <1>5. PICK s2 \in 0..(n - 1) : Settled(Descent(x2)[s2]) /\ Descent(x2)[s2].h = Descent(x2)[s2].g
    BY DEF Binds, At
  <1>6. Alike(MaxSize)
    BY <1>3
  <1> HIDE DEF x1, x2
  <1>7. s1 \in 0..MaxSize /\ s2 \in 0..MaxSize
    OBVIOUS
  <1>8. Descent(x1)[MaxSize] = Descent(x1)[s1] /\ Descent(x2)[MaxSize] = Descent(x2)[s2]
    BY <1>4, <1>5, <1>7, SettledKeeps
  <1>9. PICK h2, n2, m2 : /\ Descent(x1)[MaxSize] = At("inclusion", h2, n2, g1, m2)
                          /\ Descent(x2)[MaxSize] = At("inclusion", h2, n2, g2, m2)
    BY <1>6
  <1> QED
    BY <1>4, <1>5, <1>8, <1>9 DEF At

\* Of the root an accepted inclusion proof was compared with, no other hash is the
\* leaf at that index.
OnlyLeaf ==
    pc = "accepted" /\ req.op = "inclusion"
        => \A g : Binds("inclusion", roots[1], req.n, g, req.m + 1) => g = req.given

\* Two accepted inclusion proofs for one index under one root are for one leaf
\* (verify_inclusion): a payload that was not logged there cannot be proved there.
THEOREM AcceptedLeafIsUnique == Spec => []OnlyLeaf
  <1> DEFINE Sized == pc = "accepted" => req.n # 0
  <1>1. Init => Sized
    BY DEF Init
  <1>2. SoundInv /\ Sized /\ [Next]_vars => Sized'
    <2> SUFFICES ASSUME SoundInv, Sized, [Next]_vars, pc' = "accepted" PROVE req'.n # 0
      OBVIOUS
    <2>1. CASE pc = "fold"
      <3>1. req.n # 0
        BY <2>1, WalkFacts
      <3>2. req' = req
        BY <2>1 DEF Next, vars, StartInclusion, StartConsistency, StripOnes, Seed,
                    FoldInclusion, FoldConsistency, SkipLevel, EndInclusion, EndConsistency
      <3> QED
        BY <3>1, <3>2
    <2>2. CASE pc # "fold"
      BY <2>2 DEF Next, vars, StartInclusion, StartConsistency, StripOnes, Seed, Conclude,
                  FoldInclusion, FoldConsistency, SkipLevel, EndInclusion, EndConsistency
    <2> QED
      BY <2>1, <2>2
  <1>3. SoundInv /\ Sized => OnlyLeaf
    <2> SUFFICES ASSUME SoundInv, Sized, pc = "accepted", req.op = "inclusion",
                        NEW g, Binds("inclusion", roots[1], req.n, g, req.m + 1)
                 PROVE  g = req.given
      BY DEF OnlyLeaf
    <2>1. req.n \in 1..MaxSize
      BY SizeAssumption DEF SoundInv, WalkInv, TypeOK, Sizes
    <2>2. Binds("inclusion", roots[1], req.n, req.given, req.m + 1)
      BY DEF SoundInv, InclusionSound
    <2> QED
      BY <2>1, <2>2, LeafIsUnique
  <1> QED
    BY <1>1, <1>2, <1>3, SoundInvariance, PTL DEF Spec

-------------------------------------------------------------------------------
(***************************************************************************)
(* The proofs an honest log generates: what the recursive definitions of   *)
(* the tree hash and of the two proofs say.                                *)
(***************************************************************************)
\* Every tree of two leaves or more has a largest power of two below its size.
LEMMA SplitWithin ==
    ASSUME NEW n \in 2..MaxSize
    PROVE  Split[n] \in 1..(n - 1)
  <1> USE SizeAssumption
  <1> DEFINE S == {e \in Nat : e <= MaxSize => Power[e] < n}
  <1> SUFFICES ASSUME ~(Split[n] \in 1..(n - 1)) PROVE FALSE
    OBVIOUS
  <1>1. 0 \in S
    BY PowerDef
  <1>2. ASSUME NEW e \in Nat, e \in S PROVE e + 1 \in S
    <2> SUFFICES ASSUME e + 1 <= MaxSize PROVE Power[e + 1] < n
      OBVIOUS
    <2>1. e \in 0..MaxSize /\ e + 1 \in 1..MaxSize /\ (e + 1) - 1 = e
      OBVIOUS
    <2>2. Power[e] \in Nat /\ Power[e] < n /\ Power[e] > e
      BY <1>2, <2>1, PowerGrows
    <2>3. Power[e + 1] = 2 * Power[e]
      BY <2>1, PowerDef
    <2>4. n <= 2 * Power[e] => Split[n] = Power[e]
      BY <2>1, <2>2, SplitIs
    <2>5. Power[e] \in 1..(n - 1)
      BY <2>2
    <2> QED
      BY <2>2, <2>3, <2>4, <2>5
  <1>3. Nat \subseteq S
    <2> HIDE DEF S
    <2> QED
      BY <1>1, <1>2, Induction
  <1>4. Power[MaxSize] < n
    BY <1>3
  <1>5. Power[MaxSize] \in Nat /\ Power[MaxSize] > MaxSize
    BY PowerGrows
  <1> QED
    BY <1>4, <1>5

\* The tree hash.
LEMMA MTHDef ==
           \A n \in 1..MaxSize, lo \in Nat :
              MTH[n][lo] =
                IF n = 1 THEN Leaf(lo)
                ELSE Node(MTH[Split[n]][lo], MTH[n - Split[n]][lo + Split[n]])
  <1> USE SizeAssumption
  <1> DEFINE Body(g, n) ==
               [lo \in Nat |->
                  IF n = 1 THEN Leaf(lo)
                  ELSE Node(g[Split[n]][lo], g[n - Split[n]][lo + Split[n]])]
             Def(g, n) == [j \in 1..n |-> Body(g, j)]
             S == {n \in Nat : n <= MaxSize => \E g : g = Def(g, n)}
  <1>1. 0 \in S
    <2> DEFINE g == [j \in 1..0 |-> 0]
    <2>1. g = Def(g, 0)
      OBVIOUS
    <2> QED
      BY <2>1
  <1>2. ASSUME NEW n \in Nat, n \in S PROVE n + 1 \in S
    <2> SUFFICES ASSUME n + 1 <= MaxSize PROVE \E f : f = Def(f, n + 1)
      <3> HIDE DEF Def
      <3> QED
        OBVIOUS
    <2>1. PICK g : g = Def(g, n)
      <3> HIDE DEF Def
      <3> QED
        BY <1>2
    <2> DEFINE h == [j \in 1..(n + 1) |-> IF j <= n THEN g[j] ELSE Body(g, n + 1)]
    <2>2. ASSUME NEW j \in 1..(n + 1) PROVE h[j] = Body(h, j)
      <3>1. \A i \in 1..n : h[i] = g[i]
        OBVIOUS
      <3>2. h[j] = Body(g, j)
        <4>1. CASE j <= n
          <5>1. j \in 1..n
            BY <4>1
          <5>2. g[j] = Body(g, j)
            <6> HIDE DEF Body
            <6> QED
              BY <2>1, <5>1
          <5> QED
            BY <3>1, <5>1, <5>2
        <4>2. CASE j = n + 1
          <5> HIDE DEF Body
          <5> QED
            BY <4>2
        <4> QED
          BY <4>1, <4>2
      <3>3. j # 1 => Split[j] \in 1..n /\ j - Split[j] \in 1..n
        <4> SUFFICES ASSUME j # 1 PROVE Split[j] \in 1..n /\ j - Split[j] \in 1..n
          OBVIOUS
        <4>1. j \in 2..MaxSize
          OBVIOUS
        <4>2. Split[j] \in 1..(j - 1)
          BY <4>1, SplitWithin
        <4> QED
          BY <4>2
      <3>4. j # 1 => h[Split[j]] = g[Split[j]] /\ h[j - Split[j]] = g[j - Split[j]]
        BY <3>1, <3>3
      <3> HIDE DEF h
      <3>5. Body(h, j) = Body(g, j)
        BY <3>4
      <3> QED
        BY <3>2, <3>5
    <2>3. h = Def(h, n + 1)
      <3> HIDE DEF Body
      <3>1. Def(h, n + 1) = [j \in 1..(n + 1) |-> h[j]]
        BY <2>2
      <3> QED
        BY <3>1
    <2> HIDE DEF h, Def
    <2> QED
      BY <2>3
  <1>3. MaxSize \in S
    <2> HIDE DEF S
    <2>1. Nat \subseteq S
      BY <1>1, <1>2, Induction
    <2> QED
      BY <2>1
  <1> DEFINE f == CHOOSE g : g = Def(g, MaxSize)
  <1>4. f = Def(f, MaxSize)
    <2> HIDE DEF Def
    <2>1. \E g : g = Def(g, MaxSize)
      BY <1>3
    <2> QED
      BY <2>1
  <1>5. f = MTH
    BY Zenon DEF MTH
  <1> HIDE DEF f
  <1>6. \A n \in 1..MaxSize : f[n] = Body(f, n)
    <2> HIDE DEF Body
    <2> QED
      BY <1>4
  <1>7. \A n \in 1..MaxSize, lo \in Nat : f[n][lo] = Body(f, n)[lo]
    BY <1>6
  <1> HIDE DEF Def
  <1> QED
    BY <1>5, <1>7

\* The audit path.
LEMMA PathDef ==
    ASSUME NEW m
    PROVE  \A n \in 1..MaxSize, lo \in Nat :
              Path(m)[n][lo] =
                IF n = 1 THEN << >>
                ELSE LET k == Split[n]
                     IN  IF m < lo + k THEN Append(Path(m)[k][lo], MTH[n - k][lo + k])
                                       ELSE Append(Path(m)[n - k][lo + k], MTH[k][lo])
  <1> USE SizeAssumption
  <1> DEFINE Body(g, n) ==
               [lo \in Nat |->
                  IF n = 1 THEN << >>
                  ELSE LET k == Split[n]
                       IN  IF m < lo + k THEN Append(g[k][lo], MTH[n - k][lo + k])
                                         ELSE Append(g[n - k][lo + k], MTH[k][lo])]
             Def(g, n) == [j \in 1..n |-> Body(g, j)]
             S == {n \in Nat : n <= MaxSize => \E g : g = Def(g, n)}
  <1>1. 0 \in S
    <2> DEFINE g == [j \in 1..0 |-> 0]
    <2>1. g = Def(g, 0)
      OBVIOUS
    <2> QED
      BY <2>1
  <1>2. ASSUME NEW n \in Nat, n \in S PROVE n + 1 \in S
    <2> SUFFICES ASSUME n + 1 <= MaxSize PROVE \E f : f = Def(f, n + 1)
      <3> HIDE DEF Def
      <3> QED
        OBVIOUS
    <2>1. PICK g : g = Def(g, n)
      <3> HIDE DEF Def
      <3> QED
        BY <1>2
    <2> DEFINE h == [j \in 1..(n + 1) |-> IF j <= n THEN g[j] ELSE Body(g, n + 1)]
    <2>2. ASSUME NEW j \in 1..(n + 1) PROVE h[j] = Body(h, j)
      <3>1. \A i \in 1..n : h[i] = g[i]
        OBVIOUS
      <3>2. h[j] = Body(g, j)
        <4>1. CASE j <= n
          <5>1. j \in 1..n
            BY <4>1
          <5>2. g[j] = Body(g, j)
            <6> HIDE DEF Body
            <6> QED
              BY <2>1, <5>1
          <5> QED
            BY <3>1, <5>1, <5>2
        <4>2. CASE j = n + 1
          <5> HIDE DEF Body
          <5> QED
            BY <4>2
        <4> QED
          BY <4>1, <4>2
      <3>3. j # 1 => Split[j] \in 1..n /\ j - Split[j] \in 1..n
        <4> SUFFICES ASSUME j # 1 PROVE Split[j] \in 1..n /\ j - Split[j] \in 1..n
          OBVIOUS
        <4>1. j \in 2..MaxSize
          OBVIOUS
        <4>2. Split[j] \in 1..(j - 1)
          BY <4>1, SplitWithin
        <4> QED
          BY <4>2
      <3>4. j # 1 => h[Split[j]] = g[Split[j]] /\ h[j - Split[j]] = g[j - Split[j]]
        BY <3>1, <3>3
      <3> HIDE DEF h
      <3>5. Body(h, j) = Body(g, j)
        BY <3>4
      <3> QED
        BY <3>2, <3>5
    <2>3. h = Def(h, n + 1)
      <3> HIDE DEF Body
      <3>1. Def(h, n + 1) = [j \in 1..(n + 1) |-> h[j]]
        BY <2>2
      <3> QED
        BY <3>1
    <2> HIDE DEF h, Def
    <2> QED
      BY <2>3
  <1>3. MaxSize \in S
    <2> HIDE DEF S
    <2>1. Nat \subseteq S
      BY <1>1, <1>2, Induction
    <2> QED
      BY <2>1
  <1> DEFINE f == CHOOSE g : g = Def(g, MaxSize)
  <1>4. f = Def(f, MaxSize)
    <2> HIDE DEF Def
    <2>1. \E g : g = Def(g, MaxSize)
      BY <1>3
    <2> QED
      BY <2>1
  <1>5. f = Path(m)
    BY Zenon DEF Path
  <1> HIDE DEF f
  <1>6. \A n \in 1..MaxSize : f[n] = Body(f, n)
    <2> HIDE DEF Body
    <2> QED
      BY <1>4
  <1>7. \A n \in 1..MaxSize, lo \in Nat : f[n][lo] = Body(f, n)[lo]
    BY <1>6
  <1> HIDE DEF Def
  <1> QED
    BY <1>5, <1>7

\* The consistency proof.
LEMMA SubProofDef ==
    ASSUME NEW m
    PROVE  \A n \in 1..MaxSize, lo \in Nat :
              SubProof(m)[n][lo] =
                IF n = 1 \/ m = lo + n THEN IF lo = 0 THEN << >> ELSE <<MTH[n][lo]>>
                ELSE LET k == Split[n]
                     IN  IF m <= lo + k THEN Append(SubProof(m)[k][lo], MTH[n - k][lo + k])
                                        ELSE Append(SubProof(m)[n - k][lo + k], MTH[k][lo])
  <1> USE SizeAssumption
  <1> DEFINE Body(g, n) ==
               [lo \in Nat |->
                  IF n = 1 \/ m = lo + n THEN IF lo = 0 THEN << >> ELSE <<MTH[n][lo]>>
                  ELSE LET k == Split[n]
                       IN  IF m <= lo + k THEN Append(g[k][lo], MTH[n - k][lo + k])
                                          ELSE Append(g[n - k][lo + k], MTH[k][lo])]
             Def(g, n) == [j \in 1..n |-> Body(g, j)]
             S == {n \in Nat : n <= MaxSize => \E g : g = Def(g, n)}
  <1>1. 0 \in S
    <2> DEFINE g == [j \in 1..0 |-> 0]
    <2>1. g = Def(g, 0)
      OBVIOUS
    <2> QED
      BY <2>1
  <1>2. ASSUME NEW n \in Nat, n \in S PROVE n + 1 \in S
    <2> SUFFICES ASSUME n + 1 <= MaxSize PROVE \E f : f = Def(f, n + 1)
      <3> HIDE DEF Def
      <3> QED
        OBVIOUS
    <2>1. PICK g : g = Def(g, n)
      <3> HIDE DEF Def
      <3> QED
        BY <1>2
    <2> DEFINE h == [j \in 1..(n + 1) |-> IF j <= n THEN g[j] ELSE Body(g, n + 1)]
    <2>2. ASSUME NEW j \in 1..(n + 1) PROVE h[j] = Body(h, j)
      <3>1. \A i \in 1..n : h[i] = g[i]
        OBVIOUS
      <3>2. h[j] = Body(g, j)
        <4>1. CASE j <= n
          <5>1. j \in 1..n
            BY <4>1
          <5>2. g[j] = Body(g, j)
            <6> HIDE DEF Body
            <6> QED
              BY <2>1, <5>1
          <5> QED
            BY <3>1, <5>1, <5>2
        <4>2. CASE j = n + 1
          <5> HIDE DEF Body
          <5> QED
            BY <4>2
        <4> QED
          BY <4>1, <4>2
      <3>3. j # 1 => Split[j] \in 1..n /\ j - Split[j] \in 1..n
        <4> SUFFICES ASSUME j # 1 PROVE Split[j] \in 1..n /\ j - Split[j] \in 1..n
          OBVIOUS
        <4>1. j \in 2..MaxSize
          OBVIOUS
        <4>2. Split[j] \in 1..(j - 1)
          BY <4>1, SplitWithin
        <4> QED
          BY <4>2
      <3>4. j # 1 => h[Split[j]] = g[Split[j]] /\ h[j - Split[j]] = g[j - Split[j]]
        BY <3>1, <3>3
      <3> HIDE DEF h
      <3>5. Body(h, j) = Body(g, j)
        BY <3>4
      <3> QED
        BY <3>2, <3>5
    <2>3. h = Def(h, n + 1)
      <3> HIDE DEF Body
      <3>1. Def(h, n + 1) = [j \in 1..(n + 1) |-> h[j]]
        BY <2>2
      <3> QED
        BY <3>1
    <2> HIDE DEF h, Def
    <2> QED
      BY <2>3
  <1>3. MaxSize \in S
    <2> HIDE DEF S
    <2>1. Nat \subseteq S
      BY <1>1, <1>2, Induction
    <2> QED
      BY <2>1
  <1> DEFINE f == CHOOSE g : g = Def(g, MaxSize)
  <1>4. f = Def(f, MaxSize)
    <2> HIDE DEF Def
    <2>1. \E g : g = Def(g, MaxSize)
      BY <1>3
    <2> QED
      BY <2>1
  <1>5. f = SubProof(m)
    BY Zenon DEF SubProof
  <1> HIDE DEF f
  <1>6. \A n \in 1..MaxSize : f[n] = Body(f, n)
    <2> HIDE DEF Body
    <2> QED
      BY <1>4
  <1>7. \A n \in 1..MaxSize, lo \in Nat : f[n][lo] = Body(f, n)[lo]
    BY <1>6
  <1> HIDE DEF Def
  <1> QED
    BY <1>5, <1>7

-------------------------------------------------------------------------------
(***************************************************************************)
(* Level by level again: the honest proof for a subtree is the one for its *)
(* half with the hash of the other half appended, which is the next hash   *)
(* the walk asks for.                                                      *)
(***************************************************************************)
IsSeq(q) == \E S : q \in Seq(S)

\* The honest proof for the n leaves from lo on, and what it is a proof for.
Sub(op, R, n, lo) == IF op = "inclusion" THEN Path(R - 1)[n][lo] ELSE SubProof(R)[n][lo]
First(op, R, lo) == IF op = "inclusion" THEN Leaf(R - 1) ELSE MTH[R - lo][lo]

LEMMA Appending ==
    ASSUME NEW s, IsSeq(s), NEW x
    PROVE  IsSeq(Append(s, x)) /\ Len(s) \in Nat /\ Len(Append(s, x)) = Len(s) + 1
  <1>1. PICK S : s \in Seq(S)
    BY DEF IsSeq
  <1> DEFINE T == S \cup {x}
  <1>2. S \subseteq T /\ x \in T
    OBVIOUS
  <1>3. s \in Seq(T)
    BY <1>1, <1>2, SeqMonotonic
  <1> HIDE DEF T
  <1>4. Append(s, x) \in Seq(T) /\ Len(Append(s, x)) = Len(s) + 1 /\ Len(s) \in Nat
    BY <1>2, <1>3, AppendProperties
  <1> QED
    BY <1>4 DEF IsSeq

LEMMA AppendedAlike ==
    ASSUME NEW s, IsSeq(s), NEW t, IsSeq(t), NEW x, NEW y, Append(s, x) = Append(t, y)
    PROVE  s = t /\ x = y
  <1>1. PICK S : s \in Seq(S)
    BY DEF IsSeq
  <1>2. PICK T : t \in Seq(T)
    BY DEF IsSeq
  <1> DEFINE U == S \cup T \cup {x, y}
  <1>3. S \subseteq U /\ T \subseteq U /\ x \in U /\ y \in U
    OBVIOUS
  <1>4. s \in Seq(U) /\ t \in Seq(U)
    BY <1>1, <1>2, <1>3, SeqMonotonic
  <1> HIDE DEF U
  <1> QED
    BY <1>3, <1>4, AppendInjective

\* A singleton or nothing.
LEMMA ShortSeqs == IsSeq(<< >>) /\ \A x : IsSeq(<<x>>) /\ Len(<<x>>) = 1
  <1>1. << >> \in Seq({})
    OBVIOUS
  <1>2. ASSUME NEW x PROVE <<x>> \in Seq({x}) /\ Len(<<x>>) = 1
    OBVIOUS
  <1> QED
    BY <1>1, <1>2 DEF IsSeq

\* The equations of the honest proofs for the two halves of a tree.
LEMMA SubHalves ==
    ASSUME NEW op \in Ops, NEW n \in 2..MaxSize, NEW lo \in Nat, NEW R \in Nat \ {0},
           op = "consistency" => R # lo + n
    PROVE  /\ R <= lo + Split[n] =>
                 Sub(op, R, n, lo) =
                    Append(Sub(op, R, Split[n], lo), MTH[n - Split[n]][lo + Split[n]])
           /\ ~(R <= lo + Split[n]) =>
                 Sub(op, R, n, lo) =
                    Append(Sub(op, R, n - Split[n], lo + Split[n]), MTH[Split[n]][lo])
  <1> USE SizeAssumption
  <1> DEFINE k == Split[n]
  <1>1. k \in 1..(n - 1) /\ n \in 1..MaxSize /\ n # 1
    BY SplitWithin
  <1>2. CASE op = "inclusion"
    <2> DEFINE m == R - 1
               P == Path(m)
    <2>1. P[n][lo] = IF m < lo + k THEN Append(P[k][lo], MTH[n - k][lo + k])
                                   ELSE Append(P[n - k][lo + k], MTH[k][lo])
      BY <1>1, PathDef
    <2>2. (m < lo + k) <=> (R <= lo + k)
      BY <1>1
    <2> QED
      BY <1>2, <2>1, <2>2 DEF Sub
  <1>3. CASE op = "consistency"
    <2> DEFINE P == SubProof(R)
    <2>1. P[n][lo] = IF R <= lo + k THEN Append(P[k][lo], MTH[n - k][lo + k])
                                    ELSE Append(P[n - k][lo + k], MTH[k][lo])
      <3>1. P[n][lo] = IF n = 1 \/ R = lo + n THEN IF lo = 0 THEN << >> ELSE <<MTH[n][lo]>>
                       ELSE IF R <= lo + k THEN Append(P[k][lo], MTH[n - k][lo + k])
                                           ELSE Append(P[n - k][lo + k], MTH[k][lo])
        BY <1>1, SubProofDef
      <3>2. ~(n = 1 \/ R = lo + n)
        BY <1>1, <1>3
      <3> HIDE DEF P, k
      <3> QED
        BY <3>1, <3>2
    <2> QED
      BY <1>3, <2>1 DEF Sub
  <1> QED
    BY <1>2, <1>3 DEF Ops

\* Honest proofs are sequences.
LEMMA SubIsSeq ==
    ASSUME NEW op \in Ops, NEW R \in Nat \ {0}
    PROVE  \A n \in 1..MaxSize, lo \in Nat : IsSeq(Sub(op, R, n, lo))
  <1> USE SizeAssumption
  <1> DEFINE S == {n \in Nat : \A j \in 1..n, lo \in Nat :
                      j <= MaxSize => IsSeq(Sub(op, R, j, lo))}
  <1>1. 0 \in S
    OBVIOUS
  <1>2. ASSUME NEW n \in Nat, n \in S PROVE n + 1 \in S
    <2> SUFFICES ASSUME NEW j \in 1..(n + 1), NEW lo \in Nat, j <= MaxSize
                 PROVE  IsSeq(Sub(op, R, j, lo))
      OBVIOUS
    <2>1. j \in 1..MaxSize
      OBVIOUS
    <2>2. CASE j = 1 \/ (op = "consistency" /\ R = lo + j)
      <3>1. CASE op = "inclusion"
        <4>1. Path(R - 1)[j][lo] = << >>
          BY <2>1, <2>2, <3>1, PathDef
        <4> QED
          BY <3>1, <4>1, ShortSeqs DEF Sub
      <3>2. CASE op = "consistency"
        <4>1. SubProof(R)[j][lo] = IF lo = 0 THEN << >> ELSE <<MTH[j][lo]>>
          BY <2>1, <2>2, <3>2, SubProofDef
        <4> QED
          BY <3>2, <4>1, ShortSeqs DEF Sub
      <3> QED
        BY <3>1, <3>2 DEF Ops
    <2>3. CASE j # 1 /\ ~(op = "consistency" /\ R = lo + j)
      <3> DEFINE k == Split[j]
      <3>1. j \in 2..MaxSize
        BY <2>1, <2>3
      <3>2. k \in 1..(j - 1)
        BY <3>1, SplitWithin
      <3> HIDE DEF k
      <3>3. k \in 1..n /\ j - k \in 1..n /\ lo + k \in Nat /\ k <= MaxSize /\ j - k <= MaxSize
        BY <3>1, <3>2
      <3>4. IsSeq(Sub(op, R, k, lo)) /\ IsSeq(Sub(op, R, j - k, lo + k))
        BY <1>2, <3>3
      <3>5. \/ Sub(op, R, j, lo) = Append(Sub(op, R, k, lo), MTH[j - k][lo + k])
            \/ Sub(op, R, j, lo) = Append(Sub(op, R, j - k, lo + k), MTH[k][lo])
        BY <2>3, <3>1, SubHalves DEF k
      <3> QED
        BY <3>4, <3>5, Appending
    <2> QED
      BY <2>2, <2>3
  <1>3. Nat \subseteq S
    <2> HIDE DEF S
    <2> QED
      BY <1>1, <1>2, Induction
  <1> QED
    BY <1>3

\* A level of an honest walk: at the end of the first tree the subtree is never its
\* own prefix once the walk is under way.
Inner(op, N, R, a, b, e, lo, hi) ==
    /\ Level(N, R, a, b, e, lo, hi)
    /\ op = "consistency" => R < lo + Size(N, a, b, e, lo) \/ (~lsb(a) /\ a < b)

\* What an honest walk adds at an odd position, and at an even one before the last.
GrowsRight(op, N, R, a, b, e, lo, w, lo2, hi2, sz, sz2) ==
    /\ Inner(op, N, R, a \div 2, b \div 2, e + 1, lo2, hi2)
    /\ sz = Size(N, a, b, e, lo) /\ sz2 = Size(N, a \div 2, b \div 2, e + 1, lo2)
    /\ lo \in Nat /\ lo # 0 /\ IsSeq(Sub(op, R, sz, lo))
    /\ Sub(op, R, sz2, lo2) = Append(Sub(op, R, sz, lo), MTH[w][lo2])
    /\ MTH[sz2][lo2] = Node(MTH[w][lo2], MTH[sz][lo])
    /\ First(op, R, lo2) = WithLeft(op, MTH[w][lo2], First(op, R, lo))

GrowsLeft(op, N, R, a, b, e, lo, hi2, sz, sz2, other) ==
    /\ Inner(op, N, R, a \div 2, b \div 2, e + 1, lo, hi2)
    /\ sz = Size(N, a, b, e, lo) /\ sz2 = Size(N, a \div 2, b \div 2, e + 1, lo)
    /\ IsSeq(Sub(op, R, sz, lo))
    /\ Sub(op, R, sz2, lo) = Append(Sub(op, R, sz, lo), other)
    /\ MTH[sz2][lo] = Node(MTH[sz][lo], other)

LEMMA InnerRight ==
    ASSUME NEW op \in Ops, NEW N \in 1..MaxSize, NEW R \in 1..N, NEW a \in Nat, NEW b \in Nat,
           a <= b, lsb(a), NEW e, NEW lo, NEW hi, Inner(op, N, R, a, b, e, lo, hi)
    PROVE  \E w, lo2, hi2, sz, sz2 :
              GrowsRight(op, N, R, a, b, e, lo, w, lo2, hi2, sz, sz2)
  <1> USE SizeAssumption
  <1>1. PICK w, lo2, hi2, sz, sz2 :
              /\ w = Power[e] /\ w \in Nat \ {0} /\ lo \in Nat /\ lo2 \in Nat /\ lo = lo2 + w
              /\ Level(N, R, a \div 2, b \div 2, e + 1, lo2, hi2)
              /\ sz = Size(N, a, b, e, lo) /\ sz2 = Size(N, a \div 2, b \div 2, e + 1, lo2)
              /\ sz \in 1..w /\ sz2 \in 2..MaxSize /\ sz2 = sz + w /\ Split[sz2] = w
              /\ R - lo \in 1..sz
    BY RightHalf DEF Inner
  <1>2. /\ R \in Nat \ {0} /\ sz2 - w = sz /\ lo2 + w = lo /\ ~(R <= lo2 + w)
        /\ sz \in 1..MaxSize /\ sz2 \in 1..MaxSize /\ sz2 # 1 /\ lo # 0
    BY <1>1
  <1>3. op = "consistency" => R < lo2 + sz2 /\ R # lo2 + sz2
    <2>1. op = "consistency" => R < lo + sz
      BY <1>1 DEF Inner
    <2> QED
      BY <1>1, <2>1
  <1>4. Inner(op, N, R, a \div 2, b \div 2, e + 1, lo2, hi2)
    BY <1>1, <1>3 DEF Inner
  <1>5. Sub(op, R, sz2, lo2) = Append(Sub(op, R, sz, lo), MTH[w][lo2])
    <2>1. ~(R <= lo2 + Split[sz2]) =>
             Sub(op, R, sz2, lo2) =
                Append(Sub(op, R, sz2 - Split[sz2], lo2 + Split[sz2]), MTH[Split[sz2]][lo2])
      <3>1. /\ sz2 \in 2..MaxSize /\ lo2 \in Nat /\ R \in Nat \ {0}
            /\ op = "consistency" => R # lo2 + sz2
        BY <1>1, <1>2, <1>3
      <3> QED
        BY <3>1, SubHalves, Zenon
    <2>2. ~(R <= lo2 + Split[sz2]) /\ Split[sz2] = w
      BY <1>1, <1>2
    <2>3. Sub(op, R, sz2, lo2) = Append(Sub(op, R, sz2 - w, lo2 + w), MTH[w][lo2])
      BY <2>1, <2>2
    <2> QED
      BY <1>2, <2>3
  <1>6. MTH[sz2][lo2] = Node(MTH[w][lo2], MTH[sz][lo])
    BY <1>1, <1>2, MTHDef
  <1>7. First(op, R, lo2) = WithLeft(op, MTH[w][lo2], First(op, R, lo))
    <2>1. CASE op = "inclusion"
      BY <2>1 DEF First, WithLeft
    <2>2. CASE op = "consistency"
      <3> DEFINE r == R - lo2
      <3>1. r \in 2..MaxSize /\ w < r /\ r <= 2 * w /\ r - w = R - lo
        BY <1>1, <1>2
      <3> HIDE DEF r
      <3>2. e \in 0..MaxSize
        BY DEF Inner, Level
      <3>3. Split[r] = w
        BY <1>1, <3>1, <3>2, SplitIs
      <3>4. r \in 1..MaxSize /\ r # 1
        BY <3>1
      <3>5. MTH[r][lo2] = Node(MTH[w][lo2], MTH[R - lo][lo])
        BY <1>1, <1>2, <3>1, <3>3, <3>4, MTHDef
      <3> QED
        BY <2>2, <3>5 DEF First, WithLeft, r
    <2> QED
      BY <2>1, <2>2 DEF Ops
  <1>8. IsSeq(Sub(op, R, sz, lo))
    BY <1>1, <1>2, SubIsSeq
  <1> QED
    BY <1>1, <1>2, <1>4, <1>5, <1>6, <1>7, <1>8 DEF GrowsRight

LEMMA InnerLeft ==
    ASSUME NEW op \in Ops, NEW N \in 1..MaxSize, NEW R \in 1..N, NEW a \in Nat, NEW b \in Nat,
           a < b, ~lsb(a), NEW e, NEW lo, NEW hi, Inner(op, N, R, a, b, e, lo, hi)
    PROVE  \E hi2, sz, sz2, other :
              GrowsLeft(op, N, R, a, b, e, lo, hi2, sz, sz2, other)
  <1> USE SizeAssumption
  <1>1. PICK w, hi2, sz2 :
              /\ w \in Nat \ {0} /\ lo \in Nat
              /\ Level(N, R, a \div 2, b \div 2, e + 1, lo, hi2)
              /\ w = Size(N, a, b, e, lo) /\ sz2 = Size(N, a \div 2, b \div 2, e + 1, lo)
              /\ sz2 \in 2..MaxSize /\ w < sz2 /\ Split[sz2] = w
              /\ R - lo \in 1..w
    BY LeftHalf DEF Inner
  <1>2. /\ R \in Nat \ {0} /\ R <= lo + w /\ R < lo + sz2 /\ R # lo + sz2
        /\ w \in 1..MaxSize /\ sz2 \in 1..MaxSize /\ sz2 # 1
    BY <1>1
  <1>3. Inner(op, N, R, a \div 2, b \div 2, e + 1, lo, hi2)
    BY <1>1, <1>2 DEF Inner
  <1>4. Sub(op, R, sz2, lo) = Append(Sub(op, R, w, lo), MTH[sz2 - w][lo + w])
    <2>1. R <= lo + Split[sz2] =>
             Sub(op, R, sz2, lo) =
                Append(Sub(op, R, Split[sz2], lo), MTH[sz2 - Split[sz2]][lo + Split[sz2]])
      <3>1. /\ sz2 \in 2..MaxSize /\ lo \in Nat /\ R \in Nat \ {0}
            /\ op = "consistency" => R # lo + sz2
        BY <1>1, <1>2
      <3> QED
        BY <3>1, SubHalves, Zenon
    <2>2. R <= lo + Split[sz2] /\ Split[sz2] = w
      BY <1>1, <1>2
    <2> QED
      BY <2>1, <2>2
  <1>5. MTH[sz2][lo] = Node(MTH[w][lo], MTH[sz2 - w][lo + w])
    BY <1>1, <1>2, MTHDef
  <1>6. IsSeq(Sub(op, R, w, lo))
    BY <1>1, <1>2, SubIsSeq
  <1> QED
    BY <1>1, <1>3, <1>4, <1>5, <1>6 DEF GrowsLeft

LEMMA InnerEdge ==
    ASSUME NEW op \in Ops, NEW N \in 1..MaxSize, NEW R \in 1..N, NEW a \in Nat, a # 0, ~lsb(a),
           NEW e, NEW lo, NEW hi, Inner(op, N, R, a, a, e, lo, hi)
    PROVE  /\ Inner(op, N, R, a \div 2, a \div 2, e + 1, lo, hi)
           /\ Size(N, a \div 2, a \div 2, e + 1, lo) = Size(N, a, a, e, lo)
  <1>1. /\ Level(N, R, a \div 2, a \div 2, e + 1, lo, hi)
        /\ Size(N, a \div 2, a \div 2, e + 1, lo) = Size(N, a, a, e, lo)
    BY NoHalf DEF Inner
  <1>2. ~(a < a)
    OBVIOUS
  <1> QED
    BY <1>1, <1>2 DEF Inner

\* At the root the level is the whole tree.
LEMMA RootLevel ==
    ASSUME NEW N \in 1..MaxSize, NEW R, NEW e, NEW lo, NEW hi, Level(N, R, 0, 0, e, lo, hi)
    PROVE  lo = 0 /\ Size(N, 0, 0, e, lo) = N
  <1>1. Power[e] \in Nat /\ lo = 0 * Power[e]
    BY PowerGrows DEF Level
  <1>2. lo = 0
    BY <1>1
  <1>3. N - 0 = N
    OBVIOUS
  <1> QED
    BY <1>2, <1>3 DEF Size

\* The honest proof grows from level to level, except where nothing is folded in.
LEMMA InnerGrows ==
    ASSUME NEW op \in Ops, NEW N \in 1..MaxSize, NEW R \in 1..N, NEW a \in Nat, NEW b \in Nat,
           a <= b, b # 0, NEW e, NEW lo, NEW hi, Inner(op, N, R, a, b, e, lo, hi),
           NEW len, len = Len(Sub(op, R, Size(N, a, b, e, lo), lo))
    PROVE  \E e2, lo2, hi2, len2 :
              /\ Inner(op, N, R, a \div 2, b \div 2, e2, lo2, hi2)
              /\ len2 = Len(Sub(op, R, Size(N, a \div 2, b \div 2, e2, lo2), lo2))
              /\ (len \in Nat /\ len2 = len + 1) \/ (len2 = len /\ a = b /\ ~lsb(a))
  <1>1. CASE lsb(a)
    <2>1. PICK w, lo2, hi2, sz, sz2 :
              GrowsRight(op, N, R, a, b, e, lo, w, lo2, hi2, sz, sz2)
      BY <1>1, InnerRight
    <2>2. len \in Nat /\ Len(Sub(op, R, sz2, lo2)) = len + 1
      BY <2>1, Appending DEF GrowsRight
    <2> QED
      BY <2>1, <2>2 DEF GrowsRight
  <1>2. CASE ~lsb(a) /\ a < b
    <2>1. PICK hi2, sz, sz2, other :
              GrowsLeft(op, N, R, a, b, e, lo, hi2, sz, sz2, other)
      BY <1>2, InnerLeft
    <2>2. len \in Nat /\ Len(Sub(op, R, sz2, lo)) = len + 1
      BY <2>1, Appending DEF GrowsLeft
    <2> QED
      BY <2>1, <2>2 DEF GrowsLeft
  <1>3. CASE ~lsb(a) /\ a = b
    <2>1. /\ Inner(op, N, R, a \div 2, a \div 2, e + 1, lo, hi)
          /\ Size(N, a \div 2, a \div 2, e + 1, lo) = Size(N, a, a, e, lo)
      BY <1>3, InnerEdge
    <2> QED
      BY <1>3, <2>1
  <1> QED
    BY <1>1, <1>2, <1>3

\* Below the root the honest proof is not finished.
LEMMA InnerShorter ==
    ASSUME NEW op \in Ops, NEW N \in 1..MaxSize, NEW R \in 1..N, NEW a \in Nat, NEW b \in Nat,
           a <= b, b # 0, NEW e, NEW lo, NEW hi, Inner(op, N, R, a, b, e, lo, hi)
    PROVE  Len(Sub(op, R, Size(N, a, b, e, lo), lo)) < Len(Sub(op, R, N, 0))
  <1> USE SizeAssumption
  <1> DEFINE all == Len(Sub(op, R, N, 0))
             len(c, d, f, l) == Len(Sub(op, R, Size(N, c, d, f, l), l))
             S == {n \in Nat : \A d \in 1..n : \A c \in 0..d : \A f, l, j :
                      Inner(op, N, R, c, d, f, l, j) => len(c, d, f, l) < all}
  <1>0. all \in Nat
    <2>1. IsSeq(Sub(op, R, N, 0))
      BY SubIsSeq
    <2> QED
      BY <2>1, Appending
  <1>1. 0 \in S
    OBVIOUS
  <1>2. ASSUME NEW n \in Nat, n \in S PROVE n + 1 \in S
    <2> SUFFICES ASSUME NEW d \in 1..(n + 1), NEW c \in 0..d, NEW f, NEW l, NEW j,
                        Inner(op, N, R, c, d, f, l, j)
                 PROVE  len(c, d, f, l) < all
      OBVIOUS
    <2> DEFINE c2 == c \div 2
               d2 == d \div 2
               z == len(c, d, f, l)
    <2>0. /\ d \in Nat /\ c \in Nat /\ c <= d /\ d # 0
          /\ c2 \in Nat /\ d2 \in 0..n /\ c2 \in 0..d2
          /\ d2 = 0 => ~(c = d /\ ~lsb(c))
      BY DEF lsb
    <2>1. PICK f2, l2, j2, z2 :
              /\ Inner(op, N, R, c2, d2, f2, l2, j2)
              /\ z2 = len(c2, d2, f2, l2)
              /\ (z \in Nat /\ z2 = z + 1) \/ (z2 = z /\ c = d /\ ~lsb(c))
      <3> HIDE DEF z
      <3>1. z = Len(Sub(op, R, Size(N, c, d, f, l), l))
        BY DEF z
      <3> QED
        BY <2>0, <3>1, InnerGrows
    <2> HIDE DEF z, c2, d2, all
    <2>2. CASE d2 = 0
      <3>1. c2 = 0
        BY <2>0, <2>2
      <3>2. Level(N, R, 0, 0, f2, l2, j2)
        BY <2>1, <2>2, <3>1 DEF Inner
      <3>3. l2 = 0 /\ Size(N, 0, 0, f2, l2) = N
        BY <3>2, RootLevel
      <3>4. z2 = all
        BY <2>1, <2>2, <3>1, <3>3 DEF all
      <3>5. z \in Nat /\ z2 = z + 1
        BY <2>0, <2>1, <2>2
      <3>6. z < all
        BY <3>4, <3>5
      <3> QED
        BY <3>6 DEF z
    <2>3. CASE d2 # 0
      <3>1. d2 \in 1..n
        BY <2>0, <2>3
      <3>2. z2 < all
        BY <1>2, <2>0, <2>1, <3>1
      <3>3. z < all
        <4>1. CASE z \in Nat /\ z2 = z + 1
          BY <1>0, <3>2, <4>1
        <4>2. CASE z2 = z
          BY <3>2, <4>2
        <4> QED
          BY <2>1, <4>1, <4>2
      <3> QED
        BY <3>3 DEF z
    <2> QED
      BY <2>2, <2>3
  <1>3. Nat \subseteq S
    <2> HIDE DEF S
    <2> QED
      BY <1>1, <1>2, Induction
  <1>4. b \in S
    BY <1>3
  <1>5. b \in 1..b /\ a \in 0..b
    OBVIOUS
  <1> HIDE DEF all
  <1>6. len(a, b, e, lo) < all
    BY <1>4, <1>5
  <1> QED
    BY <1>6 DEF all

(***************************************************************************)
(* The walk over the hashes q.  Should they be the honest ones so far, the *)
(* walk has the honest root of the subtree when it was given the honest    *)
(* hash to begin with, and it holds the honest first root, or still the    *)
(* one it was given, c.                                                    *)
(***************************************************************************)
Follows(op, N, R, a, b, h, g, q, c) ==
    \E e, lo, hi, sz :
       /\ Inner(op, N, R, a, b, e, lo, hi) /\ sz = Size(N, a, b, e, lo)
       /\ Len(q) = Len(Sub(op, R, sz, lo))
       /\ q = Sub(op, R, sz, lo) =>
             /\ g = First(op, R, lo) => h = MTH[sz][lo]
             /\ g = First(op, R, lo) \/ (g = c /\ (op = "inclusion" \/ lo = 0))

LEMMA FollowsRight ==
    ASSUME NEW op \in Ops, NEW N \in 1..MaxSize, NEW R \in 1..N, NEW a \in Nat, NEW b \in Nat,
           a <= b, lsb(a), NEW h, NEW g, NEW q, IsSeq(q), NEW c, NEW p,
           Follows(op, N, R, a, b, h, g, q, c)
    PROVE  Follows(op, N, R, a \div 2, b \div 2, Node(p, h), WithLeft(op, p, g), Append(q, p), c)
  <1>1. PICK e, lo, hi, sz :
              /\ Inner(op, N, R, a, b, e, lo, hi) /\ sz = Size(N, a, b, e, lo)
              /\ Len(q) = Len(Sub(op, R, sz, lo))
              /\ q = Sub(op, R, sz, lo) =>
                    /\ g = First(op, R, lo) => h = MTH[sz][lo]
                    /\ g = First(op, R, lo) \/ (g = c /\ (op = "inclusion" \/ lo = 0))
    BY DEF Follows
  <1>2. PICK w, lo2, hi2, s0, sz2 : GrowsRight(op, N, R, a, b, e, lo, w, lo2, hi2, s0, sz2)
    BY <1>1, InnerRight
  <1>3. s0 = sz
    BY <1>1, <1>2 DEF GrowsRight
  <1>4. Len(Append(q, p)) = Len(Sub(op, R, sz2, lo2))
    BY <1>1, <1>2, <1>3, Appending DEF GrowsRight
  <1>5. ASSUME Append(q, p) = Sub(op, R, sz2, lo2)
        PROVE  /\ WithLeft(op, p, g) = First(op, R, lo2) => Node(p, h) = MTH[sz2][lo2]
               /\ \/ WithLeft(op, p, g) = First(op, R, lo2)
                  \/ WithLeft(op, p, g) = c /\ (op = "inclusion" \/ lo2 = 0)
    <2>1. q = Sub(op, R, sz, lo) /\ p = MTH[w][lo2]
      <3> DEFINE s == Sub(op, R, sz, lo)
                 y == MTH[w][lo2]
      <3>1. IsSeq(s) /\ Append(q, p) = Append(s, y)
        BY <1>2, <1>3, <1>5 DEF GrowsRight
      <3> HIDE DEF s, y
      <3>2. q = s /\ p = y
        BY <3>1, AppendedAlike
      <3> QED
        BY <3>2 DEF s, y
    <2>2. CASE op = "inclusion"
      <3>1. WithLeft(op, p, g) = g /\ First(op, R, lo2) = First(op, R, lo)
        BY <2>2 DEF WithLeft, First
      <3> QED
        BY <1>1, <1>2, <1>3, <2>1, <2>2, <3>1 DEF GrowsRight
    <2>3. CASE op # "inclusion"
      <3>1. g = First(op, R, lo) /\ h = MTH[sz][lo]
        BY <1>1, <1>2, <2>1, <2>3 DEF GrowsRight
      <3> QED
        BY <1>2, <1>3, <2>1, <3>1 DEF GrowsRight
    <2> QED
      BY <2>2, <2>3
  <1> QED
    BY <1>2, <1>4, <1>5 DEF Follows, GrowsRight

LEMMA FollowsLeft ==
    ASSUME NEW op \in Ops, NEW N \in 1..MaxSize, NEW R \in 1..N, NEW a \in Nat, NEW b \in Nat,
           a < b, ~lsb(a), NEW h, NEW g, NEW q, IsSeq(q), NEW c, NEW p,
           Follows(op, N, R, a, b, h, g, q, c)
    PROVE  Follows(op, N, R, a \div 2, b \div 2, Node(h, p), g, Append(q, p), c)
  <1>1. PICK e, lo, hi, sz :
              /\ Inner(op, N, R, a, b, e, lo, hi) /\ sz = Size(N, a, b, e, lo)
              /\ Len(q) = Len(Sub(op, R, sz, lo))
              /\ q = Sub(op, R, sz, lo) =>
                    /\ g = First(op, R, lo) => h = MTH[sz][lo]
                    /\ g = First(op, R, lo) \/ (g = c /\ (op = "inclusion" \/ lo = 0))
    BY DEF Follows
  <1>2. PICK hi2, s0, sz2, other : GrowsLeft(op, N, R, a, b, e, lo, hi2, s0, sz2, other)
    BY <1>1, InnerLeft
  <1>3. s0 = sz
    BY <1>1, <1>2 DEF GrowsLeft
  <1>4. Len(Append(q, p)) = Len(Sub(op, R, sz2, lo))
    BY <1>1, <1>2, <1>3, Appending DEF GrowsLeft
  <1>5. ASSUME Append(q, p) = Sub(op, R, sz2, lo)
        PROVE  /\ g = First(op, R, lo) => Node(h, p) = MTH[sz2][lo]
               /\ g = First(op, R, lo) \/ (g = c /\ (op = "inclusion" \/ lo = 0))
    <2>1. q = Sub(op, R, sz, lo) /\ p = other
      <3> DEFINE s == Sub(op, R, sz, lo)
                 y == other
      <3>1. IsSeq(s) /\ Append(q, p) = Append(s, y)
        BY <1>2, <1>3, <1>5 DEF GrowsLeft
      <3> HIDE DEF s, y
      <3>2. q = s /\ p = y
        BY <3>1, AppendedAlike
      <3> QED
        BY <3>2 DEF s, y
    <2> QED
      BY <1>1, <1>2, <1>3, <2>1 DEF GrowsLeft
  <1> QED
    BY <1>2, <1>4, <1>5 DEF Follows, GrowsLeft

LEMMA FollowsEdge ==
    ASSUME NEW op \in Ops, NEW N \in 1..MaxSize, NEW R \in 1..N, NEW a \in Nat, a # 0, ~lsb(a),
           NEW h, NEW g, NEW q, NEW c, Follows(op, N, R, a, a, h, g, q, c)
    PROVE  Follows(op, N, R, a \div 2, a \div 2, h, g, q, c)
  <1>1. PICK e, lo, hi, sz :
              /\ Inner(op, N, R, a, a, e, lo, hi) /\ sz = Size(N, a, a, e, lo)
              /\ Len(q) = Len(Sub(op, R, sz, lo))
              /\ q = Sub(op, R, sz, lo) =>
                    /\ g = First(op, R, lo) => h = MTH[sz][lo]
                    /\ g = First(op, R, lo) \/ (g = c /\ (op = "inclusion" \/ lo = 0))
    BY DEF Follows
  <1>2. /\ Inner(op, N, R, a \div 2, a \div 2, e + 1, lo, hi)
        /\ sz = Size(N, a \div 2, a \div 2, e + 1, lo)
    BY <1>1, InnerEdge
  <1> QED
    BY <1>1, <1>2 DEF Follows

\* A walk that has the whole honest proof is at the root, and there it has the honest
\* root.
LEMMA FollowsEnd ==
    ASSUME NEW op \in Ops, NEW N \in 1..MaxSize, NEW R \in 1..N, NEW a \in Nat, NEW b \in Nat,
           a <= b, NEW h, NEW g, NEW q, NEW c, Follows(op, N, R, a, b, h, g, q, c)
    PROVE  /\ b # 0 => Len(q) < Len(Sub(op, R, N, 0))
           /\ b = 0 => /\ Len(q) = Len(Sub(op, R, N, 0))
                       /\ q = Sub(op, R, N, 0) =>
                             /\ g = First(op, R, 0) => h = MTH[N][0]
                             /\ g = First(op, R, 0) \/ g = c
  <1>1. PICK e, lo, hi, sz :
              /\ Inner(op, N, R, a, b, e, lo, hi) /\ sz = Size(N, a, b, e, lo)
              /\ Len(q) = Len(Sub(op, R, sz, lo))
              /\ q = Sub(op, R, sz, lo) =>
                    /\ g = First(op, R, lo) => h = MTH[sz][lo]
                    /\ g = First(op, R, lo) \/ (g = c /\ (op = "inclusion" \/ lo = 0))
    BY DEF Follows
  <1>2. CASE b # 0
    <2>1. Len(Sub(op, R, Size(N, a, b, e, lo), lo)) < Len(Sub(op, R, N, 0))
      BY <1>1, <1>2, InnerShorter
    <2> QED
      BY <1>1, <1>2, <2>1
  <1>3. CASE b = 0
    <2>1. a = 0
      BY <1>3
    <2>2. lo = 0 /\ sz = N
      BY <1>1, <1>3, <2>1, RootLevel DEF Inner
    <2> QED
      BY <1>1, <1>3, <2>2
  <1> QED
    BY <1>2, <1>3

\* The walk of verify_inclusion starts from its leaf.
LEMMA FollowsLeaf ==
    ASSUME NEW N \in 1..MaxSize, NEW m \in 0..(N - 1), NEW h
    PROVE  Follows("inclusion", N, m + 1, m, N - 1, h, h, << >>, h)
  <1> USE SizeAssumption
  <1>1. Power[0] = 1 /\ 0 \in 0..MaxSize /\ 1 \in 1..MaxSize
    BY PowerDef
  <1>2. Level(N, m + 1, m, N - 1, 0, m, N - 1)
    BY <1>1 DEF Level
  <1>3. Size(N, m, N - 1, 0, m) = 1
    BY <1>1 DEF Size
  <1>4. Inner("inclusion", N, m + 1, m, N - 1, 0, m, N - 1)
    BY <1>2 DEF Inner
  <1>5. (m + 1) - 1 = m /\ m \in Nat
    OBVIOUS
  <1>6. Path(m)[1][m] = << >>
    BY <1>1, <1>5, PathDef
  <1>7. Sub("inclusion", m + 1, 1, m) = << >>
    BY <1>5, <1>6 DEF Sub
  <1>8. MTH[1][m] = Leaf(m)
    BY <1>1, <1>5, MTHDef
  <1>9. First("inclusion", m + 1, m) = Leaf(m)
    BY <1>5 DEF First
  <1>10. << >> = Sub("inclusion", m + 1, 1, m) =>
             /\ h = First("inclusion", m + 1, m) => h = MTH[1][m]
             /\ h = First("inclusion", m + 1, m) \/ (h = h /\ ("inclusion" = "inclusion" \/ m = 0))
    BY <1>8, <1>9
  <1>11. Len(<< >>) = Len(Sub("inclusion", m + 1, 1, m))
    BY <1>7
  <1> QED
    BY <1>3, <1>4, <1>10, <1>11 DEF Follows

\* The walk of verify_consistency starts from the first root when the first tree is
\* complete, and otherwise from the first hash of the proof.
LEMMA FollowsSeed ==
    ASSUME NEW N \in 1..MaxSize, NEW R \in 1..(N - 1), NEW a \in Nat, NEW b \in Nat, a <= b,
           ~lsb(a), Stripped(N, R, a, b), NEW c, NEW p
    PROVE  /\ a = 0 => Follows("consistency", N, R, a, b, c, c, << >>, c)
           /\ a # 0 => Follows("consistency", N, R, a, b, p, p, <<p>>, c)
           /\ b # 0
  <1> USE SizeAssumption
  <1>1. PICK e, lo, hi : Level(N, R, a, b, e, lo, hi) /\ R = lo + Power[e]
    BY DEF Stripped
  <1> DEFINE w == Power[e]
  <1>2. /\ e \in 0..MaxSize /\ lo \in Nat /\ hi \in Nat /\ lo = a * w /\ hi = b * w
        /\ N <= hi + w /\ w \in Nat /\ w > 0 /\ R = lo + w
    BY <1>1, PowerGrows DEF Level
  <1>3. a # b /\ a < b /\ b # 0
    BY <1>1, <1>2
  <1>4. Inner("consistency", N, R, a, b, e, lo, hi) /\ w = Size(N, a, b, e, lo)
    BY <1>1, <1>3 DEF Inner, Size
  <1> HIDE DEF w
  <1>5. R - lo = w /\ w \in 1..MaxSize
    BY <1>2
  <1>6. First("consistency", R, lo) = MTH[w][lo]
    BY <1>5 DEF First
  <1>7. Sub("consistency", R, w, lo) = IF lo = 0 THEN << >> ELSE <<MTH[w][lo]>>
    <2>1. SubProof(R)[w][lo] = IF lo = 0 THEN << >> ELSE <<MTH[w][lo]>>
      BY <1>2, <1>5, SubProofDef
    <2> QED
      BY <2>1 DEF Sub
  <1>8. a = 0 => lo = 0
    BY <1>2
  <1>9. a # 0 => lo # 0
    BY <1>2
  <1>10. ASSUME a = 0 PROVE Follows("consistency", N, R, a, b, c, c, << >>, c)
    <2>1. lo = 0 /\ Sub("consistency", R, w, lo) = << >>
      BY <1>7, <1>8, <1>10
    <2> QED
      BY <1>4, <1>6, <2>1 DEF Follows
  <1>11. ASSUME a # 0 PROVE Follows("consistency", N, R, a, b, p, p, <<p>>, c)
    <2>1. Sub("consistency", R, w, lo) = <<MTH[w][lo]>>
      BY <1>7, <1>9, <1>11
    <2>2. Len(<<p>>) = Len(<<MTH[w][lo]>>)
      OBVIOUS
    <2>3. <<p>> = <<MTH[w][lo]>> => p = MTH[w][lo]
      OBVIOUS
    <2> QED
      BY <1>4, <1>6, <2>1, <2>2, <2>3 DEF Follows
  <1> QED
    BY <1>3, <1>10, <1>11

(***************************************************************************)
(* The invariant of a walk that may be an honest one.                      *)
(***************************************************************************)
FollowsNow(h, g, q) == Follows(req.op, req.n, Reach, fn, sn, h, g, q, req.given)

FollowsSkip == \E p, h, g, q : /\ IsSeq(q) /\ proof = Append(q, p)
                               /\ sr = Node(p, h) /\ fr = WithLeft(req.op, p, g)
                               /\ FollowsNow(h, g, q)

HonestInv ==
    /\ SoundInv
    /\ IsSeq(proof)
    /\ pc \in {"start", "strip"} => proof = << >> /\ fr = req.given /\ sr = req.given
    /\ pc = "fold" => FollowsNow(sr, fr, proof)
    /\ pc = "skip" => FollowsSkip
    /\ HonestProofAccepted

\* Within the sizes, the honest proof is the one for the whole tree.
LEMMA WholeProof ==
    ASSUME req.op \in Ops, req.m \in Nat, req.n \in Nat, Reach \in 1..req.n
    PROVE  HonestProof(req.op, req.m, req.n) = Sub(req.op, Reach, req.n, 0)
  <1>1. CASE req.op = "inclusion"
    <2>1. Reach - 1 = req.m /\ req.m < req.n
      BY <1>1 DEF Reach
    <2> QED
      BY <1>1, <2>1 DEF HonestProof, Sub
  <1>2. CASE req.op = "consistency"
    <2>1. Reach = req.m /\ 0 < req.m /\ req.m <= req.n
      BY <1>2 DEF Reach
    <2> QED
      BY <1>2, <2>1 DEF HonestProof, Sub
  <1> QED
    BY <1>1, <1>2 DEF Ops

\* What a walk under way has.
LEMMA HonestFacts ==
    ASSUME HonestInv, pc \in {"strip", "fold", "skip"}
    PROVE  /\ req.op \in Ops /\ req.n \in 1..MaxSize /\ Reach \in 1..req.n
           /\ fn \in Nat /\ sn \in Nat /\ fn <= sn
           /\ HonestProof(req.op, req.m, req.n) = Sub(req.op, Reach, req.n, 0)
  <1>1. /\ req.op \in Ops /\ req.n \in 1..MaxSize /\ Reach \in 1..req.n
        /\ fn \in Nat /\ sn \in Nat /\ fn <= sn
    BY WalkFacts DEF HonestInv
  <1>2. req.m \in Nat /\ req.n \in Nat
    BY SizeAssumption DEF HonestInv, SoundInv, WalkInv, TypeOK, Sizes
  <1> QED
    BY <1>1, <1>2, WholeProof

\* One iteration of the loop over the proof; a surplus hash is no honest one.
LEMMA FoldHonest ==
    ASSUME HonestInv, NEW p \in NextElement, FoldInclusion(p) \/ FoldConsistency(p)
    PROVE  HonestInv'
  <1>1. pc = "fold" /\ req' = req /\ Reach' = Reach /\ proof' = Append(proof, p)
    BY DEF FoldInclusion, FoldConsistency, Reach
  <1>2. /\ req.op \in Ops /\ req.n \in 1..MaxSize /\ Reach \in 1..req.n
        /\ fn \in Nat /\ sn \in Nat /\ fn <= sn
        /\ HonestProof(req.op, req.m, req.n) = Sub(req.op, Reach, req.n, 0)
    BY <1>1, HonestFacts
  <1>3. SoundInv'
    BY FoldSound DEF HonestInv
  <1>4. IsSeq(proof) /\ IsSeq(proof') /\ Len(proof) \in Nat /\ Len(proof') = Len(proof) + 1
    BY <1>1, Appending DEF HonestInv
  <1>5. Follows(req.op, req.n, Reach, fn, sn, sr, fr, proof, req.given)
    BY <1>1 DEF HonestInv, FollowsNow
  <1>6. CASE sn = 0
    <2>1. pc' = "rejected"
      BY <1>6 DEF FoldInclusion, FoldConsistency, Surplus, Conclude
    <2>2. Len(proof) = Len(Sub(req.op, Reach, req.n, 0))
      BY <1>2, <1>5, <1>6, FollowsEnd
    <2>3. proof' # HonestProof(req.op, req.m, req.n)
      BY <1>2, <1>4, <2>2
    <2>4. HonestProofAccepted'
      BY <1>1, <2>3 DEF HonestProofAccepted
    <2> QED
      BY <1>3, <1>4, <2>1, <2>4 DEF HonestInv
  <1>7. CASE sn # 0
    <2>1. /\ sr' = IF FromLeft THEN Node(p, sr) ELSE Node(sr, p)
          /\ fr' = IF FromLeft THEN WithLeft(req.op, p, fr) ELSE fr
          /\ IF FromLeft /\ ~lsb(fn) THEN pc' = "skip" /\ fn' = fn /\ sn' = sn
                                    ELSE Halve /\ pc' = "fold"
      BY <1>1, <1>2, <1>7 DEF FoldInclusion, FoldConsistency, Surplus, WithLeft, Ops
    <2>2. pc' = "fold" => FollowsNow(sr, fr, proof)'
      <3> SUFFICES ASSUME pc' = "fold" PROVE FollowsNow(sr, fr, proof)'
        OBVIOUS
      <3>1. Halve /\ ~(FromLeft /\ ~lsb(fn))
        BY <2>1
      <3>2. CASE lsb(fn)
        <4>1. sr' = Node(p, sr) /\ fr' = WithLeft(req.op, p, fr)
          BY <2>1, <3>2 DEF FromLeft
        <4>2. Follows(req.op, req.n, Reach, fn \div 2, sn \div 2,
                      Node(p, sr), WithLeft(req.op, p, fr), Append(proof, p), req.given)
          BY <1>2, <1>4, <1>5, <3>2, FollowsRight
        <4> QED
          BY <1>1, <3>1, <4>1, <4>2 DEF FollowsNow, Halve
      <3>3. CASE ~lsb(fn)
        <4>1. sr' = Node(sr, p) /\ fr' = fr /\ fn < sn
          BY <1>2, <2>1, <3>1, <3>3 DEF FromLeft
        <4>2. Follows(req.op, req.n, Reach, fn \div 2, sn \div 2,
                      Node(sr, p), fr, Append(proof, p), req.given)
          BY <1>2, <1>4, <1>5, <3>3, <4>1, FollowsLeft
        <4> QED
          BY <1>1, <3>1, <4>1, <4>2 DEF FollowsNow, Halve
      <3> QED
        BY <3>2, <3>3
    <2>3. pc' = "skip" => FollowsSkip'
      <3> SUFFICES ASSUME pc' = "skip" PROVE FollowsSkip'
        OBVIOUS
      <3>1. /\ sr' = Node(p, sr) /\ fr' = WithLeft(req.op, p, fr) /\ fn' = fn /\ sn' = sn
        BY <2>1
      <3>2. Follows(req'.op, req'.n, Reach', fn', sn', sr, fr, proof, req'.given)
        BY <1>1, <1>5, <3>1
      <3> QED
        BY <1>1, <1>4, <3>1, <3>2 DEF FollowsSkip, FollowsNow
    <2>4. pc' \in {"fold", "skip"}
      BY <2>1
    <2>5. HonestProofAccepted'
      BY <2>4 DEF HonestProofAccepted
    <2> QED
      BY <1>3, <1>4, <2>2, <2>3, <2>4, <2>5 DEF HonestInv
  <1> QED
    BY <1>6, <1>7

LEMMA SkipHonest ==
    ASSUME HonestInv, SkipLevel
    PROVE  HonestInv'
  <1>1. /\ pc = "skip" /\ req' = req /\ Reach' = Reach /\ fr' = fr /\ sr' = sr /\ Halve
        /\ proof' = proof /\ pc' = IF MoreToSkip THEN "skip" ELSE "fold"
    BY DEF SkipLevel, Reach
  <1>2. /\ req.op \in Ops /\ req.n \in 1..MaxSize /\ Reach \in 1..req.n
        /\ fn \in Nat /\ sn \in Nat /\ fn = sn /\ fn # 0
    BY <1>1, HonestFacts DEF HonestInv, SoundInv, WalkInv, FnWithinSn
  <1>3. SoundInv'
    BY SkipSound DEF HonestInv
  <1>4. PICK p, h, g, q : /\ IsSeq(q) /\ proof = Append(q, p)
                          /\ sr = Node(p, h) /\ fr = WithLeft(req.op, p, g)
                          /\ Follows(req.op, req.n, Reach, fn, sn, h, g, q, req.given)
    BY <1>1 DEF HonestInv, FollowsSkip, FollowsNow
  <1>5. MoreToSkip => FollowsSkip'
    <2> SUFFICES ASSUME MoreToSkip PROVE FollowsSkip'
      OBVIOUS
    <2>1. Follows(req.op, req.n, Reach, fn \div 2, sn \div 2, h, g, q, req.given)
      BY <1>2, <1>4, FollowsEdge DEF MoreToSkip
    <2> QED
      BY <1>1, <1>4, <2>1 DEF FollowsSkip, FollowsNow, Halve
  <1>6. ~MoreToSkip => FollowsNow(sr, fr, proof)'
    <2> SUFFICES ASSUME ~MoreToSkip PROVE FollowsNow(sr, fr, proof)'
      OBVIOUS
    <2>1. lsb(fn) /\ fn <= sn
      BY <1>2 DEF MoreToSkip
    <2>2. Follows(req.op, req.n, Reach, fn \div 2, sn \div 2,
                  Node(p, h), WithLeft(req.op, p, g), Append(q, p), req.given)
      BY <1>2, <1>4, <2>1, FollowsRight
    <2> QED
      BY <1>1, <1>4, <2>2 DEF FollowsNow, Halve
  <1>7. IsSeq(proof')
    BY <1>1 DEF HonestInv
  <1>8. HonestProofAccepted'
    BY <1>1 DEF HonestProofAccepted
  <1> QED
    BY <1>1, <1>3, <1>5, <1>6, <1>7, <1>8 DEF HonestInv

\* The end of the proof: the honest proof has reached the honest root.
LEMMA EndHonest ==
    ASSUME HonestInv, EndInclusion \/ EndConsistency
    PROVE  HonestInv'
  <1>1. /\ pc = "fold" /\ req' = req /\ proof' = proof /\ pc' \in {"accepted", "rejected"}
    BY DEF EndInclusion, EndConsistency, Conclude
  <1>2. /\ req.op \in Ops /\ req.n \in 1..MaxSize /\ Reach \in 1..req.n
        /\ fn \in Nat /\ sn \in Nat /\ fn <= sn
        /\ HonestProof(req.op, req.m, req.n) = Sub(req.op, Reach, req.n, 0)
    BY <1>1, HonestFacts
  <1>3. SoundInv' /\ IsSeq(proof')
    BY <1>1, EndSound DEF HonestInv
  <1>4. proof = Sub(req.op, Reach, req.n, 0) =>
           /\ PathComplete
           /\ fr = First(req.op, Reach, 0) => sr = MTH[req.n][0]
           /\ fr = First(req.op, Reach, 0) \/ fr = req.given
    <2>1. Follows(req.op, req.n, Reach, fn, sn, sr, fr, proof, req.given)
      BY <1>1 DEF HonestInv, FollowsNow
    <2>2. /\ sn # 0 => Len(proof) < Len(Sub(req.op, Reach, req.n, 0))
          /\ sn = 0 => (proof = Sub(req.op, Reach, req.n, 0) =>
                /\ fr = First(req.op, Reach, 0) => sr = MTH[req.n][0]
                /\ fr = First(req.op, Reach, 0) \/ fr = req.given)
      BY <1>2, <2>1, FollowsEnd
    <2>3. Len(proof) \in Nat
      BY Appending DEF HonestInv
    <2> QED
      BY <2>2, <2>3 DEF PathComplete
  <1>5. HonestProofAccepted'
    <2> SUFFICES ASSUME pc' = "rejected", proof = Sub(req.op, Reach, req.n, 0)
                 PROVE  /\ req.op = "inclusion" /\ req.m < req.n =>
                              ~(req.given = Leaf(req.m) /\ roots' = <<MTH[req.n][0]>>)
                        /\ req.op = "consistency" /\ 0 < req.m /\ req.m <= req.n =>
                              roots' # <<MTH[req.m][0], MTH[req.n][0]>>
      BY <1>1, <1>2 DEF HonestProofAccepted
    <2>1. ASSUME req.op = "inclusion", req.given = Leaf(req.m), roots' = <<MTH[req.n][0]>>
          PROVE  FALSE
      <3>1. roots'[1] = MTH[req.n][0] /\ ~(sr = roots'[1])
        BY <1>4, <2>1 DEF EndInclusion, EndConsistency, Conclude
      <3>2. fr = req.given /\ Reach = req.m + 1
        BY <2>1 DEF HonestInv, SoundInv, Reach
      <3>3. First(req.op, Reach, 0) = Leaf(req.m)
        <4>1. req.m \in Nat
          BY SizeAssumption DEF HonestInv, SoundInv, WalkInv, TypeOK, Sizes
        <4>2. Reach - 1 = req.m
          BY <3>2, <4>1
        <4> QED
          BY <2>1, <4>2 DEF First
      <3> QED
        BY <1>4, <2>1, <3>1, <3>2, <3>3
    <2>2. ASSUME req.op = "consistency", roots' = <<MTH[req.m][0], MTH[req.n][0]>>
          PROVE  FALSE
      <3>1. /\ roots'[1] = MTH[req.m][0] /\ roots'[2] = MTH[req.n][0]
            /\ roots'[1] \in {fr, req.given} /\ ~(fr = roots'[1] /\ sr = roots'[2])
        BY <1>4, <2>2 DEF EndInclusion, EndConsistency, Conclude
      <3>2. First(req.op, Reach, 0) = MTH[req.m][0]
        <4>1. Reach = req.m /\ Reach - 0 = req.m
          BY <1>2, <2>2 DEF Reach
        <4> QED
          BY <2>2, <4>1 DEF First
      <3> QED
        BY <1>4, <3>1, <3>2
    <2> QED
      BY <2>1, <2>2
  <1> QED
    BY <1>1, <1>3, <1>5 DEF HonestInv

\* The start; of equal sizes the honest proof is empty, and equal roots are accepted.
LEMMA StartHonest ==
    ASSUME HonestInv, StartInclusion \/ StartConsistency
    PROVE  HonestInv'
  <1> USE SizeAssumption
  <1>1. /\ pc = "start" /\ req' = req /\ fr' = fr /\ sr' = sr /\ Reach' = Reach
        /\ pc' \in {"strip", "fold", "accepted", "rejected"}
    BY DEF StartInclusion, StartConsistency, Conclude, Reach
  <1>2. /\ req.m \in Nat /\ req.n \in Nat /\ req.m <= MaxSize /\ req.n <= MaxSize
        /\ proof = << >> /\ fr = req.given /\ sr = req.given
    BY <1>1 DEF HonestInv, SoundInv, WalkInv, TypeOK, Sizes
  <1>3. SoundInv'
    BY StartSound DEF HonestInv
  <1>4. IsSeq(proof') /\ (pc' \in {"strip", "fold"} => proof' = << >>)
    <2>1. \/ proof' = proof
          \/ pc' \in {"accepted", "rejected"} /\ proof' = << >>
          \/ pc' \in {"accepted", "rejected"} /\ \E p : proof' = <<p>>
      BY DEF StartInclusion, StartConsistency, Conclude
    <2> QED
      BY <1>2, <2>1, ShortSeqs
  <1>5. pc' = "fold" => FollowsNow(sr, fr, proof)'
    <2> SUFFICES ASSUME pc' = "fold" PROVE FollowsNow(sr, fr, proof)'
      OBVIOUS
    <2>1. /\ req.op = "inclusion" /\ req.m < req.n
          /\ fn' = req.m /\ sn' = req.n - 1
      BY DEF StartInclusion, StartConsistency, Conclude
    <2>2. req.n \in 1..MaxSize /\ req.m \in 0..(req.n - 1) /\ Reach = req.m + 1
      BY <1>2, <2>1 DEF Reach
    <2>3. Follows("inclusion", req.n, req.m + 1, req.m, req.n - 1,
                  req.given, req.given, << >>, req.given)
      BY <2>2, FollowsLeaf
    <2> QED
      BY <1>1, <1>2, <1>4, <2>1, <2>2, <2>3 DEF FollowsNow
  <1>6. HonestProofAccepted'
    <2> SUFFICES ASSUME pc' = "rejected", proof' = HonestProof(req.op, req.m, req.n)
                 PROVE  /\ req.op = "inclusion" /\ req.m < req.n =>
                              ~(req.given = Leaf(req.m) /\ roots' = <<MTH[req.n][0]>>)
                        /\ req.op = "consistency" /\ 0 < req.m /\ req.m <= req.n =>
                              roots' # <<MTH[req.m][0], MTH[req.n][0]>>
      BY <1>1 DEF HonestProofAccepted
    <2>1. req.op = "inclusion" => ~(req.m < req.n)
      BY <1>2 DEF StartInclusion, StartConsistency, Conclude
    <2>2. ASSUME req.op = "consistency", 0 < req.m, req.m <= req.n,
                 roots' = <<MTH[req.m][0], MTH[req.n][0]>>
          PROVE  FALSE
      <3>1. req.m = req.n
        BY <1>2, <2>2 DEF StartInclusion, StartConsistency, Conclude
      <3>2. PICK second \in Roots(req.given), p \in NextElement, empty \in BOOLEAN :
                /\ proof' = IF empty THEN << >> ELSE <<p>>
                /\ roots' = <<req.given, second>>
                /\ pc' = IF empty /\ req.given = second THEN "accepted" ELSE "rejected"
        <4>1. req.m # 0 /\ ~(req.m < req.n) /\ ~(req.m > req.n)
          BY <1>2, <2>2, <3>1
        <4> QED
          BY <2>2, <3>1, <4>1 DEF StartInclusion, StartConsistency, Conclude
      <3>3. HonestProof(req.op, req.m, req.n) = << >>
        <4>1. req.n \in 1..MaxSize /\ 0 \in Nat /\ req.m = 0 + req.n
          BY <1>2, <2>2, <3>1
        <4>2. SubProof(req.m)[req.n][0] = << >>
          BY <4>1, SubProofDef
        <4> QED
          BY <2>2, <4>2 DEF HonestProof
      <3>4. empty
        <4> SUFFICES ASSUME ~empty PROVE FALSE
          OBVIOUS
        <4>1. proof' = <<p>> /\ proof' = << >>
          BY <3>2, <3>3
        <4>2. Len(<<p>>) = 1 /\ Len(<< >>) = 0
          OBVIOUS
        <4> QED
          BY <4>1, <4>2
      <3>5. req.given = second
        BY <2>2, <3>1, <3>2
      <3> QED
        BY <3>2, <3>4, <3>5
    <2> QED
      BY <2>1, <2>2
  <1> QED
    BY <1>1, <1>2, <1>3, <1>4, <1>5, <1>6 DEF HonestInv

\* The seed; where it is missing the honest proof has one.
LEMMA StripHonest ==
    ASSUME HonestInv, StripOnes \/ Seed
    PROVE  HonestInv'
  <1> USE SizeAssumption
  <1>1. /\ pc = "strip" /\ req' = req /\ Reach' = Reach /\ req.op = "consistency"
        /\ proof = << >> /\ fr = req.given /\ sr = req.given
        /\ Stripped(req.n, Reach, fn, sn) /\ Reach # req.n
    BY DEF StripOnes, Seed, HonestInv, SoundInv, Reach
  <1>2. /\ req.op \in Ops /\ req.n \in 1..MaxSize /\ Reach \in 1..req.n
        /\ fn \in Nat /\ sn \in Nat /\ fn <= sn
        /\ HonestProof(req.op, req.m, req.n) = Sub(req.op, Reach, req.n, 0)
    BY <1>1, HonestFacts
  <1>3. SoundInv'
    BY StripSound DEF HonestInv
  <1>4. CASE StripOnes
    <2>1. pc' = "strip" /\ fr' = fr /\ sr' = sr /\ proof' = proof
      BY <1>1, <1>4 DEF StripOnes
    <2>2. HonestProofAccepted'
      BY <2>1 DEF HonestProofAccepted
    <2> QED
      BY <1>1, <1>3, <2>1, <2>2, ShortSeqs DEF HonestInv
  <1>5. CASE Seed
    <2>1. Reach \in 1..(req.n - 1) /\ ~lsb(fn) /\ fn' = fn /\ sn' = sn
      BY <1>1, <1>2, <1>5 DEF Seed
    <2>2. \A p : /\ fn = 0 => Follows("consistency", req.n, Reach, fn, sn,
                                      req.given, req.given, << >>, req.given)
                 /\ fn # 0 => Follows("consistency", req.n, Reach, fn, sn,
                                      p, p, <<p>>, req.given)
                 /\ sn # 0
      BY <1>1, <1>2, <2>1, FollowsSeed
    <2>3. CASE fn = 0
      <3>1. pc' = "fold" /\ fr' = fr /\ sr' = sr /\ proof' = proof
        BY <1>5, <2>3 DEF Seed
      <3>2. FollowsNow(sr, fr, proof)'
        BY <1>1, <2>1, <2>2, <2>3, <3>1 DEF FollowsNow
      <3>3. HonestProofAccepted'
        BY <3>1 DEF HonestProofAccepted
      <3> QED
        BY <1>1, <1>3, <3>1, <3>2, <3>3, ShortSeqs DEF HonestInv
    <2>4. CASE fn # 0 /\ pc' = "fold"
      <3>1. PICK p : fr' = p /\ sr' = p /\ proof' = <<p>>
        BY <1>5, <2>4 DEF Seed, Conclude
      <3>2. FollowsNow(sr, fr, proof)'
        BY <1>1, <2>1, <2>2, <2>4, <3>1 DEF FollowsNow
      <3>3. HonestProofAccepted'
        BY <2>4 DEF HonestProofAccepted
      <3> QED
        BY <1>3, <2>4, <3>1, <3>2, <3>3, ShortSeqs DEF HonestInv
    <2>5. CASE fn # 0 /\ pc' # "fold"
      <3>1. pc' = "rejected" /\ proof' = << >>
        BY <1>1, <1>5, <2>5 DEF Seed, Conclude
      <3>2. Len(<<0>>) < Len(Sub(req.op, Reach, req.n, 0))
        BY <1>1, <1>2, <2>2, <2>5, FollowsEnd
      <3>3. proof' # HonestProof(req.op, req.m, req.n)
        <4>1. Len(<<0>>) = 1 /\ Len(<< >>) = 0
          OBVIOUS
        <4> QED
          BY <1>2, <3>1, <3>2, <4>1
      <3>4. HonestProofAccepted'
        BY <1>1, <3>3 DEF HonestProofAccepted
      <3> QED
        BY <1>3, <3>1, <3>4, ShortSeqs DEF HonestInv
    <2> QED
      BY <2>3, <2>4, <2>5
  <1> QED
    BY <1>4, <1>5

\* A walk is never led astray by honest hashes: HonestInv, for trees of every size.
THEOREM HonestInvariance == Spec => []HonestInv
  <1>1. Init => HonestInv
    <2> SUFFICES ASSUME Init PROVE HonestInv
      OBVIOUS
    <2>1. WalkInv
      BY SizeAssumption DEF Init, WalkInv, TypeOK, FnWithinSn, Sizes, Stages
    <2>2. SoundInv
      BY <2>1 DEF Init, SoundInv, InclusionSound, ConsistencySound
    <2> QED
      BY <2>2, ShortSeqs DEF Init, HonestInv, HonestProofAccepted
  <1>2. HonestInv /\ [Next]_vars => HonestInv'
    <2> SUFFICES ASSUME HonestInv, [Next]_vars PROVE HonestInv'
      OBVIOUS
    <2>1. CASE StartInclusion \/ StartConsistency
      BY <2>1, StartHonest
    <2>2. CASE StripOnes \/ Seed
      BY <2>2, StripHonest
    <2>3. ASSUME NEW p \in NextElement, FoldInclusion(p) \/ FoldConsistency(p)
          PROVE  HonestInv'
      BY <2>3, FoldHonest
    <2>4. CASE SkipLevel
      BY <2>4, SkipHonest
    <2>5. CASE EndInclusion \/ EndConsistency
      BY <2>5, EndHonest
    <2>6. CASE UNCHANGED vars
      <3>1. SoundInv'
        <4>1. WalkInv'
          BY <2>6, WalkInvStep DEF HonestInv, SoundInv
        <4> QED
          BY <2>6, <4>1 DEF vars, HonestInv, SoundInv, Reach, Holds, SkipHolds,
                            InclusionSound, ConsistencySound
      <3> QED
        BY <2>6, <3>1 DEF vars, HonestInv, Reach, FollowsNow, FollowsSkip, HonestProofAccepted
    <2> QED
      BY <2>1, <2>2, <2>3, <2>4, <2>5, <2>6 DEF Next
  <1> QED
    BY <1>1, <1>2, PTL DEF Spec

\* The proofs RFC 9162 generates for the honest log are never rejected by
\* verify_inclusion and verify_consistency: for trees of every size.
THEOREM HonestIsAccepted == Spec => []HonestProofAccepted
  <1>1. HonestInv => HonestProofAccepted
    BY DEF HonestInv
  <1> QED
    BY <1>1, HonestInvariance, PTL
===============================================================================
