------------------------- MODULE DataSnapshots_proofs -------------------------
(***************************************************************************)
(* Proofs about DataSnapshots, for any number of sessions, APEXes and        *)
(* users, any number of power losses and any number of faults: that every    *)
(* variable has its type; on devices with checkpoints, that the data in use   *)
(* fits its version, that none is lost, and that the snapshot an update can  *)
(* be rolled back to is the original; and, on devices without, that a        *)
(* reverted rollback leaves the data it found.                             *)
(*                                                                         *)
(* Each invariant is built in layers.  With checkpoints: types; the processes *)
(* of a boot (PcInv); the sessions and vold's checkpoint (SessionInv); the    *)
(* data (DataInv).  Without: RevertPcInv, RevertStateInv, RevertDataInv.      *)
(***************************************************************************)
EXTENDS DataSnapshots, FiniteSetTheorems, TLAPS
(* Induction over a set of natural numbers.                                *)
LEMMA NatSetInduction ==
  ASSUME NEW T \in SUBSET Nat, 0 \in T, \A n \in T : n + 1 \in T
  PROVE  T = Nat
<1> SUFFICES ASSUME Nat \ T # {} PROVE FALSE
  OBVIOUS
<1> DEFINE R == StrictSubsetOrdering(Nat)
           S == {1..n : n \in Nat \ T}
<1>1. IsWellFoundedOn(R, FiniteSubsetsOf(Nat))
  BY FS_StrictSubsetOrderingWellFounded
<1>2. S \subseteq FiniteSubsetsOf(Nat) /\ S # {}
  <2>1. ASSUME NEW n \in Nat PROVE 1..n \in SUBSET Nat /\ IsFiniteSet(1..n)
    BY FS_Interval
  <2> QED BY <2>1 DEF FiniteSubsetsOf
<1>3. PICK X \in S : \A Y \in S : <<Y, X>> \notin R
  <2> HIDE DEF R, S
  <2> QED BY ONLY <1>1, <1>2, WFMin
<1>4. PICK x \in Nat \ T : X = 1..x
  OBVIOUS
<1>5. x - 1 \in Nat /\ x \in 1..x /\ x \notin 1..(x - 1) /\ 1..(x - 1) \subseteq 1..x /\ x - 1 \notin T
  OBVIOUS
<1>6. 1..(x - 1) \in S /\ <<1..(x - 1), X>> \in R
  BY <1>4, <1>5 DEF StrictSubsetOrdering
<1> QED BY <1>3, <1>6

(* The recursive function that FlattenSeq is defined by.                    *)
FlattenStep(f, seqs, i) == IF i = 1 THEN seqs[i] ELSE f[i - 1] \o seqs[i]
IsFlatten(f, seqs, n) == f = [i \in 1..n |-> FlattenStep(f, seqs, i)]

LEMMA FlattenExists ==
  ASSUME NEW seqs, NEW m \in Nat
  PROVE  \E f : IsFlatten(f, seqs, m)
<1> DEFINE T == {n \in Nat : \E f : IsFlatten(f, seqs, n)}
<1>1. 0 \in T
  <2>1. IsFlatten([i \in 1..0 |-> 0], seqs, 0)
    BY DEF IsFlatten
  <2> QED BY <2>1
<1>2. ASSUME NEW n \in T PROVE n + 1 \in T
  <2>1. PICK f : IsFlatten(f, seqs, n)
    OBVIOUS
  <2> DEFINE g == [i \in 1..(n + 1) |-> IF i = n + 1 THEN FlattenStep(f, seqs, i) ELSE f[i]]
  <2>2. ASSUME NEW i \in 1..(n + 1) PROVE g[i] = FlattenStep(g, seqs, i)
    <3>1. CASE i = n + 1 /\ i = 1
      BY <3>1 DEF FlattenStep
    <3>2. CASE i = n + 1 /\ i # 1
      <4>1. i - 1 \in 1..n /\ i - 1 # n + 1 /\ i - 1 \in 1..(n + 1)
        BY <3>2
      <4>2. g[i - 1] = f[i - 1]
        BY <4>1
      <4>3. g[i] = f[i - 1] \o seqs[i]
        BY <3>2 DEF FlattenStep
      <4> QED BY <3>2, <4>2, <4>3 DEF FlattenStep
    <3>3. CASE i # n + 1
      <4>1. i \in 1..n /\ g[i] = f[i]
        BY <3>3 DEF FlattenStep
      <4>2. f[i] = FlattenStep(f, seqs, i)
        BY <2>1, <4>1 DEF IsFlatten
      <4>3. CASE i = 1
        BY <4>1, <4>2, <4>3 DEF FlattenStep
      <4>4. CASE i # 1
        <5>1. i - 1 \in 1..(n + 1) /\ i - 1 # n + 1
          BY <3>3, <4>4
        <5>2. g[i - 1] = f[i - 1]
          BY <5>1
        <5> HIDE DEF g
        <5> QED BY <4>1, <4>2, <4>4, <5>2 DEF FlattenStep
      <4> QED BY <4>3, <4>4
    <3> QED BY <3>1, <3>2, <3>3
  <2>3. IsFlatten(g, seqs, n + 1)
    <3>1. g = [i \in 1..(n + 1) |-> g[i]]
      OBVIOUS
    <3> HIDE DEF g
    <3> QED BY <2>2, <3>1 DEF IsFlatten
  <2> HIDE DEF g
  <2> QED BY <2>3
<1> HIDE DEF T
<1>3. T \in SUBSET Nat
  BY DEF T
<1>4. T = Nat
  BY <1>1, <1>2, <1>3, NatSetInduction
<1> QED BY <1>4 DEF T

(* Concatenation, position by position.                                    *)
LEMMA ConcatFacts ==
  ASSUME NEW C, NEW s \in Seq(C), NEW t \in Seq(C)
  PROVE  /\ s \o t \in Seq(C) /\ Len(s \o t) = Len(s) + Len(t)
         /\ \A l \in 1..Len(s) : l \in 1..Len(s \o t) /\ (s \o t)[l] = s[l]
         /\ \A l \in 1..Len(t) : l + Len(s) \in 1..Len(s \o t) /\ (s \o t)[l + Len(s)] = t[l]
         /\ \A l \in 1..Len(s \o t) : l \notin 1..Len(s) =>
              l - Len(s) \in 1..Len(t) /\ (s \o t)[l] = t[l - Len(s)]
  OBVIOUS

(* What the concatenation r of the first k sequences holds: every element    *)
(* of them, nothing else, and nothing twice unless they hold it twice.      *)
Holds(r, seqs, k) ==
  /\ \A l \in 1..Len(r) : \E i \in 1..k : \E j \in 1..Len(seqs[i]) : r[l] = seqs[i][j]
  /\ \A i \in 1..k : \A j \in 1..Len(seqs[i]) : \E l \in 1..Len(r) : r[l] = seqs[i][j]
NoRepeat(seqs, k) ==
  \A i1, i2 \in 1..k : \A j1 \in 1..Len(seqs[i1]), j2 \in 1..Len(seqs[i2]) :
    seqs[i1][j1] = seqs[i2][j2] => i1 = i2 /\ j1 = j2
Distinct(r) == \A l1, l2 \in 1..Len(r) : r[l1] = r[l2] => l1 = l2

LEMMA FlattenHolds ==
  ASSUME NEW C, NEW seqs \in Seq(Seq(C)), NEW k \in 1..Len(seqs), k # 1, NEW r \in Seq(C),
         Holds(r, seqs, k - 1), NoRepeat(seqs, k - 1) => Distinct(r)
  PROVE  /\ r \o seqs[k] \in Seq(C)
         /\ Holds(r \o seqs[k], seqs, k)
         /\ NoRepeat(seqs, k) => Distinct(r \o seqs[k])
<1> DEFINE t == seqs[k]
           u == r \o t
<1>0. t \in Seq(C) /\ k \in Nat /\ 1..k = 1..(k - 1) \cup {k} /\ k \notin 1..(k - 1)
  <2>1. t \in Seq(C)
    OBVIOUS
  <2> HIDE DEF t
  <2> QED BY <2>1
<1>1. /\ u \in Seq(C) /\ Len(u) = Len(r) + Len(t) /\ Len(r) \in Nat /\ Len(t) \in Nat
      /\ \A l \in 1..Len(r) : l \in 1..Len(u) /\ u[l] = r[l]
      /\ \A l \in 1..Len(t) : l + Len(r) \in 1..Len(u) /\ u[l + Len(r)] = t[l]
      /\ \A l \in 1..Len(u) : l \notin 1..Len(r) =>
           l - Len(r) \in 1..Len(t) /\ u[l] = t[l - Len(r)]
  <2> HIDE DEF t
  <2> QED BY SMTT(40), <1>0, ConcatFacts
<1> HIDE DEF u
<1>2. ASSUME NEW l \in 1..Len(u)
      PROVE  \/ l \in 1..Len(r) /\ \E i \in 1..(k - 1) : \E j \in 1..Len(seqs[i]) : u[l] = seqs[i][j]
             \/ l \notin 1..Len(r) /\ l - Len(r) \in 1..Len(t) /\ u[l] = seqs[k][l - Len(r)]
  <2>1. CASE l \in 1..Len(r)
    <3>1. u[l] = r[l]
      BY <1>1, <2>1
    <3>2. \E i \in 1..(k - 1) : \E j \in 1..Len(seqs[i]) : r[l] = seqs[i][j]
      BY <2>1 DEF Holds
    <3> QED BY <2>1, <3>1, <3>2
  <2>2. CASE l \notin 1..Len(r)
    BY <1>1, <2>2
  <2> QED BY <2>1, <2>2
<1>3. Holds(u, seqs, k)
  <2>1. ASSUME NEW l \in 1..Len(u)
        PROVE  \E i \in 1..k : \E j \in 1..Len(seqs[i]) : u[l] = seqs[i][j]
    BY <1>2, <1>0
  <2>2. ASSUME NEW i \in 1..k, NEW j \in 1..Len(seqs[i])
        PROVE  \E l \in 1..Len(u) : u[l] = seqs[i][j]
    <3>1. CASE i = k
      BY <3>1, <1>1
    <3>2. CASE i # k
      <4>1. PICK l \in 1..Len(r) : r[l] = seqs[i][j]
        BY <3>2, <1>0 DEF Holds
      <4> QED BY <4>1, <1>1
    <3> QED BY <3>1, <3>2
  <2> QED BY <2>1, <2>2 DEF Holds
<1>4. ASSUME NoRepeat(seqs, k) PROVE Distinct(u)
  <2>1. Distinct(r)
    BY <1>0, <1>4 DEF NoRepeat
  <2>2. SUFFICES ASSUME NEW l1 \in 1..Len(u), NEW l2 \in 1..Len(u), u[l1] = u[l2]
                 PROVE  l1 = l2
    BY DEF Distinct
  <2>3. CASE l1 \in 1..Len(r) /\ l2 \in 1..Len(r)
    BY <2>1, <2>2, <2>3, <1>1 DEF Distinct
  <2>4. CASE l1 \notin 1..Len(r) /\ l2 \notin 1..Len(r)
    <3>1. /\ l1 - Len(r) \in 1..Len(seqs[k]) /\ l2 - Len(r) \in 1..Len(seqs[k])
          /\ seqs[k][l1 - Len(r)] = seqs[k][l2 - Len(r)]
      BY <2>2, <2>4, <1>2
    <3>2. l1 - Len(r) = l2 - Len(r)
      <4> DEFINE j1 == l1 - Len(r)
                 j2 == l2 - Len(r)
      <4>1. k \in 1..k /\ j1 \in 1..Len(seqs[k]) /\ j2 \in 1..Len(seqs[k]) /\ seqs[k][j1] = seqs[k][j2]
        BY <1>0, <3>1
      <4> HIDE DEF j1, j2
      <4>2. j1 = j2
        BY <4>1, <1>4 DEF NoRepeat
      <4> QED BY <4>2 DEF j1, j2
    <3>3. l1 \in Int /\ l2 \in Int /\ Len(r) \in Int
      OBVIOUS
    <3> QED BY <3>2, <3>3
  <2>5. ASSUME NEW m1 \in 1..Len(u), NEW m2 \in 1..Len(u), u[m1] = u[m2],
               m1 \in 1..Len(r), m2 \notin 1..Len(r)
        PROVE  FALSE
    <3>1. PICK i \in 1..(k - 1) : \E j \in 1..Len(seqs[i]) : u[m1] = seqs[i][j]
      BY <2>5, <1>2
    <3>2. m2 - Len(r) \in 1..Len(seqs[k]) /\ u[m2] = seqs[k][m2 - Len(r)]
      BY <2>5, <1>2
    <3>3. i \in 1..k /\ i # k /\ k \in 1..k
      BY <1>0
    <3> QED BY <3>1, <3>2, <3>3, <2>5, <1>4 DEF NoRepeat
  <2> QED BY <2>2, <2>3, <2>4, <2>5
<1> QED BY <1>1, <1>3, <1>4 DEF u

LEMMA FlattenSeqFacts ==
  ASSUME NEW C, NEW seqs \in Seq(Seq(C))
  PROVE  /\ FlattenSeq(seqs) \in Seq(C)
         /\ Holds(FlattenSeq(seqs), seqs, Len(seqs))
         /\ NoRepeat(seqs, Len(seqs)) => Distinct(FlattenSeq(seqs))
<1> DEFINE n == Len(seqs)
<1>0. n \in Nat /\ \A i \in 1..n : seqs[i] \in Seq(C)
  OBVIOUS
<1>1. CASE n = 0
  <2>1. FlattenSeq(seqs) = seqs /\ seqs = <<>>
    BY <1>1 DEF FlattenSeq
  <2>2. Len(seqs) = 0 /\ <<>> \in Seq(C)
    BY <1>1
  <2> QED BY <2>1, <2>2 DEF Holds, Distinct
<1>2. CASE n # 0
  <2> DEFINE fl == CHOOSE f : f = [i \in 1..n |-> IF i = 1 THEN seqs[i] ELSE f[i - 1] \o seqs[i]]
  <2>1. FlattenSeq(seqs) = fl[n]
    BY <1>2 DEF FlattenSeq
  <2>2. \E f : f = [i \in 1..n |-> IF i = 1 THEN seqs[i] ELSE f[i - 1] \o seqs[i]]
    BY <1>0, FlattenExists DEF IsFlatten, FlattenStep
  <2>3. fl = [i \in 1..n |-> IF i = 1 THEN seqs[i] ELSE fl[i - 1] \o seqs[i]]
    BY <2>2
  <2> HIDE DEF fl
  <2> DEFINE OK(k) ==
        k \in 1..n => /\ fl[k] \in Seq(C) /\ Holds(fl[k], seqs, k)
                      /\ NoRepeat(seqs, k) => Distinct(fl[k])
             T == {k \in Nat : OK(k)}
  <2>4. 0 \in T
    OBVIOUS
  <2>5. ASSUME NEW k \in T PROVE k + 1 \in T
    <3>1. CASE k + 1 \notin 1..n
      BY <3>1
    <3>2. CASE k + 1 \in 1..n /\ k = 0
      <4>1. fl[1] = seqs[1] /\ 1 \in 1..n /\ seqs[1] \in Seq(C)
        BY <2>3, <3>2, <1>0
      <4>2. Holds(seqs[1], seqs, 1)
        BY <4>1 DEF Holds
      <4>3. NoRepeat(seqs, 1) => Distinct(seqs[1])
        BY <4>1 DEF NoRepeat, Distinct
      <4> QED BY <3>2, <4>1, <4>2, <4>3
    <3>3. CASE k + 1 \in 1..n /\ k # 0
      <4>1. k \in 1..n /\ k + 1 # 1 /\ (k + 1) - 1 = k
        BY <3>3
      <4>2. fl[k + 1] = fl[k] \o seqs[k + 1]
        BY <2>3, <3>3, <4>1
      <4>3. OK(k)
        OBVIOUS
      <4>4. fl[k] \in Seq(C) /\ Holds(fl[k], seqs, k) /\ (NoRepeat(seqs, k) => Distinct(fl[k]))
        BY <4>1, <4>3
      <4>5. k + 1 \in 1..Len(seqs)
        BY <3>3
      <4> HIDE DEF T, n
      <4>6. /\ fl[k] \o seqs[k + 1] \in Seq(C) /\ Holds(fl[k] \o seqs[k + 1], seqs, k + 1)
            /\ NoRepeat(seqs, k + 1) => Distinct(fl[k] \o seqs[k + 1])
        <5> DEFINE m == k + 1
                   r == fl[k]
        <5>1. m \in 1..Len(seqs) /\ m # 1 /\ r \in Seq(C) /\ m - 1 = k
          BY <4>1, <4>4, <4>5
        <5>2. Holds(r, seqs, m - 1) /\ (NoRepeat(seqs, m - 1) => Distinct(r))
          BY <5>1, <4>4
        <5> HIDE DEF m, r
        <5>3. /\ r \o seqs[m] \in Seq(C) /\ Holds(r \o seqs[m], seqs, m)
              /\ NoRepeat(seqs, m) => Distinct(r \o seqs[m])
          BY <5>1, <5>2, FlattenHolds
        <5> QED BY <5>3 DEF m, r
      <4>7. OK(k + 1) /\ k \in Nat
        BY <4>2, <4>6 DEF T
      <4> HIDE DEF OK
      <4> QED BY <4>7 DEF T
    <3> QED BY <3>1, <3>2, <3>3
  <2>6. T \in SUBSET Nat
    OBVIOUS
  <2> HIDE DEF T
  <2>7. T = Nat
    BY <2>4, <2>5, <2>6, NatSetInduction
  <2>8. OK(n)
    BY <1>0, <2>7 DEF T
  <2> QED BY <2>1, <2>8, <1>0, <1>2
<1> QED BY <1>1, <1>2

LEMMA SetToSeqFacts ==
  ASSUME NEW S, IsFiniteSet(S)
  PROVE  /\ Cardinality(S) \in Nat
         /\ \A i \in 1..Cardinality(S) : SetToSeq(S)[i] \in S
         /\ \A i, j \in 1..Cardinality(S) : SetToSeq(S)[i] = SetToSeq(S)[j] => i = j
         /\ \A x \in S : \E i \in 1..Cardinality(S) : SetToSeq(S)[i] = x
<1> DEFINE n == Cardinality(S)
<1>1. n \in Nat /\ \E f \in [1..n -> S] : IsInjective(f)
  BY FS_CardinalityType DEF ExistsBijection, Bijection, Injection
<1>2. SetToSeq(S) \in [1..n -> S] /\ IsInjective(SetToSeq(S))
  BY <1>1 DEF SetToSeq
<1>3. SetToSeq(S) \in Injection(1..n, S)
  BY <1>2 DEF Injection
<1>4. Cardinality(1..n) = n
  BY <1>1, FS_Interval
<1>5. SetToSeq(S) \in Surjection(1..n, S)
  BY <1>3, <1>4, FS_Injection
<1> HIDE DEF n
<1>6. \A x \in S : \E i \in 1..n : SetToSeq(S)[i] = x
  BY <1>5 DEF Surjection
<1>7. \A i, j \in 1..n : SetToSeq(S)[i] = SetToSeq(S)[j] => i = j
  BY <1>2 DEF IsInjective
<1> QED BY <1>1, <1>2, <1>6, <1>7 DEF n

(* ForEach, of an operator given as a function.                            *)
ForEachOf(S, op) == FlattenSeq([i \in 1..Cardinality(S) |-> op[SetToSeq(S)[i]]])

LEMMA ForEachFacts ==
  ASSUME NEW S, IsFiniteSet(S), NEW C, NEW op \in [S -> Seq(C)]
  PROVE  /\ ForEachOf(S, op) \in Seq(C)
         /\ \A l \in 1..Len(ForEachOf(S, op)) :
              \E x \in S : \E j \in 1..Len(op[x]) : ForEachOf(S, op)[l] = op[x][j]
         /\ \A x \in S : \A j \in 1..Len(op[x]) :
              \E l \in 1..Len(ForEachOf(S, op)) : ForEachOf(S, op)[l] = op[x][j]
         /\ (\A x, y \in S : \A j1 \in 1..Len(op[x]), j2 \in 1..Len(op[y]) :
                op[x][j1] = op[y][j2] => x = y /\ j1 = j2)
            => Distinct(ForEachOf(S, op))
<1> DEFINE n == Cardinality(S)
           q == SetToSeq(S)
           seqs == [i \in 1..n |-> op[q[i]]]
           r == FlattenSeq(seqs)
<1>1. /\ n \in Nat /\ \A i \in 1..n : q[i] \in S
      /\ \A i, j \in 1..n : q[i] = q[j] => i = j
      /\ \A x \in S : \E i \in 1..n : q[i] = x
  BY SetToSeqFacts
<1> HIDE DEF n, q
<1>2. seqs \in Seq(Seq(C)) /\ Len(seqs) = n /\ \A i \in 1..n : seqs[i] = op[q[i]] /\ q[i] \in S
  BY <1>1
<1> HIDE DEF seqs
<1>3. /\ r \in Seq(C) /\ Holds(r, seqs, n)
      /\ NoRepeat(seqs, n) => Distinct(r)
  BY <1>2, FlattenSeqFacts
<1> HIDE DEF r
<1>4. ASSUME NEW l \in 1..Len(r)
      PROVE  \E x \in S : \E j \in 1..Len(op[x]) : r[l] = op[x][j]
  <2>1. PICK i \in 1..n : \E j \in 1..Len(seqs[i]) : r[l] = seqs[i][j]
    BY <1>3 DEF Holds
  <2>2. seqs[i] = op[q[i]] /\ q[i] \in S
    BY <1>2
  <2> QED BY <2>1, <2>2
<1>5. ASSUME NEW x \in S, NEW j \in 1..Len(op[x])
      PROVE  \E l \in 1..Len(r) : r[l] = op[x][j]
  <2>1. PICK i \in 1..n : q[i] = x
    BY <1>1
  <2>2. seqs[i] = op[x]
    BY <1>2, <2>1
  <2>3. \A k \in 1..Len(seqs[i]) : \E l \in 1..Len(r) : r[l] = seqs[i][k]
    BY <1>3 DEF Holds
  <2> QED BY <2>2, <2>3
<1>6. ASSUME \A x, y \in S : \A j1 \in 1..Len(op[x]), j2 \in 1..Len(op[y]) :
                op[x][j1] = op[y][j2] => x = y /\ j1 = j2
      PROVE  Distinct(r)
  <2>1. ASSUME NEW i1 \in 1..n, NEW i2 \in 1..n, NEW j1 \in 1..Len(seqs[i1]), NEW j2 \in 1..Len(seqs[i2]),
               seqs[i1][j1] = seqs[i2][j2]
        PROVE  i1 = i2 /\ j1 = j2
    <3>1. q[i1] = q[i2] /\ j1 = j2
      BY <1>2, <1>6, <2>1
    <3> QED BY <3>1, <1>1
  <2> QED BY <2>1, <1>3 DEF NoRepeat
<1> QED BY <1>3, <1>4, <1>5, <1>6 DEF ForEachOf, r, seqs, n, q

(* The copies of one directory of a session, on devices with checkpoints:    *)
(* one for each APEX.                                                      *)
CopyOf(s, d, a) ==
  IF IsRollback[s]
    THEN [from |-> Snapshot(d, RollbackId[s], a), to |-> Data(d, a), move |-> TRUE]
    ELSE [from |-> Data(d, a), to |-> Snapshot(d, RollbackId[s], a), move |-> FALSE]

LEMMA PlacesTyped ==
  /\ \A d \in Dirs, a \in Names : Data(d, a) \in Places
  /\ \A d \in Dirs, r \in Ids, a \in Names : Snapshot(d, r, a) \in Places /\ PreRestore(d, r, a) \in Places
  /\ \A s \in SessionIds : RollbackId[s] \in Ids
  /\ DeDirs \subseteq Dirs /\ CeDirs \subseteq Dirs /\ Sys \in DeDirs /\ UserDirs \subseteq DeDirs
BY SessionsAssumption DEF Places, Dirs, DeDirs, Ids, Data, Snapshot, PreRestore

LEMMA SingleCopy ==
  ASSUME NEW c \in Copies
  PROVE  <<c>> \in Seq(Copies) /\ Len(<<c>>) = 1 /\ <<c>>[1] = c
OBVIOUS

LEMMA CopiesTyped ==
  /\ \A d \in Dirs, r \in Ids, a \in Names :
       /\ SnapshotDataDirectory(d, r, a) \in Seq(Copies) /\ RestoreDataDirectory(d, r, a) \in Seq(Copies)
       /\ SnapshotBeforeRestore(d, r, a) \in Seq(Copies) /\ RestorePreRestoreSnapshot(d, r, a) \in Seq(Copies)
  /\ \A s \in SessionIds, d \in Dirs, a \in Names : CopyOf(s, d, a) \in Copies
<1>1. ASSUME NEW f \in Places, NEW t \in Places, NEW m \in BOOLEAN
      PROVE  Copy(f, t, m) \in Seq(Copies) /\ [from |-> f, to |-> t, move |-> m] \in Copies
  BY DEF Copies, Copy
<1> QED BY <1>1, PlacesTyped DEF SnapshotDataDirectory, RestoreDataDirectory, SnapshotBeforeRestore,
           RestorePreRestoreSnapshot, CopyOf

LEMMA DeIsTyped ==
  ASSUME NEW s \in SessionIds, NEW d \in Dirs
  PROVE  /\ SnapshotOrRestoreDeIfNeeded(d, s) \in Seq(Copies)
         /\ supportsFsCheckpoints =>
              LET r == SnapshotOrRestoreDeIfNeeded(d, s) IN
              /\ \A l \in 1..Len(r) : \E a \in Names : r[l] = CopyOf(s, d, a)
              /\ \A a \in Names : \E l \in 1..Len(r) : r[l] = CopyOf(s, d, a)
              /\ Distinct(r)
<1> DEFINE one(a) == IF ~IsRollback[s] THEN SnapshotDataDirectory(d, RollbackId[s], a)
                     ELSE (IF supportsFsCheckpoints THEN <<>> ELSE SnapshotBeforeRestore(d, RollbackId[s], a))
                          \o RestoreDataDirectory(d, RollbackId[s], a)
           op == [a \in Names |-> one(a)]
           r == SnapshotOrRestoreDeIfNeeded(d, s)
<1>1. ASSUME NEW a \in Names PROVE one(a) \in Seq(Copies)
  <2>1. RollbackId[s] \in Ids
    BY PlacesTyped
  <2>2. /\ SnapshotDataDirectory(d, RollbackId[s], a) \in Seq(Copies)
        /\ RestoreDataDirectory(d, RollbackId[s], a) \in Seq(Copies)
        /\ SnapshotBeforeRestore(d, RollbackId[s], a) \in Seq(Copies) /\ <<>> \in Seq(Copies)
    BY <2>1, CopiesTyped
  <2>3. \A u, v \in Seq(Copies) : u \o v \in Seq(Copies)
    OBVIOUS
  <2> QED BY <2>2, <2>3
<1>2. IsFiniteSet(Names)
  BY BoundsAssumption
<1>3. r = ForEachOf(Names, op)
  <2>1. \A i \in 1..Cardinality(Names) : SetToSeq(Names)[i] \in Names
    BY <1>2, SetToSeqFacts
  <2>2. r = FlattenSeq([i \in 1..Cardinality(Names) |-> one(SetToSeq(Names)[i])])
    BY DEF SnapshotOrRestoreDeIfNeeded, ForEach
  <2> HIDE DEF one, r
  <2>3. [i \in 1..Cardinality(Names) |-> one(SetToSeq(Names)[i])]
          = [i \in 1..Cardinality(Names) |-> op[SetToSeq(Names)[i]]]
    BY <2>1
  <2> QED BY <2>2, <2>3 DEF ForEachOf
<1>4. op \in [Names -> Seq(Copies)]
  BY <1>1
<1>5. ASSUME supportsFsCheckpoints, NEW a \in Names
      PROVE  op[a] = <<CopyOf(s, d, a)>> /\ Len(op[a]) = 1 /\ op[a][1] = CopyOf(s, d, a)
  <2>1. one(a) = <<CopyOf(s, d, a)>>
    <3>1. \A c \in Seq(Copies) : <<>> \o c = c
      OBVIOUS
    <3>2. RestoreDataDirectory(d, RollbackId[s], a) \in Seq(Copies)
      BY CopiesTyped, PlacesTyped
    <3>3. CASE IsRollback[s]
      <4>1. one(a) = RestoreDataDirectory(d, RollbackId[s], a)
        BY <1>5, <3>1, <3>2, <3>3
      <4> QED BY <4>1, <3>3 DEF RestoreDataDirectory, Copy, CopyOf
    <3>4. CASE ~IsRollback[s]
      BY <3>4 DEF SnapshotDataDirectory, Copy, CopyOf
    <3> QED BY <3>3, <3>4
  <2>2. CopyOf(s, d, a) \in Copies
    BY CopiesTyped
  <2> HIDE DEF one
  <2>3. op[a] = <<CopyOf(s, d, a)>>
    BY <2>1
  <2> QED BY <2>2, <2>3, SingleCopy
<1> HIDE DEF op, r, one
<1>6. /\ r \in Seq(Copies)
      /\ \A l \in 1..Len(r) : \E a \in Names : \E j \in 1..Len(op[a]) : r[l] = op[a][j]
      /\ \A a \in Names : \A j \in 1..Len(op[a]) : \E l \in 1..Len(r) : r[l] = op[a][j]
      /\ (\A x, y \in Names : \A j1 \in 1..Len(op[x]), j2 \in 1..Len(op[y]) :
                op[x][j1] = op[y][j2] => x = y /\ j1 = j2) => Distinct(r)
  <2> DEFINE u == ForEachOf(Names, op)
  <2>1. /\ u \in Seq(Copies)
        /\ \A l \in 1..Len(u) : \E a \in Names : \E j \in 1..Len(op[a]) : u[l] = op[a][j]
        /\ \A a \in Names : \A j \in 1..Len(op[a]) : \E l \in 1..Len(u) : u[l] = op[a][j]
        /\ (\A x, y \in Names : \A j1 \in 1..Len(op[x]), j2 \in 1..Len(op[y]) :
                op[x][j1] = op[y][j2] => x = y /\ j1 = j2) => Distinct(u)
    BY <1>2, <1>4, ForEachFacts
  <2>2. u = r
    BY <1>3
  <2> HIDE DEF u
  <2> QED BY <2>1, <2>2
<1>7. ASSUME supportsFsCheckpoints
      PROVE  /\ \A l \in 1..Len(r) : \E a \in Names : r[l] = CopyOf(s, d, a)
             /\ \A a \in Names : \E l \in 1..Len(r) : r[l] = CopyOf(s, d, a)
             /\ Distinct(r)
  <2>1. \A a \in Names : Len(op[a]) = 1 /\ op[a][1] = CopyOf(s, d, a)
    BY <1>5, <1>7
  <2>2. \A a, b \in Names : CopyOf(s, d, a) = CopyOf(s, d, b) => a = b
    BY DEF CopyOf, Data, Snapshot
  <2>3. \A x, y \in Names : \A j1 \in 1..Len(op[x]), j2 \in 1..Len(op[y]) :
           op[x][j1] = op[y][j2] => x = y /\ j1 = j2
    <3> SUFFICES ASSUME NEW x \in Names, NEW y \in Names, NEW j1 \in 1..Len(op[x]), NEW j2 \in 1..Len(op[y]),
                        op[x][j1] = op[y][j2]
                 PROVE  x = y /\ j1 = j2
      OBVIOUS
    <3>1. j1 = 1 /\ j2 = 1
      BY <2>1
    <3> QED BY <3>1, <2>1, <2>2
  <2>4. ASSUME NEW a \in Names, NEW j \in 1..Len(op[a]) PROVE j = 1
    <3>1. Len(op[a]) = 1
      BY <2>1
    <3> QED BY <3>1
  <2>5. \A a \in Names : 1 \in 1..Len(op[a])
    BY <2>1
  <2>6. \A l \in 1..Len(r) : \E a \in Names : r[l] = CopyOf(s, d, a)
    BY SMTT(40), <1>6, <2>1, <2>4
  <2>7. \A a \in Names : \E l \in 1..Len(r) : r[l] = CopyOf(s, d, a)
    BY SMTT(40), <1>6, <2>1, <2>5
  <2>8. Distinct(r)
    BY <1>6, <2>3
  <2> QED BY <2>6, <2>7, <2>8
<1> QED BY <1>6, <1>7 DEF r

(* The copies of several directories, and of one session that is activated. *)
AreCopiesOf(r, s, D) ==
  /\ \A l \in 1..Len(r) : \E d \in D, a \in Names : r[l] = CopyOf(s, d, a)
  /\ \A d \in D, a \in Names : \E l \in 1..Len(r) : r[l] = CopyOf(s, d, a)
  /\ Distinct(r)

LEMMA CopyOfIsInjective ==
  \A s \in SessionIds : \A d, e \in Dirs, a, b \in Names :
     CopyOf(s, d, a) = CopyOf(s, e, b) => d = e /\ a = b
BY DEF CopyOf, Data, Snapshot

LEMMA DirsAreTyped ==
  ASSUME NEW s \in SessionIds, NEW D \in SUBSET Dirs, IsFiniteSet(D)
  PROVE  LET r == ForEachOf(D, [d \in D |-> SnapshotOrRestoreDeIfNeeded(d, s)]) IN
         /\ r \in Seq(Copies)
         /\ supportsFsCheckpoints => AreCopiesOf(r, s, D)
<1> DEFINE op == [d \in D |-> SnapshotOrRestoreDeIfNeeded(d, s)]
           r == ForEachOf(D, op)
<1>1. op \in [D -> Seq(Copies)]
  BY DeIsTyped
<1>2. ASSUME supportsFsCheckpoints, NEW d \in D
      PROVE  /\ \A l \in 1..Len(op[d]) : \E a \in Names : op[d][l] = CopyOf(s, d, a)
             /\ \A a \in Names : \E l \in 1..Len(op[d]) : op[d][l] = CopyOf(s, d, a)
             /\ Distinct(op[d])
  <2>1. op[d] = SnapshotOrRestoreDeIfNeeded(d, s) /\ d \in Dirs
    OBVIOUS
  <2> HIDE DEF op
  <2> QED BY <1>2, <2>1, DeIsTyped
<1> HIDE DEF op
<1>3. /\ r \in Seq(Copies)
      /\ \A l \in 1..Len(r) : \E x \in D : \E j \in 1..Len(op[x]) : r[l] = op[x][j]
      /\ \A x \in D : \A j \in 1..Len(op[x]) : \E l \in 1..Len(r) : r[l] = op[x][j]
      /\ (\A x, y \in D : \A j1 \in 1..Len(op[x]), j2 \in 1..Len(op[y]) :
                op[x][j1] = op[y][j2] => x = y /\ j1 = j2) => Distinct(r)
  BY <1>1, ForEachFacts
<1> HIDE DEF r
<1>4. ASSUME supportsFsCheckpoints PROVE AreCopiesOf(r, s, D)
  <2>1. ASSUME NEW l \in 1..Len(r) PROVE \E d \in D, a \in Names : r[l] = CopyOf(s, d, a)
    <3>1. PICK x \in D : \E j \in 1..Len(op[x]) : r[l] = op[x][j]
      BY <1>3
    <3>2. PICK j \in 1..Len(op[x]) : r[l] = op[x][j]
      BY <3>1
    <3>3. PICK a \in Names : op[x][j] = CopyOf(s, x, a)
      BY <1>2, <1>4
    <3> QED BY <3>2, <3>3
  <2>2. ASSUME NEW d \in D, NEW a \in Names PROVE \E l \in 1..Len(r) : r[l] = CopyOf(s, d, a)
    <3>1. PICK j \in 1..Len(op[d]) : op[d][j] = CopyOf(s, d, a)
      BY <1>2, <1>4
    <3>2. \E l \in 1..Len(r) : r[l] = op[d][j]
      BY <1>3
    <3> QED BY <3>1, <3>2
  <2>3. ASSUME NEW x \in D, NEW y \in D, NEW j1 \in 1..Len(op[x]), NEW j2 \in 1..Len(op[y]),
               op[x][j1] = op[y][j2]
        PROVE  x = y /\ j1 = j2
    <3>1. PICK a \in Names : op[x][j1] = CopyOf(s, x, a)
      BY <1>2, <1>4
    <3>2. PICK b \in Names : op[y][j2] = CopyOf(s, y, b)
      BY <1>2, <1>4
    <3>3. x = y
      <4>1. CopyOf(s, x, a) = CopyOf(s, y, b) /\ x \in Dirs /\ y \in Dirs
        BY <2>3, <3>1, <3>2
      <4> QED BY <4>1, CopyOfIsInjective
    <3>4. Distinct(op[x])
      BY <1>2, <1>4
    <3> QED BY <2>3, <3>3, <3>4 DEF Distinct
  <2>4. Distinct(r)
    BY <1>3, <2>3
  <2> QED BY <2>1, <2>2, <2>4 DEF AreCopiesOf
<1> QED BY <1>3, <1>4 DEF r, op

(* Of several sessions, when there is at most one.                          *)
LEMMA SessionsAreTyped ==
  ASSUME NEW S \in SUBSET SessionIds, NEW D \in SUBSET Dirs, IsFiniteSet(S), NEW op \in [S -> Seq(Copies)]
  PROVE  LET r == ForEachOf(S, op) IN
         /\ r \in Seq(Copies)
         /\ (\A s, q \in S : s = q) /\ (\A s \in S : AreCopiesOf(op[s], s, D)) =>
              /\ S = {} => r = <<>>
              /\ \A s \in S : AreCopiesOf(r, s, D)
<1> DEFINE r == ForEachOf(S, op)
<1>1. /\ r \in Seq(Copies)
      /\ \A l \in 1..Len(r) : \E x \in S : \E j \in 1..Len(op[x]) : r[l] = op[x][j]
      /\ \A x \in S : \A j \in 1..Len(op[x]) : \E l \in 1..Len(r) : r[l] = op[x][j]
      /\ (\A x, y \in S : \A j1 \in 1..Len(op[x]), j2 \in 1..Len(op[y]) :
                op[x][j1] = op[y][j2] => x = y /\ j1 = j2) => Distinct(r)
  BY ForEachFacts
<1> HIDE DEF r
<1>2. ASSUME S = {} PROVE r = <<>>
  <2>1. Len(r) = 0
    <3>1. Len(r) \in Nat /\ (Len(r) # 0 => 1 \in 1..Len(r))
      BY <1>1
    <3> QED BY <3>1, <1>1, <1>2
  <2> QED BY <2>1, <1>1
<1>3. ASSUME \A s, q \in S : s = q, \A s \in S : AreCopiesOf(op[s], s, D), NEW s \in S
      PROVE  AreCopiesOf(r, s, D)
  <2>0. AreCopiesOf(op[s], s, D) /\ \A x \in S : x = s
    BY <1>3
  <2>1. \A l \in 1..Len(r) : \E j \in 1..Len(op[s]) : r[l] = op[s][j]
    BY <1>1, <2>0
  <2>2. \A j \in 1..Len(op[s]) : \E l \in 1..Len(r) : r[l] = op[s][j]
    BY <1>1
  <2>3. ASSUME NEW x \in S, NEW y \in S, NEW j1 \in 1..Len(op[x]), NEW j2 \in 1..Len(op[y]),
               op[x][j1] = op[y][j2]
        PROVE  x = y /\ j1 = j2
    <3>1. x = s /\ y = s
      BY <2>0
    <3> QED BY <3>1, <2>0, <2>3 DEF AreCopiesOf, Distinct
  <2>4. Distinct(r)
    BY <1>1, <2>3
  <2>5. ASSUME NEW l \in 1..Len(r) PROVE \E d \in D, a \in Names : r[l] = CopyOf(s, d, a)
    <3>1. PICK j \in 1..Len(op[s]) : r[l] = op[s][j]
      BY <2>1
    <3>2. PICK d \in D, a \in Names : op[s][j] = CopyOf(s, d, a)
      BY <2>0 DEF AreCopiesOf
    <3> QED BY <3>1, <3>2
  <2>6. ASSUME NEW d \in D, NEW a \in Names PROVE \E l \in 1..Len(r) : r[l] = CopyOf(s, d, a)
    <3>1. PICK j \in 1..Len(op[s]) : op[s][j] = CopyOf(s, d, a)
      BY <2>0 DEF AreCopiesOf
    <3> QED BY <3>1, <2>2
  <2> QED BY <2>4, <2>5, <2>6 DEF AreCopiesOf
<1> QED BY <1>1, <1>2, <1>3 DEF r

(* What the three processes are given to copy.                             *)
SysWork == ForEach(In({"ACTIVATED"}), LAMBDA s : SnapshotOrRestoreDeIfNeeded(Sys, s))
UserWork == ForEach(In({"ACTIVATED"}), LAMBDA s :
              ForEach(UserDirs, LAMBDA d : SnapshotOrRestoreDeIfNeeded(d, s)))
AreCopies(r, D) ==
  /\ In({"ACTIVATED"}) = {} => r = <<>>
  /\ \A s \in In({"ACTIVATED"}) : AreCopiesOf(r, s, D)

LEMMA SysWorkTyped ==
  /\ SysWork \in Seq(Copies)
  /\ supportsFsCheckpoints /\ (\A s, q \in In({"ACTIVATED"}) : s = q) => AreCopies(SysWork, {Sys})
<1> DEFINE S == In({"ACTIVATED"})
           op == [s \in S |-> SnapshotOrRestoreDeIfNeeded(Sys, s)]
<1>1. S \in SUBSET SessionIds /\ IsFiniteSet(S) /\ Sys \in Dirs /\ {Sys} \in SUBSET Dirs
  <2>1. S \in SUBSET SessionIds /\ Sys \in Dirs
    BY PlacesTyped DEF In
  <2>2. IsFiniteSet(S)
    BY <2>1, BoundsAssumption, FS_Subset
  <2> QED BY <2>1, <2>2
<1>2. SysWork = ForEachOf(S, op)
  <2>1. \A i \in 1..Cardinality(S) : SetToSeq(S)[i] \in S
    BY <1>1, SetToSeqFacts
  <2>2. SysWork = FlattenSeq([i \in 1..Cardinality(S) |-> SnapshotOrRestoreDeIfNeeded(Sys, SetToSeq(S)[i])])
    BY DEF SysWork, ForEach
  <2> HIDE DEF S
  <2>3. [i \in 1..Cardinality(S) |-> SnapshotOrRestoreDeIfNeeded(Sys, SetToSeq(S)[i])]
          = [i \in 1..Cardinality(S) |-> op[SetToSeq(S)[i]]]
    BY <2>1
  <2> QED BY <2>2, <2>3 DEF ForEachOf
<1>3. ASSUME NEW s \in S PROVE op[s] \in Seq(Copies) /\ (supportsFsCheckpoints => AreCopiesOf(op[s], s, {Sys}))
  <2>1. op[s] = SnapshotOrRestoreDeIfNeeded(Sys, s) /\ s \in SessionIds
    BY <1>1
  <2> HIDE DEF op
  <2> QED BY <1>1, <2>1, DeIsTyped DEF AreCopiesOf
<1>4. op \in [S -> Seq(Copies)]
  BY <1>3
<1> HIDE DEF S, op
<1>5. /\ SysWork \in Seq(Copies)
      /\ (\A s, q \in S : s = q) /\ (\A s \in S : AreCopiesOf(op[s], s, {Sys})) =>
              /\ S = {} => SysWork = <<>>
              /\ \A s \in S : AreCopiesOf(SysWork, s, {Sys})
  BY <1>1, <1>2, <1>4, SessionsAreTyped
<1> QED BY <1>3, <1>5 DEF AreCopies, S

LEMMA UserWorkTyped ==
  /\ UserWork \in Seq(Copies)
  /\ supportsFsCheckpoints /\ (\A s, q \in In({"ACTIVATED"}) : s = q) => AreCopies(UserWork, UserDirs)
<1> DEFINE S == In({"ACTIVATED"})
           one(s) == ForEach(UserDirs, LAMBDA d : SnapshotOrRestoreDeIfNeeded(d, s))
           op == [s \in S |-> one(s)]
<1>1. S \in SUBSET SessionIds /\ IsFiniteSet(S) /\ UserDirs \in SUBSET Dirs /\ IsFiniteSet(UserDirs)
  <2>1. S \in SUBSET SessionIds /\ UserDirs \in SUBSET Dirs
    BY PlacesTyped DEF In
  <2>2. IsFiniteSet(S)
    BY <2>1, BoundsAssumption, FS_Subset
  <2> QED BY <2>1, <2>2, BoundsAssumption
<1>2. UserWork = ForEachOf(S, op)
  <2>1. \A i \in 1..Cardinality(S) : SetToSeq(S)[i] \in S
    BY <1>1, SetToSeqFacts
  <2>2. UserWork = FlattenSeq([i \in 1..Cardinality(S) |-> one(SetToSeq(S)[i])])
    BY DEF UserWork, ForEach
  <2> HIDE DEF S, one
  <2>3. [i \in 1..Cardinality(S) |-> one(SetToSeq(S)[i])] = [i \in 1..Cardinality(S) |-> op[SetToSeq(S)[i]]]
    BY <2>1
  <2> QED BY <2>2, <2>3 DEF ForEachOf
<1>3. ASSUME NEW s \in S PROVE op[s] \in Seq(Copies) /\ (supportsFsCheckpoints => AreCopiesOf(op[s], s, UserDirs))
  <2> DEFINE f == [d \in UserDirs |-> SnapshotOrRestoreDeIfNeeded(d, s)]
  <2>1. \A i \in 1..Cardinality(UserDirs) : SetToSeq(UserDirs)[i] \in UserDirs
    BY <1>1, SetToSeqFacts
  <2>2. one(s) = FlattenSeq([i \in 1..Cardinality(UserDirs) |-> SnapshotOrRestoreDeIfNeeded(SetToSeq(UserDirs)[i], s)])
    BY DEF ForEach
  <2>3. [i \in 1..Cardinality(UserDirs) |-> SnapshotOrRestoreDeIfNeeded(SetToSeq(UserDirs)[i], s)]
          = [i \in 1..Cardinality(UserDirs) |-> f[SetToSeq(UserDirs)[i]]]
    BY <2>1
  <2>4. one(s) = ForEachOf(UserDirs, f)
    BY <2>2, <2>3 DEF ForEachOf
  <2> HIDE DEF one
  <2>5. op[s] = ForEachOf(UserDirs, f) /\ s \in SessionIds
    BY <2>4, <1>1
  <2> HIDE DEF op
  <2> QED BY <1>1, <2>5, DirsAreTyped
<1>4. op \in [S -> Seq(Copies)]
  <2> HIDE DEF one
  <2> QED BY <1>3
<1> HIDE DEF S, op, one
<1>5. /\ UserWork \in Seq(Copies)
      /\ (\A s, q \in S : s = q) /\ (\A s \in S : AreCopiesOf(op[s], s, UserDirs)) =>
              /\ S = {} => UserWork = <<>>
              /\ \A s \in S : AreCopiesOf(UserWork, s, UserDirs)
  BY <1>1, <1>2, <1>4, SessionsAreTyped
<1> QED BY <1>3, <1>5 DEF AreCopies, S

LEMMA PreRestoreTyped ==
  ASSUME NEW S \in SUBSET SessionIds
  PROVE  RestoreDePreRestoreSnapshotsIfPresent(S) \in Seq(Copies)
<1> DEFINE inner(s, d) == ForEach(Names, LAMBDA a : RestorePreRestoreSnapshot(d, RollbackId[s], a))
           outer(s) == ForEach(DeDirs, LAMBDA d : inner(s, d))
<1>1. IsFiniteSet(Names) /\ IsFiniteSet(S) /\ IsFiniteSet(DeDirs)
  <2>1. IsFiniteSet({Sys})
    BY FS_Singleton
  <2> QED BY <2>1, BoundsAssumption, FS_Subset, FS_Union DEF DeDirs
<1>2. ASSUME NEW s \in S, NEW d \in DeDirs PROVE inner(s, d) \in Seq(Copies)
  <2> DEFINE f == [a \in Names |-> RestorePreRestoreSnapshot(d, RollbackId[s], a)]
  <2>1. \A i \in 1..Cardinality(Names) : SetToSeq(Names)[i] \in Names
    BY <1>1, SetToSeqFacts
  <2>2. [i \in 1..Cardinality(Names) |-> RestorePreRestoreSnapshot(d, RollbackId[s], SetToSeq(Names)[i])]
          = [i \in 1..Cardinality(Names) |-> f[SetToSeq(Names)[i]]]
    BY <2>1
  <2>3. inner(s, d) = ForEachOf(Names, f)
    BY <2>2 DEF ForEach, ForEachOf
  <2>4. f \in [Names -> Seq(Copies)]
    BY CopiesTyped, PlacesTyped
  <2> HIDE DEF f, inner
  <2> QED BY <1>1, <2>3, <2>4, ForEachFacts
<1>3. ASSUME NEW s \in S PROVE outer(s) \in Seq(Copies)
  <2> DEFINE f == [d \in DeDirs |-> inner(s, d)]
  <2>1. \A i \in 1..Cardinality(DeDirs) : SetToSeq(DeDirs)[i] \in DeDirs
    BY <1>1, SetToSeqFacts
  <2>2. outer(s) = FlattenSeq([i \in 1..Cardinality(DeDirs) |-> inner(s, SetToSeq(DeDirs)[i])])
    BY DEF ForEach
  <2> HIDE DEF inner, outer
  <2>3. [i \in 1..Cardinality(DeDirs) |-> inner(s, SetToSeq(DeDirs)[i])]
          = [i \in 1..Cardinality(DeDirs) |-> f[SetToSeq(DeDirs)[i]]]
    BY <2>1
  <2>4. outer(s) = ForEachOf(DeDirs, f)
    BY <2>2, <2>3 DEF ForEachOf
  <2>5. f \in [DeDirs -> Seq(Copies)]
    BY <1>2
  <2> HIDE DEF f
  <2> QED BY <1>1, <2>4, <2>5, ForEachFacts
<1> DEFINE f == [s \in S |-> outer(s)]
<1>4. \A i \in 1..Cardinality(S) : SetToSeq(S)[i] \in S
  BY <1>1, SetToSeqFacts
<1>5. RestoreDePreRestoreSnapshotsIfPresent(S) = FlattenSeq([i \in 1..Cardinality(S) |-> outer(SetToSeq(S)[i])])
  BY DEF ForEach, RestoreDePreRestoreSnapshotsIfPresent
<1> HIDE DEF outer, inner
<1>6. [i \in 1..Cardinality(S) |-> outer(SetToSeq(S)[i])] = [i \in 1..Cardinality(S) |-> f[SetToSeq(S)[i]]]
  BY <1>4
<1>7. RestoreDePreRestoreSnapshotsIfPresent(S) = ForEachOf(S, f)
  BY <1>5, <1>6 DEF ForEachOf
<1>8. f \in [S -> Seq(Copies)]
  BY <1>3
<1> HIDE DEF f
<1> QED BY <1>1, <1>7, <1>8, ForEachFacts

---------------------------------------------------------------------------
(* What the copies are made of: a client's are of CE data.                  *)
WorkInv ==
  /\ work \in [Procs -> Seq(Copies)]
  /\ \A i \in DOMAIN work[Binder] : work[Binder][i].from.dir \in CeDirs /\ work[Binder][i].to.dir \in CeDirs

TypeInv == TypeOK /\ WorkInv

LEMMA ConstantFacts ==
  /\ InitVersion \in Versions /\ Versions \subseteq Nat \ {0} /\ Versions \subseteq Values
  /\ \A s \in SessionIds : VersionOf[s] \in Versions
  /\ Nothing \in Values /\ Partial \in Values /\ Nothing \notin Versions /\ Partial \notin Versions
  /\ Main \in Procs /\ SnapshotDe \in Procs /\ Binder \in Procs
  /\ Main # SnapshotDe /\ Main # Binder /\ SnapshotDe # Binder
BY SessionsAssumption DEF Versions, Values, Nothing, Partial, Procs, Main, SnapshotDe, Binder

LEMMA FirstTyped ==
  ASSUME WorkInv, NEW p \in Procs, work[p] # <<>>
  PROVE  /\ First(p) \in Copies /\ First(p).from \in Places /\ First(p).to \in Places /\ First(p).move \in BOOLEAN
         /\ First(p) = work[p][1] /\ 1 \in 1..Len(work[p])
         /\ Tail(work[p]) \in Seq(Copies) /\ Len(work[p]) \in Nat /\ Len(Tail(work[p])) = Len(work[p]) - 1
         /\ \A i \in 1..Len(Tail(work[p])) : i + 1 \in 1..Len(work[p]) /\ Tail(work[p])[i] = work[p][i + 1]
<1>1. work[p] \in Seq(Copies) /\ work[p] # <<>>
  BY DEF WorkInv
<1>2. \A u \in Seq(Copies) : u # <<>> =>
        /\ Head(u) = u[1] /\ 1 \in 1..Len(u) /\ u[1] \in Copies
        /\ Tail(u) \in Seq(Copies) /\ Len(u) \in Nat /\ Len(Tail(u)) = Len(u) - 1
        /\ \A i \in 1..Len(Tail(u)) : i + 1 \in 1..Len(u) /\ Tail(u)[i] = u[i + 1]
  OBVIOUS
<1>3. First(p) \in Copies
  BY <1>1, <1>2 DEF First
<1>4. First(p).from \in Places /\ First(p).to \in Places /\ First(p).move \in BOOLEAN
  BY <1>3 DEF Copies
<1> QED BY <1>1, <1>2, <1>3, <1>4 DEF First

(* The part of WorkInv that an action which leaves work alone keeps.         *)
LEMMA WorkTypes ==
  ASSUME WorkInv PROVE \A p \in Procs : \A i \in DOMAIN work[p] : work[p][i] \in Copies
BY DEF WorkInv

LEMMA WorkKept == ASSUME WorkInv, UNCHANGED work PROVE WorkInv'
BY DEF WorkInv

LEMMA NextCopyTyped ==
  ASSUME WorkInv, NEW p \in Procs, work[p] # <<>>, NextCopy(p)
  PROVE  WorkInv'
<1>1. work' = [work EXCEPT ![p] = Tail(work[p])]
  BY DEF NextCopy
<1>2. work' \in [Procs -> Seq(Copies)]
  BY <1>1, FirstTyped DEF WorkInv
<1>3. ASSUME NEW i \in DOMAIN work'[Binder]
      PROVE  work'[Binder][i].from.dir \in CeDirs /\ work'[Binder][i].to.dir \in CeDirs
  <2>1. CASE p = Binder
    <3>1. work'[Binder] = Tail(work[Binder])
      BY <1>1, <2>1 DEF WorkInv
    <3>2. /\ DOMAIN Tail(work[Binder]) = 1..Len(Tail(work[Binder])) /\ DOMAIN work[Binder] = 1..Len(work[Binder])
          /\ \A k \in 1..Len(Tail(work[Binder])) : k + 1 \in 1..Len(work[Binder]) /\ Tail(work[Binder])[k] = work[Binder][k + 1]
      <4>1. Tail(work[Binder]) \in Seq(Copies) /\ work[Binder] \in Seq(Copies)
        BY <2>1, FirstTyped DEF WorkInv
      <4>2. \A u \in Seq(Copies) : DOMAIN u = 1..Len(u)
        OBVIOUS
      <4> QED BY <2>1, <4>1, <4>2, FirstTyped
    <3>3. i + 1 \in DOMAIN work[Binder] /\ work'[Binder][i] = work[Binder][i + 1]
      BY <3>1, <3>2
    <3> QED BY <3>3 DEF WorkInv
  <2>2. CASE p # Binder
    BY <1>1, <2>2, ConstantFacts DEF WorkInv
  <2> QED BY <2>1, <2>2
<1> QED BY <1>2, <1>3 DEF WorkInv

LEMMA StepTyped ==
  ASSUME TypeOK, NEW p \in Procs, NextCopy(p) \/ NextStep(p, "create") \/ NextStep(p, "copy") \/ NextStep(p, "delete")
  PROVE  step' \in [Procs -> {"remove", "create", "copy", "delete"}]
BY DEF TypeOK, NextCopy, NextStep

LEMMA TypeByParts ==
  ASSUME files' \in [Places -> Values], state' \in [SessionIds -> States],
         version' \in Versions, backup' \in Versions \cup {Nothing},
         attempts' \in Nat \cup {-1}, journaling' \in BOOLEAN,
         saved' \in [files : [Places -> Values], version : Versions, spoiled : SUBSET Places],
         pc' \in [Procs -> Labels], WorkInv',
         step' \in [Procs -> {"remove", "create", "copy", "delete"}],
         resumed' \in BOOLEAN, supportsFsCheckpoints' \in BOOLEAN, again' \subseteq SessionIds,
         powerLoss' \in Nat, faults' \in Nat,
         before' \in [SessionIds -> [data : [DeDirs \X Names -> Values], version : Versions \cup {Nothing}]],
         spoiled' \subseteq Places
  PROVE  TypeInv'
<1>1. \A p \in Procs : \A i \in DOMAIN work'[p] : work'[p][i] \in Copies
  BY DEF WorkInv
<1> QED BY <1>1 DEF TypeInv, TypeOK

LEMMA CopyTyped ==
  ASSUME TypeInv, NEW p \in Procs, CopyStep(p)
  PROVE  TypeInv'
<1> USE DEF TypeInv
<1>0. /\ work[p] # <<>> => First(p).to \in Places /\ First(p).from \in Places
      /\ Nothing \in Values /\ Partial \in Values
  BY FirstTyped, ConstantFacts
<1>1. CASE RemoveTarget(p)
  <2>1. work[p] # <<>> /\ UNCHANGED work /\ NextStep(p, "create")
    BY <1>1 DEF RemoveTarget, Busy, NextStep
  <2>2. files' \in [Places -> Values]
    BY <1>0, <1>1, <2>1 DEF RemoveTarget, TypeOK
  <2>3. WorkInv' /\ step' \in [Procs -> {"remove", "create", "copy", "delete"}]
    BY <2>1, WorkKept, StepTyped
  <2> QED BY <1>1, <2>2, <2>3, TypeByParts DEF TypeOK, RemoveTarget, vold, bounds, history
<1>2. CASE CreateTarget(p)
  <2>1. work[p] # <<>> /\ UNCHANGED work /\ NextStep(p, "copy")
    BY <1>2 DEF CreateTarget, Busy, NextStep
  <2>2. files' \in [Places -> Values]
    BY <1>0, <1>2, <2>1 DEF CreateTarget, TypeOK
  <2>3. WorkInv' /\ step' \in [Procs -> {"remove", "create", "copy", "delete"}]
    BY <2>1, WorkKept, StepTyped
  <2> QED BY <1>2, <2>2, <2>3, TypeByParts DEF TypeOK, CreateTarget, vold, bounds, history
<1>3. CASE FinishCopy(p)
  <2>1. work[p] # <<>> /\ (NextStep(p, "delete") \/ NextCopy(p))
    BY <1>3 DEF FinishCopy, Busy
  <2>2. files' \in [Places -> Values] /\ spoiled' \subseteq Places
    BY <1>0, <1>3, <2>1 DEF FinishCopy, TypeOK
  <2>3. WorkInv' /\ step' \in [Procs -> {"remove", "create", "copy", "delete"}]
    BY <2>1, WorkKept, StepTyped, NextCopyTyped DEF NextStep
  <2> QED BY <1>3, <2>2, <2>3, TypeByParts DEF TypeOK, FinishCopy, vold, bounds
<1>4. CASE CopyFails(p)
  <2>1. work[p] # <<>> /\ NextCopy(p)
    BY <1>4 DEF CopyFails
  <2>2. files' \in [Places -> Values] /\ spoiled' \subseteq Places /\ faults' \in Nat
    BY <1>0, <1>4, <2>1 DEF CopyFails, TypeOK, Fault
  <2>3. WorkInv' /\ step' \in [Procs -> {"remove", "create", "copy", "delete"}]
    BY <2>1, StepTyped, NextCopyTyped
  <2> QED BY <1>4, <2>2, <2>3, TypeByParts DEF TypeOK, CopyFails, vold
<1>5. CASE DeleteSource(p)
  <2>1. work[p] # <<>> /\ NextCopy(p)
    BY <1>5 DEF DeleteSource, Busy
  <2>2. files' \in [Places -> Values] /\ faults' \in Nat
    BY <1>0, <1>5, <2>1 DEF DeleteSource, TypeOK, Fault
  <2>3. WorkInv' /\ step' \in [Procs -> {"remove", "create", "copy", "delete"}]
    BY <2>1, StepTyped, NextCopyTyped
  <2> QED BY <1>5, <2>2, <2>3, TypeByParts DEF TypeOK, DeleteSource, vold, history
<1> QED BY <1>1, <1>2, <1>3, <1>4, <1>5 DEF CopyStep

LEMMA NoWork ==
  ASSUME WorkInv, work' = [p \in Procs |-> <<>>]
  PROVE  WorkInv'
<1>1. <<>> \in Seq(Copies) /\ DOMAIN <<>> = {}
  OBVIOUS
<1> QED BY <1>1, ConstantFacts DEF WorkInv

LEMMA DeviceTyped ==
  ASSUME TypeInv,
         \/ Boot \/ PowerLoss \/ RebootToInstall \/ CommitChanges \/ Reboot
         \/ \E d \in DeDirs : \E a \in Names : Write(d, a)
  PROVE  TypeInv'
<1> USE DEF TypeInv
<1>0. Main \in Procs /\ Labels = {"off", "start", "scan", "resume", "restore", "undo", "sys", "activated",
           "reboot", "user", "ready"}
  BY ConstantFacts DEF Labels
<1>1. ASSUME PowerOff, attempts' \in Nat \cup {-1}, powerLoss' \in Nat PROVE TypeInv'
  <2>1. WorkInv' /\ step' \in [Procs -> {"remove", "create", "copy", "delete"}]
    BY <1>1, NoWork DEF PowerOff
  <2>2. pc' \in [Procs -> Labels]
    BY <1>1, <1>0 DEF PowerOff
  <2>3. files' \in [Places -> Values] /\ version' \in Versions /\ spoiled' \subseteq Places
    BY <1>1 DEF PowerOff, TypeOK
  <2> QED BY <1>1, <2>1, <2>2, <2>3, TypeByParts DEF TypeOK, PowerOff
<1>2. CASE Boot
  <2>1. saved' \in [files : [Places -> Values], version : Versions, spoiled : SUBSET Places]
    BY <1>2 DEF Boot, Image, TypeOK
  <2>2. attempts' \in Nat \cup {-1} /\ journaling' \in BOOLEAN
    BY <1>2 DEF Boot, TypeOK
  <2>3. pc' \in [Procs -> Labels] /\ WorkInv'
    BY <1>2, <1>0, WorkKept DEF Boot, Goto, TypeOK, copying
  <2> QED BY <1>2, <2>1, <2>2, <2>3, TypeByParts DEF TypeOK, Boot, storage, copying, bounds, history
<1>3. CASE PowerLoss
  <2>1. attempts' \in Nat \cup {-1} /\ powerLoss' \in Nat
    BY <1>3 DEF PowerLoss, TypeOK
  <2> QED BY <1>1, <1>3, <2>1 DEF PowerLoss
<1>4. CASE RebootToInstall
  BY <1>1, <1>4 DEF RebootToInstall, TypeOK
<1>5. CASE CommitChanges
  <2>1. WorkInv'
    BY <1>5, WorkKept DEF CommitChanges, copying
  <2> QED BY <1>5, <2>1, TypeByParts DEF TypeOK, CommitChanges, storage, copying, bounds, history
<1>6. CASE Reboot
  BY <1>1, <1>6 DEF Reboot, TypeOK
<1>7. ASSUME NEW d \in DeDirs, NEW a \in Names, Write(d, a) PROVE TypeInv'
  <2>1. files' \in [Places -> Values] /\ spoiled' \subseteq Places
    BY <1>7, ConstantFacts DEF Write, TypeOK
  <2>2. WorkInv'
    BY <1>7, WorkKept DEF Write, copying
  <2> QED BY <1>7, <2>1, <2>2, TypeByParts DEF TypeOK, Write, vold, copying, bounds
<1> QED BY <1>2, <1>3, <1>4, <1>5, <1>6, <1>7

LEMMA CommitTyped ==
  ASSUME TypeOK, NEW S, NEW st \in States, Commit(S, st)
  PROVE  state' \in [SessionIds -> States]
BY DEF TypeOK, Commit

LEMMA GotoTyped ==
  ASSUME TypeOK, NEW p \in Procs, NEW l \in Labels, Goto(p, l)
  PROVE  pc' \in [Procs -> Labels]
BY DEF TypeOK, Goto

LEMMA LabelFacts ==
  /\ {"off", "start", "scan", "resume", "restore", "undo", "sys", "activated", "reboot", "user", "ready"} = Labels
  /\ {"none", "STAGED", "ACTIVATED", "ACTIVATION_FAILED", "SUCCESS", "REVERT_IN_PROGRESS", "REVERTED",
      "REVERT_FAILED"} = States
BY DEF Labels, States

LEMMA WorkSet ==
  ASSUME WorkInv, NEW p \in {Main, SnapshotDe}, NEW r \in Seq(Copies), work' = [work EXCEPT ![p] = r]
  PROVE  WorkInv'
BY ConstantFacts DEF WorkInv

LEMMA RevertTyped ==
  ASSUME TypeOK, Revert
  PROVE  state' \in [SessionIds -> States] /\ pc' \in [Procs -> Labels]
<1>1. state' \in [SessionIds -> States]
  BY CommitTyped, LabelFacts DEF Revert
<1>2. pc' \in [Procs -> Labels]
  BY GotoTyped, LabelFacts, ConstantFacts DEF Revert
<1> QED BY <1>1, <1>2

LEMMA MainTyped ==
  ASSUME TypeInv, MainStep, ~CopyStep(Main), ~Reboot
  PROVE  TypeInv'
<1> USE DEF TypeInv
<1>0. WorkInv /\ (UNCHANGED work => WorkInv') /\ Main \in Procs /\ TypeOK
  BY WorkKept, ConstantFacts
<1>1. CASE NeedsRollback
  <2>1. state' \in [SessionIds -> States]
    BY <1>1, CommitTyped, LabelFacts DEF NeedsRollback, TypeOK
  <2>2. pc' \in [Procs -> Labels]
    BY <1>0, <1>1, GotoTyped, LabelFacts DEF NeedsRollback
  <2> QED BY <1>0, <1>1, <2>1, <2>2, TypeByParts DEF TypeOK, NeedsRollback, vold, copying, bounds, history
<1>2. CASE ScanStagedSessionsDirAndStage
  <2>1. state' \in [SessionIds -> States]
    <3>1. (IF MayInstall THEN "ACTIVATED" ELSE "ACTIVATION_FAILED") \in States
      BY LabelFacts
    <3> QED BY <1>2, <3>1, CommitTyped DEF ScanStagedSessionsDirAndStage
  <2>2. pc' \in [Procs -> Labels]
    BY <1>0, <1>2, GotoTyped, LabelFacts DEF ScanStagedSessionsDirAndStage
  <2>3. version' \in Versions
    BY <1>2, ConstantFacts DEF ScanStagedSessionsDirAndStage, ToActivate, In, TypeOK
  <2>4. before' \in [SessionIds -> [data : [DeDirs \X Names -> Values], version : Versions \cup {Nothing}]]
    <3> DEFINE now == [data |-> [x \in DeDirs \X Names |-> files[Data(x[1], x[2])]], version |-> version]
    <3>1. ASSUME NEW x \in DeDirs \X Names PROVE files[Data(x[1], x[2])] \in Values
      <4>1. x[1] \in DeDirs /\ x[2] \in Names
        OBVIOUS
      <4>2. Data(x[1], x[2]) \in Places
        BY <4>1, PlacesTyped
      <4> QED BY <4>2 DEF TypeOK
    <3>2. now \in [data : [DeDirs \X Names -> Values], version : Versions \cup {Nothing}]
      BY <3>1 DEF TypeOK
    <3>3. before' = [s \in SessionIds |-> IF s \in ToActivate THEN now ELSE before[s]] \/ before' = before
      BY <1>2 DEF ScanStagedSessionsDirAndStage
    <3> DEFINE Rec == [data : [DeDirs \X Names -> Values], version : Versions \cup {Nothing}]
    <3>4. before \in [SessionIds -> Rec] /\ now \in Rec
      BY <3>2 DEF TypeOK
    <3> HIDE DEF now, Rec
    <3>5. before' \in [SessionIds -> Rec]
      BY <3>3, <3>4
    <3> QED BY <3>5 DEF Rec
  <2>5. again' \subseteq SessionIds
    BY <1>2 DEF ScanStagedSessionsDirAndStage, In, TypeOK
  <2> QED BY <1>0, <1>2, <2>1, <2>2, <2>3, <2>4, <2>5, TypeByParts
           DEF TypeOK, ScanStagedSessionsDirAndStage, vold, copying, bounds
<1>3. CASE ResumeRevertIfNeeded
  <2>1. state' \in [SessionIds -> States] /\ pc' \in [Procs -> Labels]
    BY <1>0, <1>3, RevertTyped, GotoTyped, LabelFacts DEF ResumeRevertIfNeeded, TypeOK
  <2>2. resumed' \in BOOLEAN
    BY <1>3 DEF ResumeRevertIfNeeded
  <2> QED BY <1>0, <1>3, <2>1, <2>2, TypeByParts DEF TypeOK, ResumeRevertIfNeeded, vold, copying, bounds, history
<1>4. CASE SnapshotOrRestoreDeSysData
  <2>1. WorkInv'
    BY <1>0, <1>4, SysWorkTyped, WorkSet DEF SnapshotOrRestoreDeSysData, SysWork
  <2>2. pc' \in [Procs -> Labels]
    BY <1>4, LabelFacts DEF SnapshotOrRestoreDeSysData, TypeOK
  <2> QED BY <1>4, <2>1, <2>2, TypeByParts DEF TypeOK, SnapshotOrRestoreDeSysData, storage, vold, bounds, history
<1>5. CASE OnAllPackagesActivated
  <2>1. pc' \in [Procs -> Labels]
    BY <1>5, LabelFacts, ConstantFacts DEF OnAllPackagesActivated, TypeOK
  <2> QED BY <1>0, <1>5, <2>1, TypeByParts
          DEF TypeOK, OnAllPackagesActivated, storage, vold, copying, bounds, history
<1>6. CASE ActivationFails \/ UpdatableCrashing
  <2>1. state' \in [SessionIds -> States] /\ pc' \in [Procs -> Labels]
    BY <1>0, <1>6, RevertTyped DEF ActivationFails, UpdatableCrashing
  <2> QED BY <1>0, <1>6, <2>1, TypeByParts
          DEF TypeOK, ActivationFails, UpdatableCrashing, vold, copying, bounds, history
<1>7. CASE RestoreFails
  <2>1. state' \in [SessionIds -> States]
    BY <1>7, CommitTyped, LabelFacts DEF RestoreFails
  <2>2. pc' \in [Procs -> Labels]
    BY <1>0, <1>7, GotoTyped, LabelFacts DEF RestoreFails
  <2> QED BY <1>0, <1>7, <2>1, <2>2, TypeByParts DEF TypeOK, RestoreFails, vold, copying, bounds, history
<1>8. CASE RestoreActivePackages
  <2>1. WorkInv'
    <3> DEFINE S == {s \in In({"REVERT_IN_PROGRESS"}) : IsRollback[s]}
    <3>1. S \in SUBSET SessionIds
      BY DEF In
    <3> HIDE DEF S
    <3>2. RestoreDePreRestoreSnapshotsIfPresent(S) \in Seq(Copies)
      BY <3>1, PreRestoreTyped
    <3> QED BY <1>0, <1>8, <3>2, WorkSet DEF RestoreActivePackages, S
  <2>2. pc' \in [Procs -> Labels]
    BY <1>0, <1>8, GotoTyped, LabelFacts DEF RestoreActivePackages
  <2>3. version' \in Versions
    BY <1>8 DEF RestoreActivePackages, TypeOK
  <2> QED BY <1>8, <2>1, <2>2, <2>3, TypeByParts DEF TypeOK, RestoreActivePackages, vold, bounds, history
<1>9. CASE FinishRevert
  <2>1. state' \in [SessionIds -> States]
    BY <1>9, CommitTyped, LabelFacts DEF FinishRevert
  <2>2. pc' \in [Procs -> Labels]
    BY <1>0, <1>9, GotoTyped, LabelFacts DEF FinishRevert
  <2> QED BY <1>0, <1>9, <2>1, <2>2, TypeByParts DEF TypeOK, FinishRevert, vold, copying, bounds, history
<1> QED BY <1>1, <1>2, <1>3, <1>4, <1>5, <1>6, <1>7, <1>8, <1>9 DEF MainStep

LEMMA OthersTyped ==
  ASSUME TypeInv, SnapshotOrRestoreDeUserData \/ OnAllPackagesReady \/ Request
  PROVE  TypeInv'
<1> USE DEF TypeInv
<1>0. WorkInv /\ (UNCHANGED work => WorkInv') /\ SnapshotDe \in Procs /\ TypeOK
  BY WorkKept, ConstantFacts
<1>1. CASE SnapshotOrRestoreDeUserData
  <2>1. WorkInv'
    BY <1>0, <1>1, UserWorkTyped, WorkSet DEF SnapshotOrRestoreDeUserData, UserWork
  <2>2. pc' \in [Procs -> Labels]
    BY <1>0, <1>1, GotoTyped, LabelFacts DEF SnapshotOrRestoreDeUserData
  <2> QED BY <1>1, <2>1, <2>2, TypeByParts DEF TypeOK, SnapshotOrRestoreDeUserData, storage, vold, bounds, history
<1>2. CASE OnAllPackagesReady
  <2>1. pc' \in [Procs -> Labels]
    BY <1>0, <1>2, GotoTyped, LabelFacts DEF OnAllPackagesReady
  <2> QED BY <1>0, <1>2, <2>1, TypeByParts DEF TypeOK, OnAllPackagesReady, storage, vold, copying, bounds, history
<1>3. ASSUME NEW s \in SessionIds, Submit(s) PROVE TypeInv'
  <2>1. state' \in [SessionIds -> States] /\ backup' \in Versions \cup {Nothing} /\ attempts' \in Nat \cup {-1}
    BY <1>3, LabelFacts, BoundsAssumption DEF Submit, TypeOK
  <2> QED BY <1>0, <1>3, <2>1, TypeByParts DEF TypeOK, Submit, copying, bounds, history
<1>4. ASSUME NEW s \in SessionIds, MarkStagedSessionSuccessful(s) PROVE TypeInv'
  <2>1. state' \in [SessionIds -> States] /\ backup' \in Versions \cup {Nothing}
    BY <1>4, LabelFacts DEF MarkStagedSessionSuccessful, TypeOK
  <2>2. files' \in [Places -> Values]
    BY <1>4, ConstantFacts DEF MarkStagedSessionSuccessful, TypeOK
  <2> QED BY <1>0, <1>4, <2>1, <2>2, TypeByParts
          DEF TypeOK, MarkStagedSessionSuccessful, vold, copying, bounds, history
<1>5. \A S : Destroyed(S) \in [Places -> Values]
  BY ConstantFacts DEF Destroyed, TypeOK
<1>6. ASSUME NEW r \in Ids, DestroyDeSnapshots(r) PROVE TypeInv'
  <2>1. files' \in [Places -> Values]
    BY <1>5, <1>6 DEF DestroyDeSnapshots
  <2>2. spoiled' \subseteq Places
    BY <1>6, PlacesTyped DEF DestroyDeSnapshots, TypeOK
  <2> QED BY <1>0, <1>6, <2>1, <2>2, TypeByParts DEF TypeOK, DestroyDeSnapshots, vold, copying, bounds
<1>7. ASSUME NEW d \in CeDirs, NEW retain, DestroyCeSnapshotsNotSpecified(d, retain) PROVE TypeInv'
  <2>1. files' \in [Places -> Values]
    BY <1>5, <1>7 DEF DestroyCeSnapshotsNotSpecified
  <2> QED BY <1>0, <1>7, <2>1, TypeByParts
          DEF TypeOK, DestroyCeSnapshotsNotSpecified, vold, copying, bounds, history
<1>8. ASSUME NEW d \in CeDirs, NEW r \in Ids, NEW a \in Names, SnapshotOrRestoreCeData(d, r, a) PROVE TypeInv'
  <2>1. PICK copy \in {SnapshotDataDirectory(d, r, a), RestoreDataDirectory(d, r, a)} :
           work' = [work EXCEPT ![Binder] = copy]
    BY <1>8 DEF SnapshotOrRestoreCeData
  <2>2. copy \in Seq(Copies) /\ DOMAIN copy = {1} /\ copy[1].from.dir = d /\ copy[1].to.dir = d
    <3>1. copy \in Seq(Copies)
      BY CopiesTyped, PlacesTyped
    <3>2. \A c : DOMAIN <<c>> = {1} /\ <<c>>[1] = c
      OBVIOUS
    <3> QED BY <3>1, <3>2 DEF SnapshotDataDirectory, RestoreDataDirectory, Copy, Data, Snapshot
  <2>3. WorkInv'
    BY <2>1, <2>2, ConstantFacts DEF WorkInv
  <2> QED BY <1>8, <2>3, TypeByParts DEF TypeOK, SnapshotOrRestoreCeData, storage, vold, bounds, history
<1> QED BY <1>1, <1>2, <1>3, <1>4, <1>6, <1>7, <1>8 DEF Request, DestroyCeSnapshots

LEMMA TypeInit == Init => TypeInv
<1> SUFFICES ASSUME Init PROVE TypeInv
  OBVIOUS
<1>1. files \in [Places -> Values]
  BY ConstantFacts DEF Init
<1>2. /\ state \in [SessionIds -> States] /\ pc \in [Procs -> Labels]
      /\ step \in [Procs -> {"remove", "create", "copy", "delete"}]
  BY LabelFacts DEF Init
<1>3. WorkInv
  <2>1. <<>> \in Seq(Copies) /\ DOMAIN <<>> = {}
    OBVIOUS
  <2> QED BY <2>1, ConstantFacts DEF Init, WorkInv
<1>4. saved \in [files : [Places -> Values], version : Versions, spoiled : SUBSET Places]
  BY <1>1, ConstantFacts DEF Init, Image
<1>5. before \in [SessionIds -> [data : [DeDirs \X Names -> Values], version : Versions \cup {Nothing}]]
  BY ConstantFacts DEF Init
<1>6. supportsFsCheckpoints \in BOOLEAN
  BY BoundsAssumption DEF Init
<1>7. \A p \in Procs : \A i \in DOMAIN work[p] : work[p][i] \in Copies
  BY <1>3 DEF WorkInv
<1> QED BY <1>1, <1>2, <1>3, <1>4, <1>5, <1>6, <1>7, ConstantFacts DEF Init, TypeInv, TypeOK

LEMMA TypeKept == TypeInv /\ [Next]_vars => TypeInv'
<1> SUFFICES ASSUME TypeInv, [Next]_vars PROVE TypeInv'
  OBVIOUS
<1>1. CASE UNCHANGED vars
  <2>1. WorkInv'
    BY <1>1, WorkKept DEF TypeInv, vars, copying
  <2> QED BY <1>1, <2>1 DEF TypeInv, TypeOK, vars, storage, vold, copying, bounds, history
<1>2. CASE Boot \/ PowerLoss \/ RebootToInstall \/ CommitChanges
  BY <1>2, DeviceTyped
<1>3. CASE \E d \in DeDirs : \E a \in Names : Write(d, a)
  BY <1>3, DeviceTyped
<1>4. CASE MainStep
  BY <1>4, CopyTyped, ConstantFacts, DeviceTyped, MainTyped
<1>5. CASE SnapshotDeStep
  BY <1>5, CopyTyped, ConstantFacts, OthersTyped DEF SnapshotDeStep
<1>6. CASE CopyStep(Binder)
  BY <1>6, CopyTyped, ConstantFacts
<1>7. CASE Request
  BY <1>7, OthersTyped
<1> QED BY <1>1, <1>2, <1>3, <1>4, <1>5, <1>6, <1>7 DEF Next

(* Every variable keeps its type: in particular everything that is copied    *)
(* is one of the places of the APEXes, whichever order ForEach takes.       *)
THEOREM TypeCorrect == Spec => []TypeOK
<1>1. Spec => []TypeInv
  BY TypeInit, TypeKept, PTL DEF Spec
<1>2. TypeInv => TypeOK
  BY DEF TypeInv
<1> QED BY <1>1, <1>2, PTL

---------------------------------------------------------------------------
(* From here on, devices with checkpoints: a session is activated there only *)
(* under a checkpoint, and reverted by what vold brings back.               *)

Early == {"off", "start", "scan"}
Copiers == {Main, SnapshotDe}

(* The processes of a boot, one after the other.                            *)
PcInv ==
  /\ pc[Main] \notin {"restore", "user", "ready"}
  /\ pc[Binder] \in {"off", "start", "ready"} /\ pc[SnapshotDe] \in {"off", "user", "ready"}
  /\ pc[Main] \in Early \cup {"resume"} => pc[Binder] = "off"
  /\ pc[Binder] # "ready" => pc[SnapshotDe] = "off" /\ work[Binder] = <<>>
  /\ pc[Binder] = "start" => pc[Main] = "sys"
  /\ pc[Binder] = "ready" => pc[Main] \in {"activated", "undo", "reboot"}
  /\ pc[Main] = "activated" => pc[Binder] = "ready"
  /\ resumed => pc[Main] = "undo" /\ pc[Binder] = "off"
  /\ work[Main] # <<>> => pc[Main] = "sys" /\ pc[Binder] = "start"
  /\ work[SnapshotDe] # <<>> => pc[SnapshotDe] = "user"
  /\ \A p \in Copiers : work[p] = <<>> => step[p] = "remove"
  /\ \A p \in Copiers : step[p] = "delete" => First(p).move

CopyMoves(p) ==
  /\ UNCHANGED <<pc, state, version, backup, vold, resumed, before, again>>
  /\ work[p] # <<>>
  /\ \A o \in Procs \ {p} : work'[o] = work[o] /\ step'[o] = step[o]
  /\ \/ work' = work /\ step'[p] \in {"create", "copy"}
     \/ work' = work /\ step'[p] = "delete" /\ First(p).move
     \/ work'[p] = Tail(work[p]) /\ step'[p] = "remove"

LEMMA CopyControl ==
  ASSUME TypeInv, NEW p \in Procs, CopyStep(p)
  PROVE  CopyMoves(p)
<1>0. step \in [Procs -> {"remove", "create", "copy", "delete"}] /\ work \in [Procs -> Seq(Copies)]
  BY DEF TypeInv, TypeOK, WorkInv
<1>1. ASSUME NextCopy(p)
      PROVE  /\ \A o \in Procs \ {p} : work'[o] = work[o] /\ step'[o] = step[o]
             /\ work'[p] = Tail(work[p]) /\ step'[p] = "remove"
  BY <1>0, <1>1 DEF NextCopy
<1>2. ASSUME NEW st, NextStep(p, st)
      PROVE  work' = work /\ step'[p] = st /\ \A o \in Procs \ {p} : step'[o] = step[o]
  BY <1>0, <1>2 DEF NextStep
<1>3. CASE RemoveTarget(p)
  BY <1>2, <1>3 DEF RemoveTarget, Busy, CopyMoves, bounds, history
<1>4. CASE CreateTarget(p)
  BY <1>2, <1>4 DEF CreateTarget, Busy, CopyMoves, bounds, history
<1>5. CASE FinishCopy(p)
  BY <1>1, <1>2, <1>5 DEF FinishCopy, Busy, CopyMoves, bounds
<1>6. CASE CopyFails(p)
  BY <1>1, <1>6 DEF CopyFails, CopyMoves
<1>7. CASE DeleteSource(p)
  BY <1>1, <1>7 DEF DeleteSource, Busy, CopyMoves, history
<1> QED BY <1>3, <1>4, <1>5, <1>6, <1>7 DEF CopyStep

LEMMA GotoFacts ==
  ASSUME TypeOK, NEW p \in Procs, NEW l, Goto(p, l)
  PROVE  pc'[p] = l /\ \A o \in Procs \ {p} : pc'[o] = pc[o]
BY DEF TypeOK, Goto

(* An action of Next that leaves the processes where they are.              *)
LEMMA PcFrame ==
  ASSUME TypeInv, PcInv, UNCHANGED <<pc, resumed, step>>,
         \A p \in Copiers : work'[p] = work[p], work'[Binder] = work[Binder] \/ pc[Binder] = "ready"
  PROVE  PcInv'
BY ConstantFacts DEF PcInv, Copiers, First

LEMMA CopyKeepsPc ==
  ASSUME TypeInv, PcInv, NEW p \in Procs, CopyStep(p)
  PROVE  PcInv'
<1>0. CopyMoves(p)
  BY CopyControl
<1>1. Procs = {Main, SnapshotDe, Binder} /\ Main # SnapshotDe /\ Main # Binder /\ SnapshotDe # Binder
  BY ConstantFacts DEF Procs
<1>2. /\ UNCHANGED <<pc, resumed>>
      /\ \A o \in Procs : work'[o] # <<>> => work[o] # <<>>
  <2>1. Tail(<<>>) = <<>>
    OBVIOUS
  <2> QED BY <1>0 DEF CopyMoves
<1>3. ASSUME NEW o \in Copiers
      PROVE  (work'[o] = <<>> => step'[o] = "remove") /\ (step'[o] = "delete" => First(o)'.move)
  <2>1. CASE o # p
    BY <1>0, <1>1, <2>1 DEF CopyMoves, PcInv, Copiers, First
  <2>2. CASE o = p
    BY <1>0, <2>2 DEF CopyMoves, First
  <2> QED BY <2>1, <2>2
<1>4. First(Main)'.move = First(Main).move' /\ First(SnapshotDe)'.move = First(SnapshotDe).move'
  OBVIOUS
<1> QED BY <1>1, <1>2, <1>3 DEF PcInv, Copiers

LEMMA PowerOffControl ==
  ASSUME PowerOff
  PROVE  /\ pc'[Main] = "off" /\ pc'[SnapshotDe] = "off" /\ pc'[Binder] = "off"
         /\ \A p \in Procs : work'[p] = <<>> /\ step'[p] = "remove"
         /\ resumed' = FALSE
BY ConstantFacts DEF PowerOff

LEMMA PowerOffPc ==
  ASSUME PowerOff PROVE PcInv'
BY PowerOffControl, ConstantFacts DEF PcInv, Copiers, Early

LEMMA RevertPc ==
  ASSUME TypeInv, supportsFsCheckpoints, Revert
  PROVE  pc'[Main] = "undo" /\ pc'[SnapshotDe] = pc[SnapshotDe] /\ pc'[Binder] = pc[Binder]
BY GotoFacts, ConstantFacts DEF Revert, TypeInv

LEMMA PcKept ==
  ASSUME TypeInv, supportsFsCheckpoints, PcInv, [Next]_vars
  PROVE  PcInv'
<1>0. TypeOK /\ Main \in Procs /\ SnapshotDe \in Procs /\ Binder \in Procs
      /\ Main # SnapshotDe /\ Main # Binder /\ SnapshotDe # Binder
  BY ConstantFacts DEF TypeInv
<1>1. CASE UNCHANGED vars
  BY <1>1, PcFrame DEF vars, copying
<1>2. CASE PowerLoss \/ RebootToInstall \/ Reboot
  BY <1>2, PowerOffPc DEF PowerLoss, RebootToInstall, Reboot
<1>3. CASE Boot
  <2>1. pc'[Main] = "start" /\ pc'[Binder] = pc[Binder] /\ pc'[SnapshotDe] = pc[SnapshotDe]
    BY <1>0, <1>3, GotoFacts DEF Boot
  <2>2. pc[Main] = "off" /\ UNCHANGED <<work, step, resumed>>
    BY <1>3 DEF Boot, copying
  <2> QED BY <2>1, <2>2, <1>0 DEF PcInv, Early, Copiers, First
<1>4. CASE CommitChanges \/ \E d \in DeDirs : \E a \in Names : Write(d, a)
  BY <1>4, PcFrame DEF CommitChanges, Write, copying
<1>5. CASE NeedsRollback
  <2>1. pc'[Main] = "scan" /\ pc'[Binder] = pc[Binder] /\ pc'[SnapshotDe] = pc[SnapshotDe]
    BY <1>0, <1>5, GotoFacts DEF NeedsRollback
  <2>2. pc[Main] = "start" /\ UNCHANGED <<work, step, resumed>>
    BY <1>5 DEF NeedsRollback, copying
  <2> QED BY <2>1, <2>2, <1>0 DEF PcInv, Early, Copiers, First
<1>6. CASE ScanStagedSessionsDirAndStage
  <2>1. pc'[Main] = "resume" /\ pc'[Binder] = pc[Binder] /\ pc'[SnapshotDe] = pc[SnapshotDe]
    BY <1>0, <1>6, GotoFacts DEF ScanStagedSessionsDirAndStage
  <2>2. pc[Main] = "scan" /\ UNCHANGED <<work, step, resumed>>
    BY <1>6 DEF ScanStagedSessionsDirAndStage, copying
  <2> QED BY <2>1, <2>2, <1>0 DEF PcInv, Early, Copiers, First
<1>7. CASE ResumeRevertIfNeeded
  <2>1. pc[Main] = "resume" /\ UNCHANGED <<work, step, supportsFsCheckpoints>> /\ pc[Binder] = "off" /\ work[Main] = <<>>
    BY <1>7 DEF ResumeRevertIfNeeded, copying, vold, PcInv
  <2>2. CASE resumed'
    <3>1. pc'[Main] = "undo" /\ pc'[Binder] = pc[Binder] /\ pc'[SnapshotDe] = pc[SnapshotDe]
      BY <1>7, <2>2, RevertPc DEF ResumeRevertIfNeeded
    <3> QED BY <2>1, <2>2, <3>1, <1>0 DEF PcInv, Early, Copiers, First
  <2>3. CASE ~resumed'
    <3>1. Goto(Main, "sys")
      BY <1>7, <2>3 DEF ResumeRevertIfNeeded
    <3>2. pc'[Main] = "sys" /\ pc'[Binder] = pc[Binder] /\ pc'[SnapshotDe] = pc[SnapshotDe]
      BY <1>0, <3>1, GotoFacts
    <3> QED BY <2>1, <2>3, <3>2, <1>0 DEF PcInv, Early, Copiers, First
  <2> QED BY <2>2, <2>3
<1>8. CASE SnapshotOrRestoreDeSysData
  <2>1. pc'[Main] = "sys" /\ pc'[Binder] = "start" /\ pc'[SnapshotDe] = pc[SnapshotDe]
    BY <1>0, <1>8 DEF SnapshotOrRestoreDeSysData, TypeOK
  <2>2. pc[Main] = "sys" /\ pc[Binder] = "off" /\ UNCHANGED <<step, resumed>>
    BY <1>8 DEF SnapshotOrRestoreDeSysData
  <2>3. work'[SnapshotDe] = work[SnapshotDe] /\ work'[Binder] = work[Binder]
    BY <1>0, <1>8 DEF SnapshotOrRestoreDeSysData, TypeInv, WorkInv
  <2>4. work[Main] = <<>> /\ step[Main] = "remove"
    BY <2>2, <1>0 DEF PcInv, Copiers
  <2> QED BY <2>1, <2>2, <2>3, <2>4, <1>0 DEF PcInv, Early, Copiers, First
<1>9. CASE OnAllPackagesActivated
  <2>1. pc'[Main] = "activated" /\ pc'[Binder] = "ready" /\ pc'[SnapshotDe] = pc[SnapshotDe]
    BY <1>0, <1>9 DEF OnAllPackagesActivated, TypeOK
  <2>2. pc[Main] = "sys" /\ pc[Binder] = "start" /\ work[Main] = <<>> /\ UNCHANGED <<work, step, resumed>>
    BY <1>9 DEF OnAllPackagesActivated, copying
  <2> QED BY <2>1, <2>2, <1>0 DEF PcInv, Early, Copiers, First
<1>10. CASE ActivationFails \/ UpdatableCrashing
  <2>1. pc'[Main] = "undo" /\ pc'[Binder] = pc[Binder] /\ pc'[SnapshotDe] = pc[SnapshotDe]
    BY <1>10, RevertPc DEF ActivationFails, UpdatableCrashing
  <2>2. /\ pc[Main] = "activated" \/ (pc[Main] = "sys" /\ pc[Binder] = "off")
        /\ UNCHANGED <<work, step, resumed>>
    BY <1>10 DEF ActivationFails, UpdatableCrashing, copying
  <2> QED BY <2>1, <2>2, <1>0 DEF PcInv, Early, Copiers, First
<1>11. CASE RestoreFails \/ RestoreActivePackages
  BY <1>11 DEF RestoreFails, RestoreActivePackages, PcInv
<1>12. CASE FinishRevert
  <2>1. pc'[Main] = (IF resumed THEN "sys" ELSE "reboot") /\ pc'[Binder] = pc[Binder] /\ pc'[SnapshotDe] = pc[SnapshotDe]
    BY <1>0, <1>12, GotoFacts DEF FinishRevert
  <2>2. pc[Main] = "undo" /\ UNCHANGED <<work, step>> /\ resumed' = FALSE
    BY <1>12 DEF FinishRevert, copying
  <2> QED BY <2>1, <2>2, <1>0 DEF PcInv, Early, Copiers, First
<1>13. CASE SnapshotOrRestoreDeUserData
  <2>1. pc'[Main] = pc[Main] /\ pc'[Binder] = pc[Binder] /\ pc'[SnapshotDe] = "user"
    BY <1>0, <1>13, GotoFacts DEF SnapshotOrRestoreDeUserData
  <2>2. pc[SnapshotDe] = "off" /\ pc[Binder] = "ready" /\ UNCHANGED <<step, resumed>>
    BY <1>13 DEF SnapshotOrRestoreDeUserData
  <2>3. work'[Main] = work[Main] /\ work'[Binder] = work[Binder]
    BY <1>0, <1>13 DEF SnapshotOrRestoreDeUserData, TypeInv, WorkInv
  <2>4. work[SnapshotDe] = <<>> /\ step[SnapshotDe] = "remove"
    BY <2>2, <1>0 DEF PcInv, Copiers
  <2> QED BY <2>1, <2>2, <2>3, <2>4, <1>0 DEF PcInv, Early, Copiers, First
<1>14. CASE OnAllPackagesReady
  <2>1. pc'[Main] = pc[Main] /\ pc'[Binder] = pc[Binder] /\ pc'[SnapshotDe] = "ready"
    BY <1>0, <1>14, GotoFacts DEF OnAllPackagesReady
  <2>2. pc[SnapshotDe] = "user" /\ work[SnapshotDe] = <<>> /\ UNCHANGED <<work, step, resumed>>
    BY <1>14 DEF OnAllPackagesReady, copying
  <2> QED BY <2>1, <2>2, <1>0 DEF PcInv, Early, Copiers, First
<1>15. CASE Request
  <2>1. ASSUME NEW s \in SessionIds, Submit(s) \/ MarkStagedSessionSuccessful(s) PROVE PcInv'
    BY <2>1, PcFrame DEF Submit, MarkStagedSessionSuccessful, copying
  <2>2. ASSUME NEW r \in Ids, DestroyDeSnapshots(r) PROVE PcInv'
    BY <2>2, PcFrame DEF DestroyDeSnapshots, copying
  <2>3. ASSUME NEW d \in CeDirs, NEW retain, DestroyCeSnapshotsNotSpecified(d, retain) PROVE PcInv'
    BY <2>3, PcFrame DEF DestroyCeSnapshotsNotSpecified, copying
  <2>4. ASSUME NEW d \in CeDirs, NEW r \in Ids, NEW a \in Names, SnapshotOrRestoreCeData(d, r, a) PROVE PcInv'
    <3>1. \A p \in Copiers : work'[p] = work[p]
      BY <1>0, <2>4 DEF SnapshotOrRestoreCeData, TypeInv, WorkInv, Copiers
    <3>2. pc[Binder] = "ready"
      BY <2>4 DEF SnapshotOrRestoreCeData, Idle, PcInv
    <3> QED BY <2>4, <3>1, <3>2, PcFrame DEF SnapshotOrRestoreCeData
  <2> QED BY <1>15, <2>1, <2>2, <2>3, <2>4 DEF Request, DestroyCeSnapshots
<1>16. CASE \E p \in Procs : CopyStep(p)
  BY <1>16, CopyKeepsPc
<1> QED BY <1>0, <1>1, <1>2, <1>3, <1>4, <1>5, <1>6, <1>7, <1>8, <1>9, <1>10, <1>11, <1>12, <1>13, <1>14,
           <1>15, <1>16 DEF Next, MainStep, SnapshotDeStep

(* A rollback ID is given to one update and taken by one rollback of it: the *)
(* package manager chooses a new one for each update with rollback enabled,  *)
(* and does not roll back twice.                                           *)
IdsUsedOnce ==
  \A s, q \in SessionIds : RollbackId[s] = RollbackId[q] => s = q \/ IsRollback[s] # IsRollback[q]

Updates == {s \in SessionIds : ~IsRollback[s]}
Rollbacks == {s \in SessionIds : IsRollback[s]}
Undoes(s, q) == s \in Rollbacks /\ q \in Updates /\ RollbackId[s] = RollbackId[q]

(* vold's checkpoint: the attempts count down to it, and it is what there    *)
(* was before the boot touched anything.                                   *)
CheckpointInv ==
  /\ journaling => attempts > 0 /\ pc[Main] # "off"
  /\ pc[Main] \in {"start", "scan"} => (attempts > 0 <=> journaling)
  /\ pc[Main] \in {"start", "scan"} /\ journaling => saved = Image

(* What is on disk, or comes back when the boot fails.                      *)
Persistent == IF journaling THEN saved ELSE Image
Uncommitted == journaling \/ attempts > 0

(* One session is under way, and is activated only under a checkpoint, which *)
(* is committed only once its data is ready.                                *)
OneUnderWay == \A s, q \in In(Unfinished) : s = q
Protected ==
  /\ journaling /\ pc[Main] \notin Early => In({"STAGED"}) = {}
  /\ pc[Main] # "off" /\ ~journaling /\ attempts > 0 => In({"ACTIVATED"}) = {}
  /\ pc[Main] \in {"resume", "sys"} /\ In({"ACTIVATED"}) # {} => journaling
  /\ pc[Main] = "activated" /\ In({"ACTIVATED"}) # {} => journaling \/ pc[SnapshotDe] = "ready"
  /\ pc[Main] \in {"undo", "reboot"} => In({"ACTIVATED"}) = {}

(* A rollback goes back to the version that its update replaced; an update   *)
(* is no downgrade of what is there before it is activated.                 *)
RollsBack == \A s \in Rollbacks : state[s] # "none" =>
  \E q \in Updates : Undoes(s, q) /\ state[q] = "SUCCESS" /\ VersionOf[s] = before[q].version
NoDowngrade == \A s \in Updates :
  state[s] = "STAGED" \/ (state[s] = "ACTIVATED" /\ Uncommitted) => VersionOf[s] >= Persistent.version

SessionInv == CheckpointInv /\ OneUnderWay /\ Protected /\ RollsBack /\ NoDowngrade

LEMMA StateNames ==
  /\ Unfinished = {"STAGED", "ACTIVATED", "REVERT_IN_PROGRESS"}
  /\ In(Unfinished) = In({"STAGED"}) \cup In({"ACTIVATED"}) \cup In({"REVERT_IN_PROGRESS"})
  /\ \A st : In({st}) = {s \in SessionIds : state[s] = st}
BY DEF Unfinished, In

LEMMA CommitFacts ==
  ASSUME NEW S, NEW st, Commit(S, st)
  PROVE  \A s \in SessionIds : state'[s] = IF s \in S THEN st ELSE state[s]
BY DEF Commit

(* Steps that move no session, and no version.                              *)
LEMMA SessionFrame ==
  ASSUME TypeInv, PcInv, supportsFsCheckpoints, SessionInv,
         UNCHANGED <<state, version, vold, before>>,
         pc'[Main] = pc[Main] \/ (pc[Main] = "sys" /\ pc'[Main] = "activated"),
         pc[SnapshotDe] = "ready" => pc'[SnapshotDe] = "ready",
         pc[Main] \in {"start", "scan"} => UNCHANGED <<files, spoiled>>
  PROVE  SessionInv'
<1> USE DEF vold
<1>1. CheckpointInv'
  BY DEF SessionInv, CheckpointInv, Image
<1>2. OneUnderWay' /\ RollsBack'
  BY DEF SessionInv, OneUnderWay, RollsBack, In, Undoes
<1>3. Protected'
  BY DEF SessionInv, Protected, In, Early
<1>4. NoDowngrade'
  BY DEF SessionInv, NoDowngrade, Uncommitted, Persistent, Image
<1> QED BY <1>1, <1>2, <1>3, <1>4 DEF SessionInv

LEMMA PowerOffSessions ==
  ASSUME TypeInv, PcInv, supportsFsCheckpoints, SessionInv, PowerOff,
         attempts' = attempts \/ attempts' = 0
  PROVE  SessionInv'
<1>0. pc'[Main] = "off" /\ ~journaling' /\ UNCHANGED <<state, before>>
  BY PowerOffControl DEF PowerOff
<1>1. CheckpointInv'
  BY <1>0 DEF CheckpointInv
<1>2. OneUnderWay' /\ RollsBack'
  BY <1>0 DEF SessionInv, OneUnderWay, RollsBack, In, Undoes
<1>3. Protected'
  BY <1>0 DEF Protected, Early
<1>4. NoDowngrade'
  <2>1. Persistent'.version = Persistent.version
    BY DEF PowerOff, Persistent, Image
  <2>2. Uncommitted' => Uncommitted
    BY <1>0 DEF Uncommitted
  <2> QED BY <1>0, <2>1, <2>2 DEF SessionInv, NoDowngrade
<1> QED BY <1>1, <1>2, <1>3, <1>4 DEF SessionInv

(* A session that is under way ends, or is reverted.                        *)
LEMMA EndSessions ==
  ASSUME TypeInv, PcInv, supportsFsCheckpoints, SessionInv,
         NEW S \in SUBSET In(Unfinished), NEW st \in {"REVERTED", "REVERT_IN_PROGRESS", "ACTIVATION_FAILED"},
         Commit(S, st), UNCHANGED <<version, vold, before>>
  PROVE  OneUnderWay' /\ RollsBack' /\ NoDowngrade'
         /\ In({"ACTIVATED"})' \subseteq In({"ACTIVATED"}) /\ In({"STAGED"})' \subseteq In({"STAGED"})
<1>0. \A s \in SessionIds : state'[s] = IF s \in S THEN st ELSE state[s]
  BY CommitFacts
<1>1. /\ \A s \in SessionIds : state'[s] \in {"STAGED", "ACTIVATED"} => state'[s] = state[s]
      /\ \A s \in SessionIds : state[s] = "SUCCESS" => state'[s] = "SUCCESS"
      /\ \A s \in SessionIds : state[s] = "none" <=> state'[s] = "none"
      /\ \A s \in SessionIds : state'[s] \in Unfinished => state[s] \in Unfinished
  BY <1>0 DEF In, Unfinished
<1>2. OneUnderWay'
  BY <1>1 DEF SessionInv, OneUnderWay, In
<1>3. RollsBack'
  BY <1>1 DEF SessionInv, RollsBack, Undoes, Rollbacks, Updates
<1>4. NoDowngrade'
  BY <1>1 DEF SessionInv, NoDowngrade, Updates, Uncommitted, Persistent, Image, vold
<1> QED BY <1>1, <1>2, <1>3, <1>4 DEF In

LEMMA RevertSessions ==
  ASSUME TypeInv, PcInv, supportsFsCheckpoints, SessionInv, Revert,
         pc[Main] \in {"resume", "sys", "activated"}, UNCHANGED <<files, version, vold, before, spoiled>>
  PROVE  SessionInv' /\ In({"ACTIVATED"})' = {}
<1>0. pc'[Main] = "undo"
  BY RevertPc
<1>1. Commit(In(Unfinished), "REVERT_IN_PROGRESS")
  BY DEF Revert
<1>2. OneUnderWay' /\ RollsBack' /\ NoDowngrade'
  BY <1>1, EndSessions
<1>3. In({"ACTIVATED"})' = {} /\ In({"STAGED"})' = {}
  BY <1>1, CommitFacts DEF In, Unfinished
<1>4. CheckpointInv' /\ Protected'
  BY <1>0, <1>3 DEF CheckpointInv, Protected, SessionInv, Early, vold
<1> QED BY <1>2, <1>3, <1>4 DEF SessionInv

LEMMA ScanSessions ==
  ASSUME TypeInv, PcInv, supportsFsCheckpoints, SessionInv, ScanStagedSessionsDirAndStage
  PROVE  SessionInv'
<1>0. /\ pc[Main] = "scan" /\ pc'[Main] = "resume" /\ UNCHANGED <<files, spoiled, vold>>
      /\ pc'[SnapshotDe] = pc[SnapshotDe]
  BY GotoFacts, ConstantFacts DEF ScanStagedSessionsDirAndStage, TypeInv
<1>1. CheckpointInv'
  BY <1>0 DEF SessionInv, CheckpointInv, vold
<1>2. ToActivate = {s \in SessionIds : state[s] \in {"STAGED", "ACTIVATED"}}
  BY DEF ToActivate, In
<1>3. CASE ~journaling
  <2>1. Commit(ToActivate, "ACTIVATION_FAILED") /\ UNCHANGED <<version, before>>
    BY <1>3 DEF ScanStagedSessionsDirAndStage, MayInstall
  <2>2. ToActivate \in SUBSET In(Unfinished)
    BY <1>2 DEF In, Unfinished
  <2>3. OneUnderWay' /\ RollsBack' /\ NoDowngrade'
    BY <1>0, <2>1, <2>2, EndSessions
  <2>4. In({"ACTIVATED"})' = {}
    BY <1>2, <2>1, CommitFacts DEF In
  <2>5. Protected'
    BY <1>0, <1>3, <2>4 DEF Protected, Early, vold
  <2> QED BY <1>1, <2>3, <2>5 DEF SessionInv
<1>4. CASE journaling
  <2>1. /\ Commit(ToActivate, "ACTIVATED")
        /\ \A q \in SessionIds \ ToActivate : before'[q] = before[q]
    BY <1>4 DEF ScanStagedSessionsDirAndStage, MayInstall, TypeInv, TypeOK
  <2>2. \A s \in SessionIds : state'[s] = IF s \in ToActivate THEN "ACTIVATED" ELSE state[s]
    BY <2>1, CommitFacts
  <2>3. /\ \A s \in SessionIds : state'[s] \in Unfinished => state[s] \in Unfinished
        /\ \A s \in SessionIds : state'[s] # "STAGED"
        /\ \A s \in SessionIds : state'[s] # "none" <=> state[s] # "none"
        /\ \A s \in SessionIds : state[s] = "SUCCESS" => state'[s] = "SUCCESS" /\ s \notin ToActivate
    BY <1>2, <2>2 DEF Unfinished
  <2>4. OneUnderWay'
    BY <2>3 DEF SessionInv, OneUnderWay, In
  <2>5. RollsBack'
    <3> SUFFICES ASSUME NEW s \in Rollbacks, state'[s] # "none"
                 PROVE  \E q \in Updates : Undoes(s, q) /\ state'[q] = "SUCCESS" /\ VersionOf[s] = before'[q].version
      BY DEF RollsBack, Undoes, Updates, Rollbacks
    <3>1. PICK q \in Updates : Undoes(s, q) /\ state[q] = "SUCCESS" /\ VersionOf[s] = before[q].version
      BY <2>3 DEF SessionInv, RollsBack, Rollbacks
    <3>2. q \in SessionIds \ ToActivate /\ state'[q] = "SUCCESS"
      BY <2>3, <3>1 DEF Updates
    <3> QED BY <2>1, <3>1, <3>2
  <2>6. Protected'
    BY <1>0, <1>4, <2>3 DEF Protected, Early, vold, In
  <2>7. NoDowngrade'
    <3> SUFFICES ASSUME NEW s \in Updates, state'[s] = "ACTIVATED"
                 PROVE  VersionOf[s] >= saved.version
      BY <1>0, <1>4, <2>3 DEF NoDowngrade, Persistent, vold, Updates
    <3>1. state[s] \in {"STAGED", "ACTIVATED"} /\ Uncommitted /\ Persistent = saved
      BY <1>2, <1>4, <2>2 DEF Uncommitted, Persistent, Updates
    <3> QED BY <3>1 DEF SessionInv, NoDowngrade
  <2> QED BY <1>1, <2>4, <2>5, <2>6, <2>7 DEF SessionInv
<1> QED BY <1>3, <1>4

LEMMA SubmitSessions ==
  ASSUME TypeInv, PcInv, supportsFsCheckpoints, SessionInv, NEW s \in SessionIds, Submit(s)
  PROVE  SessionInv'
<1>0. /\ pc[Main] = "activated" /\ UNCHANGED <<pc, journaling, version, saved, before, files, spoiled>> /\ ~journaling
      /\ state[s] = "none" /\ In(Unfinished) = {}
      /\ \A q \in SessionIds : state'[q] = IF q = s THEN "STAGED" ELSE state[q]
  BY DEF Submit, Idle, TypeInv, TypeOK, history
<1>1. CheckpointInv'
  BY <1>0 DEF CheckpointInv
<1>2. OneUnderWay'
  BY <1>0 DEF OneUnderWay, In, Unfinished
<1>3. In({"ACTIVATED"})' = {}
  BY <1>0 DEF In, Unfinished
<1>4. Protected'
  BY <1>0, <1>3 DEF Protected
<1>5. RollsBack'
  <2> SUFFICES ASSUME NEW t \in Rollbacks, state'[t] # "none"
               PROVE  \E q \in Updates : Undoes(t, q) /\ state'[q] = "SUCCESS" /\ VersionOf[t] = before'[q].version
    BY DEF RollsBack, Undoes, Updates, Rollbacks
  <2>1. CASE t = s
    <3>1. PICK q \in In({"SUCCESS"}) : ~IsRollback[q] /\ RollbackId[q] = RollbackId[s] /\ VersionOf[s] = before[q].version
      BY <2>1 DEF Submit, Rollbacks
    <3>2. q # s /\ state[q] = "SUCCESS" /\ q \in SessionIds
      BY <1>0 DEF In
    <3> QED BY <1>0, <2>1, <3>1, <3>2 DEF Undoes, Updates, Rollbacks
  <2>2. CASE t # s
    <3>1. PICK q \in Updates : Undoes(t, q) /\ state[q] = "SUCCESS" /\ VersionOf[t] = before[q].version
      BY <1>0, <2>2 DEF SessionInv, RollsBack, Rollbacks
    <3>2. state'[q] = "SUCCESS"
      BY <1>0, <3>1 DEF Updates
    <3> QED BY <1>0, <3>1, <3>2
  <2> QED BY <2>1, <2>2
<1>6. NoDowngrade'
  <2>1. \A t \in Updates : state'[t] \in {"STAGED", "ACTIVATED"} => t = s /\ VersionOf[s] >= version
    BY <1>0 DEF Submit, Updates, In, Unfinished
  <2>2. Persistent'.version = version
    BY <1>0 DEF Persistent, Image
  <2> QED BY <2>1, <2>2 DEF NoDowngrade
<1> QED BY <1>1, <1>2, <1>4, <1>5, <1>6 DEF SessionInv

LEMMA SuccessSessions ==
  ASSUME TypeInv, PcInv, supportsFsCheckpoints, SessionInv, NEW s \in SessionIds, MarkStagedSessionSuccessful(s)
  PROVE  SessionInv'
<1>0. /\ pc[Main] = "activated" /\ UNCHANGED <<pc, vold, version, before>> /\ ~journaling
      /\ state[s] = "ACTIVATED"
      /\ \A q \in SessionIds : state'[q] = IF q = s THEN "SUCCESS" ELSE state[q]
  BY DEF MarkStagedSessionSuccessful, Idle, TypeInv, TypeOK, history
<1>1. CheckpointInv'
  BY <1>0 DEF SessionInv, CheckpointInv, vold
<1>2. OneUnderWay'
  BY <1>0 DEF SessionInv, OneUnderWay, In, Unfinished
<1>3. In({"ACTIVATED"})' = {}
  <2> SUFFICES ASSUME NEW t \in SessionIds, state'[t] = "ACTIVATED" PROVE FALSE
    BY DEF In
  <2>1. t # s /\ state[t] = "ACTIVATED"
    BY <1>0
  <2> QED BY <1>0, <2>1 DEF SessionInv, OneUnderWay, In, Unfinished
<1>4. Protected'
  BY <1>0, <1>3 DEF Protected, vold
<1>5. RollsBack'
  <2> SUFFICES ASSUME NEW t \in Rollbacks, state'[t] # "none"
               PROVE  \E q \in Updates : Undoes(t, q) /\ state'[q] = "SUCCESS" /\ VersionOf[t] = before'[q].version
    BY DEF RollsBack, Undoes, Updates, Rollbacks
  <2>1. state[t] # "none"
    BY <1>0 DEF Rollbacks
  <2>2. PICK q \in Updates : Undoes(t, q) /\ state[q] = "SUCCESS" /\ VersionOf[t] = before[q].version
    BY <2>1 DEF SessionInv, RollsBack
  <2>3. state'[q] = "SUCCESS"
    BY <1>0, <2>2 DEF Updates
  <2> QED BY <1>0, <2>2, <2>3
<1>6. NoDowngrade'
  <2>1. \A t \in Updates : state'[t] # "ACTIVATED" /\ (state'[t] = "STAGED" => state[t] = "STAGED")
    BY <1>0, <1>3 DEF Updates, In
  <2>2. Persistent'.version = Persistent.version
    BY <1>0 DEF Persistent, Image, vold
  <2> QED BY <2>1, <2>2 DEF SessionInv, NoDowngrade
<1> QED BY <1>1, <1>2, <1>4, <1>5, <1>6 DEF SessionInv

LEMMA BootSessions ==
  ASSUME TypeInv, PcInv, supportsFsCheckpoints, SessionInv, Boot
  PROVE  SessionInv'
<1>0. /\ pc[Main] = "off" /\ pc'[Main] = "start" /\ UNCHANGED <<state, version, files, spoiled, before>>
      /\ journaling' = (attempts' > 0) /\ (journaling' => saved' = Image)
      /\ (attempts' > 0 => attempts > 0) /\ ~journaling
  <2>1. pc'[Main] = "start"
    BY GotoFacts, ConstantFacts DEF Boot, TypeInv
  <2>2. attempts' > 0 => attempts > 0
    BY DEF Boot, TypeInv, TypeOK
  <2> QED BY <2>1, <2>2 DEF Boot, storage, history, SessionInv, CheckpointInv
<1>1. CheckpointInv'
  BY <1>0 DEF CheckpointInv, Image
<1>2. OneUnderWay' /\ RollsBack'
  BY <1>0 DEF SessionInv, OneUnderWay, RollsBack, In, Undoes
<1>3. Protected'
  BY <1>0 DEF Protected, Early
<1>4. NoDowngrade'
  <2>1. Persistent'.version = Persistent.version
    BY <1>0 DEF Persistent, Image
  <2>2. Uncommitted' => Uncommitted
    BY <1>0 DEF Uncommitted
  <2> QED BY <1>0, <2>1, <2>2 DEF SessionInv, NoDowngrade
<1> QED BY <1>1, <1>2, <1>3, <1>4 DEF SessionInv

LEMMA CommitSessions ==
  ASSUME TypeInv, PcInv, supportsFsCheckpoints, SessionInv, CommitChanges
  PROVE  SessionInv'
<1>0. /\ pc[Main] = "activated" /\ pc[SnapshotDe] = "ready" /\ journaling /\ ~journaling' /\ attempts' = -1
      /\ UNCHANGED <<state, version, before, pc>>
  BY DEF CommitChanges, storage, history
<1>1. CheckpointInv'
  BY <1>0 DEF CheckpointInv
<1>2. OneUnderWay' /\ RollsBack'
  BY <1>0 DEF SessionInv, OneUnderWay, RollsBack, In, Undoes
<1>3. In({"STAGED"})' = {}
  BY <1>0 DEF SessionInv, Protected, Early, In
<1>4. Protected'
  BY <1>0 DEF Protected
<1>5. NoDowngrade'
  BY <1>0, <1>3 DEF NoDowngrade, Uncommitted, In, Updates
<1> QED BY <1>1, <1>2, <1>4, <1>5 DEF SessionInv

LEMMA SessionKept ==
  ASSUME TypeInv, PcInv, supportsFsCheckpoints, SessionInv, [Next]_vars
  PROVE  SessionInv'
<1>0. TypeOK /\ Main \in Procs /\ SnapshotDe \in Procs /\ Binder \in Procs
      /\ Main # SnapshotDe /\ Main # Binder /\ SnapshotDe # Binder
  BY ConstantFacts DEF TypeInv
<1>1. CASE UNCHANGED vars
  BY <1>1, SessionFrame DEF vars, storage, history
<1>2. CASE PowerLoss \/ RebootToInstall \/ Reboot
  BY <1>2, PowerOffSessions DEF PowerLoss, RebootToInstall, Reboot
<1>3. CASE Boot
  BY <1>3, BootSessions
<1>4. CASE CommitChanges
  BY <1>4, CommitSessions
<1>5. CASE \E d \in DeDirs : \E a \in Names : Write(d, a)
  BY <1>5, SessionFrame DEF Write
<1>6. CASE NeedsRollback
  <2>0. /\ pc[Main] = "start" /\ pc'[Main] = "scan" /\ UNCHANGED <<files, version, vold, before, spoiled>>
        /\ pc'[SnapshotDe] = pc[SnapshotDe]
    BY <1>0, <1>6, GotoFacts DEF NeedsRollback, history
  <2>1. CheckpointInv'
    BY <2>0 DEF SessionInv, CheckpointInv, Image, vold
  <2>2. Protected'
    BY <2>0 DEF Protected, Early, SessionInv, CheckpointInv, vold
  <2>3. CASE attempts = 0
    <3>1. Commit(In(Unfinished), "REVERTED")
      BY <1>6, <2>3 DEF NeedsRollback
    <3>2. OneUnderWay' /\ RollsBack' /\ NoDowngrade'
      BY <2>0, <3>1, EndSessions
    <3> QED BY <2>1, <2>2, <3>2 DEF SessionInv
  <2>4. CASE attempts # 0
    <3>1. UNCHANGED state
      BY <1>6, <2>4 DEF NeedsRollback
    <3>2. OneUnderWay' /\ RollsBack'
      BY <2>0, <3>1 DEF SessionInv, OneUnderWay, RollsBack, In, Undoes
    <3>3. NoDowngrade'
      BY <2>0, <3>1 DEF SessionInv, NoDowngrade, Uncommitted, Persistent, Image, vold
    <3> QED BY <2>1, <2>2, <3>2, <3>3 DEF SessionInv
  <2> QED BY <2>3, <2>4
<1>7. CASE ScanStagedSessionsDirAndStage
  BY <1>7, ScanSessions
<1>8. CASE ResumeRevertIfNeeded
  <2>1. CASE resumed'
    BY <1>8, <2>1, RevertSessions DEF ResumeRevertIfNeeded, history
  <2>2. CASE ~resumed'
    <3>0. /\ pc[Main] = "resume" /\ pc'[Main] = "sys" /\ UNCHANGED <<state, files, version, vold, before, spoiled>>
      BY <1>0, <1>8, <2>2, GotoFacts DEF ResumeRevertIfNeeded, history
    <3>1. CheckpointInv'
      BY <3>0 DEF SessionInv, CheckpointInv, vold
    <3>2. OneUnderWay' /\ RollsBack'
      BY <3>0 DEF SessionInv, OneUnderWay, RollsBack, In, Undoes
    <3>3. NoDowngrade'
      BY <3>0 DEF SessionInv, NoDowngrade, Uncommitted, Persistent, Image, vold
    <3>4. Protected'
      BY <3>0 DEF SessionInv, Protected, Early, vold, In
    <3> QED BY <3>1, <3>2, <3>3, <3>4 DEF SessionInv
  <2> QED BY <2>1, <2>2
<1>9. CASE SnapshotOrRestoreDeSysData
  <2>1. pc'[Main] = pc[Main] /\ pc'[SnapshotDe] = pc[SnapshotDe] /\ pc[Main] = "sys"
    BY <1>0, <1>9 DEF SnapshotOrRestoreDeSysData, TypeOK
  <2> QED BY <1>9, <2>1, SessionFrame DEF SnapshotOrRestoreDeSysData, storage, history
<1>10. CASE OnAllPackagesActivated
  <2>1. pc'[Main] = "activated" /\ pc'[SnapshotDe] = pc[SnapshotDe] /\ pc[Main] = "sys"
    BY <1>0, <1>10 DEF OnAllPackagesActivated, TypeOK
  <2> QED BY <1>10, <2>1, SessionFrame DEF OnAllPackagesActivated, storage, history
<1>11. CASE ActivationFails \/ UpdatableCrashing
  BY <1>11, RevertSessions DEF ActivationFails, UpdatableCrashing, history
<1>12. CASE RestoreFails \/ RestoreActivePackages
  BY <1>12 DEF RestoreFails, RestoreActivePackages, PcInv
<1>13. CASE FinishRevert
  <2>0. /\ pc[Main] = "undo" /\ pc'[Main] = (IF resumed THEN "sys" ELSE "reboot")
        /\ UNCHANGED <<files, version, vold, before, spoiled>>
    BY <1>0, <1>13, GotoFacts DEF FinishRevert, history
  <2>1. Commit(In({"REVERT_IN_PROGRESS"}), "REVERTED") /\ In({"REVERT_IN_PROGRESS"}) \in SUBSET In(Unfinished)
    BY <1>13, StateNames DEF FinishRevert
  <2>2. /\ OneUnderWay' /\ RollsBack' /\ NoDowngrade'
        /\ In({"ACTIVATED"})' \subseteq In({"ACTIVATED"}) /\ In({"STAGED"})' \subseteq In({"STAGED"})
    BY <2>0, <2>1, EndSessions
  <2>3. In({"ACTIVATED"}) = {}
    BY <2>0 DEF SessionInv, Protected
  <2>4. Protected'
    BY <2>0, <2>2, <2>3 DEF SessionInv, Protected, Early, vold
  <2>5. CheckpointInv'
    BY <2>0 DEF SessionInv, CheckpointInv, vold
  <2> QED BY <2>2, <2>4, <2>5 DEF SessionInv
<1>14. CASE SnapshotOrRestoreDeUserData
  <2>1. pc'[Main] = pc[Main] /\ pc[SnapshotDe] = "off" /\ pc[Binder] = "ready"
    BY <1>0, <1>14, GotoFacts DEF SnapshotOrRestoreDeUserData
  <2> QED BY <1>14, <2>1, SessionFrame DEF SnapshotOrRestoreDeUserData, storage, history
<1>15. CASE OnAllPackagesReady
  <2>1. pc'[Main] = pc[Main] /\ pc'[SnapshotDe] = "ready"
    BY <1>0, <1>15, GotoFacts DEF OnAllPackagesReady
  <2> QED BY <1>15, <2>1, SessionFrame DEF OnAllPackagesReady, storage, history
<1>16. CASE Request
  <2>1. ASSUME NEW s \in SessionIds, Submit(s) \/ MarkStagedSessionSuccessful(s) PROVE SessionInv'
    BY <2>1, SubmitSessions, SuccessSessions
  <2>2. ASSUME NEW r \in Ids, DestroyDeSnapshots(r) PROVE SessionInv'
    BY <2>2, SessionFrame DEF DestroyDeSnapshots, Idle
  <2>3. ASSUME NEW d \in CeDirs, NEW retain, DestroyCeSnapshotsNotSpecified(d, retain) PROVE SessionInv'
    BY <2>3, SessionFrame DEF DestroyCeSnapshotsNotSpecified, Idle, history
  <2>4. ASSUME NEW d \in CeDirs, NEW r \in Ids, NEW a \in Names, SnapshotOrRestoreCeData(d, r, a) PROVE SessionInv'
    BY <2>4, SessionFrame DEF SnapshotOrRestoreCeData, Idle, storage, history
  <2> QED BY <1>16, <2>1, <2>2, <2>3, <2>4 DEF Request, DestroyCeSnapshots
<1>17. CASE \E p \in Procs : CopyStep(p)
  <2>1. PICK p \in Procs : CopyStep(p)
    BY <1>17
  <2>2. CopyMoves(p)
    BY <2>1, CopyControl
  <2>3. pc[Main] \notin {"start", "scan"}
    <3>1. Procs = {Main, SnapshotDe, Binder}
      BY DEF Procs
    <3> QED BY <2>2, <3>1, <1>0 DEF CopyMoves, PcInv, Early
  <2> QED BY <2>2, <2>3, SessionFrame DEF CopyMoves
<1> QED BY <1>0, <1>1, <1>2, <1>3, <1>4, <1>5, <1>6, <1>7, <1>8, <1>9, <1>10, <1>11, <1>12, <1>13, <1>14,
           <1>15, <1>16, <1>17 DEF Next, MainStep, SnapshotDeStep

---------------------------------------------------------------------------
(* The data, in an image of the disk: data that fits the version that is     *)
(* active, and the snapshot that an update can be rolled back to.           *)
DataOK(image, d, a) ==
  \/ Data(d, a) \in image.spoiled
  \/ image.files[Data(d, a)] \in Versions /\ image.files[Data(d, a)] <= image.version

(* The value v is what there was when q was activated.                      *)
WasBefore(q, d, a, v) == v = before[q].data[<<d, a>>] /\ v \in Versions /\ v <= before[q].version

SnapshotOK(image, q, d, a) ==
  \/ Snapshot(d, RollbackId[q], a) \in image.spoiled
  \/ WasBefore(q, d, a, image.files[Snapshot(d, RollbackId[q], a)])

AllDataOK(image) == \A d \in DeDirs, a \in Names : DataOK(image, d, a)
AllSnapshotsOK(image, q) == \A d \in DeDirs, a \in Names : SnapshotOK(image, q, d, a)

(* No rollback of q has used its snapshots, or only in a boot that can fail.  *)
MayBeUndone(q, may) ==
  /\ q \in Updates /\ state[q] = "SUCCESS"
  /\ \A s \in Rollbacks : Undoes(s, q) =>
       state[s] \in {"none", "STAGED"} \/ (state[s] = "ACTIVATED" /\ may)

PersistentInv ==
  /\ AllDataOK(Persistent)
  /\ \A q \in Updates : MayBeUndone(q, Uncommitted) => AllSnapshotsOK(Persistent, q)

Copier(d) == IF d = Sys THEN Main ELSE SnapshotDe
Unstarted(d) == IF d = Sys THEN pc[Binder] = "off" ELSE pc[SnapshotDe] = "off"
ToCopy(d, place) == \E i \in 1..Len(work[Copier(d)]) :
  work[Copier(d)][i].to = place /\ (i = 1 => step[Copier(d)] # "delete")

(* The boot that a failure has ended will leave nothing behind.             *)
Doomed == journaling /\ ~resumed /\ pc[Main] \in {"undo", "reboot"}

Activated == In({"ACTIVATED"})

WorkIsFor ==
  \A p \in Copiers :
    /\ \A i \in 1..Len(work[p]) : \E s \in Activated, d \in DeDirs, a \in Names :
         p = Copier(d) /\ work[p][i] = CopyOf(s, d, a)
    /\ \A i, j \in 1..Len(work[p]) : work[p][i].to = work[p][j].to => i = j

(* What the session that is being activated has still to copy is where it    *)
(* was, and what it has copied is there.                                    *)
UpdateCopies(s) == \A d \in DeDirs, a \in Names :
  IF Unstarted(d) \/ ToCopy(d, Snapshot(d, RollbackId[s], a))
    THEN Data(d, a) \in spoiled \/ WasBefore(s, d, a, files[Data(d, a)])
    ELSE SnapshotOK(Image, s, d, a)
RollbackCopies(s, q) == \A d \in DeDirs, a \in Names :
  IF Unstarted(d) \/ ToCopy(d, Data(d, a)) THEN SnapshotOK(Image, q, d, a) ELSE DataOK(Image, d, a)

BootInv ==
  /\ WorkIsFor
  /\ \A s \in Activated : version = VersionOf[s]
  /\ Rollbacks \cap Activated = {} => AllDataOK(Image)
  /\ \A s \in Updates \cap Activated : UpdateCopies(s)
  /\ \A s \in Rollbacks \cap Activated, q \in Updates : Undoes(s, q) => RollbackCopies(s, q)
  /\ \A q \in Updates : MayBeUndone(q, FALSE) => AllSnapshotsOK(Image, q)

DataInv ==
  /\ journaling \/ pc[Main] \in Early => PersistentInv
  /\ pc[Main] \notin Early /\ ~Doomed => BootInv

Sound == TypeInv /\ PcInv /\ SessionInv /\ DataInv /\ supportsFsCheckpoints

(* Once both copiers are done there is nothing to copy.                     *)
LEMMA NothingToCopy ==
  ASSUME PcInv, pc[Main] = "activated", pc[SnapshotDe] = "ready"
  PROVE  \A d \in DeDirs : ~Unstarted(d) /\ \A x : ~ToCopy(d, x)
<1>1. work[Main] = <<>> /\ work[SnapshotDe] = <<>> /\ pc[Binder] = "ready"
  BY DEF PcInv
<1>2. Len(<<>>) = 0
  OBVIOUS
<1> QED BY <1>1, <1>2 DEF Unstarted, ToCopy, Copier

(* In use, all data fits and every snapshot is there.                       *)
LEMMA InUseIsSound ==
  ASSUME Sound, pc[Main] = "activated", pc[SnapshotDe] = "ready"
  PROVE  /\ AllDataOK(Image)
         /\ \A s \in Updates \cap Activated : AllSnapshotsOK(Image, s)
         /\ \A q \in Updates : MayBeUndone(q, FALSE) => AllSnapshotsOK(Image, q)
<1>1. BootInv
  BY DEF Sound, DataInv, Early, Doomed
<1>2. \A d \in DeDirs : ~Unstarted(d) /\ \A x : ~ToCopy(d, x)
  BY NothingToCopy DEF Sound
<1>3. AllDataOK(Image)
  <2>1. CASE Rollbacks \cap Activated = {}
    BY <1>1, <2>1 DEF BootInv
  <2>2. ASSUME NEW s \in Rollbacks \cap Activated PROVE AllDataOK(Image)
    <3>1. PICK q \in Updates : Undoes(s, q)
      BY <2>2 DEF Sound, SessionInv, RollsBack, Activated, In
    <3>2. RollbackCopies(s, q)
      BY <1>1, <3>1 DEF BootInv
    <3> QED BY <1>2, <3>2 DEF RollbackCopies, AllDataOK
  <2> QED BY <2>1, <2>2
<1>4. ASSUME NEW s \in Updates \cap Activated PROVE AllSnapshotsOK(Image, s)
  BY <1>1, <1>2 DEF BootInv, UpdateCopies, AllSnapshotsOK
<1> QED BY <1>1, <1>3, <1>4 DEF BootInv

(* What is on disk for good is sound in every state.                        *)
LEMMA PersistentIsSound ==
  ASSUME Sound
  PROVE  PersistentInv
<1>1. CASE journaling \/ pc[Main] \in Early
  BY <1>1 DEF Sound, DataInv
<1>2. CASE ~journaling /\ pc[Main] \notin Early
  <2>0. BootInv /\ Persistent = Image
    BY <1>2 DEF Sound, DataInv, Doomed, Persistent
  <2>1. CASE Activated = {}
    <3>1. \A q \in Updates : MayBeUndone(q, Uncommitted) => MayBeUndone(q, FALSE)
      BY <2>1 DEF MayBeUndone, Activated, In, Rollbacks
    <3> QED BY <2>0, <2>1, <3>1 DEF BootInv, PersistentInv
  <2>2. CASE Activated # {}
    <3>1. pc[Main] = "activated" /\ pc[SnapshotDe] = "ready" /\ ~(attempts > 0)
      <4>1. pc[Main] \in {"resume", "undo", "sys", "activated", "reboot"}
        BY <1>2, LabelFacts, ConstantFacts DEF Sound, PcInv, Early, TypeInv, TypeOK
      <4> QED BY <1>2, <2>2, <4>1 DEF Sound, SessionInv, Protected, Early, Activated
    <3>2. \A q \in Updates : MayBeUndone(q, Uncommitted) => MayBeUndone(q, FALSE)
      BY <1>2, <3>1 DEF MayBeUndone, Uncommitted
    <3> QED BY <2>0, <3>1, <3>2, InUseIsSound DEF PersistentInv
  <2> QED BY <2>1, <2>2
<1> QED BY <1>1, <1>2

(* What is on disk for good stays so when no rollback may be used again.     *)
LEMMA PersistentKept ==
  ASSUME PersistentInv, Persistent' = Persistent, Uncommitted' => Uncommitted,
         \A q \in Updates : state'[q] = "SUCCESS" => before'[q] = before[q] /\ state[q] = "SUCCESS",
         \A s \in Rollbacks : state'[s] \in {"none", "STAGED"} => state[s] \in {"none", "STAGED"},
         \A s \in Rollbacks : state'[s] = "ACTIVATED" => state[s] = "ACTIVATED" \/ (state[s] = "STAGED" /\ Uncommitted)
  PROVE  PersistentInv'
<1>1. AllDataOK(Persistent)'
  BY DEF PersistentInv, AllDataOK, DataOK
<1>2. ASSUME NEW q \in Updates, MayBeUndone(q, Uncommitted)'
      PROVE  AllSnapshotsOK(Persistent, q)'
  <2>1. state'[q] = "SUCCESS" /\ state[q] = "SUCCESS" /\ before'[q] = before[q]
    BY <1>2 DEF MayBeUndone
  <2>2. ASSUME NEW s \in Rollbacks, Undoes(s, q)
        PROVE  state[s] \in {"none", "STAGED"} \/ (state[s] = "ACTIVATED" /\ Uncommitted)
    BY <1>2, <2>2 DEF MayBeUndone, Undoes
  <2>3. AllSnapshotsOK(Persistent, q)
    BY <2>1, <2>2 DEF PersistentInv, MayBeUndone
  <2>4. ASSUME NEW d \in DeDirs, NEW a \in Names PROVE SnapshotOK(Persistent, q, d, a)'
    BY <2>1, <2>3 DEF AllSnapshotsOK, SnapshotOK, WasBefore
  <2> QED BY <2>4 DEF AllSnapshotsOK
<1> QED BY <1>1, <1>2 DEF PersistentInv

LEMMA UndoesIsConstant == \A s, q : Undoes(s, q)' <=> Undoes(s, q)
BY DEF Undoes, Updates, Rollbacks

(* Steps that change neither the DE data nor its snapshots.                 *)
DeSame ==
  \A f \in Places : f.dir \in DeDirs => files'[f] = files[f] /\ (f \in spoiled' <=> f \in spoiled)

LEMMA DePlaces ==
  \A d \in DeDirs, a \in Names :
    /\ Data(d, a) \in Places /\ Data(d, a).dir = d
    /\ \A q \in SessionIds : Snapshot(d, RollbackId[q], a) \in Places /\ Snapshot(d, RollbackId[q], a).dir = d
BY PlacesTyped DEF Data, Snapshot

LEMMA DataSame ==
  ASSUME DeSame, UNCHANGED <<version, before>>
  PROVE  /\ AllDataOK(Image)' <=> AllDataOK(Image)
         /\ \A d \in DeDirs, a \in Names : DataOK(Image, d, a)' <=> DataOK(Image, d, a)
         /\ \A q \in Updates, d \in DeDirs, a \in Names :
              /\ SnapshotOK(Image, q, d, a)' <=> SnapshotOK(Image, q, d, a)
              /\ Data(d, a) \in spoiled' <=> Data(d, a) \in spoiled
              /\ files'[Data(d, a)] = files[Data(d, a)]
         /\ \A q \in Updates : AllSnapshotsOK(Image, q)' <=> AllSnapshotsOK(Image, q)
<1>1. \A d \in DeDirs, a \in Names : DataOK(Image, d, a)' <=> DataOK(Image, d, a)
  BY DePlaces DEF DeSame, DataOK, Image
<1>2. ASSUME NEW q \in Updates, NEW d \in DeDirs, NEW a \in Names
      PROVE  /\ SnapshotOK(Image, q, d, a)' <=> SnapshotOK(Image, q, d, a)
             /\ Data(d, a) \in spoiled' <=> Data(d, a) \in spoiled
             /\ files'[Data(d, a)] = files[Data(d, a)]
  BY DePlaces DEF DeSame, SnapshotOK, Image, WasBefore, Updates
<1> QED BY <1>1, <1>2 DEF AllDataOK, AllSnapshotsOK

SameCopies == \A p \in Copiers : work'[p] = work[p] /\ step'[p] = step[p]
SameStarts == \A d \in DeDirs : Unstarted(d)' <=> Unstarted(d)

LEMMA SameToCopy ==
  ASSUME SameCopies
  PROVE  \A d \in DeDirs : \A x : ToCopy(d, x)' <=> ToCopy(d, x)
BY DEF SameCopies, ToCopy, Copier, Copiers

LEMMA BootFrame ==
  ASSUME BootInv, DeSame, SameCopies, SameStarts, UNCHANGED <<version, before, state>>
  PROVE  BootInv'
<1>0. Activated' = Activated /\ \A q \in Updates : MayBeUndone(q, FALSE)' <=> MayBeUndone(q, FALSE)
  BY DEF Activated, In, MayBeUndone, Undoes
<1>1. WorkIsFor'
  <2> SUFFICES ASSUME NEW p \in Copiers
               PROVE  /\ \A i \in 1..Len(work'[p]) : \E s \in Activated', d \in DeDirs, a \in Names :
                           p = Copier(d) /\ work'[p][i] = CopyOf(s, d, a)
                      /\ \A i, j \in 1..Len(work'[p]) : work'[p][i].to = work'[p][j].to => i = j
    BY DEF WorkIsFor, CopyOf
  <2>1. work'[p] = work[p]
    BY DEF SameCopies
  <2> QED BY <1>0, <2>1 DEF BootInv, WorkIsFor
<1>2. ASSUME NEW s \in Updates \cap Activated, UpdateCopies(s) PROVE UpdateCopies(s)'
  <2> SUFFICES ASSUME NEW d \in DeDirs, NEW a \in Names
               PROVE  IF Unstarted(d)' \/ ToCopy(d, Snapshot(d, RollbackId[s], a))'
                        THEN Data(d, a) \in spoiled' \/ WasBefore(s, d, a, files[Data(d, a)])'
                        ELSE SnapshotOK(Image, s, d, a)'
    BY DEF UpdateCopies
  <2>1. /\ Unstarted(d)' <=> Unstarted(d)
        /\ ToCopy(d, Snapshot(d, RollbackId[s], a))' <=> ToCopy(d, Snapshot(d, RollbackId[s], a))
        /\ SnapshotOK(Image, s, d, a)' <=> SnapshotOK(Image, s, d, a)
        /\ Data(d, a) \in spoiled' <=> Data(d, a) \in spoiled
    BY DataSame, SameToCopy DEF SameStarts
  <2>2. WasBefore(s, d, a, files[Data(d, a)])' <=> WasBefore(s, d, a, files[Data(d, a)])
    BY DataSame DEF WasBefore
  <2> QED BY <1>2, <2>1, <2>2 DEF UpdateCopies
<1>3. ASSUME NEW s \in Rollbacks \cap Activated, NEW q \in Updates, RollbackCopies(s, q) PROVE RollbackCopies(s, q)'
  <2> SUFFICES ASSUME NEW d \in DeDirs, NEW a \in Names
               PROVE  IF Unstarted(d)' \/ ToCopy(d, Data(d, a))' THEN SnapshotOK(Image, q, d, a)'
                                                                ELSE DataOK(Image, d, a)'
    BY DEF RollbackCopies
  <2>1. /\ Unstarted(d)' <=> Unstarted(d)
        /\ ToCopy(d, Data(d, a))' <=> ToCopy(d, Data(d, a))
        /\ SnapshotOK(Image, q, d, a)' <=> SnapshotOK(Image, q, d, a)
        /\ DataOK(Image, d, a)' <=> DataOK(Image, d, a)
    BY DataSame, SameToCopy DEF SameStarts
  <2> QED BY <1>3, <2>1 DEF RollbackCopies
<1>4. Rollbacks \cap Activated' = {} => AllDataOK(Image)'
  BY <1>0, DataSame DEF BootInv
<1>5. \A q \in Updates : MayBeUndone(q, FALSE)' => AllSnapshotsOK(Image, q)'
  BY <1>0, DataSame DEF BootInv
<1>6. \A s \in Activated' : version' = VersionOf[s]
  BY <1>0 DEF BootInv
<1>7. \A s \in Updates \cap Activated' : UpdateCopies(s)'
  BY <1>0, <1>2 DEF BootInv
<1>8. \A s \in Rollbacks \cap Activated', q \in Updates : Undoes(s, q)' => RollbackCopies(s, q)'
  BY <1>0, <1>3, UndoesIsConstant DEF BootInv
<1> QED BY <1>1, <1>4, <1>5, <1>6, <1>7, <1>8 DEF BootInv, Updates, Rollbacks

(* ... in a state without a session that is activated, nothing is copied.    *)
LEMMA BootIdle ==
  ASSUME AllDataOK(Image)', Activated' = {}, \A p \in Copiers : work'[p] = <<>>,
         \A q \in Updates : MayBeUndone(q, FALSE)' => AllSnapshotsOK(Image, q)'
  PROVE  BootInv'
<1>1. WorkIsFor'
  <2> SUFFICES ASSUME NEW p \in Copiers
               PROVE  /\ \A i \in 1..Len(work'[p]) : \E s \in Activated', d \in DeDirs, a \in Names :
                           p = Copier(d) /\ work'[p][i] = CopyOf(s, d, a)
                      /\ \A i, j \in 1..Len(work'[p]) : work'[p][i].to = work'[p][j].to => i = j
    BY DEF WorkIsFor, CopyOf
  <2>1. 1..Len(work'[p]) = {}
    <3>1. Len(<<>>) = 0 /\ 1..0 = {}
      OBVIOUS
    <3> QED BY <3>1
  <2> QED BY <2>1
<1> QED BY <1>1 DEF BootInv, Updates, Rollbacks

LEMMA DataFrame ==
  ASSUME Sound, DeSame, SameCopies, UNCHANGED <<pc, vold, version, before, state, resumed>>
  PROVE  DataInv'
<1> USE DEF vold
<1>1. SameStarts
  BY DEF SameStarts, Unstarted
<1>2. pc'[Main] \notin Early /\ ~Doomed' => BootInv'
  BY <1>1, BootFrame DEF Doomed, Sound, DataInv
<1>3. ASSUME journaling' \/ pc'[Main] \in Early PROVE PersistentInv'
  <2>1. CASE journaling
    <3>1. Persistent' = Persistent /\ (Uncommitted' => Uncommitted)
      BY <2>1 DEF Persistent, Uncommitted
    <3> QED BY <3>1, PersistentIsSound, PersistentKept
  <2>2. CASE ~journaling
    <3>1. Persistent = Image /\ Persistent' = Image' /\ PersistentInv
      BY <2>2, PersistentIsSound DEF Persistent
    <3>2. \A q \in Updates : MayBeUndone(q, Uncommitted)' <=> MayBeUndone(q, Uncommitted)
      BY DEF MayBeUndone, Undoes, Uncommitted
    <3>3. AllDataOK(Image)' /\ \A q \in Updates : MayBeUndone(q, Uncommitted)' => AllSnapshotsOK(Image, q)'
      BY <3>1, <3>2, DataSame DEF PersistentInv
    <3> QED BY <3>1, <3>3 DEF PersistentInv, AllDataOK, AllSnapshotsOK, DataOK, SnapshotOK, Updates
  <2> QED BY <2>1, <2>2
<1> QED BY <1>2, <1>3 DEF DataInv

LEMMA PowerOffData ==
  ASSUME Sound, PowerOff, attempts' = attempts \/ attempts' = 0
  PROVE  DataInv'
<1>1. pc'[Main] = "off" /\ ~journaling' /\ UNCHANGED <<state, before>>
  BY PowerOffControl DEF PowerOff
<1>2. Persistent' = Persistent
  <2>1. CASE journaling
    BY <2>1, <1>1 DEF PowerOff, Persistent, Image, Sound, TypeInv, TypeOK
  <2>2. CASE ~journaling
    BY <2>2, <1>1 DEF PowerOff, Persistent, Image
  <2> QED BY <2>1, <2>2
<1>3. Uncommitted' => Uncommitted
  BY <1>1 DEF Uncommitted
<1>4. PersistentInv'
  BY <1>1, <1>2, <1>3, PersistentIsSound, PersistentKept
<1> QED BY <1>1, <1>4 DEF DataInv, Early

LEMMA BootData ==
  ASSUME Sound, Boot
  PROVE  DataInv'
<1>0. /\ pc[Main] = "off" /\ pc'[Main] = "start" /\ UNCHANGED <<state, version, files, spoiled, before>>
      /\ (journaling' => saved' = Image /\ attempts' > 0)
      /\ (attempts' > 0 => attempts > 0) /\ ~journaling
  <2>1. pc'[Main] = "start"
    BY GotoFacts, ConstantFacts DEF Boot, Sound, TypeInv
  <2>2. attempts' > 0 => attempts > 0
    BY DEF Boot, Sound, TypeInv, TypeOK
  <2> QED BY <2>1, <2>2 DEF Boot, storage, history, Sound, SessionInv, CheckpointInv
<1>1. Persistent' = Persistent /\ (Uncommitted' => Uncommitted)
  BY <1>0 DEF Persistent, Image, Uncommitted
<1>2. PersistentInv'
  BY <1>0, <1>1, PersistentIsSound, PersistentKept
<1> QED BY <1>0, <1>2 DEF DataInv, Early

LEMMA NeedsRollbackData ==
  ASSUME Sound, NeedsRollback
  PROVE  DataInv'
<1>0. /\ pc[Main] = "start" /\ pc'[Main] = "scan" /\ UNCHANGED <<version, files, spoiled, before, vold>>
  BY GotoFacts, ConstantFacts DEF NeedsRollback, Sound, TypeInv, history
<1>1. Persistent' = Persistent /\ (Uncommitted' => Uncommitted)
  BY <1>0 DEF Persistent, Image, Uncommitted, vold
<1>2. \A s \in SessionIds : state'[s] = state[s] \/ (state'[s] = "REVERTED" /\ state[s] \in Unfinished)
  BY DEF NeedsRollback, Commit, In
<1>3. PersistentInv'
  BY <1>0, <1>1, <1>2, PersistentIsSound, PersistentKept DEF Updates, Rollbacks
<1> QED BY <1>0, <1>3 DEF DataInv, Early

(* Under a checkpoint nothing that a boot does is for good.                  *)
LEMMA UnderCheckpoint ==
  ASSUME Sound, journaling, UNCHANGED <<journaling, saved>>,
         \A q \in Updates : state'[q] = "SUCCESS" => before'[q] = before[q] /\ state[q] = "SUCCESS",
         \A s \in Rollbacks : state'[s] \in {"none", "STAGED"} => state[s] \in {"none", "STAGED"},
         \A s \in Rollbacks : state'[s] = "ACTIVATED" => state[s] \in {"STAGED", "ACTIVATED"}
  PROVE  PersistentInv'
<1>1. Persistent' = Persistent /\ Uncommitted
  BY DEF Persistent, Uncommitted
<1> QED BY <1>1, PersistentIsSound, PersistentKept

LEMMA NoOtherIsUnderWay ==
  ASSUME Sound, NEW s \in SessionIds, state[s] \in Unfinished, NEW q \in SessionIds, state[q] \in Unfinished
  PROVE  s = q
BY DEF Sound, SessionInv, OneUnderWay, In

LEMMA ScanData ==
  ASSUME Sound, IdsUsedOnce, ScanStagedSessionsDirAndStage
  PROVE  DataInv'
<1>0. /\ pc[Main] = "scan" /\ pc'[Main] = "resume" /\ UNCHANGED <<files, spoiled, vold, work, step>>
      /\ pc'[SnapshotDe] = pc[SnapshotDe] /\ pc'[Binder] = pc[Binder]
  BY GotoFacts, ConstantFacts DEF ScanStagedSessionsDirAndStage, Sound, TypeInv, copying
<1>1. /\ pc[Binder] = "off" /\ pc[SnapshotDe] = "off" /\ work[Main] = <<>> /\ work[SnapshotDe] = <<>>
      /\ \A d \in DeDirs : Unstarted(d)'
      /\ \A p \in Copiers : work'[p] = <<>>
  BY <1>0 DEF Sound, PcInv, Early, Unstarted, Copiers
<1>2. ToActivate = {s \in SessionIds : state[s] \in {"STAGED", "ACTIVATED"}}
  BY DEF ToActivate, In, Sound
<1>3. /\ \A s \in SessionIds : state'[s] = IF s \in ToActivate THEN (IF journaling THEN "ACTIVATED" ELSE "ACTIVATION_FAILED")
                                                             ELSE state[s]
  BY CommitFacts DEF ScanStagedSessionsDirAndStage, Sound, MayInstall
<1>4. PersistentInv
  BY PersistentIsSound
<1>5. Persistent = Image
  BY <1>0 DEF Persistent, Sound, SessionInv, CheckpointInv
<1>6. CASE ~journaling
  <2>1. UNCHANGED <<version, before>>
    BY <1>6 DEF ScanStagedSessionsDirAndStage, Sound, MayInstall
  <2>2. Activated' = {}
    BY <1>2, <1>3, <1>6 DEF Activated, In
  <2>3. DeSame
    BY <1>0 DEF DeSame
  <2>4. AllDataOK(Image)'
    BY <1>4, <1>5, <2>1, <2>3, DataSame DEF PersistentInv
  <2>5. ASSUME NEW q \in Updates, MayBeUndone(q, FALSE)' PROVE AllSnapshotsOK(Image, q)'
    <3>1. state[q] = "SUCCESS"
      BY <1>2, <1>3, <1>6, <2>5 DEF MayBeUndone, Updates
    <3>2. ASSUME NEW s \in Rollbacks, Undoes(s, q) PROVE state[s] \in {"none", "STAGED"}
      BY <1>3, <1>6, <2>5, <3>2 DEF MayBeUndone, Undoes, Rollbacks
    <3>3. MayBeUndone(q, Uncommitted)
      BY <3>1, <3>2 DEF MayBeUndone
    <3> QED BY <1>4, <1>5, <2>1, <2>3, <3>3, DataSame DEF PersistentInv
  <2>6. BootInv'
    BY <1>1, <2>2, <2>4, <2>5, BootIdle
  <2> QED BY <1>0, <1>6, <2>6 DEF DataInv, Early, vold
<1>7. CASE journaling
  <2>0. \A s \in SessionIds : state'[s] = "ACTIVATED" <=> s \in ToActivate
    BY <1>2, <1>3, <1>7
  <2>1. /\ \A s \in SessionIds \ ToActivate : before'[s] = before[s]
        /\ \A s \in ToActivate : /\ before'[s].data = [x \in DeDirs \X Names |-> files[Data(x[1], x[2])]]
                                 /\ before'[s].version = version
        /\ (ToActivate = {} => version' = version)
        /\ (ToActivate # {} => \E s \in ToActivate : version' = VersionOf[s])
    <3>1. MayInstall /\ before \in [SessionIds -> [data : [DeDirs \X Names -> Values], version : Versions \cup {Nothing}]]
      BY <1>7 DEF MayInstall, Sound, TypeInv, TypeOK
    <3>2. CASE ToActivate = {}
      BY <3>1, <3>2 DEF ScanStagedSessionsDirAndStage
    <3>3. CASE ToActivate # {}
      <4>1. /\ \E s \in ToActivate : version' = VersionOf[s]
            /\ before' = [s \in SessionIds |->
                 IF s \in ToActivate
                   THEN [data |-> [x \in DeDirs \X Names |-> files[Data(x[1], x[2])]],
                         version |-> version]
                   ELSE before[s]]
        BY <3>1, <3>3 DEF ScanStagedSessionsDirAndStage
      <4>2. ToActivate \subseteq SessionIds
        BY <1>2
      <4> QED BY <3>3, <4>1, <4>2
    <3> QED BY <3>2, <3>3
  <2>2. \A s \in ToActivate : version' = VersionOf[s] /\ state[s] \in Unfinished
    BY <1>2, <2>1, NoOtherIsUnderWay DEF Unfinished
  <2>3. PersistentInv'
    <3>1. \A q \in Updates : state'[q] = "SUCCESS" => before'[q] = before[q] /\ state[q] = "SUCCESS"
      BY <1>2, <1>3, <1>7, <2>1 DEF Updates
    <3>2. \A s \in Rollbacks : state'[s] \in {"none", "STAGED"} => state[s] \in {"none", "STAGED"}
      BY <1>3, <1>7 DEF Rollbacks
    <3>3. \A s \in Rollbacks : state'[s] = "ACTIVATED" => state[s] \in {"STAGED", "ACTIVATED"}
      BY <1>2, <1>3, <1>7 DEF Rollbacks
    <3> QED BY <1>0, <1>7, <3>1, <3>2, <3>3, UnderCheckpoint DEF vold
  <2>4. AllDataOK(Image) /\ Uncommitted
    BY <1>4, <1>5, <1>7 DEF PersistentInv, Uncommitted
  <2>5. Rollbacks \cap Activated' = {} => AllDataOK(Image)'
    <3> SUFFICES ASSUME Rollbacks \cap Activated' = {}, NEW d \in DeDirs, NEW a \in Names
                 PROVE  DataOK(Image, d, a)'
      BY DEF AllDataOK
    <3>1. DataOK(Image, d, a)
      BY <2>4 DEF AllDataOK
    <3>2. version' >= version
      <4>3. version \in Nat
        BY ConstantFacts DEF Sound, TypeInv, TypeOK
      <4>1. CASE ToActivate = {}
        BY <4>1, <4>3, <2>1
      <4>2. ASSUME NEW s \in ToActivate PROVE version' >= version
        <5>1. s \in Updates /\ state[s] \in {"STAGED", "ACTIVATED"}
          BY <1>2, <2>0 DEF Activated, In, Updates, Rollbacks
        <5>2. VersionOf[s] >= Persistent.version
          BY <5>1, <2>4 DEF Sound, SessionInv, NoDowngrade
        <5> QED BY <5>2, <1>5, <2>2 DEF Image
      <4> QED BY <4>1, <4>2, <2>1
    <3>3. version \in Nat /\ version' \in Nat /\ \A v \in Versions : v \in Nat
      <4>1. version' \in Versions
        BY <2>1, ConstantFacts, <1>2 DEF Sound, TypeInv, TypeOK
      <4> QED BY <4>1, ConstantFacts DEF Sound, TypeInv, TypeOK
    <3> QED BY <1>0, <3>1, <3>2, <3>3 DEF DataOK, Image
  <2>6. WorkIsFor'
    <3> SUFFICES ASSUME NEW p \in Copiers
                 PROVE  /\ \A i \in 1..Len(work'[p]) : \E s \in Activated', d \in DeDirs, a \in Names :
                             p = Copier(d) /\ work'[p][i] = CopyOf(s, d, a)
                        /\ \A i, j \in 1..Len(work'[p]) : work'[p][i].to = work'[p][j].to => i = j
      BY DEF WorkIsFor, CopyOf
    <3>1. 1..Len(work'[p]) = {}
      <4>1. Len(<<>>) = 0 /\ 1..0 = {}
        OBVIOUS
      <4> QED BY <1>1, <4>1
    <3> QED BY <3>1
  <2>7. \A s \in Activated' : version' = VersionOf[s]
    BY <2>0, <2>2 DEF Activated, In
  <2>8. ASSUME NEW s \in Updates, s \in Activated' PROVE UpdateCopies(s)'
    <3> SUFFICES ASSUME NEW d \in DeDirs, NEW a \in Names
                 PROVE  Data(d, a) \in spoiled' \/ WasBefore(s, d, a, files[Data(d, a)])'
      BY <1>1 DEF UpdateCopies
    <3>1. s \in ToActivate
      BY <2>0, <2>8 DEF Activated, In
    <3>2. before'[s].version = version /\ before'[s].data[<<d, a>>] = files[Data(d, a)]
      BY ZenonT(60), <2>1, <3>1
    <3>3. DataOK(Image, d, a)
      BY <2>4 DEF AllDataOK
    <3> QED BY <1>0, <3>2, <3>3 DEF DataOK, WasBefore, Image
  <2>9. ASSUME NEW q \in Updates, state[q] = "SUCCESS",
               \A s \in Rollbacks : Undoes(s, q) => state[s] \in {"none", "STAGED", "ACTIVATED"}
        PROVE  AllSnapshotsOK(Image, q)'
    <3>1. MayBeUndone(q, Uncommitted)
      BY <2>4, <2>9 DEF MayBeUndone
    <3>2. AllSnapshotsOK(Image, q)
      BY <1>4, <1>5, <3>1 DEF PersistentInv
    <3>3. before'[q] = before[q]
      BY <1>2, <2>1, <2>9 DEF Updates
    <3> QED BY <1>0, <3>2, <3>3 DEF AllSnapshotsOK, SnapshotOK, WasBefore, Image
  <2>10. ASSUME NEW s \in Rollbacks, s \in Activated', NEW q \in Updates, Undoes(s, q) PROVE RollbackCopies(s, q)'
    <3>1. state[s] \in {"STAGED", "ACTIVATED"} /\ s \in SessionIds
      BY <1>2, <2>0, <2>10 DEF Activated, In
    <3>2. PICK u \in Updates : Undoes(s, u) /\ state[u] = "SUCCESS"
      BY <3>1 DEF Sound, SessionInv, RollsBack
    <3>3. u = q
      BY <2>10, <3>2, SessionsAssumption DEF IdsUsedOnce, Undoes, Updates
    <3>4. \A t \in Rollbacks : Undoes(t, q) => t = s
      BY <2>10, SessionsAssumption DEF IdsUsedOnce, Undoes, Rollbacks
    <3>5. AllSnapshotsOK(Image, q)'
      BY <2>9, <3>1, <3>2, <3>3, <3>4
    <3> QED BY <1>1, <3>5 DEF RollbackCopies, AllSnapshotsOK
  <2>11. ASSUME NEW q \in Updates, MayBeUndone(q, FALSE)' PROVE AllSnapshotsOK(Image, q)'
    <3>1. state[q] = "SUCCESS"
      BY <1>2, <1>3, <1>7, <2>11 DEF MayBeUndone, Updates
    <3>2. ASSUME NEW s \in Rollbacks, Undoes(s, q) PROVE state[s] \in {"none", "STAGED", "ACTIVATED"}
      BY <1>3, <1>7, <2>11, <3>2 DEF MayBeUndone, Undoes, Rollbacks
    <3> QED BY <2>9, <3>1, <3>2
  <2>12. BootInv'
    BY <2>5, <2>6, <2>7, <2>8, <2>10, <2>11, UndoesIsConstant DEF BootInv, Updates, Rollbacks
  <2> QED BY <2>3, <2>12 DEF DataInv
<1> QED BY <1>6, <1>7

LEMMA EmptySeq ==
  ASSUME NEW u \in Seq(Copies)
  PROVE  u = <<>> \/ 1 \in 1..Len(u)
<1>1. Len(u) \in Nat /\ (Len(u) # 0 => 1 \in 1..Len(u))
  OBVIOUS
<1> QED BY <1>1

LEMMA FilesSame ==
  ASSUME UNCHANGED <<files, spoiled>>
  PROVE  DeSame
BY DEF DeSame

(* A step of a boot that moves no session and no data.                      *)
LEMMA StepData ==
  ASSUME Sound, UNCHANGED <<files, spoiled, version, state, before, vold>>, SameCopies, SameStarts,
         pc[Main] \notin Early, Doomed => Doomed', pc'[Main] \notin Early
  PROVE  DataInv'
<1>1. pc'[Main] \notin Early /\ ~Doomed' => BootInv'
  BY FilesSame, BootFrame DEF Sound, DataInv
<1>2. journaling' => PersistentInv'
  BY UnderCheckpoint DEF vold
<1> QED BY <1>1, <1>2 DEF DataInv

(* Reverting: the session stops being activated, its data stays.            *)
LEMMA RevertData ==
  ASSUME Sound, Revert,
         \/ pc[Main] = "resume" /\ In({"REVERT_IN_PROGRESS"}) # {}
         \/ pc[Main] = "sys" /\ pc[Binder] = "off" /\ ~resumed'
         \/ pc[Main] = "activated" /\ ~resumed',
         UNCHANGED <<files, version, vold, before, spoiled, work, step>>
  PROVE  DataInv'
<1>0. pc'[Main] = "undo" /\ pc'[Binder] = pc[Binder]
  BY RevertPc DEF Sound
<1>1. \A s \in SessionIds : state'[s] = IF state[s] \in Unfinished THEN "REVERT_IN_PROGRESS" ELSE state[s]
  BY CommitFacts DEF Revert, In
<1>2. journaling' => PersistentInv'
  BY <1>1, UnderCheckpoint DEF vold, Updates, Rollbacks, Unfinished
<1>3. ASSUME ~Doomed' PROVE BootInv'
  <2>1. pc[Main] \notin Early /\ ~Doomed /\ BootInv
    BY <1>0, <1>3 DEF Doomed, Sound, DataInv, Early, vold
  <2>2. Activated' = {}
    BY <1>1 DEF Activated, In, Unfinished
  <2>3. AllDataOK(Image) /\ (\A p \in Copiers : work[p] = <<>>)
    <3>1. CASE pc[Main] = "resume"
      <4>1. Activated = {}
        <5>1. PICK s \in SessionIds : state[s] = "REVERT_IN_PROGRESS"
          BY <3>1 DEF In
        <5>2. \A q \in SessionIds : state[q] \in Unfinished => q = s
          BY <5>1, NoOtherIsUnderWay DEF Unfinished
        <5> QED BY <5>1, <5>2 DEF Activated, In, Unfinished
      <4>2. work[Main] = <<>> /\ work[SnapshotDe] = <<>>
        BY <3>1 DEF Sound, PcInv, Early
      <4> QED BY <2>1, <4>1, <4>2 DEF BootInv, Copiers
    <3>4. CASE pc[Main] = "sys"
      <4>1. ~journaling
        BY <1>0, <1>3, <3>4 DEF Doomed, vold
      <4>2. Activated = {}
        BY <3>4, <4>1 DEF Sound, SessionInv, Protected, Activated
      <4>3. work[Main] = <<>> /\ work[SnapshotDe] = <<>>
        BY <3>4 DEF Sound, PcInv
      <4> QED BY <2>1, <4>2, <4>3 DEF BootInv, Copiers
    <3>2. CASE pc[Main] = "activated" /\ pc[SnapshotDe] = "ready"
      BY <3>2, InUseIsSound DEF Sound, PcInv, Copiers
    <3>3. CASE pc[Main] = "activated" /\ pc[SnapshotDe] # "ready"
      <4>1. pc[Binder] = "ready" /\ work[Main] = <<>>
        BY <3>3 DEF Sound, PcInv
      <4>2. ~journaling
        BY <1>0, <1>3, <3>3, <4>1 DEF Doomed, vold
      <4>3. Activated = {}
        BY <3>3, <4>2 DEF Sound, SessionInv, Protected, Activated
      <4>4. work[SnapshotDe] = <<>>
        <5>1. work[SnapshotDe] \in Seq(Copies) /\ SnapshotDe \in Copiers
          BY ConstantFacts DEF Sound, TypeInv, WorkInv, Copiers
        <5>2. 1 \notin 1..Len(work[SnapshotDe])
          BY <2>1, <4>3, <5>1 DEF BootInv, WorkIsFor
        <5> QED BY <5>1, <5>2, EmptySeq
      <4> QED BY <2>1, <4>1, <4>3, <4>4 DEF BootInv, Copiers
    <3> QED BY <3>1, <3>2, <3>3, <3>4
  <2>4. ASSUME NEW q \in Updates, MayBeUndone(q, FALSE)' PROVE AllSnapshotsOK(Image, q)'
    <3>1. state[q] = "SUCCESS" /\ \A s \in Rollbacks : Undoes(s, q) => state[s] \in {"none", "STAGED"}
      BY <1>1, <2>4 DEF MayBeUndone, Undoes, Rollbacks, Updates
    <3>2. MayBeUndone(q, FALSE)
      BY <3>1 DEF MayBeUndone
    <3> QED BY <2>1, <3>2, FilesSame, DataSame DEF BootInv
  <2>5. AllDataOK(Image)' /\ \A p \in Copiers : work'[p] = <<>>
    BY <2>3, FilesSame, DataSame
  <2> QED BY <2>2, <2>4, <2>5, BootIdle
<1> QED BY <1>0, <1>2, <1>3 DEF DataInv, Early

LEMMA FinishRevertData ==
  ASSUME Sound, FinishRevert
  PROVE  DataInv'
<1>0. /\ pc[Main] = "undo" /\ pc'[Main] = (IF resumed THEN "sys" ELSE "reboot") /\ pc'[Binder] = pc[Binder]
      /\ UNCHANGED <<files, version, vold, before, spoiled, work, step>> /\ ~resumed'
  BY GotoFacts, ConstantFacts DEF FinishRevert, Sound, TypeInv, history, copying
<1>1. \A s \in SessionIds : state'[s] = IF state[s] = "REVERT_IN_PROGRESS" THEN "REVERTED" ELSE state[s]
  BY CommitFacts DEF FinishRevert, In
<1>2. journaling' => PersistentInv'
  BY <1>0, <1>1, UnderCheckpoint DEF vold, Updates, Rollbacks
<1>3. ASSUME ~Doomed' PROVE BootInv'
  <2>1. BootInv /\ ~Doomed
    BY <1>0, <1>3 DEF Doomed, Sound, DataInv, Early, vold, PcInv
  <2>2. Activated = {} /\ Activated' = {}
    BY <1>0, <1>1 DEF Sound, SessionInv, Protected, Activated, In
  <2>3. ASSUME NEW p \in Copiers PROVE work'[p] = <<>>
    <3>1. work[p] \in Seq(Copies)
      BY DEF Sound, TypeInv, WorkInv, Copiers, Procs
    <3>2. 1 \notin 1..Len(work[p])
      BY <2>1, <2>2 DEF BootInv, WorkIsFor
    <3> QED BY <1>0, <3>1, <3>2, EmptySeq
  <2>4. ASSUME NEW q \in Updates, MayBeUndone(q, FALSE)' PROVE AllSnapshotsOK(Image, q)'
    <3>1. state[q] = "SUCCESS" /\ \A s \in Rollbacks : Undoes(s, q) => state[s] \in {"none", "STAGED"}
      BY <1>1, <2>4 DEF MayBeUndone, Undoes, Rollbacks, Updates
    <3>2. MayBeUndone(q, FALSE)
      BY <3>1 DEF MayBeUndone
    <3> QED BY <1>0, <2>1, <3>2, FilesSame, DataSame DEF BootInv
  <2>5. AllDataOK(Image)'
    BY <1>0, <2>1, <2>2, FilesSame, DataSame DEF BootInv
  <2> QED BY <2>2, <2>3, <2>4, <2>5, BootIdle
<1> QED BY <1>0, <1>2, <1>3 DEF DataInv, Early

(* The copies are handed to the main thread or to apexd --snapshotde.        *)
LEMMA StartCopies ==
  ASSUME Sound, NEW p \in Copiers, NEW r \in Seq(Copies), NEW D \in SUBSET DeDirs,
         \A d \in DeDirs : Copier(d) = p <=> d \in D, AreCopies(r, D),
         work' = [work EXCEPT ![p] = r], work[p] = <<>>,
         UNCHANGED <<files, spoiled, version, state, before, vold, step>>,
         \A d \in D : Unstarted(d) /\ ~Unstarted(d)',
         \A d \in DeDirs \ D : Unstarted(d)' <=> Unstarted(d),
         pc[Main] \notin Early, Doomed => Doomed', pc'[Main] \notin Early
  PROVE  DataInv'
<1>1. journaling' => PersistentInv'
  BY UnderCheckpoint DEF vold
<1>2. ASSUME ~Doomed' PROVE BootInv'
  <2>0. BootInv
    BY <1>2 DEF Sound, DataInv
  <2>1. /\ Activated' = Activated /\ \A q \in Updates : MayBeUndone(q, FALSE)' <=> MayBeUndone(q, FALSE)
        /\ Activated \subseteq SessionIds /\ \A s, q \in Activated : s = q
    BY NoOtherIsUnderWay DEF Activated, In, MayBeUndone, Undoes, Unfinished
  <2>2. /\ work'[p] = r /\ \A o \in Copiers \ {p} : work'[o] = work[o]
        /\ step[p] = "remove" /\ \A o \in Copiers : step'[o] = step[o]
    BY DEF Sound, TypeInv, WorkInv, Copiers, Procs, PcInv
  <2>3. /\ \A i \in 1..Len(r) : \E s \in Activated, d \in D, a \in Names : r[i] = CopyOf(s, d, a)
        /\ \A i, j \in 1..Len(r) : r[i].to = r[j].to => i = j
        /\ \A s \in Activated, d \in D, a \in Names : \E i \in 1..Len(r) : r[i] = CopyOf(s, d, a)
    <3>1. CASE Activated = {}
      <4>1. r = <<>> /\ Len(<<>>) = 0 /\ 1..0 = {}
        BY <3>1 DEF AreCopies, Activated
      <4> QED BY <3>1, <4>1
    <3>2. ASSUME NEW s \in Activated
          PROVE  /\ \A i \in 1..Len(r) : \E t \in Activated, d \in D, a \in Names : r[i] = CopyOf(t, d, a)
                 /\ \A i, j \in 1..Len(r) : r[i].to = r[j].to => i = j
                 /\ \A t \in Activated, d \in D, a \in Names : \E i \in 1..Len(r) : r[i] = CopyOf(t, d, a)
      <4>1. AreCopiesOf(r, s, D) /\ \A t \in Activated : t = s
        BY <2>1 DEF AreCopies, Activated
      <4>2. ASSUME NEW i \in 1..Len(r), NEW j \in 1..Len(r), r[i].to = r[j].to PROVE i = j
        <5>1. PICK d1 \in D, a1 \in Names : r[i] = CopyOf(s, d1, a1)
          BY <4>1 DEF AreCopiesOf
        <5>2. PICK d2 \in D, a2 \in Names : r[j] = CopyOf(s, d2, a2)
          BY <4>1 DEF AreCopiesOf
        <5>3. d1 = d2 /\ a1 = a2
          BY <4>2, <5>1, <5>2 DEF CopyOf, Data, Snapshot
        <5>4. r[i] = r[j]
          BY <5>1, <5>2, <5>3
        <5> QED BY <4>1, <5>4 DEF AreCopiesOf, Distinct
      <4>3. \A i \in 1..Len(r) : \E d \in D, a \in Names : r[i] = CopyOf(s, d, a)
        BY <4>1 DEF AreCopiesOf
      <4>4. \A d \in D, a \in Names : \E i \in 1..Len(r) : r[i] = CopyOf(s, d, a)
        BY <4>1 DEF AreCopiesOf
      <4>5. \A t \in Activated : t = s
        BY <4>1
      <4>6. ASSUME NEW i \in 1..Len(r) PROVE \E t \in Activated, d \in D, a \in Names : r[i] = CopyOf(t, d, a)
        <5>1. PICK d \in D, a \in Names : r[i] = CopyOf(s, d, a)
          BY <4>3
        <5> QED BY <5>1
      <4>7. ASSUME NEW t \in Activated, NEW d \in D, NEW a \in Names
            PROVE  \E i \in 1..Len(r) : r[i] = CopyOf(t, d, a)
        <5>1. t = s
          BY <4>5
        <5> QED BY <4>4, <5>1
      <4> QED BY <4>2, <4>6, <4>7
    <3> QED BY <3>1, <3>2
  <2>4. WorkIsFor'
    <3> SUFFICES ASSUME NEW o \in Copiers
                 PROVE  /\ \A i \in 1..Len(work'[o]) : \E s \in Activated', d \in DeDirs, a \in Names :
                             o = Copier(d) /\ work'[o][i] = CopyOf(s, d, a)
                        /\ \A i, j \in 1..Len(work'[o]) : work'[o][i].to = work'[o][j].to => i = j
      BY DEF WorkIsFor, CopyOf
    <3>1. CASE o = p
      <4>1. work'[o] = r /\ Activated' = Activated
        BY <2>1, <2>2, <3>1
      <4>2. \A d \in D : d \in DeDirs /\ o = Copier(d)
        BY <3>1
      <4>3. ASSUME NEW i \in 1..Len(r)
            PROVE  \E s \in Activated, d \in DeDirs, a \in Names : o = Copier(d) /\ r[i] = CopyOf(s, d, a)
        <5>1. PICK s \in Activated, d \in D, a \in Names : r[i] = CopyOf(s, d, a)
          BY <2>3
        <5> QED BY <4>2, <5>1
      <4>4. \A i, j \in 1..Len(r) : r[i].to = r[j].to => i = j
        BY <2>3
      <4>5. ASSUME NEW i \in 1..Len(work'[o])
            PROVE  \E s \in Activated', d \in DeDirs, a \in Names :
                     o = Copier(d) /\ work'[o][i] = CopyOf(s, d, a)
        <5>1. i \in 1..Len(r) /\ work'[o][i] = r[i]
          BY <4>1
        <5>2. PICK s \in Activated, d \in DeDirs, a \in Names : o = Copier(d) /\ r[i] = CopyOf(s, d, a)
          BY <4>3, <5>1
        <5> QED BY <4>1, <5>1, <5>2
      <4>6. \A i, j \in 1..Len(work'[o]) : work'[o][i].to = work'[o][j].to => i = j
        BY <4>1, <4>4
      <4> QED BY <4>5, <4>6
    <3>2. CASE o # p
      BY <2>0, <2>1, <2>2, <3>2 DEF BootInv, WorkIsFor
    <3> QED BY <3>1, <3>2
  <2>5. ASSUME NEW d \in D, NEW s \in Activated, NEW a \in Names
        PROVE  ToCopy(d, CopyOf(s, d, a).to)'
    <3>1. PICK i \in 1..Len(r) : r[i] = CopyOf(s, d, a)
      BY <2>3
    <3>2. Copier(d) = p /\ step'[p] # "delete"
      BY <2>2
    <3> QED BY <2>2, <3>1, <3>2 DEF ToCopy, CopyOf
  <2>6. ASSUME NEW d \in DeDirs \ D, NEW x PROVE ToCopy(d, x)' <=> ToCopy(d, x)
    <3>1. Copier(d) \in Copiers \ {p}
      BY DEF Copier, Copiers
    <3> QED BY <2>2, <3>1 DEF ToCopy, Copier
  <2>7. DeSame
    BY FilesSame
  <2>8. ASSUME NEW s \in Updates \cap Activated PROVE UpdateCopies(s)'
    <3> SUFFICES ASSUME NEW d \in DeDirs, NEW a \in Names
                 PROVE  IF Unstarted(d)' \/ ToCopy(d, Snapshot(d, RollbackId[s], a))'
                          THEN Data(d, a) \in spoiled' \/ WasBefore(s, d, a, files[Data(d, a)])'
                          ELSE SnapshotOK(Image, s, d, a)'
      BY DEF UpdateCopies
    <3>0. UpdateCopies(s)
      BY <2>0 DEF BootInv
    <3>1. /\ Data(d, a) \in spoiled' <=> Data(d, a) \in spoiled
          /\ WasBefore(s, d, a, files[Data(d, a)])' <=> WasBefore(s, d, a, files[Data(d, a)])
          /\ SnapshotOK(Image, s, d, a)' <=> SnapshotOK(Image, s, d, a)
      BY <2>7, DataSame DEF WasBefore
    <3>2. CASE d \in D
      <4>1. ToCopy(d, Snapshot(d, RollbackId[s], a))'
        BY <2>5, <3>2 DEF CopyOf, Updates
      <4>2. Data(d, a) \in spoiled \/ WasBefore(s, d, a, files[Data(d, a)])
        BY <3>0, <3>2 DEF UpdateCopies
      <4> QED BY <3>1, <4>1, <4>2
    <3>3. CASE d \notin D
      BY <2>6, <3>0, <3>1, <3>3 DEF UpdateCopies
    <3> QED BY <3>2, <3>3
  <2>9. ASSUME NEW s \in Rollbacks \cap Activated, NEW q \in Updates, Undoes(s, q) PROVE RollbackCopies(s, q)'
    <3> SUFFICES ASSUME NEW d \in DeDirs, NEW a \in Names
                 PROVE  IF Unstarted(d)' \/ ToCopy(d, Data(d, a))' THEN SnapshotOK(Image, q, d, a)'
                                                                  ELSE DataOK(Image, d, a)'
      BY DEF RollbackCopies
    <3>0. RollbackCopies(s, q)
      BY <2>0, <2>9 DEF BootInv
    <3>1. /\ DataOK(Image, d, a)' <=> DataOK(Image, d, a)
          /\ SnapshotOK(Image, q, d, a)' <=> SnapshotOK(Image, q, d, a)
      BY <2>7, DataSame
    <3>2. CASE d \in D
      <4>1. ToCopy(d, Data(d, a))'
        BY <2>5, <3>2 DEF CopyOf, Rollbacks
      <4>2. SnapshotOK(Image, q, d, a)
        BY <3>0, <3>2 DEF RollbackCopies
      <4> QED BY <3>1, <4>1, <4>2
    <3>3. CASE d \notin D
      BY <2>6, <3>0, <3>1, <3>3 DEF RollbackCopies
    <3> QED BY <3>2, <3>3
  <2>10. Rollbacks \cap Activated' = {} => AllDataOK(Image)'
    BY <2>0, <2>1, <2>7, DataSame DEF BootInv
  <2>11. \A q \in Updates : MayBeUndone(q, FALSE)' => AllSnapshotsOK(Image, q)'
    BY <2>0, <2>1, <2>7, DataSame DEF BootInv
  <2>12. \A s \in Activated' : version' = VersionOf[s]
    BY <2>0, <2>1 DEF BootInv
  <2>13. /\ \A s \in Updates \cap Activated' : UpdateCopies(s)'
         /\ \A s \in Rollbacks \cap Activated', q \in Updates : Undoes(s, q)' => RollbackCopies(s, q)'
    BY <2>1, <2>8, <2>9, UndoesIsConstant
  <2> QED BY <2>4, <2>10, <2>11, <2>12, <2>13 DEF BootInv, Updates, Rollbacks
<1> QED BY <1>1, <1>2 DEF DataInv

---------------------------------------------------------------------------
(* The copies, step by step: the target is being filled, or it is done, or   *)
(* what it was restored from is deleted.                                   *)
SameBut(x) == \A f \in Places : f # x => files'[f] = files[f] /\ (f \in spoiled' <=> f \in spoiled)
Fills(p) ==
  /\ step[p] # "delete" /\ work' = work /\ step'[p] # "delete"
  /\ SameBut(First(p).to)
Ends(p) ==
  /\ step[p] # "delete"
  /\ (work' = work /\ step'[p] = "delete") \/ (work'[p] = Tail(work[p]) /\ step'[p] = "remove")
  /\ SameBut(First(p).to)
  /\ \/ First(p).to \in spoiled'
     \/ /\ First(p).from \notin spoiled
        /\ files'[First(p).to] = files[First(p).from]
Deletes(p) ==
  /\ step[p] = "delete" /\ work'[p] = Tail(work[p]) /\ step'[p] = "remove"
  /\ SameBut(First(p).from)

LEMMA CopyEffect ==
  ASSUME TypeInv, NEW p \in Procs, CopyStep(p)
  PROVE  Fills(p) \/ Ends(p) \/ Deletes(p)
<1>0. /\ step \in [Procs -> {"remove", "create", "copy", "delete"}] /\ work \in [Procs -> Seq(Copies)]
      /\ files \in [Places -> Values]
      /\ work[p] # <<>> => First(p).to \in Places /\ First(p).from \in Places
  BY FirstTyped DEF TypeInv, TypeOK, WorkInv
<1>1. NextCopy(p) => work'[p] = Tail(work[p]) /\ step'[p] = "remove"
  BY <1>0 DEF NextCopy
<1>2. \A st : NextStep(p, st) => work' = work /\ step'[p] = st
  BY <1>0 DEF NextStep
<1>3. CASE RemoveTarget(p)
  <2>1. work' = work /\ step'[p] = "create" /\ step[p] = "remove" /\ SameBut(First(p).to)
    BY <1>0, <1>2, <1>3 DEF RemoveTarget, Busy, SameBut, history
  <2> QED BY <2>1 DEF Fills
<1>4. CASE CreateTarget(p)
  <2>1. work' = work /\ step'[p] = "copy" /\ step[p] = "create" /\ SameBut(First(p).to)
    BY <1>0, <1>2, <1>4 DEF CreateTarget, Busy, SameBut, history
  <2> QED BY <2>1 DEF Fills
<1>5. CASE FinishCopy(p)
  <2>1. (work' = work /\ step'[p] = "delete") \/ (work'[p] = Tail(work[p]) /\ step'[p] = "remove")
    BY <1>1, <1>2, <1>5 DEF FinishCopy
  <2>2. step[p] = "copy" /\ SameBut(First(p).to)
    BY <1>0, <1>5 DEF FinishCopy, Busy, SameBut
  <2>3. \/ First(p).to \in spoiled'
        \/ First(p).from \notin spoiled /\ files'[First(p).to] = files[First(p).from]
    BY <1>0, <1>5 DEF FinishCopy, Busy
  <2> QED BY <2>1, <2>2, <2>3 DEF Ends
<1>6. CASE CopyFails(p)
  <2>1. work'[p] = Tail(work[p]) /\ step'[p] = "remove" /\ step[p] # "delete"
    BY <1>1, <1>6 DEF CopyFails
  <2>2. SameBut(First(p).to)
    BY <1>0, <1>6 DEF CopyFails, SameBut
  <2>3. \/ First(p).to \in spoiled'
        \/ First(p).from \notin spoiled /\ files'[First(p).to] = files[First(p).from]
    BY <1>0, <1>6 DEF CopyFails
  <2> QED BY <2>1, <2>2, <2>3 DEF Ends
<1>7. CASE DeleteSource(p)
  <2>1. step[p] = "delete" /\ work'[p] = Tail(work[p]) /\ step'[p] = "remove"
    BY <1>1, <1>7 DEF DeleteSource, Busy
  <2>2. SameBut(First(p).from)
    BY <1>0, <1>7 DEF DeleteSource, SameBut, Busy, history
  <2> QED BY <2>1, <2>2 DEF Deletes
<1> QED BY <1>3, <1>4, <1>5, <1>6, <1>7 DEF CopyStep

(* A client's copies are of CE data.                                       *)
LEMMA BinderCopies ==
  ASSUME TypeInv, CopyStep(Binder)
  PROVE  DeSame
<1>1. work[Binder] # <<>> /\ Binder \in Procs
  BY CopyControl, ConstantFacts DEF CopyMoves
<1>2. First(Binder).from.dir \in CeDirs /\ First(Binder).to.dir \in CeDirs
  <2>1. First(Binder) = work[Binder][1] /\ 1 \in 1..Len(work[Binder])
    BY <1>1, FirstTyped DEF TypeInv
  <2>2. work[Binder] \in Seq(Copies)
    BY <1>1 DEF TypeInv, WorkInv
  <2>3. DOMAIN work[Binder] = 1..Len(work[Binder])
    BY <2>2
  <2> QED BY <2>1, <2>3 DEF TypeInv, WorkInv
<1>3. PICK x : x.dir \in CeDirs /\ SameBut(x)
  BY <1>1, <1>2, CopyEffect DEF Fills, Ends, Deletes
<1>4. x.dir \notin DeDirs
  BY <1>3, DirsAssumption
<1> QED BY <1>3, <1>4 DEF DeSame, SameBut

(* The first copy of a copier, for the session that is activated.            *)
LEMMA FirstCopy ==
  ASSUME Sound, BootInv, NEW p \in Copiers, CopyStep(p)
  PROVE  \E s \in Activated, d \in DeDirs, a \in Names :
           /\ Copier(d) = p /\ First(p) = CopyOf(s, d, a) /\ ~Unstarted(d)
<1>1. work[p] # <<>> /\ p \in Procs
  BY CopyControl DEF Sound, CopyMoves, Copiers, Procs
<1>2. First(p) = work[p][1] /\ 1 \in 1..Len(work[p])
  BY <1>1, FirstTyped DEF Sound, TypeInv
<1>3. PICK s \in Activated, d \in DeDirs, a \in Names : p = Copier(d) /\ work[p][1] = CopyOf(s, d, a)
  BY <1>2 DEF BootInv, WorkIsFor
<1>4. ~Unstarted(d)
  BY <1>1, <1>3, ConstantFacts DEF Unstarted, Copier, Sound, PcInv
<1> QED BY <1>2, <1>3, <1>4

(* Every target once, and data set aside right before it is restored.        *)
OneTarget(r) == \A i, j \in 1..Len(r) : r[i].to = r[j].to => i = j
RestoredNext(r) == \A i \in 1..Len(r) :
  ~r[i].move => i + 1 \in 1..Len(r) /\ r[i + 1].move /\ r[i + 1].to = r[i].from

(* What is left to copy after a step of p.                                 *)
LEMMA CopyProgress ==
  ASSUME TypeInv, NEW p \in Copiers, CopyStep(p), OneTarget(work[p])
  PROVE  /\ \A d \in DeDirs : \A x : Copier(d) # p \/ x # First(p).to => (ToCopy(d, x)' <=> ToCopy(d, x))
         /\ \A d \in DeDirs : \A x : Copier(d) = p /\ x = First(p).to =>
              /\ Fills(p) => ToCopy(d, x)'
              /\ Ends(p) \/ Deletes(p) => ~ToCopy(d, x)'
              /\ Deletes(p) => ~ToCopy(d, x)
         /\ \A o \in Copiers \ {p} : work'[o] = work[o] /\ step'[o] = step[o]
         /\ \A i \in 1..Len(work'[p]) : \E j \in 1..Len(work[p]) : work'[p][i] = work[p][j]
         /\ OneTarget(work'[p])
         /\ RestoredNext(work[p]) => RestoredNext(work'[p])
<1> DEFINE c == First(p)
           n == Len(work[p])
<1>0. p \in Procs /\ CopyMoves(p)
  BY CopyControl DEF Copiers, Procs
<1>1. /\ c = work[p][1] /\ 1 \in 1..n /\ n \in Nat /\ Len(Tail(work[p])) = n - 1
      /\ \A i \in 1..(n - 1) : i + 1 \in 1..n /\ Tail(work[p])[i] = work[p][i + 1]
  BY <1>0, FirstTyped DEF TypeInv, CopyMoves
<1>2. \A i, j \in 1..n : work[p][i].to = work[p][j].to => i = j
  BY DEF OneTarget
<1>3. \A o \in Copiers \ {p} : work'[o] = work[o] /\ step'[o] = step[o]
  BY <1>0 DEF CopyMoves, Copiers, Procs
<1>4. ASSUME NEW d \in DeDirs, Copier(d) # p, NEW x PROVE ToCopy(d, x)' <=> ToCopy(d, x)
  <2>1. Copier(d) \in Copiers \ {p}
    BY <1>4 DEF Copier, Copiers
  <2> QED BY <1>3, <2>1 DEF ToCopy, Copier
<1> DEFINE L(x) == \E i \in 1..n : work[p][i].to = x /\ (i = 1 => step[p] # "delete")
           M(x) == \E i \in 1..Len(work'[p]) : work'[p][i].to = x /\ (i = 1 => step'[p] # "delete")
<1>5. ASSUME NEW d \in DeDirs, Copier(d) = p, NEW x
      PROVE  (ToCopy(d, x) <=> L(x)) /\ (ToCopy(d, x)' <=> M(x))
  BY <1>5 DEF ToCopy, Copier
<1>6. CASE work' = work
  <2>1. work'[p] = work[p] /\ Len(work'[p]) = n
    BY <1>6
  <2>2. \A x : x # c.to => (M(x) <=> L(x))
    BY <1>1, <2>1
  <2>3. Fills(p) => M(c.to)
    BY <1>1, <2>1 DEF Fills
  <2>4. step'[p] = "delete" => ~M(c.to)
    BY <1>1, <1>2, <2>1
  <2>5. ~(work'[p] = Tail(work[p]))
    <3>1. Len(Tail(work[p])) # n
      BY <1>1
    <3> QED BY <2>1, <3>1
  <2>6. /\ \A i \in 1..Len(work'[p]) : \E j \in 1..Len(work[p]) : work'[p][i] = work[p][j]
        /\ OneTarget(work'[p]) /\ (RestoredNext(work[p]) => RestoredNext(work'[p]))
    BY <2>1
  <2>7. \A x : x # c.to => \A d \in DeDirs : Copier(d) = p => (ToCopy(d, x)' <=> ToCopy(d, x))
    BY <1>5, <2>2
  <2>8. \A d \in DeDirs : \A x : Copier(d) = p /\ x = c.to =>
          /\ Fills(p) => ToCopy(d, x)'
          /\ Ends(p) \/ Deletes(p) => ~ToCopy(d, x)'
          /\ Deletes(p) => ~ToCopy(d, x)
    <3> SUFFICES ASSUME NEW d \in DeDirs, NEW x, Copier(d) = p, x = c.to
                 PROVE  /\ Fills(p) => ToCopy(d, x)'
                        /\ Ends(p) \/ Deletes(p) => ~ToCopy(d, x)'
                        /\ Deletes(p) => ~ToCopy(d, x)
      OBVIOUS
    <3>1. (ToCopy(d, x) <=> L(x)) /\ (ToCopy(d, x)' <=> M(x))
      BY <1>5
    <3>2. ~Deletes(p)
      BY <2>5 DEF Deletes
    <3>3. Ends(p) => step'[p] = "delete"
      BY <2>5 DEF Ends
    <3> HIDE DEF L, M, c
    <3> QED BY <2>3, <2>4, <3>1, <3>2, <3>3
  <2> QED BY <1>3, <1>4, <2>6, <2>7, <2>8
<1>7. CASE work'[p] = Tail(work[p]) /\ step'[p] = "remove"
  <2>1. Len(work'[p]) = n - 1 /\ \A i \in 1..(n - 1) : i + 1 \in 1..n /\ work'[p][i] = work[p][i + 1] /\ i + 1 # 1
    BY <1>1, <1>7
  <2>2. \A i \in 1..n : i # 1 => i - 1 \in 1..(n - 1) /\ work'[p][i - 1] = work[p][i]
    <3> SUFFICES ASSUME NEW i \in 1..n, i # 1 PROVE i - 1 \in 1..(n - 1) /\ work'[p][i - 1] = work[p][i]
      OBVIOUS
    <3>1. i - 1 \in 1..(n - 1) /\ (i - 1) + 1 = i
      BY <1>1
    <3> QED BY <2>1, <3>1
  <2>3. ASSUME NEW x, x # c.to PROVE M(x) <=> L(x)
    <3>1. ASSUME M(x) PROVE L(x)
      <4>1. PICK i \in 1..(n - 1) : work'[p][i].to = x
        BY <2>1, <3>1
      <4>2. i + 1 \in 1..n /\ work[p][i + 1].to = x /\ i + 1 # 1
        BY <2>1, <4>1
      <4> QED BY <4>2
    <3>2. ASSUME L(x) PROVE M(x)
      <4>1. PICK i \in 1..n : work[p][i].to = x
        BY <3>2
      <4>2. i # 1
        BY <1>1, <2>3, <4>1
      <4>3. i - 1 \in 1..(n - 1) /\ work'[p][i - 1].to = x
        BY <2>2, <4>1, <4>2
      <4> QED BY <1>7, <2>1, <4>3
    <3> QED BY <3>1, <3>2
  <2>4. ~M(c.to)
    <3> SUFFICES ASSUME NEW i \in 1..(n - 1), work'[p][i].to = c.to PROVE FALSE
      BY <2>1
    <3>1. work[p][i + 1].to = work[p][1].to /\ i + 1 \in 1..n /\ i + 1 # 1
      BY <1>1, <2>1
    <3> QED BY <1>1, <1>2, <3>1
  <2>5. step[p] = "delete" => ~L(c.to)
    BY <1>1, <1>2
  <2>6. ~Fills(p)
    <3>1. Len(Tail(work[p])) # n
      BY <1>1
    <3> QED BY <1>7, <3>1 DEF Fills
  <2>7. \A i \in 1..Len(work'[p]) : \E j \in 1..Len(work[p]) : work'[p][i] = work[p][j]
    BY <2>1
  <2>8. OneTarget(work'[p])
    <3> SUFFICES ASSUME NEW i \in 1..Len(work'[p]), NEW j \in 1..Len(work'[p]), work'[p][i].to = work'[p][j].to
                 PROVE  i = j
      BY DEF OneTarget
    <3>1. i + 1 \in 1..n /\ j + 1 \in 1..n /\ work[p][i + 1].to = work[p][j + 1].to
      BY <2>1
    <3>2. i + 1 = j + 1 /\ i \in Int /\ j \in Int
      BY <1>2, <3>1
    <3> QED BY <3>2
  <2>9. ASSUME RestoredNext(work[p]) PROVE RestoredNext(work'[p])
    <3> SUFFICES ASSUME NEW i \in 1..Len(work'[p]), ~work'[p][i].move
                 PROVE  /\ i + 1 \in 1..Len(work'[p]) /\ work'[p][i + 1].move
                        /\ work'[p][i + 1].to = work'[p][i].from
      BY DEF RestoredNext
    <3>1. i + 1 \in 1..n /\ work'[p][i] = work[p][i + 1] /\ i \in 1..(n - 1)
      BY <2>1
    <3>2. /\ (i + 1) + 1 \in 1..n /\ work[p][(i + 1) + 1].move
          /\ work[p][(i + 1) + 1].to = work[p][i + 1].from
      BY <2>9, <3>1 DEF RestoredNext
    <3>3. i + 1 \in 1..(n - 1)
      BY <1>1, <3>1, <3>2
    <3> QED BY <2>1, <3>1, <3>2, <3>3
  <2>10. \A x : x # c.to => \A d \in DeDirs : Copier(d) = p => (ToCopy(d, x)' <=> ToCopy(d, x))
    BY <1>5, <2>3
  <2>11. \A d \in DeDirs : \A x : Copier(d) = p /\ x = c.to =>
          /\ Fills(p) => ToCopy(d, x)'
          /\ Ends(p) \/ Deletes(p) => ~ToCopy(d, x)'
          /\ Deletes(p) => ~ToCopy(d, x)
    <3> SUFFICES ASSUME NEW d \in DeDirs, NEW x, Copier(d) = p, x = c.to
                 PROVE  /\ Fills(p) => ToCopy(d, x)'
                        /\ Ends(p) \/ Deletes(p) => ~ToCopy(d, x)'
                        /\ Deletes(p) => ~ToCopy(d, x)
      OBVIOUS
    <3>1. (ToCopy(d, x) <=> L(x)) /\ (ToCopy(d, x)' <=> M(x))
      BY <1>5
    <3>2. Deletes(p) => step[p] = "delete"
      BY DEF Deletes
    <3> HIDE DEF L, M, c
    <3> QED BY <2>4, <2>5, <2>6, <3>1, <3>2
  <2> QED BY <1>3, <1>4, <2>7, <2>8, <2>9, <2>10, <2>11
<1> QED BY <1>0, <1>6, <1>7 DEF CopyMoves

LEMMA CopiesLeft ==
  ASSUME Sound, BootInv, NEW p \in Copiers, CopyStep(p)
  PROVE  /\ \A d \in DeDirs : \A x : Copier(d) # p \/ x # First(p).to => (ToCopy(d, x)' <=> ToCopy(d, x))
         /\ \A d \in DeDirs : \A x : Copier(d) = p /\ x = First(p).to =>
              /\ Fills(p) => ToCopy(d, x)'
              /\ Ends(p) \/ Deletes(p) => ~ToCopy(d, x)'
              /\ Deletes(p) => ~ToCopy(d, x)
         /\ WorkIsFor'
<1>1. OneTarget(work[p])
  BY DEF BootInv, WorkIsFor, OneTarget
<1>2. /\ \A o \in Copiers \ {p} : work'[o] = work[o]
      /\ \A i \in 1..Len(work'[p]) : \E j \in 1..Len(work[p]) : work'[p][i] = work[p][j]
      /\ OneTarget(work'[p])
  BY <1>1, CopyProgress DEF Sound
<1>3. Activated' = Activated
  <2>1. CopyMoves(p)
    BY CopyControl DEF Sound, Copiers, Procs
  <2> QED BY <2>1 DEF CopyMoves, Activated, In
<1>4. WorkIsFor'
  <2> SUFFICES ASSUME NEW o \in Copiers
               PROVE  /\ \A i \in 1..Len(work'[o]) : \E s \in Activated', d \in DeDirs, a \in Names :
                           o = Copier(d) /\ work'[o][i] = CopyOf(s, d, a)
                      /\ OneTarget(work'[o])
    BY DEF WorkIsFor, CopyOf, OneTarget
  <2>1. CASE o # p
    BY <1>2, <1>3, <2>1 DEF BootInv, WorkIsFor, OneTarget
  <2>2. CASE o = p
    BY <1>2, <1>3, <2>2 DEF BootInv, WorkIsFor
  <2> QED BY <2>1, <2>2
<1> QED BY <1>1, <1>4, CopyProgress DEF Sound

(* What a step that changes one place leaves alone.                        *)
LEMMA SameElsewhere ==
  ASSUME NEW x, SameBut(x), UNCHANGED <<version, before>>, NEW d \in DeDirs, NEW a \in Names
  PROVE  /\ Data(d, a) # x => /\ DataOK(Image, d, a)' <=> DataOK(Image, d, a)
                              /\ files'[Data(d, a)] = files[Data(d, a)]
                              /\ Data(d, a) \in spoiled' <=> Data(d, a) \in spoiled
         /\ \A q \in Updates : Snapshot(d, RollbackId[q], a) # x =>
              (SnapshotOK(Image, q, d, a)' <=> SnapshotOK(Image, q, d, a))
<1>1. Data(d, a) # x => /\ DataOK(Image, d, a)' <=> DataOK(Image, d, a)
                        /\ files'[Data(d, a)] = files[Data(d, a)]
                        /\ Data(d, a) \in spoiled' <=> Data(d, a) \in spoiled
  BY DePlaces DEF SameBut, DataOK, Image
<1>2. ASSUME NEW q \in Updates, Snapshot(d, RollbackId[q], a) # x
      PROVE  SnapshotOK(Image, q, d, a)' <=> SnapshotOK(Image, q, d, a)
  <2>1. Snapshot(d, RollbackId[q], a) \in Places
    BY DePlaces DEF Updates
  <2> QED BY <1>2, <2>1 DEF SameBut, SnapshotOK, WasBefore, Image
<1> QED BY <1>1, <1>2

LEMMA PlacesDiffer ==
  /\ \A d, e, a, b, r : Data(d, a) # Snapshot(e, r, b)
  /\ \A d, e, a, b : Data(d, a) = Data(e, b) => d = e /\ a = b
  /\ \A d, e, a, b, r, t : Snapshot(d, r, a) = Snapshot(e, t, b) => d = e /\ a = b /\ r = t
<1>1. ASSUME NEW d, NEW e, NEW a, NEW b, NEW r, Data(d, a) = Snapshot(e, r, b) PROVE FALSE
  <2>1. Data(d, a).sub = "data" /\ Snapshot(e, r, b).sub = "snapshot"
    BY DEF Data, Snapshot
  <2> QED BY <1>1, <2>1
<1>2. ASSUME NEW d, NEW e, NEW a, NEW b, Data(d, a) = Data(e, b) PROVE d = e /\ a = b
  <2>1. Data(d, a).dir = d /\ Data(d, a).apex = a /\ Data(e, b).dir = e /\ Data(e, b).apex = b
    BY DEF Data
  <2> QED BY <1>2, <2>1
<1>3. ASSUME NEW d, NEW e, NEW a, NEW b, NEW r, NEW t, Snapshot(d, r, a) = Snapshot(e, t, b)
      PROVE  d = e /\ a = b /\ r = t
  <2>1. /\ Snapshot(d, r, a).dir = d /\ Snapshot(d, r, a).apex = a /\ Snapshot(d, r, a).id = r
        /\ Snapshot(e, t, b).dir = e /\ Snapshot(e, t, b).apex = b /\ Snapshot(e, t, b).id = t
    BY DEF Snapshot
  <2> QED BY <1>3, <2>1
<1> QED BY <1>1, <1>2, <1>3

(* What a copy step keeps in any case.                                      *)
LEMMA CopyFrame ==
  ASSUME Sound, BootInv, NEW p \in Copiers, CopyStep(p), NEW s \in Activated
  PROVE  /\ UNCHANGED <<version, before, state, pc, vold>> /\ Activated' = Activated
         /\ \A t \in Activated : t = s
         /\ \A d \in DeDirs : Unstarted(d)' <=> Unstarted(d)
         /\ \A q \in Updates : MayBeUndone(q, FALSE)' <=> MayBeUndone(q, FALSE)
         /\ p \in Procs /\ work[p] # <<>> /\ First(p) = work[p][1] /\ 1 \in 1..Len(work[p])
         /\ s \in SessionIds
<1>1. CopyMoves(p) /\ p \in Procs
  BY CopyControl DEF Sound, Copiers, Procs
<1>2. work[p] # <<>> /\ First(p) = work[p][1] /\ 1 \in 1..Len(work[p])
  BY <1>1, FirstTyped DEF Sound, TypeInv, CopyMoves
<1>3. UNCHANGED <<version, before, state, pc, vold>> /\ Activated' = Activated
  BY <1>1 DEF CopyMoves, Activated, In
<1>4. \A t \in Activated : t = s
  BY NoOtherIsUnderWay DEF Activated, In, Unfinished
<1>5. /\ \A d \in DeDirs : Unstarted(d)' <=> Unstarted(d)
      /\ \A q \in Updates : MayBeUndone(q, FALSE)' <=> MayBeUndone(q, FALSE)
  BY <1>3 DEF Unstarted, MayBeUndone, Undoes
<1> QED BY <1>1, <1>2, <1>3, <1>4, <1>5 DEF Activated, In

(* A step of a snapshot.                                                   *)
LEMMA SnapshotStep ==
  ASSUME Sound, IdsUsedOnce, BootInv, NEW p \in Copiers, CopyStep(p),
         NEW s \in Updates \cap Activated, NEW d0 \in DeDirs, NEW a0 \in Names,
         Copier(d0) = p, First(p) = CopyOf(s, d0, a0), ~Unstarted(d0)
  PROVE  BootInv'
<1> DEFINE t == Snapshot(d0, RollbackId[s], a0)
<1>0. /\ UNCHANGED <<version, before, state, pc, vold>> /\ Activated' = Activated
      /\ \A u \in Activated : u = s
      /\ \A d \in DeDirs : Unstarted(d)' <=> Unstarted(d)
      /\ \A q \in Updates : MayBeUndone(q, FALSE)' <=> MayBeUndone(q, FALSE)
      /\ p \in Procs /\ work[p] # <<>> /\ First(p) = work[p][1] /\ 1 \in 1..Len(work[p])
      /\ s \in SessionIds /\ ~IsRollback[s]
  BY CopyFrame DEF Updates
<1>1. First(p).to = t /\ First(p).from = Data(d0, a0) /\ ~First(p).move
  BY <1>0 DEF CopyOf
<1>2. step[p] # "delete" /\ (Fills(p) \/ Ends(p)) /\ SameBut(t)
  <2>1. step[p] # "delete"
    BY <1>1 DEF Sound, PcInv
  <2>2. Fills(p) \/ Ends(p)
    BY <1>0, <2>1, CopyEffect DEF Sound, Deletes
  <2> QED BY <1>1, <2>1, <2>2 DEF Fills, Ends
<1>3. /\ \A d \in DeDirs : \A x : x # t => (ToCopy(d, x)' <=> ToCopy(d, x))
      /\ Fills(p) => ToCopy(d0, t)'
      /\ Ends(p) => ~ToCopy(d0, t)'
      /\ WorkIsFor'
  BY <1>1, CopiesLeft
<1>4. ToCopy(d0, t)
  BY <1>0, <1>1, <1>2 DEF ToCopy
<1> HIDE DEF t
<1>5. ASSUME NEW d \in DeDirs, NEW a \in Names
      PROVE  /\ DataOK(Image, d, a)' <=> DataOK(Image, d, a)
             /\ files'[Data(d, a)] = files[Data(d, a)]
             /\ Data(d, a) \in spoiled' <=> Data(d, a) \in spoiled
  <2>1. Data(d, a) # t
    BY PlacesDiffer DEF t
  <2> QED BY <1>0, <1>2, <2>1, SameElsewhere
<1>6. UpdateCopies(s)'
  <2> SUFFICES ASSUME NEW d \in DeDirs, NEW a \in Names
               PROVE  IF Unstarted(d)' \/ ToCopy(d, Snapshot(d, RollbackId[s], a))'
                        THEN Data(d, a) \in spoiled' \/ WasBefore(s, d, a, files[Data(d, a)])'
                        ELSE SnapshotOK(Image, s, d, a)'
    BY DEF UpdateCopies
  <2>1. UpdateCopies(s)
    BY DEF BootInv
  <2>2. WasBefore(s, d, a, files[Data(d, a)])' <=> WasBefore(s, d, a, files[Data(d, a)])
    BY <1>0, <1>5 DEF WasBefore
  <2>3. CASE Snapshot(d, RollbackId[s], a) # t
    <3>1. SnapshotOK(Image, s, d, a)' <=> SnapshotOK(Image, s, d, a)
      BY <1>0, <1>2, <2>3, SameElsewhere
    <3> QED BY <1>0, <1>3, <1>5, <2>1, <2>2, <2>3, <3>1 DEF UpdateCopies
  <2>4. CASE Snapshot(d, RollbackId[s], a) = t
    <3>1. d = d0 /\ a = a0
      BY <2>4, PlacesDiffer DEF t
    <3>2. Data(d, a) \in spoiled \/ WasBefore(s, d, a, files[Data(d, a)])
      BY <1>4, <2>1, <2>4, <3>1 DEF UpdateCopies
    <3>3. CASE Fills(p)
      BY <1>3, <1>5, <2>2, <2>4, <3>1, <3>2, <3>3
    <3>4. CASE Ends(p)
      <4>1. t \in spoiled' \/ (Data(d, a) \notin spoiled /\ (files'[t] = files[Data(d, a)] \/ files[Data(d, a)] = Nothing))
        BY <1>1, <3>1, <3>4 DEF Ends
      <4>2. CASE t \in spoiled'
        BY <1>0, <1>3, <2>4, <3>1, <3>4, <4>2 DEF SnapshotOK, Image
      <4>3. CASE t \notin spoiled'
        <5>1. WasBefore(s, d, a, files[Data(d, a)]) /\ files'[t] = files[Data(d, a)]
          BY <3>2, <4>1, <4>3, ConstantFacts DEF WasBefore
        <5>2. SnapshotOK(Image, s, d, a)'
          BY <1>0, <2>4, <5>1 DEF SnapshotOK, WasBefore, Image
        <5> QED BY <1>0, <1>3, <2>4, <3>1, <3>4, <5>2
      <4> QED BY <4>2, <4>3
    <3> QED BY <1>2, <3>3, <3>4
  <2> QED BY <2>3, <2>4
<1>7. ASSUME NEW q \in Updates, MayBeUndone(q, FALSE) PROVE AllSnapshotsOK(Image, q)'
  <2>1. RollbackId[q] # RollbackId[s]
    <3>1. q # s
      BY <1>7 DEF MayBeUndone, Activated, In
    <3> QED BY <1>0, <3>1, SessionsAssumption DEF IdsUsedOnce, Updates
  <2>2. ASSUME NEW d \in DeDirs, NEW a \in Names PROVE SnapshotOK(Image, q, d, a)'
    <3>1. Snapshot(d, RollbackId[q], a) # t
      BY <2>1, PlacesDiffer DEF t
    <3>2. SnapshotOK(Image, q, d, a)
      BY <1>7 DEF BootInv, AllSnapshotsOK
    <3> QED BY <1>0, <1>2, <3>1, <3>2, SameElsewhere
  <2> QED BY <2>2 DEF AllSnapshotsOK
<1>8. Rollbacks \cap Activated = {}
  BY <1>0 DEF Rollbacks
<1>9. AllDataOK(Image)'
  BY <1>5, <1>8 DEF BootInv, AllDataOK
<1>10. /\ \A u \in Updates \cap Activated' : UpdateCopies(u)'
       /\ \A u \in Activated' : version' = VersionOf[u]
       /\ \A q \in Updates : MayBeUndone(q, FALSE)' => AllSnapshotsOK(Image, q)'
  <2>1. \A u \in Updates \cap Activated' : u = s
    BY <1>0
  <2> QED BY <1>0, <1>6, <1>7, <2>1 DEF BootInv
<1>11. \A u \in Rollbacks \cap Activated', q \in Updates : Undoes(u, q)' => RollbackCopies(u, q)'
  BY <1>0, <1>8
<1> QED BY <1>3, <1>9, <1>10, <1>11 DEF BootInv, Updates, Rollbacks

(* A step of a restore.                                                    *)
LEMMA RestoreStep ==
  ASSUME Sound, IdsUsedOnce, BootInv, NEW p \in Copiers, CopyStep(p),
         NEW s \in Rollbacks \cap Activated, NEW d0 \in DeDirs, NEW a0 \in Names,
         Copier(d0) = p, First(p) = CopyOf(s, d0, a0), ~Unstarted(d0)
  PROVE  BootInv'
<1> DEFINE t == Data(d0, a0)
           f == Snapshot(d0, RollbackId[s], a0)
<1>0. /\ UNCHANGED <<version, before, state, pc, vold>> /\ Activated' = Activated
      /\ \A u \in Activated : u = s
      /\ \A d \in DeDirs : Unstarted(d)' <=> Unstarted(d)
      /\ \A q \in Updates : MayBeUndone(q, FALSE)' <=> MayBeUndone(q, FALSE)
      /\ p \in Procs /\ work[p] # <<>> /\ First(p) = work[p][1] /\ 1 \in 1..Len(work[p])
      /\ s \in SessionIds /\ IsRollback[s] /\ state[s] = "ACTIVATED"
  BY CopyFrame DEF Rollbacks, Activated, In
<1>1. First(p).to = t /\ First(p).from = f
  BY <1>0 DEF CopyOf
<1>2. /\ Fills(p) \/ Ends(p) => SameBut(t) /\ step[p] # "delete"
      /\ Deletes(p) => SameBut(f)
      /\ Fills(p) \/ Ends(p) \/ Deletes(p)
  <2>1. Fills(p) \/ Ends(p) \/ Deletes(p)
    BY <1>0, CopyEffect DEF Sound
  <2> QED BY <1>1, <2>1 DEF Fills, Ends, Deletes
<1>3. /\ \A d \in DeDirs : \A x : x # t => (ToCopy(d, x)' <=> ToCopy(d, x))
      /\ Fills(p) => ToCopy(d0, t)'
      /\ Ends(p) \/ Deletes(p) => ~ToCopy(d0, t)'
      /\ Deletes(p) => ~ToCopy(d0, t)
      /\ WorkIsFor'
  BY <1>1, CopiesLeft
<1>4. step[p] # "delete" => ToCopy(d0, t)
  BY <1>0, <1>1 DEF ToCopy
<1> HIDE DEF t, f
<1>5. ASSUME NEW q \in Updates, Undoes(s, q) PROVE RollbackCopies(s, q)'
  <2> SUFFICES ASSUME NEW d \in DeDirs, NEW a \in Names
               PROVE  IF Unstarted(d)' \/ ToCopy(d, Data(d, a))' THEN SnapshotOK(Image, q, d, a)'
                                                                ELSE DataOK(Image, d, a)'
    BY DEF RollbackCopies
  <2>0. RollbackId[q] = RollbackId[s]
    BY <1>5 DEF Undoes
  <2>1. RollbackCopies(s, q)
    BY <1>5 DEF BootInv
  <2>2. Data(d, a) # f /\ Snapshot(d, RollbackId[q], a) # t
    BY PlacesDiffer DEF t, f
  <2>3. /\ Deletes(p) => (DataOK(Image, d, a)' <=> DataOK(Image, d, a))
        /\ Fills(p) \/ Ends(p) => (SnapshotOK(Image, q, d, a)' <=> SnapshotOK(Image, q, d, a))
    BY <1>0, <1>2, <2>2, SameElsewhere
  <2>4. CASE Data(d, a) # t
    <3>1. Snapshot(d, RollbackId[q], a) # f
      <4>1. ~(d = d0 /\ a = a0)
        BY <2>4 DEF t
      <4> QED BY <4>1, PlacesDiffer DEF f
    <3>2. /\ Deletes(p) => (SnapshotOK(Image, q, d, a)' <=> SnapshotOK(Image, q, d, a))
          /\ Fills(p) \/ Ends(p) => (DataOK(Image, d, a)' <=> DataOK(Image, d, a))
      BY <1>0, <1>2, <2>4, <3>1, SameElsewhere
    <3> QED BY <1>0, <1>2, <1>3, <2>1, <2>3, <2>4, <3>2 DEF RollbackCopies
  <2>5. CASE Data(d, a) = t
    <3>1. d = d0 /\ a = a0
      BY <2>5, PlacesDiffer DEF t
    <3>2. CASE Deletes(p)
      <4>1. DataOK(Image, d, a)
        BY <1>3, <2>1, <2>5, <3>1, <3>2 DEF RollbackCopies
      <4> QED BY <1>0, <1>3, <2>3, <2>5, <3>1, <3>2, <4>1
    <3>3. CASE Fills(p) \/ Ends(p)
      <4>1. SnapshotOK(Image, q, d, a)
        BY <1>2, <1>4, <2>1, <2>5, <3>1, <3>3 DEF RollbackCopies
      <4>2. CASE Fills(p)
        BY <1>3, <2>3, <2>5, <3>1, <4>1, <4>2
      <4>3. CASE Ends(p)
        <5>1. t \in spoiled' \/ (f \notin spoiled /\ (files'[t] = files[f] \/ files[f] = Nothing))
          BY <1>1, <4>3 DEF Ends
        <5>2. DataOK(Image, d, a)'
          <6>1. CASE t \in spoiled'
            BY <2>5, <6>1 DEF DataOK, Image
          <6>2. CASE t \notin spoiled'
            <7>1. f = Snapshot(d, RollbackId[q], a)
              BY <2>0, <3>1 DEF f
            <7>2. WasBefore(q, d, a, files[f]) /\ files'[t] = files[f]
              BY <4>1, <5>1, <6>2, <7>1, ConstantFacts DEF SnapshotOK, Image, WasBefore
            <7>3. version = before[q].version
              <8>1. PICK u \in Updates : Undoes(s, u) /\ VersionOf[s] = before[u].version
                BY <1>0 DEF Sound, SessionInv, RollsBack
              <8>2. u = q
                BY <1>5, <8>1, SessionsAssumption DEF IdsUsedOnce, Undoes, Updates
              <8> QED BY <8>1, <8>2 DEF BootInv
            <7> QED BY <1>0, <2>5, <7>2, <7>3 DEF DataOK, WasBefore, Image
          <6> QED BY <6>1, <6>2
        <5> QED BY <1>0, <1>3, <2>5, <3>1, <4>3, <5>2
      <4> QED BY <3>3, <4>2, <4>3
    <3> QED BY <1>2, <3>2, <3>3
  <2> QED BY <2>4, <2>5
<1>6. ASSUME NEW q \in Updates, MayBeUndone(q, FALSE) PROVE AllSnapshotsOK(Image, q)'
  <2>1. RollbackId[q] # RollbackId[s]
    BY <1>0, <1>6 DEF MayBeUndone, Undoes
  <2>2. ASSUME NEW d \in DeDirs, NEW a \in Names PROVE SnapshotOK(Image, q, d, a)'
    <3>1. Snapshot(d, RollbackId[q], a) # t /\ Snapshot(d, RollbackId[q], a) # f
      BY <2>1, PlacesDiffer DEF t, f
    <3>2. SnapshotOK(Image, q, d, a)
      BY <1>6 DEF BootInv, AllSnapshotsOK
    <3> QED BY <1>0, <1>2, <3>1, <3>2, SameElsewhere
  <2> QED BY <2>2 DEF AllSnapshotsOK
<1>7. /\ \A u \in Updates \cap Activated' : UpdateCopies(u)'
      /\ \A u \in Activated' : version' = VersionOf[u]
      /\ \A q \in Updates : MayBeUndone(q, FALSE)' => AllSnapshotsOK(Image, q)'
      /\ Rollbacks \cap Activated' = {} => AllDataOK(Image)'
  <2>1. Updates \cap Activated' = {}
    BY <1>0 DEF Updates
  <2> QED BY <1>0, <1>6, <2>1 DEF BootInv
<1>8. \A u \in Rollbacks \cap Activated', q \in Updates : Undoes(u, q)' => RollbackCopies(u, q)'
  BY <1>0, <1>5, UndoesIsConstant
<1> QED BY <1>3, <1>7, <1>8 DEF BootInv, Updates, Rollbacks

LEMMA CopierSteps ==
  ASSUME Sound, IdsUsedOnce, NEW p \in Copiers, CopyStep(p)
  PROVE  DataInv'
<1>1. CopyMoves(p) /\ p \in {Main, SnapshotDe}
  BY CopyControl DEF Sound, Copiers, Procs
<1>2. UNCHANGED <<pc, vold, state, before, resumed>> /\ work[p] # <<>>
  BY <1>1 DEF CopyMoves
<1>3. pc[Main] \notin Early
  BY <1>1, <1>2 DEF Sound, PcInv, Early
<1>4. journaling' => PersistentInv'
  BY <1>2, UnderCheckpoint DEF vold
<1>5. ASSUME ~Doomed PROVE BootInv'
  <2>1. BootInv
    BY <1>3, <1>5 DEF Sound, DataInv
  <2>2. PICK s \in Activated, d \in DeDirs, a \in Names :
           Copier(d) = p /\ First(p) = CopyOf(s, d, a) /\ ~Unstarted(d)
    BY <2>1, FirstCopy
  <2>3. s \in Updates \/ s \in Rollbacks
    BY DEF Activated, In, Updates, Rollbacks
  <2> QED BY <2>1, <2>2, <2>3, SnapshotStep, RestoreStep
<1> QED BY <1>2, <1>3, <1>4, <1>5 DEF DataInv, Doomed, vold

LEMMA WorkFrame ==
  ASSUME WorkIsFor, SameCopies, UNCHANGED state
  PROVE  WorkIsFor'
<1> SUFFICES ASSUME NEW p \in Copiers
             PROVE  /\ \A i \in 1..Len(work'[p]) : \E s \in Activated', d \in DeDirs, a \in Names :
                         p = Copier(d) /\ work'[p][i] = CopyOf(s, d, a)
                    /\ \A i, j \in 1..Len(work'[p]) : work'[p][i].to = work'[p][j].to => i = j
  BY DEF WorkIsFor, CopyOf
<1>1. work'[p] = work[p] /\ Activated' = Activated
  BY DEF SameCopies, Activated, In
<1> QED BY <1>1 DEF WorkIsFor

(* An APEX writes its data: by then it is no longer needed as it was.        *)
LEMMA WriteData ==
  ASSUME Sound, NEW d0 \in DeDirs, NEW a0 \in Names, Write(d0, a0)
  PROVE  DataInv'
<1> DEFINE t == Data(d0, a0)
<1>0. /\ UNCHANGED <<state, version, pc, vold, work, step, before>> /\ pc[Main] = "activated"
      /\ t \in Places
  BY DePlaces DEF Write, copying
<1>1. /\ files' = [files EXCEPT ![t] = version] /\ spoiled' = spoiled \ {t}
      /\ work[Main] = <<>> /\ (d0 # Sys => pc[SnapshotDe] = "ready")
  BY DEF Write
<1>2. journaling' => PersistentInv'
  BY <1>0, UnderCheckpoint DEF vold
<1>3. SameBut(t)
  BY <1>1 DEF SameBut, Sound, TypeInv, TypeOK
<1>4. BootInv
  BY <1>0 DEF Sound, DataInv, Early, Doomed
<1>5. ~Unstarted(d0) /\ \A x : ~ToCopy(d0, x)
  <2>1. Len(<<>>) = 0 /\ pc[Binder] = "ready"
    BY <1>0 DEF Sound, PcInv
  <2>2. d0 # Sys => work[SnapshotDe] = <<>>
    BY <1>1 DEF Sound, PcInv
  <2> QED BY <1>1, <2>1, <2>2 DEF Unstarted, ToCopy, Copier
<1>6. SameCopies /\ Activated' = Activated
      /\ (\A d \in DeDirs : Unstarted(d)' <=> Unstarted(d))
      /\ \A q \in Updates : MayBeUndone(q, FALSE)' <=> MayBeUndone(q, FALSE)
  BY <1>0 DEF SameCopies, Activated, In, Unstarted, MayBeUndone, Undoes
<1>7. \A d \in DeDirs : \A x : ToCopy(d, x)' <=> ToCopy(d, x)
  BY <1>6, SameToCopy
<1>8. DataOK(Image, d0, a0)'
  <2>1. files'[t] = version
    BY <1>0, <1>1 DEF Sound, TypeInv, TypeOK
  <2>2. version \in Versions /\ version <= version
    BY ConstantFacts DEF Sound, TypeInv, TypeOK
  <2> QED BY <1>0, <2>1, <2>2 DEF DataOK, Image
<1> HIDE DEF t
<1>9. ASSUME NEW d \in DeDirs, NEW a \in Names
      PROVE  /\ \A q \in Updates : SnapshotOK(Image, q, d, a)' <=> SnapshotOK(Image, q, d, a)
             /\ ~(d = d0 /\ a = a0) => /\ DataOK(Image, d, a)' <=> DataOK(Image, d, a)
                                       /\ files'[Data(d, a)] = files[Data(d, a)]
                                       /\ Data(d, a) \in spoiled' <=> Data(d, a) \in spoiled
  <2>1. \A q : Snapshot(d, RollbackId[q], a) # t
    BY PlacesDiffer DEF t
  <2>2. Data(d, a) = t => d = d0 /\ a = a0
    BY PlacesDiffer DEF t
  <2> QED BY <1>0, <1>3, <2>1, <2>2, SameElsewhere
<1>10. Rollbacks \cap Activated = {} => AllDataOK(Image)'
  <2> SUFFICES ASSUME Rollbacks \cap Activated = {}, NEW d \in DeDirs, NEW a \in Names PROVE DataOK(Image, d, a)'
    BY DEF AllDataOK
  <2>1. DataOK(Image, d, a)
    BY <1>4 DEF BootInv, AllDataOK
  <2> QED BY <1>8, <1>9, <2>1
<1>11. ASSUME NEW s \in Updates \cap Activated PROVE UpdateCopies(s)'
  <2> SUFFICES ASSUME NEW d \in DeDirs, NEW a \in Names
               PROVE  IF Unstarted(d)' \/ ToCopy(d, Snapshot(d, RollbackId[s], a))'
                        THEN Data(d, a) \in spoiled' \/ WasBefore(s, d, a, files[Data(d, a)])'
                        ELSE SnapshotOK(Image, s, d, a)'
    BY DEF UpdateCopies
  <2>1. UpdateCopies(s)
    BY <1>4 DEF BootInv
  <2>2. CASE d = d0 /\ a = a0
    BY <1>5, <1>6, <1>7, <1>9, <2>1, <2>2 DEF UpdateCopies
  <2>3. CASE ~(d = d0 /\ a = a0)
    <3>1. WasBefore(s, d, a, files[Data(d, a)])' <=> WasBefore(s, d, a, files[Data(d, a)])
      BY <1>0, <1>9, <2>3 DEF WasBefore
    <3> QED BY <1>6, <1>7, <1>9, <2>1, <2>3, <3>1 DEF UpdateCopies
  <2> QED BY <2>2, <2>3
<1>12. ASSUME NEW s \in Rollbacks \cap Activated, NEW q \in Updates, Undoes(s, q) PROVE RollbackCopies(s, q)'
  <2> SUFFICES ASSUME NEW d \in DeDirs, NEW a \in Names
               PROVE  IF Unstarted(d)' \/ ToCopy(d, Data(d, a))' THEN SnapshotOK(Image, q, d, a)'
                                                                ELSE DataOK(Image, d, a)'
    BY DEF RollbackCopies
  <2>1. RollbackCopies(s, q)
    BY <1>4, <1>12 DEF BootInv
  <2>2. CASE d = d0 /\ a = a0
    BY <1>5, <1>6, <1>7, <1>8, <2>2
  <2>3. CASE ~(d = d0 /\ a = a0)
    BY <1>6, <1>7, <1>9, <2>1, <2>3 DEF RollbackCopies
  <2> QED BY <2>2, <2>3
<1>13. ASSUME NEW q \in Updates, MayBeUndone(q, FALSE)' PROVE AllSnapshotsOK(Image, q)'
  <2>1. AllSnapshotsOK(Image, q)
    BY <1>4, <1>6, <1>13 DEF BootInv
  <2> QED BY <1>9, <2>1 DEF AllSnapshotsOK
<1>14. WorkIsFor'
  BY <1>0, <1>4, <1>6, WorkFrame DEF BootInv
<1>15. /\ \A s \in Activated' : version' = VersionOf[s]
       /\ Rollbacks \cap Activated' = {} => AllDataOK(Image)'
       /\ \A s \in Updates \cap Activated' : UpdateCopies(s)'
  BY <1>0, <1>4, <1>6, <1>10, <1>11 DEF BootInv
<1>16. \A s \in Rollbacks \cap Activated', q \in Updates : Undoes(s, q)' => RollbackCopies(s, q)'
  BY <1>6, <1>12, UndoesIsConstant
<1>17. BootInv'
  BY <1>13, <1>14, <1>15, <1>16 DEF BootInv, Updates, Rollbacks
<1> QED BY <1>0, <1>2, <1>17 DEF DataInv, Early

LEMMA SubmitData ==
  ASSUME Sound, NEW s \in SessionIds, Submit(s)
  PROVE  DataInv'
<1>0. /\ pc[Main] = "activated" /\ pc[SnapshotDe] = "ready"
      /\ UNCHANGED <<pc, journaling, version, before, files, spoiled, work, step>> /\ ~journaling
      /\ state[s] = "none" /\ In(Unfinished) = {}
      /\ \A q \in SessionIds : state'[q] = IF q = s THEN "STAGED" ELSE state[q]
  BY DEF Submit, Idle, Sound, TypeInv, TypeOK, history, copying
<1>1. AllDataOK(Image) /\ \A q \in Updates : MayBeUndone(q, FALSE) => AllSnapshotsOK(Image, q)
  BY <1>0, InUseIsSound
<1>2. Activated' = {}
  BY <1>0 DEF Activated, In, Unfinished
<1>3. \A p \in Copiers : work'[p] = <<>>
  BY <1>0 DEF Sound, PcInv, Copiers
<1>4. AllDataOK(Image)'
  BY <1>0, <1>1, FilesSame, DataSame
<1>5. ASSUME NEW q \in Updates, MayBeUndone(q, FALSE)' PROVE AllSnapshotsOK(Image, q)'
  <2>1. state[q] = "SUCCESS" /\ \A t \in Rollbacks : Undoes(t, q) => state[t] \in {"none", "STAGED"}
    BY <1>0, <1>5 DEF MayBeUndone, Undoes, Rollbacks, Updates
  <2>2. AllSnapshotsOK(Image, q)
    BY <1>1, <2>1 DEF MayBeUndone
  <2> QED BY <1>0, <2>2, FilesSame, DataSame
<1>6. BootInv'
  BY <1>2, <1>3, <1>4, <1>5, BootIdle
<1> QED BY <1>0, <1>6 DEF DataInv, Early

LEMMA SuccessData ==
  ASSUME Sound, NEW s \in SessionIds, MarkStagedSessionSuccessful(s)
  PROVE  DataInv'
<1>0. /\ pc[Main] = "activated" /\ pc[SnapshotDe] = "ready"
      /\ UNCHANGED <<pc, journaling, version, before, spoiled, work, step>> /\ ~journaling
      /\ state[s] = "ACTIVATED"
      /\ \A q \in SessionIds : state'[q] = IF q = s THEN "SUCCESS" ELSE state[q]
  BY DEF MarkStagedSessionSuccessful, Idle, Sound, TypeInv, TypeOK, history, copying, vold
<1>1. files' = files
  <2>1. files' = [f \in Places |-> files[f]]
    BY DEF MarkStagedSessionSuccessful, Sound
  <2> QED BY <2>1 DEF Sound, TypeInv, TypeOK
<1>2. /\ AllDataOK(Image)
      /\ \A q \in Updates \cap Activated : AllSnapshotsOK(Image, q)
      /\ \A q \in Updates : MayBeUndone(q, FALSE) => AllSnapshotsOK(Image, q)
  BY <1>0, InUseIsSound
<1>3. Activated' = {}
  <2> SUFFICES ASSUME NEW t \in SessionIds, state'[t] = "ACTIVATED" PROVE FALSE
    BY DEF Activated, In
  <2>1. t # s /\ state[t] = "ACTIVATED"
    BY <1>0
  <2> QED BY <1>0, <2>1, NoOtherIsUnderWay DEF Unfinished
<1>4. \A p \in Copiers : work'[p] = <<>>
  BY <1>0 DEF Sound, PcInv, Copiers
<1>5. AllDataOK(Image)'
  BY <1>0, <1>1, <1>2, FilesSame, DataSame
<1>6. ASSUME NEW q \in Updates, MayBeUndone(q, FALSE)' PROVE AllSnapshotsOK(Image, q)'
  <2>1. CASE q = s
    <3>1. q \in Activated
      BY <1>0, <2>1 DEF Activated, In
    <3> QED BY <1>0, <1>1, <1>2, <3>1, FilesSame, DataSame
  <2>2. CASE q # s
    <3>1. state[q] = "SUCCESS" /\ \A t \in Rollbacks : Undoes(t, q) => state[t] \in {"none", "STAGED"}
      BY <1>0, <1>6, <2>2 DEF MayBeUndone, Undoes, Rollbacks, Updates
    <3>2. AllSnapshotsOK(Image, q)
      BY <1>2, <3>1 DEF MayBeUndone
    <3> QED BY <1>0, <1>1, <3>2, FilesSame, DataSame
  <2> QED BY <2>1, <2>2
<1>7. BootInv'
  BY <1>3, <1>4, <1>5, <1>6, BootIdle
<1> QED BY <1>0, <1>7 DEF DataInv, Early

(* A client destroys the snapshots of one rollback ID, and no others.        *)
LEMMA DestroyData ==
  ASSUME Sound, NEW r \in Ids, DestroyDeSnapshots(r)
  PROVE  DataInv'
<1>0. /\ pc[Main] = "activated" /\ pc[SnapshotDe] = "ready" /\ In(Unfinished) = {}
      /\ UNCHANGED <<state, pc, vold, version, before, work, step>>
  BY DEF DestroyDeSnapshots, Idle, copying
<1>1. /\ \A f \in Places : f.sub # "snapshot" \/ f.id # r => files'[f] = files[f]
      /\ \A f \in Places : f.sub # "snapshot" \/ f.id # r => (f \in spoiled' <=> f \in spoiled)
      /\ \A d \in DeDirs, a \in Names : Snapshot(d, r, a) \in spoiled'
  BY DEF DestroyDeSnapshots, Destroyed, Snapshot
<1>2. /\ AllDataOK(Image) /\ \A q \in Updates : MayBeUndone(q, FALSE) => AllSnapshotsOK(Image, q)
  BY <1>0, InUseIsSound
<1>3. journaling' => PersistentInv'
  BY <1>0, UnderCheckpoint DEF vold
<1>4. Activated' = {} /\ \A p \in Copiers : work'[p] = <<>>
  BY <1>0 DEF Activated, In, Unfinished, Sound, PcInv, Copiers
<1>5. AllDataOK(Image)'
  <2> SUFFICES ASSUME NEW d \in DeDirs, NEW a \in Names PROVE DataOK(Image, d, a)'
    BY DEF AllDataOK
  <2>1. Data(d, a) \in Places /\ Data(d, a).sub # "snapshot"
    BY DePlaces DEF Data
  <2>2. DataOK(Image, d, a)
    BY <1>2 DEF AllDataOK
  <2> QED BY <1>0, <1>1, <2>1, <2>2 DEF DataOK, Image
<1>6. ASSUME NEW q \in Updates, MayBeUndone(q, FALSE)' PROVE AllSnapshotsOK(Image, q)'
  <2> SUFFICES ASSUME NEW d \in DeDirs, NEW a \in Names PROVE SnapshotOK(Image, q, d, a)'
    BY DEF AllSnapshotsOK
  <2>1. CASE RollbackId[q] = r
    BY <1>1, <2>1 DEF SnapshotOK, Image
  <2>2. CASE RollbackId[q] # r
    <3>1. Snapshot(d, RollbackId[q], a) \in Places /\ Snapshot(d, RollbackId[q], a).id # r
      <4>1. Snapshot(d, RollbackId[q], a).id = RollbackId[q]
        BY DEF Snapshot
      <4> QED BY <2>2, <4>1, DePlaces DEF Updates
    <3>2. MayBeUndone(q, FALSE)
      BY <1>0, <1>6 DEF MayBeUndone, Undoes
    <3>3. SnapshotOK(Image, q, d, a)
      BY <1>2, <3>2 DEF AllSnapshotsOK
    <3> QED BY <1>0, <1>1, <3>1, <3>3 DEF SnapshotOK, WasBefore, Image
  <2> QED BY <2>1, <2>2
<1>7. BootInv'
  BY <1>4, <1>5, <1>6, BootIdle
<1> QED BY <1>0, <1>3, <1>7 DEF DataInv, Early

(* What touches CE data only.                                              *)
LEMMA CeData ==
  ASSUME Sound,
         \/ CopyStep(Binder)
         \/ \E d \in CeDirs : \E retain : DestroyCeSnapshotsNotSpecified(d, retain)
         \/ \E d \in CeDirs : \E r \in Ids : \E a \in Names : SnapshotOrRestoreCeData(d, r, a)
         \/ UNCHANGED vars
  PROVE  DataInv'
<1>0. Binder \notin Copiers /\ Binder \in Procs /\ Copiers \subseteq Procs
  BY ConstantFacts DEF Copiers
<1>1. CASE CopyStep(Binder)
  <2>1. CopyMoves(Binder)
    BY <1>0, <1>1, CopyControl DEF Sound
  <2>2. SameCopies
    BY <1>0, <2>1 DEF CopyMoves, SameCopies
  <2> QED BY <1>1, <2>1, <2>2, BinderCopies, DataFrame DEF Sound, CopyMoves
<1>2. ASSUME NEW d \in CeDirs, NEW retain, DestroyCeSnapshotsNotSpecified(d, retain) PROVE DataInv'
  <2>1. UNCHANGED <<state, version, pc, vold, work, step, before, spoiled, resumed>>
    BY <1>2 DEF DestroyCeSnapshotsNotSpecified, copying, history
  <2>2. DeSame
    <3>1. \A f \in Places : f.dir \in DeDirs => files'[f] = files[f]
      BY <1>2, DirsAssumption DEF DestroyCeSnapshotsNotSpecified, Destroyed
    <3> QED BY <2>1, <3>1 DEF DeSame
  <2> QED BY <2>1, <2>2, DataFrame DEF SameCopies
<1>3. ASSUME NEW d \in CeDirs, NEW r \in Ids, NEW a \in Names, SnapshotOrRestoreCeData(d, r, a) PROVE DataInv'
  <2>1. UNCHANGED <<files, state, version, pc, vold, step, before, spoiled, resumed>>
    BY <1>3 DEF SnapshotOrRestoreCeData, storage, history
  <2>2. \A p \in Copiers : work'[p] = work[p]
    BY <1>0, <1>3 DEF SnapshotOrRestoreCeData, Sound, TypeInv, WorkInv
  <2> QED BY <2>1, <2>2, FilesSame, DataFrame DEF SameCopies
<1>4. CASE UNCHANGED vars
  BY <1>4, FilesSame, DataFrame DEF vars, storage, copying, history, SameCopies
<1> QED BY <1>1, <1>2, <1>3, <1>4

LEMMA CommitData ==
  ASSUME Sound, CommitChanges
  PROVE  DataInv'
<1>0. /\ pc[Main] = "activated" /\ pc[SnapshotDe] = "ready" /\ ~journaling'
      /\ UNCHANGED <<files, spoiled, state, version, before, pc, work, step>>
  BY DEF CommitChanges, storage, history, copying
<1>1. BootInv /\ SameCopies /\ SameStarts
  BY <1>0 DEF Sound, DataInv, Early, Doomed, SameCopies, SameStarts, Unstarted
<1>2. BootInv'
  BY <1>0, <1>1, FilesSame, BootFrame
<1> QED BY <1>0, <1>2 DEF DataInv, Early

(* The steps of a boot, of apexd --snapshotde and of a client.               *)
LEMMA BootSteps ==
  ASSUME Sound, IdsUsedOnce,
         \/ NeedsRollback \/ ScanStagedSessionsDirAndStage \/ ResumeRevertIfNeeded
         \/ SnapshotOrRestoreDeSysData \/ OnAllPackagesActivated
         \/ ActivationFails \/ UpdatableCrashing \/ RestoreFails \/ RestoreActivePackages \/ FinishRevert
  PROVE  DataInv'
<1>0. /\ TypeOK /\ Main \in Procs /\ SnapshotDe \in Procs /\ Binder \in Procs
      /\ Main # SnapshotDe /\ Main # Binder /\ SnapshotDe # Binder
      /\ TypeInv /\ PcInv /\ supportsFsCheckpoints
  BY ConstantFacts DEF Sound, TypeInv
<1>1. CASE ResumeRevertIfNeeded
  <2>1. /\ pc[Main] = "resume" /\ UNCHANGED <<files, version, vold, before, spoiled, work, step>>
        /\ pc[Binder] = "off"
    BY <1>0, <1>1 DEF ResumeRevertIfNeeded, copying, history, PcInv
  <2>2. CASE resumed'
    BY <1>1, <2>1, <2>2, RevertData DEF ResumeRevertIfNeeded
  <2>3. CASE ~resumed'
    <3>1. /\ UNCHANGED state /\ pc'[Main] = "sys" /\ pc'[Binder] = pc[Binder] /\ pc'[SnapshotDe] = pc[SnapshotDe]
      BY <1>0, <1>1, <2>3, GotoFacts DEF ResumeRevertIfNeeded
    <3>2. SameCopies /\ SameStarts
      BY <2>1, <3>1 DEF SameCopies, SameStarts, Unstarted
    <3> QED BY <2>1, <3>1, <3>2, StepData DEF Early, Doomed
  <2> QED BY <2>2, <2>3
<1>2. CASE ActivationFails \/ UpdatableCrashing
  <2>1. ~resumed
    BY <1>0, <1>2 DEF ActivationFails, UpdatableCrashing, PcInv
  <2> QED BY <1>2, <2>1, RevertData DEF ActivationFails, UpdatableCrashing, copying, history
<1>3. CASE SnapshotOrRestoreDeSysData
  <2>1. /\ pc[Main] = "sys" /\ pc[Binder] = "off" /\ pc'[Main] = "sys" /\ pc'[Binder] = "start"
        /\ pc'[SnapshotDe] = pc[SnapshotDe]
        /\ UNCHANGED <<files, state, version, vold, step, before, spoiled>>
    BY <1>0, <1>3 DEF SnapshotOrRestoreDeSysData, TypeOK, storage, history
  <2>2. work' = [work EXCEPT ![Main] = SysWork] /\ SysWork \in Seq(Copies)
    BY <1>3, SysWorkTyped DEF SnapshotOrRestoreDeSysData, SysWork
  <2>3. AreCopies(SysWork, {Sys})
    <3>1. \A s, q \in In({"ACTIVATED"}) : s = q
      BY NoOtherIsUnderWay DEF In, Unfinished
    <3> QED BY <1>0, <3>1, SysWorkTyped
  <2>4. work[Main] = <<>>
    BY <1>0, <2>1 DEF PcInv
  <2>5. /\ {Sys} \in SUBSET DeDirs /\ Main \in Copiers
        /\ \A d \in DeDirs : Copier(d) = Main <=> d \in {Sys}
    BY <1>0 DEF DeDirs, Copiers, Copier
  <2>6. /\ \A d \in {Sys} : Unstarted(d) /\ ~Unstarted(d)'
        /\ \A d \in DeDirs \ {Sys} : Unstarted(d)' <=> Unstarted(d)
        /\ pc[Main] \notin Early /\ pc'[Main] \notin Early /\ ~Doomed
    BY <2>1 DEF Unstarted, Early, Doomed
  <2> QED BY <2>1, <2>2, <2>3, <2>4, <2>5, <2>6, StartCopies
<1>4. CASE OnAllPackagesActivated
  <2>1. /\ pc[Main] = "sys" /\ pc[Binder] = "start" /\ pc'[Main] = "activated" /\ pc'[Binder] = "ready"
        /\ pc'[SnapshotDe] = pc[SnapshotDe]
        /\ UNCHANGED <<files, state, version, vold, work, step, before, spoiled>>
    BY <1>0, <1>4 DEF OnAllPackagesActivated, TypeOK, storage, copying, history
  <2>2. SameCopies /\ SameStarts
    BY <2>1 DEF SameCopies, SameStarts, Unstarted
  <2> QED BY <2>1, <2>2, StepData DEF Early, Doomed
<1>5. CASE RestoreFails \/ RestoreActivePackages
  BY <1>0, <1>5 DEF RestoreFails, RestoreActivePackages, PcInv
<1> QED BY <1>1, <1>2, <1>3, <1>4, <1>5, NeedsRollbackData, ScanData, FinishRevertData

LEMMA UserSteps ==
  ASSUME Sound, SnapshotOrRestoreDeUserData \/ OnAllPackagesReady
  PROVE  DataInv'
<1>0. /\ TypeOK /\ Main \in Procs /\ SnapshotDe \in Procs /\ Binder \in Procs
      /\ Main # SnapshotDe /\ Main # Binder /\ SnapshotDe # Binder
      /\ TypeInv /\ PcInv /\ supportsFsCheckpoints
  BY ConstantFacts DEF Sound, TypeInv
<1>1. CASE SnapshotOrRestoreDeUserData
  <2>1. /\ pc[SnapshotDe] = "off" /\ pc[Binder] = "ready" /\ pc'[SnapshotDe] = "user"
        /\ pc'[Main] = pc[Main] /\ pc'[Binder] = pc[Binder]
        /\ UNCHANGED <<files, state, version, vold, step, before, spoiled, resumed>>
    BY <1>0, <1>1, GotoFacts DEF SnapshotOrRestoreDeUserData, storage, history
  <2>2. work' = [work EXCEPT ![SnapshotDe] = UserWork] /\ UserWork \in Seq(Copies)
    BY <1>1, UserWorkTyped DEF SnapshotOrRestoreDeUserData, UserWork
  <2>3. AreCopies(UserWork, UserDirs)
    <3>1. \A s, q \in In({"ACTIVATED"}) : s = q
      BY NoOtherIsUnderWay DEF In, Unfinished
    <3> QED BY <1>0, <3>1, UserWorkTyped
  <2>4. work[SnapshotDe] = <<>>
    BY <1>0, <2>1 DEF PcInv
  <2>5. /\ UserDirs \in SUBSET DeDirs /\ SnapshotDe \in Copiers
        /\ \A d \in DeDirs : Copier(d) = SnapshotDe <=> d \in UserDirs
    BY <1>0, DirsAssumption DEF DeDirs, Copiers, Copier
  <2>6. /\ \A d \in UserDirs : Unstarted(d) /\ ~Unstarted(d)'
        /\ \A d \in DeDirs \ UserDirs : Unstarted(d)' <=> Unstarted(d)
    BY <2>1, DirsAssumption DEF Unstarted, DeDirs
  <2>7. pc[Main] \notin Early /\ pc'[Main] \notin Early /\ (Doomed => Doomed')
    BY <1>0, <2>1 DEF PcInv, Early, Doomed, vold
  <2> QED BY <2>1, <2>2, <2>3, <2>4, <2>5, <2>6, <2>7, StartCopies
<1>2. CASE OnAllPackagesReady
  <2>1. /\ pc[SnapshotDe] = "user" /\ pc'[SnapshotDe] = "ready"
        /\ pc'[Main] = pc[Main] /\ pc'[Binder] = pc[Binder]
        /\ UNCHANGED <<files, state, version, vold, work, step, before, spoiled, resumed>>
    BY <1>0, <1>2, GotoFacts DEF OnAllPackagesReady, storage, copying, history
  <2>2. pc[Main] \notin Early
    BY <1>0, <2>1 DEF PcInv, Early
  <2>3. SameCopies /\ SameStarts
    BY <2>1 DEF SameCopies, SameStarts, Unstarted
  <2> QED BY <2>1, <2>2, <2>3, StepData DEF Doomed, vold
<1> QED BY <1>1, <1>2

LEMMA DataKept ==
  ASSUME Sound, IdsUsedOnce, [Next]_vars
  PROVE  DataInv'
<1>1. CASE PowerLoss \/ RebootToInstall \/ Reboot
  BY <1>1, PowerOffData DEF PowerLoss, RebootToInstall, Reboot
<1>2. CASE Request
  <2>1. \A d \in CeDirs : \A r \in Ids : DestroyCeSnapshots(d, r) => \E retain : DestroyCeSnapshotsNotSpecified(d, retain)
    BY DEF DestroyCeSnapshots
  <2> QED BY <1>2, <2>1, SubmitData, SuccessData, DestroyData, CeData DEF Request
<1>3. CASE CopyStep(Main) \/ CopyStep(SnapshotDe)
  BY <1>3, CopierSteps DEF Copiers
<1>4. CASE CopyStep(Binder) \/ UNCHANGED vars
  BY <1>4, CeData
<1>5. CASE \E d \in DeDirs : \E a \in Names : Write(d, a)
  BY <1>5, WriteData
<1>6. CASE SnapshotOrRestoreDeUserData \/ OnAllPackagesReady
  BY <1>6, UserSteps
<1> QED BY <1>1, <1>2, <1>3, <1>4, <1>5, <1>6, BootData, CommitData, BootSteps
     DEF Next, MainStep, SnapshotDeStep

LEMMA SupportIsFixed ==
  ASSUME [Next]_vars
  PROVE  supportsFsCheckpoints' = supportsFsCheckpoints
<1> USE DEF vold
<1>1. ASSUME NEW p, CopyStep(p) PROVE supportsFsCheckpoints' = supportsFsCheckpoints
  BY <1>1 DEF CopyStep, RemoveTarget, CreateTarget, FinishCopy, CopyFails, DeleteSource
<1>2. Boot \/ PowerLoss \/ RebootToInstall \/ CommitChanges \/ (\E d \in DeDirs : \E a \in Names : Write(d, a))
        => supportsFsCheckpoints' = supportsFsCheckpoints
  BY DEF Boot, PowerLoss, RebootToInstall, CommitChanges, Write, PowerOff
<1>3. MainStep => supportsFsCheckpoints' = supportsFsCheckpoints
  BY <1>1 DEF MainStep, NeedsRollback, ScanStagedSessionsDirAndStage, ResumeRevertIfNeeded,
       SnapshotOrRestoreDeSysData, OnAllPackagesActivated, ActivationFails, UpdatableCrashing, RestoreFails,
       RestoreActivePackages, FinishRevert, Reboot, PowerOff
<1>4. SnapshotDeStep => supportsFsCheckpoints' = supportsFsCheckpoints
  BY <1>1 DEF SnapshotDeStep, SnapshotOrRestoreDeUserData, OnAllPackagesReady
<1>5. Request => supportsFsCheckpoints' = supportsFsCheckpoints
  <2>1. \A s : Submit(s) \/ MarkStagedSessionSuccessful(s) => supportsFsCheckpoints' = supportsFsCheckpoints
    BY DEF Submit, MarkStagedSessionSuccessful
  <2>2. \A r : DestroyDeSnapshots(r) => supportsFsCheckpoints' = supportsFsCheckpoints
    BY DEF DestroyDeSnapshots
  <2>3. \A d, retain : DestroyCeSnapshotsNotSpecified(d, retain) => supportsFsCheckpoints' = supportsFsCheckpoints
    BY DEF DestroyCeSnapshotsNotSpecified
  <2>4. \A d, r, a : SnapshotOrRestoreCeData(d, r, a) => supportsFsCheckpoints' = supportsFsCheckpoints
    BY DEF SnapshotOrRestoreCeData
  <2> QED BY <2>1, <2>2, <2>3, <2>4 DEF Request, DestroyCeSnapshots
<1> QED BY <1>1, <1>2, <1>3, <1>4, <1>5 DEF Next, vars

---------------------------------------------------------------------------
(* The invariant, and what it says of the data that is in use.              *)
SafeInv == TypeInv /\ (supportsFsCheckpoints => PcInv /\ SessionInv /\ DataInv)

LEMMA SafeInit == Init => SafeInv
<1> SUFFICES ASSUME Init, supportsFsCheckpoints PROVE PcInv /\ SessionInv /\ DataInv
  BY TypeInit DEF SafeInv
<1>0. /\ \A p \in Procs : pc[p] = "off" /\ work[p] = <<>> /\ step[p] = "remove"
      /\ \A s \in SessionIds : state[s] = "none"
      /\ ~journaling /\ ~resumed /\ attempts = -1 /\ Persistent = Image
      /\ version = InitVersion /\ spoiled = {}
      /\ files = [f \in Places |-> IF f.sub = "data" THEN InitVersion ELSE Nothing]
  BY DEF Init, Persistent
<1>1. PcInv
  BY <1>0, ConstantFacts DEF PcInv, Copiers, Early
<1>2. SessionInv
  BY <1>0, ConstantFacts DEF SessionInv, CheckpointInv, OneUnderWay, Protected, RollsBack, NoDowngrade,
       In, Unfinished, Rollbacks, Updates
<1>3. AllDataOK(Image)
  <2> SUFFICES ASSUME NEW d \in DeDirs, NEW a \in Names PROVE DataOK(Image, d, a)
    BY DEF AllDataOK
  <2>1. files[Data(d, a)] = InitVersion
    BY <1>0, DePlaces DEF Data
  <2>2. InitVersion \in Versions /\ InitVersion <= InitVersion
    BY ConstantFacts
  <2> QED BY <1>0, <2>1, <2>2 DEF DataOK, Image
<1>4. PersistentInv
  <2>1. \A q \in Updates : ~MayBeUndone(q, Uncommitted)
    BY <1>0 DEF MayBeUndone, Updates
  <2> QED BY <1>0, <1>3, <2>1 DEF PersistentInv
<1> QED BY <1>0, <1>1, <1>2, <1>4, ConstantFacts DEF DataInv, Early

LEMMA SafeKept ==
  ASSUME IdsUsedOnce, SafeInv, [Next]_vars
  PROVE  SafeInv'
<1>1. TypeInv'
  BY TypeKept DEF SafeInv
<1>2. ASSUME supportsFsCheckpoints' PROVE PcInv' /\ SessionInv' /\ DataInv'
  <2>1. Sound
    BY <1>2, SupportIsFixed DEF SafeInv, Sound
  <2> QED BY <2>1, PcKept, SessionKept, DataKept DEF Sound
<1> QED BY <1>1, <1>2 DEF SafeInv

LEMMA SafeAlways == ASSUME IdsUsedOnce PROVE Spec => []SafeInv
<1>1. SafeInv /\ [Next]_vars => SafeInv'
  BY SafeKept
<1> QED BY <1>1, SafeInit, PTL DEF Spec

LEMMA InUseData ==
  ASSUME SafeInv, supportsFsCheckpoints, InUse
  PROVE  /\ AllDataOK(Image)
         /\ \A s \in Updates \cap Activated : AllSnapshotsOK(Image, s)
         /\ \A q \in Updates : MayBeUndone(q, FALSE) => AllSnapshotsOK(Image, q)
<1>1. Sound
  BY DEF SafeInv, Sound
<1> QED BY <1>1, InUseIsSound DEF InUse

(* A rollback has its data restored before APEXes are ready, wherever power   *)
(* was lost and whatever ReplaceFiles had removed, however many sessions      *)
(* there are: no APEX finds data of a version newer than its own.            *)
THEOREM DataFitsVersion == ASSUME IdsUsedOnce PROVE Spec => []DataIsNotNewer
<1>1. SafeInv => DataIsNotNewer
  <2> SUFFICES ASSUME SafeInv, supportsFsCheckpoints, InUse, NEW d \in DeDirs, NEW a \in Names
               PROVE  Data(d, a) \in spoiled \/ files[Data(d, a)] <= version
    BY DEF DataIsNotNewer
  <2>1. DataOK(Image, d, a)
    BY InUseData DEF AllDataOK
  <2> QED BY <2>1 DEF DataOK, Image
<1> QED BY <1>1, SafeAlways, PTL

(* A removal before a copy, a boot that copies again and a boot that vold     *)
(* takes back leave every APEX the data of some version.                    *)
THEOREM DataStays == ASSUME IdsUsedOnce PROVE Spec => []NoDataIsLost
<1>1. SafeInv => NoDataIsLost
  <2> SUFFICES ASSUME SafeInv, supportsFsCheckpoints, InUse, NEW d \in DeDirs, NEW a \in Names
               PROVE  Data(d, a) \in spoiled \/ files[Data(d, a)] \in Versions
    BY DEF NoDataIsLost
  <2>1. DataOK(Image, d, a)
    BY InUseData DEF AllDataOK
  <2> QED BY <2>1 DEF DataOK, Image
<1> QED BY <1>1, SafeAlways, PTL

(* The snapshot of an update that may yet be rolled back is the data there    *)
(* was when it was activated, although later boots scan its session again.   *)
THEOREM SnapshotStays == ASSUME IdsUsedOnce PROVE Spec => []SnapshotIsOriginal
<1>1. SafeInv => SnapshotIsOriginal
  <2> SUFFICES ASSUME SafeInv, supportsFsCheckpoints, InUse, NEW s \in In({"ACTIVATED", "SUCCESS"}),
                      ~IsRollback[s], ~\E q \in SessionIds : IsRollback[q] /\ state[q] # "none",
                      NEW d \in DeDirs, NEW a \in Names
               PROVE  \/ Snapshot(d, RollbackId[s], a) \in spoiled
                      \/ files[Snapshot(d, RollbackId[s], a)] = before[s].data[<<d, a>>]
    BY DEF SnapshotIsOriginal
  <2>1. s \in Updates /\ (s \in Activated \/ state[s] = "SUCCESS")
    BY DEF In, Updates, Activated
  <2>2. state[s] = "SUCCESS" => MayBeUndone(s, FALSE)
    BY <2>1 DEF MayBeUndone, Rollbacks
  <2>3. AllSnapshotsOK(Image, s)
    BY <2>1, <2>2, InUseData
  <2>4. SnapshotOK(Image, s, d, a)
    BY <2>3 DEF AllSnapshotsOK
  <2> QED BY <2>4 DEF SnapshotOK, WasBefore, Image
<1> QED BY <1>1, SafeAlways, PTL
---------------------------------------------------------------------------
(* Devices without checkpoints.  There a crash is undone by copying back the *)
(* data that was set aside before the rollback's snapshots were restored, and *)
(* the backup of the active APEXes serves once.                            *)

NoCheckpoint == ~supportsFsCheckpoints /\ ~journaling

(* The processes of a boot, when a rollback is reverted only in use.         *)
RevertPcInv ==
  /\ pc[Main] \notin {"user", "ready"}
  /\ pc[Binder] \in {"off", "start", "ready"} /\ pc[SnapshotDe] \in {"off", "user", "ready"}
  /\ pc[Main] \in Early \cup {"resume"} => pc[Binder] = "off"
  /\ pc[Binder] # "ready" => pc[SnapshotDe] = "off"
  /\ pc[Main] = "sys" => pc[Binder] # "ready"
  /\ pc[Binder] = "start" => pc[Main] = "sys"
  /\ pc[Main] = "activated" => pc[Binder] = "ready"
  /\ pc[Main] \in {"restore", "undo"} => pc[Binder] = "off" \/ pc[SnapshotDe] = "ready"
  /\ resumed => pc[Main] \in {"restore", "undo"} /\ pc[Binder] = "off"
  /\ work[Main] # <<>> => (pc[Main] = "sys" /\ pc[Binder] = "start") \/ pc[Main] = "undo"
  /\ work[SnapshotDe] # <<>> => pc[SnapshotDe] = "user"
  /\ \A p \in Copiers : work[p] = <<>> => step[p] = "remove"
  /\ \A p \in Copiers : step[p] = "delete" => First(p).move

Reverting == In({"REVERT_IN_PROGRESS"})
RevertStateInv ==
  /\ OneUnderWay
  /\ Reverting # {} => pc[Main] \in Early \cup {"resume", "restore", "undo"}
  /\ pc[Main] \in {"resume", "sys", "restore", "undo"} => In({"STAGED"}) = {}
  /\ pc[Main] \in {"restore", "undo", "reboot"} => Activated = {}
  /\ pc[Main] = "undo" => backup = Nothing
  /\ \A s \in SessionIds : state[s] \in {"ACTIVATED", "REVERT_IN_PROGRESS"} => before[s].version # Nothing

AsideOf(s, d, a) ==
  [from |-> Data(d, a), to |-> PreRestore(d, RollbackId[s], a), move |-> FALSE]
RestoreOf(s, d, a) ==
  [from |-> Snapshot(d, RollbackId[s], a), to |-> Data(d, a), move |-> TRUE]
UndoOf(s, d, a) ==
  [from |-> PreRestore(d, RollbackId[s], a), to |-> Data(d, a), move |-> TRUE]

IsBefore(s, d, a, place) == place \in spoiled \/ files[place] = before[s].data[<<d, a>>]
IsAside(s, d, a) == IsBefore(s, d, a, PreRestore(d, RollbackId[s], a))

(* While a rollback is activated: its data is as it was, or set aside.       *)
SetAside(s) ==
  /\ \A p \in Copiers :
       /\ \A i \in 1..Len(work[p]) : \E d \in DeDirs, a \in Names :
            p = Copier(d) /\ work[p][i] \in {AsideOf(s, d, a), RestoreOf(s, d, a)}
       /\ OneTarget(work[p]) /\ RestoredNext(work[p])
  /\ \A d \in DeDirs, a \in Names :
       IF Unstarted(d) \/ ToCopy(d, PreRestore(d, RollbackId[s], a))
         THEN IsBefore(s, d, a, Data(d, a)) ELSE IsAside(s, d, a)

(* While it is undone: the data is set aside still, or back.                *)
ToUndo(place) == \E i \in 1..Len(work[Main]) :
  work[Main][i].to = place /\ (i = 1 => step[Main] # "delete")
Undoing(s) ==
  /\ \A i \in 1..Len(work[Main]) : \E d \in DeDirs, a \in Names : work[Main][i] = UndoOf(s, d, a)
  /\ OneTarget(work[Main])
  /\ \A d \in DeDirs, a \in Names :
       IF ToUndo(Data(d, a)) THEN IsAside(s, d, a) ELSE IsBefore(s, d, a, Data(d, a))

Tracked == Rollbacks \ again
RevertDataInv == \A s \in Tracked :
  /\ state[s] = "ACTIVATED" /\ pc[Main] \notin Early => SetAside(s)
  /\ state[s] = "REVERT_IN_PROGRESS" /\ pc[Main] = "undo" => Undoing(s)
  /\ state[s] = "REVERT_IN_PROGRESS" /\ pc[Main] # "undo" /\ backup # Nothing =>
       \A d \in DeDirs, a \in Names : IsAside(s, d, a)


(* A set of sequences that concatenation does not leave.                    *)
LEMMA FlattenIn ==
  ASSUME NEW C, NEW W \in SUBSET Seq(C), <<>> \in W, \A u, v \in W : u \o v \in W, NEW seqs \in Seq(W)
  PROVE  FlattenSeq(seqs) \in W
<1> DEFINE n == Len(seqs)
<1>0. n \in Nat /\ \A i \in 1..n : seqs[i] \in W
  OBVIOUS
<1>1. CASE n = 0
  <2>1. FlattenSeq(seqs) = seqs /\ seqs = <<>>
    BY <1>1 DEF FlattenSeq
  <2> QED BY <2>1
<1>2. CASE n # 0
  <2> DEFINE fl == CHOOSE f : f = [i \in 1..n |-> IF i = 1 THEN seqs[i] ELSE f[i - 1] \o seqs[i]]
  <2>1. FlattenSeq(seqs) = fl[n]
    BY <1>2 DEF FlattenSeq
  <2>2. \E f : f = [i \in 1..n |-> IF i = 1 THEN seqs[i] ELSE f[i - 1] \o seqs[i]]
    BY <1>0, FlattenExists DEF IsFlatten, FlattenStep
  <2>3. fl = [i \in 1..n |-> IF i = 1 THEN seqs[i] ELSE fl[i - 1] \o seqs[i]]
    BY <2>2
  <2> HIDE DEF fl
  <2> DEFINE T == {k \in Nat : k \in 1..n => fl[k] \in W}
  <2>4. 0 \in T
    OBVIOUS
  <2>5. ASSUME NEW k \in T PROVE k + 1 \in T
    <3>1. CASE k + 1 \notin 1..n
      BY <3>1
    <3>2. CASE k + 1 \in 1..n /\ k = 0
      <4>1. fl[1] = seqs[1] /\ 1 \in 1..n
        BY <2>3, <3>2
      <4> QED BY <1>0, <3>2, <4>1
    <3>3. CASE k + 1 \in 1..n /\ k # 0
      <4>1. k \in 1..n /\ k + 1 # 1 /\ (k + 1) - 1 = k
        BY <3>3
      <4>2. fl[k + 1] = fl[k] \o seqs[k + 1]
        BY <2>3, <3>3, <4>1
      <4>3. fl[k] \in W /\ seqs[k + 1] \in W
        BY <1>0, <3>3, <4>1
      <4>4. fl[k + 1] \in W
        BY <4>2, <4>3
      <4> QED BY <4>4
    <3> QED BY <3>1, <3>2, <3>3
  <2>6. T \in SUBSET Nat
    OBVIOUS
  <2> HIDE DEF T
  <2>7. T = Nat
    BY <2>4, <2>5, <2>6, NatSetInduction
  <2>8. n \in T /\ n \in 1..n
    BY <1>0, <1>2, <2>7
  <2> QED BY <2>1, <2>8 DEF T
<1> QED BY <1>1, <1>2

LEMMA ForEachIn ==
  ASSUME NEW C, NEW W \in SUBSET Seq(C), <<>> \in W, \A u, v \in W : u \o v \in W,
         NEW S, IsFiniteSet(S), NEW op \in [S -> W]
  PROVE  ForEachOf(S, op) \in W
<1>1. \A i \in 1..Cardinality(S) : SetToSeq(S)[i] \in S
  BY SetToSeqFacts
<1>2. Cardinality(S) \in Nat
  BY SetToSeqFacts
<1>3. [i \in 1..Cardinality(S) |-> op[SetToSeq(S)[i]]] \in Seq(W)
  BY <1>1, <1>2
<1> QED BY <1>3, FlattenIn DEF ForEachOf

(* Over a single element.                                                  *)
LEMMA FlattenOne ==
  ASSUME NEW seqs, Len(seqs) = 1, seqs # <<>>
  PROVE  FlattenSeq(seqs) = seqs[1]
<1> DEFINE fl == CHOOSE f : f = [i \in 1..1 |-> IF i = 1 THEN seqs[i] ELSE f[i - 1] \o seqs[i]]
<1>1. \E f : f = [i \in 1..1 |-> IF i = 1 THEN seqs[i] ELSE f[i - 1] \o seqs[i]]
  <2>1. \E f : IsFlatten(f, seqs, 1)
    BY FlattenExists
  <2> QED BY <2>1 DEF IsFlatten, FlattenStep
<1>2. fl = [i \in 1..1 |-> IF i = 1 THEN seqs[i] ELSE fl[i - 1] \o seqs[i]]
  BY <1>1
<1>3. FlattenSeq(seqs) = fl[1]
  BY DEF FlattenSeq
<1> HIDE DEF fl
<1>4. fl[1] = seqs[1]
  BY <1>2
<1> QED BY <1>3, <1>4

LEMMA ForEachOne ==
  ASSUME NEW x, NEW C, NEW op \in [{x} -> Seq(C)]
  PROVE  ForEachOf({x}, op) = op[x]
<1>1. Cardinality({x}) = 1 /\ IsFiniteSet({x})
  BY FS_Singleton
<1>2. SetToSeq({x})[1] = x
  BY <1>1, SetToSeqFacts
<1> DEFINE seqs == [i \in 1..Cardinality({x}) |-> op[SetToSeq({x})[i]]]
<1>3. \A o : [i \in 1..1 |-> o[i]][1] = o[1] /\ Len([i \in 1..1 |-> o[i]]) = 1 /\ [i \in 1..1 |-> o[i]] # <<>>
  OBVIOUS
<1>4. seqs = [i \in 1..1 |-> op[SetToSeq({x})[i]]]
  BY <1>1
<1> HIDE DEF seqs
<1>5. seqs[1] = op[x] /\ seqs = [i \in 1..1 |-> seqs[i]]
  BY <1>2, <1>4
<1>6. Len(seqs) = 1 /\ seqs # <<>>
  BY <1>3, <1>5
<1> QED BY <1>5, <1>6, FlattenOne DEF ForEachOf, seqs

(* Sequences of copies that set data aside right before it is restored.      *)
Paired == {r \in Seq(Copies) : RestoredNext(r)}

LEMMA PairedConcat == <<>> \in Paired /\ \A u, v \in Paired : u \o v \in Paired
<1>1. <<>> \in Paired
  <2>1. <<>> \in Seq(Copies) /\ Len(<<>>) = 0
    OBVIOUS
  <2> QED BY <2>1 DEF Paired, RestoredNext
<1>2. ASSUME NEW u \in Paired, NEW v \in Paired PROVE u \o v \in Paired
  <2> DEFINE w == u \o v
  <2>1. u \in Seq(Copies) /\ v \in Seq(Copies) /\ RestoredNext(u) /\ RestoredNext(v)
    BY DEF Paired
  <2>2. /\ w \in Seq(Copies) /\ Len(w) = Len(u) + Len(v) /\ Len(u) \in Nat /\ Len(v) \in Nat
        /\ \A l \in 1..Len(u) : l \in 1..Len(w) /\ w[l] = u[l]
        /\ \A l \in 1..Len(v) : l + Len(u) \in 1..Len(w) /\ w[l + Len(u)] = v[l]
        /\ \A l \in 1..Len(w) : l \notin 1..Len(u) => l - Len(u) \in 1..Len(v) /\ w[l] = v[l - Len(u)]
    BY <2>1, ConcatFacts
  <2> HIDE DEF w
  <2>3. ASSUME NEW i \in 1..Len(w), ~w[i].move
        PROVE  i + 1 \in 1..Len(w) /\ w[i + 1].move /\ w[i + 1].to = w[i].from
    <3>1. CASE i \in 1..Len(u)
      <4>1. w[i] = u[i] /\ i + 1 \in 1..Len(u) /\ u[i + 1].move /\ u[i + 1].to = u[i].from
        BY <2>1, <2>2, <2>3, <3>1 DEF RestoredNext
      <4>2. w[i + 1] = u[i + 1] /\ i + 1 \in 1..Len(w)
        BY <2>2, <4>1
      <4> QED BY <4>1, <4>2
    <3>2. CASE i \notin 1..Len(u)
      <4> DEFINE k == i - Len(u)
      <4>1. k \in 1..Len(v) /\ w[i] = v[k]
        BY <2>2, <3>2
      <4>2. k + 1 \in 1..Len(v) /\ v[k + 1].move /\ v[k + 1].to = v[k].from
        BY <2>1, <2>3, <4>1 DEF RestoredNext
      <4>3. (k + 1) + Len(u) = i + 1 /\ (k + 1) + Len(u) \in 1..Len(w) /\ w[(k + 1) + Len(u)] = v[k + 1]
        BY <2>2, <4>2
      <4> HIDE DEF k
      <4> QED BY <4>1, <4>2, <4>3
    <3> QED BY <3>1, <3>2
  <2>4. w \in Paired
    BY <2>2, <2>3 DEF Paired, RestoredNext
  <2> QED BY <2>4 DEF w
<1> QED BY <1>1, <1>2

IsSettingAside(r, s, D) ==
  /\ r \in Paired
  /\ \A l \in 1..Len(r) : \E d \in D, a \in Names : r[l] \in {AsideOf(s, d, a), RestoreOf(s, d, a)}
  /\ \A d \in D, a \in Names : \E l \in 1..Len(r) : r[l] = AsideOf(s, d, a)
  /\ OneTarget(r)

LEMMA RollbackCopyFacts ==
  ASSUME NEW s \in SessionIds, NEW d \in Dirs, NEW a \in Names
  PROVE  /\ AsideOf(s, d, a) \in Copies /\ RestoreOf(s, d, a) \in Copies /\ UndoOf(s, d, a) \in Copies
         /\ ~AsideOf(s, d, a).move /\ RestoreOf(s, d, a).move /\ UndoOf(s, d, a).move
         /\ AsideOf(s, d, a).from = Data(d, a) /\ AsideOf(s, d, a).to = PreRestore(d, RollbackId[s], a)
         /\ RestoreOf(s, d, a).from = Snapshot(d, RollbackId[s], a) /\ RestoreOf(s, d, a).to = Data(d, a)
         /\ UndoOf(s, d, a).from = PreRestore(d, RollbackId[s], a) /\ UndoOf(s, d, a).to = Data(d, a)
BY PlacesTyped DEF AsideOf, RestoreOf, UndoOf, Copies

LEMMA PrePlacesDiffer ==
  /\ \A d, e, a, b, r : Data(d, a) # PreRestore(e, r, b)
  /\ \A d, e, a, b, r, t : Snapshot(d, t, a) # PreRestore(e, r, b)
  /\ \A d, e, a, b, r, t : PreRestore(d, r, a) = PreRestore(e, t, b) => d = e /\ a = b /\ r = t
<1>1. \A d, a, r : /\ Data(d, a).sub = "data" /\ Snapshot(d, r, a).sub = "snapshot" /\ PreRestore(d, r, a).sub = "pre"
                   /\ PreRestore(d, r, a).dir = d /\ PreRestore(d, r, a).apex = a /\ PreRestore(d, r, a).id = r
  BY DEF Data, Snapshot, PreRestore
<1>2. ASSUME NEW d, NEW e, NEW a, NEW b, NEW r, NEW t
      PROVE  /\ Data(d, a) # PreRestore(e, r, b) /\ Snapshot(d, t, a) # PreRestore(e, r, b)
             /\ PreRestore(d, r, a) = PreRestore(e, t, b) => d = e /\ a = b /\ r = t
  <2>1. Data(d, a).sub = "data" /\ Snapshot(d, t, a).sub = "snapshot" /\ PreRestore(e, r, b).sub = "pre"
    BY <1>1
  <2>2. PreRestore(d, r, a) = PreRestore(e, t, b) => d = e /\ a = b /\ r = t
    <3>1. PreRestore(d, r, a).dir = d /\ PreRestore(d, r, a).apex = a /\ PreRestore(d, r, a).id = r
      BY <1>1
    <3>2. PreRestore(e, t, b).dir = e /\ PreRestore(e, t, b).apex = b /\ PreRestore(e, t, b).id = t
      BY <1>1
    <3> QED BY <3>1, <3>2
  <2> QED BY <2>1, <2>2
<1> QED BY <1>2

(* Two copies with one target are the same copy.                            *)
LEMMA RollbackTargets ==
  ASSUME NEW s \in SessionIds, NEW d \in Dirs, NEW e \in Dirs, NEW a \in Names, NEW b \in Names,
         NEW c1 \in {AsideOf(s, d, a), RestoreOf(s, d, a)}, NEW c2 \in {AsideOf(s, e, b), RestoreOf(s, e, b)},
         c1.to = c2.to
  PROVE  d = e /\ a = b /\ c1 = c2
<1>1. /\ AsideOf(s, d, a).to = PreRestore(d, RollbackId[s], a) /\ RestoreOf(s, d, a).to = Data(d, a)
      /\ AsideOf(s, e, b).to = PreRestore(e, RollbackId[s], b) /\ RestoreOf(s, e, b).to = Data(e, b)
  BY DEF AsideOf, RestoreOf
<1>2. CASE c1 = AsideOf(s, d, a) /\ c2 = AsideOf(s, e, b)
  BY <1>1, <1>2, PrePlacesDiffer
<1>3. CASE c1 = RestoreOf(s, d, a) /\ c2 = RestoreOf(s, e, b)
  BY <1>1, <1>3, PlacesDiffer
<1>4. CASE c1 = AsideOf(s, d, a) /\ c2 = RestoreOf(s, e, b)
  BY <1>1, <1>4, PrePlacesDiffer
<1>5. CASE c1 = RestoreOf(s, d, a) /\ c2 = AsideOf(s, e, b)
  BY <1>1, <1>5, PrePlacesDiffer
<1> QED BY <1>2, <1>3, <1>4, <1>5

LEMMA TwoCopies ==
  ASSUME NEW c1 \in Copies, NEW c2 \in Copies
  PROVE  /\ <<c1>> \o <<c2>> \in Seq(Copies) /\ Len(<<c1>> \o <<c2>>) = 2
         /\ (<<c1>> \o <<c2>>)[1] = c1 /\ (<<c1>> \o <<c2>>)[2] = c2
OBVIOUS

(* The copies of one directory of a rollback that is activated.              *)
LEMMA SettingAsideOne ==
  ASSUME NEW s \in Rollbacks, NEW d \in Dirs, ~supportsFsCheckpoints
  PROVE  IsSettingAside(SnapshotOrRestoreDeIfNeeded(d, s), s, {d})
<1> DEFINE id == RollbackId[s]
           one(a) == IF ~IsRollback[s] THEN SnapshotDataDirectory(d, id, a)
                     ELSE (IF supportsFsCheckpoints THEN <<>> ELSE SnapshotBeforeRestore(d, id, a))
                          \o RestoreDataDirectory(d, id, a)
           op == [a \in Names |-> one(a)]
           r == SnapshotOrRestoreDeIfNeeded(d, s)
<1>0. s \in SessionIds /\ IsRollback[s]
  BY DEF Rollbacks
<1>1. ASSUME NEW a \in Names
      PROVE  /\ one(a) \in Paired /\ Len(one(a)) = 2
             /\ one(a)[1] = AsideOf(s, d, a) /\ one(a)[2] = RestoreOf(s, d, a)
  <2> DEFINE c1 == AsideOf(s, d, a)
             c2 == RestoreOf(s, d, a)
  <2>1. one(a) = <<c1>> \o <<c2>>
    BY <1>0 DEF SnapshotBeforeRestore, RestoreDataDirectory, Copy, AsideOf, RestoreOf
  <2>2. /\ c1 \in Copies /\ c2 \in Copies /\ ~c1.move /\ c2.move /\ c2.to = c1.from
    BY <1>0, RollbackCopyFacts
  <2> HIDE DEF c1, c2, one
  <2>3. one(a) \in Seq(Copies) /\ Len(one(a)) = 2 /\ one(a)[1] = c1 /\ one(a)[2] = c2
    BY <2>1, <2>2, TwoCopies
  <2>4. RestoredNext(one(a))
    <3> SUFFICES ASSUME NEW i \in 1..Len(one(a)), ~one(a)[i].move
                 PROVE  i + 1 \in 1..Len(one(a)) /\ one(a)[i + 1].move /\ one(a)[i + 1].to = one(a)[i].from
      BY DEF RestoredNext
    <3>1. i = 1 \/ i = 2
      BY <2>3
    <3>2. i = 1 /\ i + 1 = 2
      BY <2>2, <2>3, <3>1
    <3> QED BY <2>2, <2>3, <3>2
  <2> QED BY <2>3, <2>4 DEF Paired, c1, c2
<1>2. IsFiniteSet(Names)
  BY BoundsAssumption
<1>3. r = ForEachOf(Names, op)
  <2>1. \A i \in 1..Cardinality(Names) : SetToSeq(Names)[i] \in Names
    BY <1>2, SetToSeqFacts
  <2>2. r = FlattenSeq([i \in 1..Cardinality(Names) |-> one(SetToSeq(Names)[i])])
    BY DEF SnapshotOrRestoreDeIfNeeded, ForEach
  <2> HIDE DEF one
  <2>3. [i \in 1..Cardinality(Names) |-> one(SetToSeq(Names)[i])]
          = [i \in 1..Cardinality(Names) |-> op[SetToSeq(Names)[i]]]
    BY <2>1
  <2> QED BY <2>2, <2>3 DEF ForEachOf
<1> HIDE DEF one, r
<1>4. /\ op \in [Names -> Paired] /\ op \in [Names -> Seq(Copies)]
      /\ \A a \in Names : /\ Len(op[a]) = 2 /\ op[a][1] = AsideOf(s, d, a) /\ op[a][2] = RestoreOf(s, d, a)
  BY <1>1 DEF Paired
<1> HIDE DEF op
<1>5. r \in Paired
  <2>1. Paired \in SUBSET Seq(Copies)
    BY DEF Paired
  <2> QED BY <1>2, <1>3, <1>4, <2>1, PairedConcat, ForEachIn
<1>6. ASSUME NEW a \in Names, NEW j \in 1..Len(op[a])
      PROVE  op[a][j] \in {AsideOf(s, d, a), RestoreOf(s, d, a)} /\ j \in {1, 2}
             /\ (j = 1 <=> op[a][j] = AsideOf(s, d, a))
  <2>0. Len(op[a]) = 2
    BY <1>4
  <2>1. j = 1 \/ j = 2
    BY <2>0
  <2>2. AsideOf(s, d, a) # RestoreOf(s, d, a)
    BY <1>0, RollbackCopyFacts
  <2> QED BY <1>4, <2>1, <2>2
<1>7. /\ \A l \in 1..Len(r) : \E a \in Names : \E j \in 1..Len(op[a]) : r[l] = op[a][j]
      /\ \A a \in Names : \A j \in 1..Len(op[a]) : \E l \in 1..Len(r) : r[l] = op[a][j]
      /\ (\A a, b \in Names : \A j1 \in 1..Len(op[a]), j2 \in 1..Len(op[b]) :
                op[a][j1] = op[b][j2] => a = b /\ j1 = j2) => Distinct(r)
  <2>1. op \in [Names -> Seq(Copies)]
    BY <1>4
  <2> DEFINE q == ForEachOf(Names, op)
  <2>2. /\ \A l \in 1..Len(q) : \E x \in Names : \E j \in 1..Len(op[x]) : q[l] = op[x][j]
        /\ \A x \in Names : \A j \in 1..Len(op[x]) : \E l \in 1..Len(q) : q[l] = op[x][j]
        /\ (\A x, y \in Names : \A j1 \in 1..Len(op[x]), j2 \in 1..Len(op[y]) :
                  op[x][j1] = op[y][j2] => x = y /\ j1 = j2) => Distinct(q)
    BY <1>2, <2>1, ForEachFacts
  <2>3. q = r
    BY <1>3
  <2> HIDE DEF q
  <2> QED BY <2>2, <2>3
<1>8. Distinct(r)
  <2> SUFFICES ASSUME NEW a \in Names, NEW b \in Names, NEW j1 \in 1..Len(op[a]), NEW j2 \in 1..Len(op[b]),
                      op[a][j1] = op[b][j2]
               PROVE  a = b /\ j1 = j2
    BY <1>7
  <2>1. op[a][j1] \in {AsideOf(s, d, a), RestoreOf(s, d, a)} /\ op[b][j2] \in {AsideOf(s, d, b), RestoreOf(s, d, b)}
    BY <1>6
  <2>2. a = b
    BY <1>0, <2>1, RollbackTargets
  <2> QED BY <1>6, <2>2
<1>9. ASSUME NEW l \in 1..Len(r) PROVE \E a \in Names : r[l] \in {AsideOf(s, d, a), RestoreOf(s, d, a)}
  BY <1>6, <1>7
<1>10. ASSUME NEW a \in Names PROVE \E l \in 1..Len(r) : r[l] = AsideOf(s, d, a)
  <2>1. 1 \in 1..Len(op[a]) /\ op[a][1] = AsideOf(s, d, a)
    BY <1>4
  <2> QED BY <1>7, <2>1
<1>11. OneTarget(r)
  <2> SUFFICES ASSUME NEW i \in 1..Len(r), NEW j \in 1..Len(r), r[i].to = r[j].to PROVE i = j
    BY DEF OneTarget
  <2>1. PICK a \in Names : r[i] \in {AsideOf(s, d, a), RestoreOf(s, d, a)}
    BY <1>9
  <2>2. PICK b \in Names : r[j] \in {AsideOf(s, d, b), RestoreOf(s, d, b)}
    BY <1>9
  <2>3. r[i] = r[j]
    BY <1>0, <2>1, <2>2, RollbackTargets
  <2> QED BY <1>8, <2>3 DEF Distinct
<1>12. IsSettingAside(r, s, {d})
  BY <1>5, <1>9, <1>10, <1>11 DEF IsSettingAside
<1> QED BY <1>12 DEF r

(* ... and of several.                                                     *)
LEMMA SettingAsideAll ==
  ASSUME NEW s \in Rollbacks, NEW D \in SUBSET Dirs, IsFiniteSet(D), ~supportsFsCheckpoints
  PROVE  IsSettingAside(ForEachOf(D, [d \in D |-> SnapshotOrRestoreDeIfNeeded(d, s)]), s, D)
<1> DEFINE op == [d \in D |-> SnapshotOrRestoreDeIfNeeded(d, s)]
           r == ForEachOf(D, op)
<1>0. s \in SessionIds
  BY DEF Rollbacks
<1>1. ASSUME NEW d \in D
      PROVE  /\ op[d] \in Paired /\ op[d] \in Seq(Copies) /\ OneTarget(op[d])
             /\ \A l \in 1..Len(op[d]) : \E a \in Names : op[d][l] \in {AsideOf(s, d, a), RestoreOf(s, d, a)}
             /\ \A a \in Names : \E l \in 1..Len(op[d]) : op[d][l] = AsideOf(s, d, a)
  <2>1. op[d] = SnapshotOrRestoreDeIfNeeded(d, s) /\ d \in Dirs
    OBVIOUS
  <2> HIDE DEF op
  <2>2. IsSettingAside(op[d], s, {d})
    BY <2>1, SettingAsideOne
  <2> QED BY <2>2 DEF IsSettingAside, Paired
<1>2. op \in [D -> Paired] /\ op \in [D -> Seq(Copies)]
  <2>1. op = [d \in D |-> op[d]]
    OBVIOUS
  <2> HIDE DEF op
  <2> QED BY <1>1, <2>1
<1> HIDE DEF op
<1>3. r \in Paired
  <2>1. Paired \in SUBSET Seq(Copies)
    BY DEF Paired
  <2> QED BY <1>2, <2>1, PairedConcat, ForEachIn
<1>4. /\ \A l \in 1..Len(r) : \E x \in D : \E j \in 1..Len(op[x]) : r[l] = op[x][j]
      /\ \A x \in D : \A j \in 1..Len(op[x]) : \E l \in 1..Len(r) : r[l] = op[x][j]
      /\ (\A x, y \in D : \A j1 \in 1..Len(op[x]), j2 \in 1..Len(op[y]) :
                op[x][j1] = op[y][j2] => x = y /\ j1 = j2) => Distinct(r)
  BY <1>2, ForEachFacts
<1> HIDE DEF r
<1>5. Distinct(r)
  <2> SUFFICES ASSUME NEW x \in D, NEW y \in D, NEW j1 \in 1..Len(op[x]), NEW j2 \in 1..Len(op[y]),
                      op[x][j1] = op[y][j2]
               PROVE  x = y /\ j1 = j2
    BY <1>4
  <2>1. PICK a \in Names : op[x][j1] \in {AsideOf(s, x, a), RestoreOf(s, x, a)}
    BY <1>1
  <2>2. PICK b \in Names : op[y][j2] \in {AsideOf(s, y, b), RestoreOf(s, y, b)}
    BY <1>1
  <2>3. x = y
    BY <1>0, <2>1, <2>2, RollbackTargets
  <2> QED BY <1>1, <2>3 DEF OneTarget
<1>6. ASSUME NEW l \in 1..Len(r) PROVE \E d \in D, a \in Names : r[l] \in {AsideOf(s, d, a), RestoreOf(s, d, a)}
  <2>1. PICK d \in D : \E j \in 1..Len(op[d]) : r[l] = op[d][j]
    BY <1>4
  <2>2. PICK j \in 1..Len(op[d]) : r[l] = op[d][j]
    BY <2>1
  <2>3. PICK a \in Names : op[d][j] \in {AsideOf(s, d, a), RestoreOf(s, d, a)}
    BY <1>1
  <2> QED BY <2>2, <2>3
<1>7. ASSUME NEW d \in D, NEW a \in Names PROVE \E l \in 1..Len(r) : r[l] = AsideOf(s, d, a)
  <2>1. PICK j \in 1..Len(op[d]) : op[d][j] = AsideOf(s, d, a)
    BY <1>1
  <2>2. \E l \in 1..Len(r) : r[l] = op[d][j]
    BY <1>4
  <2> QED BY <2>1, <2>2
<1>8. OneTarget(r)
  <2> SUFFICES ASSUME NEW i \in 1..Len(r), NEW j \in 1..Len(r), r[i].to = r[j].to PROVE i = j
    BY DEF OneTarget
  <2>1. PICK d \in D, a \in Names : r[i] \in {AsideOf(s, d, a), RestoreOf(s, d, a)}
    BY <1>6
  <2>2. PICK e \in D, b \in Names : r[j] \in {AsideOf(s, e, b), RestoreOf(s, e, b)}
    BY <1>6
  <2>3. r[i] = r[j]
    BY <1>0, <2>1, <2>2, RollbackTargets
  <2> QED BY <1>5, <2>3 DEF Distinct
<1>9. IsSettingAside(r, s, D)
  BY <1>3, <1>6, <1>7, <1>8 DEF IsSettingAside
<1> QED BY <1>9 DEF r, op

(* What the main thread and apexd --snapshotde are given, for a rollback.    *)
LEMMA RollbackSysWork ==
  ASSUME NEW s \in Rollbacks, Activated = {s}, ~supportsFsCheckpoints
  PROVE  IsSettingAside(SysWork, s, {Sys})
<1> DEFINE op == [t \in {s} |-> SnapshotOrRestoreDeIfNeeded(Sys, t)]
<1>0. s \in SessionIds /\ Sys \in Dirs
  BY PlacesTyped DEF Rollbacks
<1>1. \A i \in 1..Cardinality({s}) : SetToSeq({s})[i] \in {s}
  BY SetToSeqFacts, FS_Singleton
<1>2. SysWork = FlattenSeq([i \in 1..Cardinality({s}) |-> SnapshotOrRestoreDeIfNeeded(Sys, SetToSeq({s})[i])])
  BY DEF SysWork, ForEach, Activated
<1>3. [i \in 1..Cardinality({s}) |-> SnapshotOrRestoreDeIfNeeded(Sys, SetToSeq({s})[i])]
        = [i \in 1..Cardinality({s}) |-> op[SetToSeq({s})[i]]]
  BY <1>1
<1>4. SysWork = ForEachOf({s}, op)
  BY <1>2, <1>3 DEF ForEachOf
<1>5. op \in [{s} -> Seq(Copies)] /\ op[s] = SnapshotOrRestoreDeIfNeeded(Sys, s)
  BY <1>0, DeIsTyped
<1> HIDE DEF op
<1>6. SysWork = SnapshotOrRestoreDeIfNeeded(Sys, s)
  BY <1>4, <1>5, ForEachOne
<1> QED BY <1>0, <1>6, SettingAsideOne

LEMMA RollbackUserWork ==
  ASSUME NEW s \in Rollbacks, Activated = {s}, ~supportsFsCheckpoints
  PROVE  IsSettingAside(UserWork, s, UserDirs)
<1> DEFINE one(t) == ForEach(UserDirs, LAMBDA d : SnapshotOrRestoreDeIfNeeded(d, t))
           f == [d \in UserDirs |-> SnapshotOrRestoreDeIfNeeded(d, s)]
           op == [t \in {s} |-> one(t)]
<1>0. s \in SessionIds /\ UserDirs \in SUBSET Dirs /\ IsFiniteSet(UserDirs)
  BY PlacesTyped, BoundsAssumption DEF Rollbacks
<1>1. \A i \in 1..Cardinality({s}) : SetToSeq({s})[i] \in {s}
  BY SetToSeqFacts, FS_Singleton
<1>2. UserWork = FlattenSeq([i \in 1..Cardinality({s}) |-> one(SetToSeq({s})[i])])
  BY DEF UserWork, ForEach, Activated
<1>3. one(s) = ForEachOf(UserDirs, f)
  <2>1. \A i \in 1..Cardinality(UserDirs) : SetToSeq(UserDirs)[i] \in UserDirs
    BY <1>0, SetToSeqFacts
  <2>2. one(s) = FlattenSeq([i \in 1..Cardinality(UserDirs) |-> SnapshotOrRestoreDeIfNeeded(SetToSeq(UserDirs)[i], s)])
    BY DEF ForEach
  <2>3. [i \in 1..Cardinality(UserDirs) |-> SnapshotOrRestoreDeIfNeeded(SetToSeq(UserDirs)[i], s)]
          = [i \in 1..Cardinality(UserDirs) |-> f[SetToSeq(UserDirs)[i]]]
    BY <2>1
  <2> QED BY <2>2, <2>3 DEF ForEachOf
<1>4. IsSettingAside(one(s), s, UserDirs)
  <2> HIDE DEF one
  <2> QED BY <1>0, <1>3, SettingAsideAll
<1> HIDE DEF one
<1>5. [i \in 1..Cardinality({s}) |-> one(SetToSeq({s})[i])] = [i \in 1..Cardinality({s}) |-> op[SetToSeq({s})[i]]]
  BY <1>1
<1>6. UserWork = ForEachOf({s}, op)
  BY <1>2, <1>5 DEF ForEachOf
<1>7. op \in [{s} -> Seq(Copies)] /\ op[s] = one(s)
  BY <1>4 DEF IsSettingAside, Paired
<1> HIDE DEF op
<1>8. UserWork = one(s)
  BY <1>6, <1>7, ForEachOne
<1> QED BY <1>4, <1>8

(* What a revert copies back, of the one rollback that is reverted.          *)
IsUndoing(r, s) ==
  /\ r \in Seq(Copies)
  /\ \A l \in 1..Len(r) : \E d \in DeDirs, a \in Names : r[l] = UndoOf(s, d, a)
  /\ \A d \in DeDirs, a \in Names : \E l \in 1..Len(r) : r[l] = UndoOf(s, d, a)
  /\ OneTarget(r)

LEMMA UndoIsInjective ==
  ASSUME NEW s \in SessionIds, NEW d, NEW e, NEW a, NEW b, UndoOf(s, d, a).to = UndoOf(s, e, b).to
  PROVE  d = e /\ a = b
<1>1. UndoOf(s, d, a).to = Data(d, a) /\ UndoOf(s, e, b).to = Data(e, b)
  BY DEF UndoOf
<1>2. Data(d, a) = Data(e, b)
  BY <1>1
<1> QED BY <1>2, PlacesDiffer

LEMMA UndoWork ==
  ASSUME NEW s \in Rollbacks
  PROVE  IsUndoing(RestoreDePreRestoreSnapshotsIfPresent({s}), s)
<1> DEFINE inner(t, d) == ForEach(Names, LAMBDA a : RestorePreRestoreSnapshot(d, RollbackId[t], a))
           outer(t) == ForEach(DeDirs, LAMBDA d : inner(t, d))
<1>0. /\ s \in SessionIds /\ IsFiniteSet(Names) /\ IsFiniteSet(DeDirs) /\ DeDirs \subseteq Dirs
  <2>1. IsFiniteSet({Sys})
    BY FS_Singleton
  <2> QED BY <2>1, PlacesTyped, BoundsAssumption, FS_Union DEF DeDirs, Rollbacks
<1>1. ASSUME NEW d \in DeDirs
      PROVE  /\ inner(s, d) \in Seq(Copies)
             /\ \A l \in 1..Len(inner(s, d)) : \E a \in Names : inner(s, d)[l] = UndoOf(s, d, a)
             /\ \A a \in Names : \E l \in 1..Len(inner(s, d)) : inner(s, d)[l] = UndoOf(s, d, a)
             /\ Distinct(inner(s, d))
  <2> DEFINE f == [a \in Names |-> RestorePreRestoreSnapshot(d, RollbackId[s], a)]
             r == inner(s, d)
  <2>1. \A i \in 1..Cardinality(Names) : SetToSeq(Names)[i] \in Names
    BY <1>0, SetToSeqFacts
  <2>2. [i \in 1..Cardinality(Names) |-> RestorePreRestoreSnapshot(d, RollbackId[s], SetToSeq(Names)[i])]
          = [i \in 1..Cardinality(Names) |-> f[SetToSeq(Names)[i]]]
    BY <2>1
  <2>3. r = ForEachOf(Names, f)
    BY <2>2 DEF ForEach, ForEachOf
  <2>4. ASSUME NEW a \in Names PROVE f[a] \in Seq(Copies) /\ Len(f[a]) = 1 /\ f[a][1] = UndoOf(s, d, a)
    <3>1. f[a] = <<UndoOf(s, d, a)>> /\ UndoOf(s, d, a) \in Copies
      BY <1>0, RollbackCopyFacts DEF RestorePreRestoreSnapshot, Copy, UndoOf
    <3> HIDE DEF f
    <3> QED BY <3>1, SingleCopy
  <2>5. f \in [Names -> Seq(Copies)]
    <3>1. f = [a \in Names |-> f[a]]
      OBVIOUS
    <3> HIDE DEF f
    <3> QED BY <2>4, <3>1
  <2> HIDE DEF f, inner
  <2> DEFINE q == ForEachOf(Names, f)
  <2>6. /\ q \in Seq(Copies)
        /\ \A l \in 1..Len(q) : \E x \in Names : \E j \in 1..Len(f[x]) : q[l] = f[x][j]
        /\ \A x \in Names : \A j \in 1..Len(f[x]) : \E l \in 1..Len(q) : q[l] = f[x][j]
        /\ (\A x, y \in Names : \A j1 \in 1..Len(f[x]), j2 \in 1..Len(f[y]) :
                  f[x][j1] = f[y][j2] => x = y /\ j1 = j2) => Distinct(q)
    BY <1>0, <2>5, ForEachFacts
  <2>7. q = r
    BY <2>3
  <2> HIDE DEF q, r
  <2>8. ASSUME NEW a \in Names, NEW j \in 1..Len(f[a]) PROVE j = 1 /\ f[a][j] = UndoOf(s, d, a)
    <3>1. Len(f[a]) = 1
      BY <2>4
    <3>2. j = 1
      BY <3>1
    <3> QED BY <2>4, <3>2
  <2>9. ASSUME NEW l \in 1..Len(r) PROVE \E a \in Names : r[l] = UndoOf(s, d, a)
    BY <2>6, <2>7, <2>8
  <2>10. ASSUME NEW a \in Names PROVE \E l \in 1..Len(r) : r[l] = UndoOf(s, d, a)
    <3>1. Len(f[a]) = 1 /\ f[a][1] = UndoOf(s, d, a)
      BY <2>4
    <3>2. 1 \in 1..Len(f[a])
      BY <3>1
    <3> QED BY <2>6, <2>7, <3>1, <3>2
  <2>11. Distinct(r)
    <3> SUFFICES ASSUME NEW x \in Names, NEW y \in Names, NEW j1 \in 1..Len(f[x]), NEW j2 \in 1..Len(f[y]),
                        f[x][j1] = f[y][j2]
                 PROVE  x = y /\ j1 = j2
      BY <2>6, <2>7
    <3>1. UndoOf(s, d, x) = UndoOf(s, d, y) /\ j1 = 1 /\ j2 = 1
      BY <2>8
    <3> QED BY <1>0, <3>1, UndoIsInjective
  <2> QED BY <2>6, <2>7, <2>9, <2>10, <2>11 DEF r
<1> DEFINE op == [d \in DeDirs |-> inner(s, d)]
           u == outer(s)
<1>2. u = ForEachOf(DeDirs, op)
  <2>1. \A i \in 1..Cardinality(DeDirs) : SetToSeq(DeDirs)[i] \in DeDirs
    BY <1>0, SetToSeqFacts
  <2>2. u = FlattenSeq([i \in 1..Cardinality(DeDirs) |-> inner(s, SetToSeq(DeDirs)[i])])
    BY DEF ForEach
  <2> HIDE DEF inner, outer, u
  <2>3. [i \in 1..Cardinality(DeDirs) |-> inner(s, SetToSeq(DeDirs)[i])]
          = [i \in 1..Cardinality(DeDirs) |-> op[SetToSeq(DeDirs)[i]]]
    BY <2>1
  <2> QED BY <2>2, <2>3 DEF ForEachOf
<1>3. /\ \A d \in DeDirs : op[d] = inner(s, d)
      /\ op \in [DeDirs -> Seq(Copies)]
  <2> HIDE DEF inner
  <2> QED BY <1>1
<1>4. RestoreDePreRestoreSnapshotsIfPresent({s}) = u
  <2> DEFINE g == [t \in {s} |-> outer(t)]
  <2>1. \A i \in 1..Cardinality({s}) : SetToSeq({s})[i] \in {s}
    BY SetToSeqFacts, FS_Singleton
  <2>2. RestoreDePreRestoreSnapshotsIfPresent({s}) = FlattenSeq([i \in 1..Cardinality({s}) |-> outer(SetToSeq({s})[i])])
    BY DEF ForEach, RestoreDePreRestoreSnapshotsIfPresent
  <2>3. u \in Seq(Copies)
    <3> HIDE DEF u, op, inner
    <3> QED BY <1>0, <1>2, <1>3, ForEachFacts
  <2> HIDE DEF outer, inner
  <2>4. [i \in 1..Cardinality({s}) |-> outer(SetToSeq({s})[i])] = [i \in 1..Cardinality({s}) |-> g[SetToSeq({s})[i]]]
    BY <2>1
  <2>5. g \in [{s} -> Seq(Copies)] /\ g[s] = u
    BY <2>3
  <2> HIDE DEF g
  <2>6. ForEachOf({s}, g) = g[s]
    BY <2>5, ForEachOne
  <2> QED BY <2>2, <2>4, <2>5, <2>6 DEF ForEachOf
<1> HIDE DEF op, inner, outer, u
<1> DEFINE q == ForEachOf(DeDirs, op)
<1>5. /\ q \in Seq(Copies)
      /\ \A l \in 1..Len(q) : \E x \in DeDirs : \E j \in 1..Len(op[x]) : q[l] = op[x][j]
      /\ \A x \in DeDirs : \A j \in 1..Len(op[x]) : \E l \in 1..Len(q) : q[l] = op[x][j]
      /\ (\A x, y \in DeDirs : \A j1 \in 1..Len(op[x]), j2 \in 1..Len(op[y]) :
                op[x][j1] = op[y][j2] => x = y /\ j1 = j2) => Distinct(q)
  <2>1. op \in [DeDirs -> Seq(Copies)]
    BY <1>3
  <2> QED BY <1>0, <2>1, ForEachFacts
<1>6. q = u
  BY <1>2
<1> HIDE DEF q
<1>7. ASSUME NEW d \in DeDirs
      PROVE  /\ \A l \in 1..Len(op[d]) : \E a \in Names : op[d][l] = UndoOf(s, d, a)
             /\ \A a \in Names : \E l \in 1..Len(op[d]) : op[d][l] = UndoOf(s, d, a)
             /\ Distinct(op[d])
  <2>1. op[d] = inner(s, d)
    BY <1>3
  <2> QED BY <1>1, <2>1
<1>8. Distinct(u)
  <2> SUFFICES ASSUME NEW x \in DeDirs, NEW y \in DeDirs, NEW j1 \in 1..Len(op[x]), NEW j2 \in 1..Len(op[y]),
                      op[x][j1] = op[y][j2]
               PROVE  x = y /\ j1 = j2
    BY <1>5, <1>6
  <2>1. PICK a \in Names : op[x][j1] = UndoOf(s, x, a)
    BY <1>7
  <2>2. PICK b \in Names : op[y][j2] = UndoOf(s, y, b)
    BY <1>7
  <2>3. UndoOf(s, x, a).to = UndoOf(s, y, b).to
    BY <2>1, <2>2
  <2>4. x = y
    BY <1>0, <2>3, UndoIsInjective
  <2> QED BY <1>7, <2>4 DEF Distinct
<1>9. ASSUME NEW l \in 1..Len(u) PROVE \E d \in DeDirs, a \in Names : u[l] = UndoOf(s, d, a)
  <2>1. PICK d \in DeDirs : \E j \in 1..Len(op[d]) : u[l] = op[d][j]
    BY <1>5, <1>6
  <2>2. PICK j \in 1..Len(op[d]) : u[l] = op[d][j]
    BY <2>1
  <2>3. PICK a \in Names : op[d][j] = UndoOf(s, d, a)
    BY <1>7
  <2> QED BY <2>2, <2>3
<1>10. ASSUME NEW d \in DeDirs, NEW a \in Names PROVE \E l \in 1..Len(u) : u[l] = UndoOf(s, d, a)
  <2>1. PICK j \in 1..Len(op[d]) : op[d][j] = UndoOf(s, d, a)
    BY <1>7
  <2>2. \E l \in 1..Len(u) : u[l] = op[d][j]
    BY <1>5, <1>6
  <2> QED BY <2>1, <2>2
<1>11. OneTarget(u)
  <2> SUFFICES ASSUME NEW i \in 1..Len(u), NEW j \in 1..Len(u), u[i].to = u[j].to PROVE i = j
    BY DEF OneTarget
  <2>1. PICK d \in DeDirs, a \in Names : u[i] = UndoOf(s, d, a)
    BY <1>9
  <2>2. PICK e \in DeDirs, b \in Names : u[j] = UndoOf(s, e, b)
    BY <1>9
  <2>3. u[i] = u[j]
    BY <1>0, <2>1, <2>2, UndoIsInjective
  <2> QED BY <1>8, <2>3 DEF Distinct
<1>12. IsUndoing(u, s)
  BY <1>5, <1>6, <1>9, <1>10, <1>11 DEF IsUndoing
<1> QED BY <1>4, <1>12

LEMMA CheckpointNever ==
  ASSUME NoCheckpoint, [Next]_vars
  PROVE  NoCheckpoint'
<1>1. ~supportsFsCheckpoints'
  BY SupportIsFixed DEF NoCheckpoint
<1>2. ~journaling'
  <2> USE DEF vold, NoCheckpoint
  <2>1. ASSUME NEW p, CopyStep(p) PROVE ~journaling'
    BY <2>1 DEF CopyStep, RemoveTarget, CreateTarget, FinishCopy, CopyFails, DeleteSource
  <2>2. Boot \/ PowerLoss \/ RebootToInstall \/ CommitChanges \/ (\E d \in DeDirs : \E a \in Names : Write(d, a))
          => ~journaling'
    BY DEF Boot, PowerLoss, RebootToInstall, CommitChanges, Write, PowerOff
  <2>3. MainStep => ~journaling'
    BY <2>1 DEF MainStep, NeedsRollback, ScanStagedSessionsDirAndStage, ResumeRevertIfNeeded,
         SnapshotOrRestoreDeSysData, OnAllPackagesActivated, ActivationFails, UpdatableCrashing, RestoreFails,
         RestoreActivePackages, FinishRevert, Reboot, PowerOff
  <2>4. SnapshotDeStep => ~journaling'
    BY <2>1 DEF SnapshotDeStep, SnapshotOrRestoreDeUserData, OnAllPackagesReady
  <2>5. Request => ~journaling'
    <3>1. \A s : Submit(s) \/ MarkStagedSessionSuccessful(s) => ~journaling'
      BY DEF Submit, MarkStagedSessionSuccessful
    <3>2. \A r : DestroyDeSnapshots(r) => ~journaling'
      BY DEF DestroyDeSnapshots
    <3>3. \A d, retain : DestroyCeSnapshotsNotSpecified(d, retain) => ~journaling'
      BY DEF DestroyCeSnapshotsNotSpecified
    <3>4. \A d, r, a : SnapshotOrRestoreCeData(d, r, a) => ~journaling'
      BY DEF SnapshotOrRestoreCeData
    <3> QED BY <3>1, <3>2, <3>3, <3>4 DEF Request, DestroyCeSnapshots
  <2> QED BY <2>1, <2>2, <2>3, <2>4, <2>5 DEF Next, vars
<1> QED BY <1>1, <1>2 DEF NoCheckpoint

(* An action that leaves the processes and what they copy where they are.    *)
LEMMA RevertPcFrame ==
  ASSUME RevertPcInv, UNCHANGED <<pc, resumed, step>>, \A p \in Copiers : work'[p] = work[p]
  PROVE  RevertPcInv'
BY DEF RevertPcInv, Copiers, First

LEMMA CopyKeepsRevertPc ==
  ASSUME TypeInv, RevertPcInv, NEW p \in Procs, CopyStep(p)
  PROVE  RevertPcInv'
<1>0. CopyMoves(p)
  BY CopyControl
<1>1. Procs = {Main, SnapshotDe, Binder} /\ Main # SnapshotDe /\ Main # Binder /\ SnapshotDe # Binder
  BY ConstantFacts DEF Procs
<1>2. /\ UNCHANGED <<pc, resumed>>
      /\ \A o \in Procs : work'[o] # <<>> => work[o] # <<>>
  <2>1. Tail(<<>>) = <<>>
    OBVIOUS
  <2> QED BY <1>0 DEF CopyMoves
<1>3. ASSUME NEW o \in Copiers
      PROVE  (work'[o] = <<>> => step'[o] = "remove") /\ (step'[o] = "delete" => First(o)'.move)
  <2>1. CASE o # p
    BY <1>0, <1>1, <2>1 DEF CopyMoves, RevertPcInv, Copiers, First
  <2>2. CASE o = p
    BY <1>0, <2>2 DEF CopyMoves, First
  <2> QED BY <2>1, <2>2
<1>4. First(Main)'.move = First(Main).move' /\ First(SnapshotDe)'.move = First(SnapshotDe).move'
  OBVIOUS
<1> QED BY <1>1, <1>2, <1>3 DEF RevertPcInv, Copiers

LEMMA PowerOffRevertPc ==
  ASSUME PowerOff PROVE RevertPcInv'
BY PowerOffControl, ConstantFacts DEF RevertPcInv, Copiers, Early

(* One process moves on, and nothing is handed to it to copy.               *)
LEMMA RevertPcStep ==
  ASSUME TypeInv, RevertPcInv, UNCHANGED <<work, step>>,
         pc'[Main] \notin {"user", "ready"},
         pc'[Binder] \in {"off", "start", "ready"}, pc'[SnapshotDe] \in {"off", "user", "ready"},
         pc'[Main] \in Early \cup {"resume"} => pc'[Binder] = "off",
         pc'[Binder] # "ready" => pc'[SnapshotDe] = "off",
         pc'[Main] = "sys" => pc'[Binder] # "ready",
         pc'[Binder] = "start" => pc'[Main] = "sys",
         pc'[Main] = "activated" => pc'[Binder] = "ready",
         pc'[Main] \in {"restore", "undo"} => pc'[Binder] = "off" \/ pc'[SnapshotDe] = "ready",
         resumed' => pc'[Main] \in {"restore", "undo"} /\ pc'[Binder] = "off",
         work[Main] # <<>> => (pc'[Main] = "sys" /\ pc'[Binder] = "start") \/ pc'[Main] = "undo",
         work[SnapshotDe] # <<>> => pc'[SnapshotDe] = "user"
  PROVE  RevertPcInv'
<1>1. \A p \in Copiers : (work'[p] = <<>> => step'[p] = "remove") /\ (step'[p] = "delete" => First(p)'.move)
  BY DEF RevertPcInv, First
<1> QED BY <1>1, ConstantFacts DEF RevertPcInv, Copiers

LEMMA RevertPcKept ==
  ASSUME RevertWhenInUse, NoCheckpoint, TypeInv, RevertPcInv, [Next]_vars
  PROVE  RevertPcInv'
<1> USE DEF NoCheckpoint
<1>0. TypeOK /\ Main \in Procs /\ SnapshotDe \in Procs /\ Binder \in Procs
      /\ Main # SnapshotDe /\ Main # Binder /\ SnapshotDe # Binder
  BY ConstantFacts DEF TypeInv
<1>1. CASE UNCHANGED vars
  BY <1>1, RevertPcFrame DEF vars, copying
<1>2. CASE PowerLoss \/ RebootToInstall \/ Reboot
  BY <1>2, PowerOffRevertPc DEF PowerLoss, RebootToInstall, Reboot
<1>3. CASE Boot \/ NeedsRollback \/ ScanStagedSessionsDirAndStage
  <2>1. /\ pc[Main] \in Early /\ pc'[Main] \in {"start", "scan", "resume"} /\ UNCHANGED <<work, step, resumed>>
        /\ pc'[Binder] = pc[Binder] /\ pc'[SnapshotDe] = pc[SnapshotDe]
    BY <1>0, <1>3, GotoFacts DEF Boot, NeedsRollback, ScanStagedSessionsDirAndStage, Early, copying
  <2>2. pc[Binder] = "off" /\ pc[SnapshotDe] = "off" /\ work[Main] = <<>> /\ work[SnapshotDe] = <<>> /\ ~resumed
    BY <2>1 DEF RevertPcInv, Early
  <2> QED BY <2>1, <2>2, RevertPcStep DEF Early
<1>4. CASE CommitChanges \/ (\E d \in DeDirs : \E a \in Names : Write(d, a))
  BY <1>4, RevertPcFrame DEF CommitChanges, Write, copying
<1>5. CASE ResumeRevertIfNeeded
  <2>1. /\ pc[Main] = "resume" /\ pc'[Main] = (IF resumed' THEN "restore" ELSE "sys") /\ UNCHANGED <<work, step>>
        /\ pc'[Binder] = pc[Binder] /\ pc'[SnapshotDe] = pc[SnapshotDe]
    BY <1>0, <1>5, GotoFacts DEF ResumeRevertIfNeeded, Revert, copying
  <2>2. pc[Binder] = "off" /\ pc[SnapshotDe] = "off" /\ work[Main] = <<>> /\ work[SnapshotDe] = <<>>
    BY <2>1 DEF RevertPcInv, Early
  <2> QED BY <2>1, <2>2, RevertPcStep DEF Early
<1>6. CASE UpdatableCrashing
  <2>1. /\ pc[Main] = "activated" /\ pc'[Main] = "restore" /\ pc[SnapshotDe] = "ready" /\ UNCHANGED <<work, step, resumed>>
        /\ pc'[Binder] = pc[Binder] /\ pc'[SnapshotDe] = pc[SnapshotDe]
    BY <1>0, <1>6, GotoFacts DEF UpdatableCrashing, Revert, copying
  <2>2. pc[Binder] = "ready" /\ work[Main] = <<>> /\ work[SnapshotDe] = <<>> /\ ~resumed
    BY <2>1 DEF RevertPcInv, Early
  <2> QED BY <2>1, <2>2, RevertPcStep DEF Early
<1>15. CASE ActivationFails
  <2>1. /\ pc[Main] = "sys" /\ pc'[Main] = "restore" /\ pc[Binder] = "off" /\ UNCHANGED <<work, step, resumed>>
        /\ pc'[Binder] = pc[Binder] /\ pc'[SnapshotDe] = pc[SnapshotDe]
    BY <1>0, <1>15, GotoFacts DEF ActivationFails, Revert, copying
  <2>2. pc[SnapshotDe] = "off" /\ work[Main] = <<>> /\ work[SnapshotDe] = <<>> /\ ~resumed
    BY <2>1 DEF RevertPcInv
  <2> QED BY <2>1, <2>2, RevertPcStep DEF Early
<1>7. CASE RestoreFails \/ FinishRevert
  <2>1. /\ pc[Main] \in {"restore", "undo"}
        /\ \/ pc'[Main] = "sys" /\ pc[Binder] = "off"
           \/ pc'[Main] = "activated" /\ pc[Binder] # "off"
           \/ pc'[Main] = "reboot"
        /\ UNCHANGED <<work, step>> /\ ~resumed'
        /\ pc'[Binder] = pc[Binder] /\ pc'[SnapshotDe] = pc[SnapshotDe] /\ work[Main] = <<>>
    <3>1. (pc[Main] = "restore" => work[Main] = <<>>) /\ (resumed => pc[Binder] = "off")
      BY DEF RevertPcInv
    <3>2. CASE RestoreFails
      <4>1. pc'[Main] = (IF pc[Binder] = "off" THEN "sys" ELSE "activated") /\ ~resumed'
        BY <1>0, <3>2, GotoFacts DEF RestoreFails
      <4> QED BY <1>0, <3>1, <3>2, <4>1, GotoFacts DEF RestoreFails, copying
    <3>3. CASE FinishRevert
      <4>1. pc'[Main] = (IF resumed THEN "sys" ELSE "reboot") /\ ~resumed'
        BY <1>0, <3>3, GotoFacts DEF FinishRevert
      <4> QED BY <1>0, <3>1, <3>3, <4>1, GotoFacts DEF FinishRevert, copying
    <3> QED BY <1>7, <3>2, <3>3
  <2>2. work[SnapshotDe] = <<>>
    BY <2>1 DEF RevertPcInv
  <2> QED BY <2>1, <2>2, RevertPcStep DEF Early, RevertPcInv
<1>8. CASE RestoreActivePackages
  <2>1. /\ pc[Main] = "restore" /\ pc'[Main] = "undo" /\ UNCHANGED <<step, resumed>>
        /\ pc'[Binder] = pc[Binder] /\ pc'[SnapshotDe] = pc[SnapshotDe] /\ work'[SnapshotDe] = work[SnapshotDe]
    BY <1>0, <1>8, GotoFacts DEF RestoreActivePackages, TypeInv, WorkInv
  <2>2. work[Main] = <<>> /\ step[Main] = "remove" /\ work[SnapshotDe] = <<>>
    BY <2>1 DEF RevertPcInv, Copiers
  <2> QED BY <1>0, <2>1, <2>2 DEF RevertPcInv, Copiers, Early, First
<1>9. CASE SnapshotOrRestoreDeSysData
  <2>1. /\ pc[Main] = "sys" /\ pc'[Main] = "sys" /\ pc'[Binder] = "start" /\ pc'[SnapshotDe] = pc[SnapshotDe]
        /\ UNCHANGED <<step, resumed>> /\ work'[SnapshotDe] = work[SnapshotDe] /\ pc[Binder] = "off"
    BY <1>0, <1>9 DEF SnapshotOrRestoreDeSysData, TypeOK, TypeInv, WorkInv
  <2>2. work[Main] = <<>> /\ step[Main] = "remove"
    BY <2>1 DEF RevertPcInv, Copiers
  <2> QED BY <1>0, <2>1, <2>2 DEF RevertPcInv, Copiers, Early, First
<1>10. CASE OnAllPackagesActivated
  <2>1. /\ pc[Main] = "sys" /\ pc[Binder] = "start" /\ work[Main] = <<>> /\ pc'[Main] = "activated" /\ pc'[Binder] = "ready"
        /\ pc'[SnapshotDe] = pc[SnapshotDe] /\ UNCHANGED <<work, step, resumed>>
    BY <1>0, <1>10 DEF OnAllPackagesActivated, TypeOK, copying
  <2>2. pc[SnapshotDe] = "off" /\ work[SnapshotDe] = <<>> /\ ~resumed
    BY <2>1 DEF RevertPcInv
  <2> QED BY <2>1, <2>2, RevertPcStep DEF Early
<1>11. CASE SnapshotOrRestoreDeUserData
  <2>1. /\ pc[SnapshotDe] = "off" /\ pc[Binder] = "ready" /\ pc'[Main] = pc[Main] /\ pc'[Binder] = "ready"
        /\ pc'[SnapshotDe] = "user" /\ UNCHANGED <<step, resumed>> /\ work'[Main] = work[Main]
    BY <1>0, <1>11, GotoFacts DEF SnapshotOrRestoreDeUserData, TypeInv, WorkInv
  <2>2. work[SnapshotDe] = <<>> /\ step[SnapshotDe] = "remove"
    BY <2>1 DEF RevertPcInv, Copiers
  <2> QED BY <1>0, <2>1, <2>2 DEF RevertPcInv, Copiers, Early, First
<1>12. CASE OnAllPackagesReady
  <2>1. /\ pc[SnapshotDe] = "user" /\ work[SnapshotDe] = <<>> /\ pc'[Main] = pc[Main] /\ pc'[Binder] = pc[Binder]
        /\ pc'[SnapshotDe] = "ready" /\ UNCHANGED <<work, step, resumed>>
    BY <1>0, <1>12, GotoFacts DEF OnAllPackagesReady, copying
  <2> QED BY <2>1, RevertPcStep DEF RevertPcInv
<1>13. CASE Request
  <2>1. ASSUME NEW s \in SessionIds, Submit(s) \/ MarkStagedSessionSuccessful(s) PROVE RevertPcInv'
    BY <2>1, RevertPcFrame DEF Submit, MarkStagedSessionSuccessful, copying
  <2>2. ASSUME NEW r \in Ids, DestroyDeSnapshots(r) PROVE RevertPcInv'
    BY <2>2, RevertPcFrame DEF DestroyDeSnapshots, copying
  <2>3. ASSUME NEW d \in CeDirs, NEW retain, DestroyCeSnapshotsNotSpecified(d, retain) PROVE RevertPcInv'
    BY <2>3, RevertPcFrame DEF DestroyCeSnapshotsNotSpecified, copying
  <2>4. ASSUME NEW d \in CeDirs, NEW r \in Ids, NEW a \in Names, SnapshotOrRestoreCeData(d, r, a) PROVE RevertPcInv'
    <3>1. \A p \in Copiers : work'[p] = work[p]
      BY <1>0, <2>4 DEF SnapshotOrRestoreCeData, TypeInv, WorkInv, Copiers
    <3> QED BY <2>4, <3>1, RevertPcFrame DEF SnapshotOrRestoreCeData
  <2> QED BY <1>13, <2>1, <2>2, <2>3, <2>4 DEF Request, DestroyCeSnapshots
<1>14. CASE \E p \in Procs : CopyStep(p)
  BY <1>14, CopyKeepsRevertPc
<1> QED BY <1>0, <1>1, <1>2, <1>3, <1>4, <1>5, <1>6, <1>7, <1>8, <1>9, <1>10, <1>11, <1>12, <1>13, <1>14, <1>15
     DEF Next, MainStep, SnapshotDeStep

LEMMA RevertStateFrame ==
  ASSUME RevertStateInv, UNCHANGED <<state, before>>,
         Reverting # {} => pc'[Main] \in Early \cup {"resume", "restore", "undo"},
         pc'[Main] \in {"resume", "sys", "restore", "undo"} => In({"STAGED"}) = {},
         pc'[Main] \in {"restore", "undo", "reboot"} => Activated = {},
         pc'[Main] = "undo" => backup' = Nothing
  PROVE  RevertStateInv'
BY DEF RevertStateInv, OneUnderWay, Reverting, Activated, In

(* Sessions that are under way end, or go on to another state.               *)
LEMMA RevertStateMoves ==
  ASSUME RevertStateInv, UNCHANGED before,
         \A s \in SessionIds : state'[s] \in Unfinished => state[s] \in Unfinished,
         \A s \in SessionIds : state'[s] = "ACTIVATED" => state[s] = "ACTIVATED",
         \A s \in SessionIds : state'[s] = "REVERT_IN_PROGRESS" => state[s] \in {"ACTIVATED", "REVERT_IN_PROGRESS"},
         Reverting' # {} => pc'[Main] \in Early \cup {"resume", "restore", "undo"},
         pc'[Main] \in {"resume", "sys", "restore", "undo"} => In({"STAGED"})' = {},
         pc'[Main] \in {"restore", "undo", "reboot"} => Activated' = {},
         pc'[Main] = "undo" => backup' = Nothing
  PROVE  RevertStateInv'
<1>1. OneUnderWay'
  BY DEF RevertStateInv, OneUnderWay, In
<1>2. \A s \in SessionIds : state'[s] \in {"ACTIVATED", "REVERT_IN_PROGRESS"} => before'[s].version # Nothing
  BY DEF RevertStateInv
<1> QED BY <1>1, <1>2 DEF RevertStateInv

(* Revert, of a session that was activated.                                 *)
LEMMA RevertMoves ==
  ASSUME NoCheckpoint, TypeInv, RevertStateInv, Revert, UNCHANGED before, In({"STAGED"}) = {}
  PROVE  RevertStateInv'
<1>1. pc'[Main] = "restore"
  BY GotoFacts, ConstantFacts DEF Revert, TypeInv, NoCheckpoint
<1>2. \A s \in SessionIds : state'[s] = IF s \in In(Unfinished) THEN "REVERT_IN_PROGRESS" ELSE state[s]
  BY CommitFacts DEF Revert
<1>3. /\ \A s \in SessionIds : state'[s] \notin {"STAGED", "ACTIVATED"}
      /\ \A s \in SessionIds : state'[s] \in Unfinished => state[s] \in Unfinished
      /\ \A s \in SessionIds : state'[s] = "REVERT_IN_PROGRESS" => state[s] \in {"ACTIVATED", "REVERT_IN_PROGRESS"}
  BY <1>2 DEF In, Unfinished
<1> QED BY <1>1, <1>3, RevertStateMoves DEF Activated, In

LEMMA RevertStateKept ==
  ASSUME RevertWhenInUse, NoCheckpoint, TypeInv, RevertPcInv, RevertStateInv, [Next]_vars
  PROVE  RevertStateInv'
<1> USE DEF NoCheckpoint
<1>0. TypeOK /\ Main \in Procs /\ SnapshotDe \in Procs /\ Binder \in Procs
      /\ Main # SnapshotDe /\ Main # Binder /\ SnapshotDe # Binder
  BY ConstantFacts DEF TypeInv
<1>1. CASE UNCHANGED vars
  BY <1>1, RevertStateFrame DEF vars, storage, history, RevertStateInv
<1>2. CASE PowerLoss \/ RebootToInstall \/ Reboot
  <2>1. PowerOff /\ pc'[Main] = "off" /\ UNCHANGED <<state, before>>
    BY <1>2, PowerOffControl DEF PowerLoss, RebootToInstall, Reboot, PowerOff
  <2> QED BY <2>1, RevertStateFrame DEF Early
<1>3. CASE Boot \/ NeedsRollback
  <2>1. pc'[Main] \in {"start", "scan"} /\ UNCHANGED <<state, before>>
    BY <1>0, <1>3, GotoFacts DEF Boot, NeedsRollback, storage, history
  <2> QED BY <2>1, RevertStateFrame DEF Early
<1>4. CASE CommitChanges \/ (\E d \in DeDirs : \E a \in Names : Write(d, a))
  BY <1>4, RevertStateFrame DEF CommitChanges, Write, storage, history, RevertStateInv
<1>5. CASE ScanStagedSessionsDirAndStage
  <2>1. pc'[Main] = "resume"
    BY <1>0, <1>5, GotoFacts DEF ScanStagedSessionsDirAndStage
  <2>2. ToActivate = {s \in SessionIds : state[s] = "STAGED"}
    BY DEF ToActivate, In
  <2>3. \A s \in SessionIds : state'[s] = IF s \in ToActivate THEN "ACTIVATED" ELSE state[s]
    <3>1. Commit(ToActivate, "ACTIVATED")
      BY <1>5 DEF ScanStagedSessionsDirAndStage, MayInstall
    <3> QED BY <3>1, CommitFacts
  <2>4. OneUnderWay'
    <3>1. \A s \in SessionIds : state'[s] \in Unfinished => state[s] \in Unfinished
      BY <2>2, <2>3 DEF Unfinished
    <3> QED BY <3>1 DEF RevertStateInv, OneUnderWay, In
  <2>5. ASSUME NEW s \in SessionIds, state'[s] \in {"ACTIVATED", "REVERT_IN_PROGRESS"}
        PROVE  before'[s].version # Nothing
    <3>1. CASE s \in ToActivate
      <4>1. before'[s].version = version
        BY <1>5, <3>1 DEF ScanStagedSessionsDirAndStage, MayInstall
      <4> QED BY <1>0, <4>1, ConstantFacts DEF TypeOK
    <3>2. CASE s \notin ToActivate
      <4>1. before'[s] = before[s]
        BY <1>0, <1>5, <3>2 DEF ScanStagedSessionsDirAndStage, TypeOK
      <4> QED BY <2>3, <2>5, <3>2, <4>1 DEF RevertStateInv
    <3> QED BY <3>1, <3>2
  <2>6. In({"STAGED"})' = {}
    BY <2>2, <2>3 DEF In
  <2> QED BY <2>1, <2>4, <2>5, <2>6 DEF RevertStateInv, Early
<1>6. CASE ResumeRevertIfNeeded
  <2>1. pc[Main] = "resume" /\ UNCHANGED before /\ (resumed' <=> Reverting # {})
    BY <1>6 DEF ResumeRevertIfNeeded, history, Reverting
  <2>2. CASE resumed'
    <3>1. PICK s \in Reverting : TRUE
      BY <2>1, <2>2
    <3>2. In({"STAGED"}) = {}
      BY <3>1 DEF RevertStateInv, OneUnderWay, Reverting, In, Unfinished
    <3> QED BY <1>6, <2>1, <2>2, <3>2, RevertMoves DEF ResumeRevertIfNeeded
  <2>3. CASE ~resumed'
    <3>1. pc'[Main] = "sys" /\ UNCHANGED state
      BY <1>0, <1>6, <2>3, GotoFacts DEF ResumeRevertIfNeeded
    <3> QED BY <2>1, <2>3, <3>1, RevertStateFrame DEF RevertStateInv
  <2> QED BY <2>2, <2>3
<1>7. CASE ActivationFails \/ UpdatableCrashing
  BY <1>7, RevertMoves DEF ActivationFails, UpdatableCrashing, history, RevertStateInv
<1>8. CASE RestoreFails \/ FinishRevert
  <2>1. /\ pc[Main] \in {"restore", "undo"} /\ pc'[Main] \in {"sys", "activated", "reboot"} /\ UNCHANGED before
    BY <1>0, <1>8, GotoFacts DEF RestoreFails, FinishRevert, history
  <2>2. PICK st \in {"REVERT_FAILED", "REVERTED"} : Commit(Reverting, st)
    BY <1>8 DEF RestoreFails, FinishRevert, Reverting
  <2>3. \A s \in SessionIds : state'[s] = IF state[s] = "REVERT_IN_PROGRESS" THEN st ELSE state[s]
    BY <2>2, CommitFacts DEF Reverting, In
  <2>4. /\ \A s \in SessionIds : state'[s] \in Unfinished => state[s] \in Unfinished
        /\ \A s \in SessionIds : state'[s] # "REVERT_IN_PROGRESS"
        /\ \A s \in SessionIds : state'[s] \in {"STAGED", "ACTIVATED"} => state[s] = state'[s]
    BY <2>3 DEF Unfinished
  <2>5. Reverting' = {} /\ Activated' = {} /\ In({"STAGED"})' = {}
    BY <2>1, <2>4 DEF Reverting, Activated, In, RevertStateInv
  <2> QED BY <2>1, <2>4, <2>5, RevertStateMoves
<1>9. CASE RestoreActivePackages
  <2>1. pc[Main] = "restore" /\ pc'[Main] = "undo" /\ UNCHANGED <<state, before>> /\ backup' = Nothing
    BY <1>0, <1>9, GotoFacts DEF RestoreActivePackages, history
  <2> QED BY <2>1, RevertStateFrame DEF RevertStateInv
<1>10. CASE SnapshotOrRestoreDeSysData \/ OnAllPackagesActivated
  <2>1. pc[Main] = "sys" /\ pc'[Main] \in {"sys", "activated"} /\ UNCHANGED <<state, before>>
    BY <1>0, <1>10 DEF SnapshotOrRestoreDeSysData, OnAllPackagesActivated, TypeOK, storage, history
  <2> QED BY <2>1, RevertStateFrame DEF RevertStateInv, Early
<1>11. CASE SnapshotOrRestoreDeUserData \/ OnAllPackagesReady
  <2>1. pc'[Main] = pc[Main] /\ UNCHANGED <<state, before, backup>>
    BY <1>0, <1>11, GotoFacts DEF SnapshotOrRestoreDeUserData, OnAllPackagesReady, storage, history
  <2> QED BY <2>1, RevertStateFrame DEF RevertStateInv
<1>12. CASE Request
  <2>1. ASSUME NEW s \in SessionIds, Submit(s) PROVE RevertStateInv'
    <3>1. /\ pc'[Main] = "activated" /\ UNCHANGED before /\ state[s] = "none" /\ In(Unfinished) = {}
          /\ \A q \in SessionIds : state'[q] = IF q = s THEN "STAGED" ELSE state[q]
      BY <1>0, <2>1 DEF Submit, Idle, TypeOK, history
    <3>2. OneUnderWay'
      BY <3>1 DEF OneUnderWay, In, Unfinished
    <3>3. \A q \in SessionIds : state'[q] \notin {"ACTIVATED", "REVERT_IN_PROGRESS"}
      BY <3>1 DEF In, Unfinished
    <3> QED BY <3>1, <3>2, <3>3 DEF RevertStateInv, Reverting, In
  <2>2. ASSUME NEW s \in SessionIds, MarkStagedSessionSuccessful(s) PROVE RevertStateInv'
    <3>1. /\ pc'[Main] = "activated" /\ pc[Main] = "activated" /\ UNCHANGED before /\ state[s] = "ACTIVATED"
          /\ \A q \in SessionIds : state'[q] = IF q = s THEN "SUCCESS" ELSE state[q]
      BY <1>0, <2>2 DEF MarkStagedSessionSuccessful, Idle, TypeOK, history
    <3>2. /\ \A q \in SessionIds : state'[q] \in Unfinished => state'[q] = state[q]
          /\ Reverting' \subseteq Reverting
      BY <3>1 DEF Unfinished, Reverting, In
    <3> QED BY <3>1, <3>2, RevertStateMoves DEF RevertStateInv, Unfinished
  <2>3. ASSUME NEW r \in Ids, DestroyDeSnapshots(r) PROVE RevertStateInv'
    BY <2>3, RevertStateFrame DEF DestroyDeSnapshots, RevertStateInv
  <2>4. ASSUME NEW d \in CeDirs, NEW retain, DestroyCeSnapshotsNotSpecified(d, retain) PROVE RevertStateInv'
    BY <2>4, RevertStateFrame DEF DestroyCeSnapshotsNotSpecified, RevertStateInv, history
  <2>5. ASSUME NEW d \in CeDirs, NEW r \in Ids, NEW a \in Names, SnapshotOrRestoreCeData(d, r, a) PROVE RevertStateInv'
    BY <2>5, RevertStateFrame DEF SnapshotOrRestoreCeData, RevertStateInv, storage, history
  <2> QED BY <1>12, <2>1, <2>2, <2>3, <2>4, <2>5 DEF Request, DestroyCeSnapshots
<1>13. CASE \E p \in Procs : CopyStep(p)
  <2>1. PICK p \in Procs : CopyMoves(p)
    BY <1>13, CopyControl
  <2> QED BY <2>1, RevertStateFrame DEF CopyMoves, RevertStateInv
<1> QED BY <1>0, <1>1, <1>2, <1>3, <1>4, <1>5, <1>6, <1>7, <1>8, <1>9, <1>10, <1>11, <1>12, <1>13
     DEF Next, MainStep, SnapshotDeStep

---------------------------------------------------------------------------
(* The data that a revert looks at: an action that leaves it alone.          *)
RevertSame == \A f \in Places : f.dir \in DeDirs /\ f.sub \in {"data", "pre"} =>
  files'[f] = files[f] /\ (f \in spoiled' <=> f \in spoiled)

LEMMA RevertPlaces ==
  ASSUME NEW s \in SessionIds, NEW d \in DeDirs, NEW a \in Names
  PROVE  /\ Data(d, a) \in Places /\ Data(d, a).dir = d /\ Data(d, a).sub = "data"
         /\ PreRestore(d, RollbackId[s], a) \in Places
         /\ PreRestore(d, RollbackId[s], a).dir = d /\ PreRestore(d, RollbackId[s], a).sub = "pre"
         /\ Snapshot(d, RollbackId[s], a).sub = "snapshot"
BY PlacesTyped DEF Data, PreRestore, Snapshot

LEMMA BeforeSame ==
  ASSUME RevertSame, NEW s \in SessionIds, before'[s] = before[s], NEW d \in DeDirs, NEW a \in Names
  PROVE  /\ IsBefore(s, d, a, Data(d, a))' <=> IsBefore(s, d, a, Data(d, a))
         /\ IsAside(s, d, a)' <=> IsAside(s, d, a)
BY RevertPlaces DEF RevertSame, IsBefore, IsAside

LEMMA SetAsideFrame ==
  ASSUME NEW s \in SessionIds, SetAside(s), RevertSame, UNCHANGED before, SameCopies, SameStarts
  PROVE  SetAside(s)'
<1>1. \A p \in Copiers : work'[p] = work[p]
  BY DEF SameCopies
<1>2. ASSUME NEW p \in Copiers
      PROVE  /\ \A i \in 1..Len(work'[p]) : \E d \in DeDirs, a \in Names :
                  p = Copier(d) /\ work'[p][i] \in {AsideOf(s, d, a), RestoreOf(s, d, a)}
             /\ OneTarget(work'[p]) /\ RestoredNext(work'[p])
  BY <1>1 DEF SetAside
<1>3. ASSUME NEW d \in DeDirs, NEW a \in Names
      PROVE  IF Unstarted(d)' \/ ToCopy(d, PreRestore(d, RollbackId[s], a))'
               THEN IsBefore(s, d, a, Data(d, a))' ELSE IsAside(s, d, a)'
  <2>1. /\ Unstarted(d)' <=> Unstarted(d)
        /\ ToCopy(d, PreRestore(d, RollbackId[s], a))' <=> ToCopy(d, PreRestore(d, RollbackId[s], a))
    BY SameToCopy DEF SameStarts
  <2>2. /\ IsBefore(s, d, a, Data(d, a))' <=> IsBefore(s, d, a, Data(d, a))
        /\ IsAside(s, d, a)' <=> IsAside(s, d, a)
    BY BeforeSame
  <2> QED BY <2>1, <2>2 DEF SetAside
<1> QED BY <1>2, <1>3 DEF SetAside, Copier, AsideOf, RestoreOf, OneTarget, RestoredNext

LEMMA UndoingFrame ==
  ASSUME NEW s \in SessionIds, Undoing(s), RevertSame, UNCHANGED before, SameCopies
  PROVE  Undoing(s)'
<1>1. work'[Main] = work[Main] /\ step'[Main] = step[Main]
  BY DEF SameCopies, Copiers
<1>2. ASSUME NEW d \in DeDirs, NEW a \in Names
      PROVE  IF ToUndo(Data(d, a))' THEN IsAside(s, d, a)' ELSE IsBefore(s, d, a, Data(d, a))'
  <2>1. ToUndo(Data(d, a))' <=> ToUndo(Data(d, a))
    BY <1>1 DEF ToUndo
  <2>2. /\ IsBefore(s, d, a, Data(d, a))' <=> IsBefore(s, d, a, Data(d, a))
        /\ IsAside(s, d, a)' <=> IsAside(s, d, a)
    BY BeforeSame
  <2> QED BY <2>1, <2>2 DEF Undoing
<1>3. /\ \A i \in 1..Len(work'[Main]) : \E d \in DeDirs, a \in Names : work'[Main][i] = UndoOf(s, d, a)
      /\ OneTarget(work'[Main])
  BY <1>1 DEF Undoing
<1> QED BY <1>2, <1>3 DEF Undoing, UndoOf, OneTarget

LEMMA RevertDataFrame ==
  ASSUME RevertDataInv, RevertSame, UNCHANGED before, again \subseteq again', SameCopies, SameStarts,
         \A s \in Rollbacks : state'[s] = "ACTIVATED" /\ pc'[Main] \notin Early =>
           state[s] = "ACTIVATED" /\ pc[Main] \notin Early,
         \A s \in Rollbacks : state'[s] = "REVERT_IN_PROGRESS" /\ pc'[Main] = "undo" =>
           state[s] = "REVERT_IN_PROGRESS" /\ pc[Main] = "undo",
         \A s \in Rollbacks : state'[s] = "REVERT_IN_PROGRESS" /\ pc'[Main] # "undo" /\ backup' # Nothing =>
           state[s] = "REVERT_IN_PROGRESS" /\ pc[Main] # "undo" /\ backup # Nothing
  PROVE  RevertDataInv'
<1> SUFFICES ASSUME NEW s \in Tracked'
             PROVE  /\ state'[s] = "ACTIVATED" /\ pc'[Main] \notin Early => SetAside(s)'
                    /\ state'[s] = "REVERT_IN_PROGRESS" /\ pc'[Main] = "undo" => Undoing(s)'
                    /\ state'[s] = "REVERT_IN_PROGRESS" /\ pc'[Main] # "undo" /\ backup' # Nothing =>
                         \A d \in DeDirs, a \in Names : IsAside(s, d, a)'
  BY DEF RevertDataInv, Early
<1>1. s \in Tracked /\ s \in Rollbacks /\ s \in SessionIds
  BY DEF Tracked, Rollbacks
<1>2. ASSUME state'[s] = "ACTIVATED", pc'[Main] \notin Early PROVE SetAside(s)'
  <2>1. SetAside(s)
    BY <1>1, <1>2 DEF RevertDataInv
  <2> QED BY <1>1, <2>1, SetAsideFrame
<1>3. ASSUME state'[s] = "REVERT_IN_PROGRESS", pc'[Main] = "undo" PROVE Undoing(s)'
  <2>1. Undoing(s)
    BY <1>1, <1>3 DEF RevertDataInv
  <2> QED BY <1>1, <2>1, UndoingFrame
<1>4. ASSUME state'[s] = "REVERT_IN_PROGRESS", pc'[Main] # "undo", backup' # Nothing,
             NEW d \in DeDirs, NEW a \in Names
      PROVE  IsAside(s, d, a)'
  <2>1. IsAside(s, d, a)
    BY <1>1, <1>4 DEF RevertDataInv
  <2> QED BY <1>1, <2>1, BeforeSame
<1> QED BY <1>2, <1>3, <1>4

(* No session is left that it says anything of.                             *)
LEMMA RevertDataVacuous ==
  ASSUME \A s \in Tracked' : state'[s] \notin {"ACTIVATED", "REVERT_IN_PROGRESS"}
  PROVE  RevertDataInv'
BY DEF RevertDataInv

LEMMA DeSameReverts == DeSame => RevertSame
BY DEF DeSame, RevertSame

(* Both copiers are done.                                                  *)
LEMMA AllAreAside ==
  ASSUME RevertPcInv, NEW s \in SessionIds, SetAside(s), NEW d \in DeDirs, NEW a \in Names,
         pc[Binder] = "ready", work[Main] = <<>>, d = Sys \/ pc[SnapshotDe] = "ready"
  PROVE  IsAside(s, d, a)
<1>1. ~Unstarted(d)
  BY DEF Unstarted
<1>2. work[Copier(d)] = <<>>
  BY DEF RevertPcInv, Copier
<1>3. ~ToCopy(d, PreRestore(d, RollbackId[s], a))
  <2>1. Len(<<>>) = 0
    OBVIOUS
  <2> QED BY <1>2, <2>1 DEF ToCopy
<1> QED BY <1>1, <1>3 DEF SetAside
(* A copy of a rollback that is being activated.                            *)
LEMMA CopyKeepsAside ==
  ASSUME TypeInv, RevertPcInv, NEW s \in SessionIds, SetAside(s), NEW p \in Copiers, CopyStep(p),
         pc[Main] # "undo"
  PROVE  SetAside(s)'
<1>0. p \in Procs /\ CopyMoves(p) /\ OneTarget(work[p]) /\ RestoredNext(work[p])
  BY CopyControl DEF Copiers, Procs, SetAside
<1>1. First(p) = work[p][1] /\ 1 \in 1..Len(work[p])
  BY <1>0, FirstTyped DEF TypeInv, CopyMoves
<1>2. PICK e \in DeDirs, b \in Names : p = Copier(e) /\ First(p) \in {AsideOf(s, e, b), RestoreOf(s, e, b)}
  BY <1>1 DEF SetAside
<1> DEFINE aside == PreRestore(e, RollbackId[s], b)
<1>3. e \in Dirs /\ DeDirs \subseteq Dirs
  BY PlacesTyped
<1>4. /\ AsideOf(s, e, b).to = aside /\ AsideOf(s, e, b).from = Data(e, b) /\ ~AsideOf(s, e, b).move
      /\ RestoreOf(s, e, b).to = Data(e, b) /\ RestoreOf(s, e, b).from = Snapshot(e, RollbackId[s], b)
      /\ RestoreOf(s, e, b).move
  BY <1>3, RollbackCopyFacts
<1>5. ~Unstarted(e) /\ UNCHANGED <<pc, before>>
  BY <1>0, <1>2, ConstantFacts DEF Unstarted, Copier, CopyMoves, RevertPcInv
<1>6. Fills(p) \/ Ends(p) \/ Deletes(p)
  BY <1>0, CopyEffect
<1>7. /\ \A d \in DeDirs : \A x : Copier(d) # p \/ x # First(p).to => (ToCopy(d, x)' <=> ToCopy(d, x))
      /\ \A x : x = First(p).to =>
           (Fills(p) => ToCopy(e, x)') /\ (Ends(p) \/ Deletes(p) => ~ToCopy(e, x)')
      /\ \A o \in Copiers \ {p} : work'[o] = work[o]
      /\ \A i \in 1..Len(work'[p]) : \E j \in 1..Len(work[p]) : work'[p][i] = work[p][j]
      /\ OneTarget(work'[p]) /\ RestoredNext(work'[p])
  BY <1>0, <1>2, CopyProgress
(* What is restored first has been set aside. *)
<1>8. ASSUME First(p) = RestoreOf(s, e, b) PROVE ~ToCopy(e, aside)
  <2> SUFFICES ASSUME NEW i \in 1..Len(work[p]), work[p][i].to = aside PROVE FALSE
    BY <1>2 DEF ToCopy, Copier
  <2>1. PICK d \in DeDirs, a \in Names : work[p][i] \in {AsideOf(s, d, a), RestoreOf(s, d, a)}
    BY DEF SetAside
  <2>2. work[p][i] = AsideOf(s, e, b)
    BY <1>3, <1>4, <2>1, RollbackTargets
  <2>3. i + 1 \in 1..Len(work[p]) /\ work[p][i + 1].to = work[p][1].to
    BY <1>0, <1>1, <1>4, <1>8, <2>2 DEF RestoredNext
  <2>4. i + 1 = 1
    BY <1>0, <1>1, <2>3 DEF OneTarget
  <2> QED BY <2>4
<1>9. ASSUME NEW d \in DeDirs, NEW a \in Names
      PROVE  IF Unstarted(d)' \/ ToCopy(d, PreRestore(d, RollbackId[s], a))'
               THEN IsBefore(s, d, a, Data(d, a))' ELSE IsAside(s, d, a)'
  <2> DEFINE pre == PreRestore(d, RollbackId[s], a)
  <2>0. /\ Unstarted(d)' <=> Unstarted(d)
        /\ IF Unstarted(d) \/ ToCopy(d, pre) THEN IsBefore(s, d, a, Data(d, a)) ELSE IsAside(s, d, a)
    BY <1>5 DEF Unstarted, SetAside
  <2>1. ASSUME NEW x, SameBut(x)
        PROVE  /\ Data(d, a) # x => (IsBefore(s, d, a, Data(d, a))' <=> IsBefore(s, d, a, Data(d, a)))
               /\ pre # x => (IsAside(s, d, a)' <=> IsAside(s, d, a))
    BY <1>5, <2>1, RevertPlaces DEF SameBut, IsBefore, IsAside
  <2>2. ASSUME d # e \/ a # b PROVE Data(d, a) # Data(e, b) /\ pre # aside
    BY <2>2, PlacesDiffer, PrePlacesDiffer
  <2>3. Data(d, a) # aside /\ pre # Data(e, b) /\ pre # Snapshot(e, RollbackId[s], b) /\ Data(d, a) # Snapshot(e, RollbackId[s], b)
    BY PlacesDiffer, PrePlacesDiffer
  <2>4. CASE First(p) = AsideOf(s, e, b)
    <3>1. First(p).to = aside /\ ~Deletes(p)
      BY <1>0, <1>4, <2>4 DEF Deletes, RevertPcInv
    <3>2. SameBut(aside)
      BY <1>6, <3>1 DEF Fills, Ends
    <3>3. IsBefore(s, d, a, Data(d, a))' <=> IsBefore(s, d, a, Data(d, a))
      BY <2>1, <2>3, <3>2
    <3>4. CASE d = e /\ a = b
      <4>1. CASE Fills(p)
        <5>1. ToCopy(d, pre)' /\ ToCopy(d, pre)
          <6>1. ToCopy(e, aside)'
            BY <1>7, <3>1, <4>1
          <6>2. ToCopy(e, aside)
            BY <1>1, <1>2, <3>1, <4>1 DEF ToCopy, Copier, Fills
          <6> QED BY <3>4, <6>1, <6>2
        <5> QED BY <2>0, <3>3, <5>1
      <4>2. CASE Ends(p)
        <5>1. ~ToCopy(d, pre)' /\ ~Unstarted(d)'
          BY <1>5, <1>7, <2>0, <3>1, <3>4, <4>2
        <5>2. ToCopy(d, pre)
          <6>1. ToCopy(e, aside)
            BY <1>1, <1>2, <3>1, <4>2 DEF ToCopy, Copier, Ends
          <6> QED BY <3>4, <6>1
        <5>3. IsBefore(s, d, a, Data(d, a))
          BY <2>0, <5>2
        <5>4. pre \in spoiled' \/ (Data(d, a) \notin spoiled /\ files'[pre] = files[Data(d, a)])
          BY <1>4, <2>4, <3>4, <4>2 DEF Ends
        <5>5. IsAside(s, d, a)'
          BY <1>5, <5>3, <5>4 DEF IsAside, IsBefore
        <5> QED BY <5>1, <5>5
      <4> QED BY <1>6, <3>1, <4>1, <4>2
    <3>5. CASE d # e \/ a # b
      <4>1. (ToCopy(d, pre)' <=> ToCopy(d, pre)) /\ (IsAside(s, d, a)' <=> IsAside(s, d, a))
        BY <1>7, <2>1, <2>2, <3>1, <3>2, <3>5
      <4> QED BY <2>0, <3>3, <4>1
    <3> QED BY <3>4, <3>5
  <2>5. CASE First(p) = RestoreOf(s, e, b)
    <3>1. First(p).to = Data(e, b) /\ First(p).from = Snapshot(e, RollbackId[s], b)
      BY <1>4, <2>5
    <3>2. PICK x \in {Data(e, b), Snapshot(e, RollbackId[s], b)} : SameBut(x)
      BY <1>6, <3>1 DEF Fills, Ends, Deletes
    <3>3. (IsAside(s, d, a)' <=> IsAside(s, d, a)) /\ (ToCopy(d, pre)' <=> ToCopy(d, pre))
      BY <1>7, <2>1, <2>3, <3>1, <3>2
    <3>4. CASE d = e /\ a = b
      <4>1. ~ToCopy(d, pre) /\ ~Unstarted(d)
        BY <1>5, <1>8, <2>5, <3>4
      <4> QED BY <2>0, <3>3, <4>1
    <3>5. CASE d # e \/ a # b
      <4>1. IsBefore(s, d, a, Data(d, a))' <=> IsBefore(s, d, a, Data(d, a))
        BY <2>1, <2>2, <2>3, <3>2, <3>5
      <4> QED BY <2>0, <3>3, <4>1
    <3> QED BY <3>4, <3>5
  <2> QED BY <1>2, <2>4, <2>5
<1>10. ASSUME NEW o \in Copiers
       PROVE  /\ \A i \in 1..Len(work'[o]) : \E d \in DeDirs, a \in Names :
                   o = Copier(d) /\ work'[o][i] \in {AsideOf(s, d, a), RestoreOf(s, d, a)}
              /\ OneTarget(work'[o]) /\ RestoredNext(work'[o])
  <2>1. CASE o # p
    BY <1>7, <2>1 DEF SetAside
  <2>2. CASE o = p
    BY <1>7, <2>2 DEF SetAside
  <2> QED BY <2>1, <2>2
<1> QED BY <1>9, <1>10 DEF SetAside, Copier, AsideOf, RestoreOf, OneTarget, RestoredNext

(* A copy of one that is undone.                                           *)
LEMMA CopyKeepsUndoing ==
  ASSUME TypeInv, RevertPcInv, NEW s \in SessionIds, Undoing(s), CopyStep(Main)
  PROVE  Undoing(s)'
<1>0. Main \in Procs /\ Main \in Copiers /\ CopyMoves(Main) /\ OneTarget(work[Main]) /\ UNCHANGED before
  BY CopyControl, ConstantFacts DEF Copiers, Undoing, CopyMoves
<1>1. First(Main) = work[Main][1] /\ 1 \in 1..Len(work[Main])
  BY <1>0, FirstTyped DEF TypeInv, CopyMoves
<1>2. PICK e \in DeDirs, b \in Names : First(Main) = UndoOf(s, e, b)
  BY <1>1 DEF Undoing
<1>3. First(Main).to = Data(e, b) /\ First(Main).from = PreRestore(e, RollbackId[s], b)
  BY <1>2 DEF UndoOf
<1>4. Fills(Main) \/ Ends(Main) \/ Deletes(Main)
  BY <1>0, CopyEffect
<1>5. \A x : (ToUndo(x) <=> ToCopy(Sys, x)) /\ (ToUndo(x)' <=> ToCopy(Sys, x)')
  BY DEF ToUndo, ToCopy, Copier
<1>6. /\ \A x : x # Data(e, b) => (ToUndo(x)' <=> ToUndo(x))
      /\ Fills(Main) => ToUndo(Data(e, b))'
      /\ Ends(Main) \/ Deletes(Main) => ~ToUndo(Data(e, b))'
      /\ Deletes(Main) => ~ToUndo(Data(e, b))
      /\ \A i \in 1..Len(work'[Main]) : \E j \in 1..Len(work[Main]) : work'[Main][i] = work[Main][j]
      /\ OneTarget(work'[Main])
  <2>1. Sys \in DeDirs /\ Copier(Sys) = Main
    BY DEF DeDirs, Copier
  <2> QED BY <1>0, <1>3, <1>5, <2>1, CopyProgress
<1>7. ASSUME NEW d \in DeDirs, NEW a \in Names
      PROVE  IF ToUndo(Data(d, a))' THEN IsAside(s, d, a)' ELSE IsBefore(s, d, a, Data(d, a))'
  <2> DEFINE pre == PreRestore(d, RollbackId[s], a)
  <2>0. IF ToUndo(Data(d, a)) THEN IsAside(s, d, a) ELSE IsBefore(s, d, a, Data(d, a))
    BY DEF Undoing
  <2>1. ASSUME NEW x, SameBut(x)
        PROVE  /\ Data(d, a) # x => (IsBefore(s, d, a, Data(d, a))' <=> IsBefore(s, d, a, Data(d, a)))
               /\ pre # x => (IsAside(s, d, a)' <=> IsAside(s, d, a))
    BY <1>0, <2>1, RevertPlaces DEF SameBut, IsBefore, IsAside
  <2>2. /\ Data(d, a) # PreRestore(e, RollbackId[s], b) /\ pre # Data(e, b)
        /\ d # e \/ a # b => Data(d, a) # Data(e, b) /\ pre # PreRestore(e, RollbackId[s], b)
    BY PlacesDiffer, PrePlacesDiffer
  <2>3. PICK x \in {Data(e, b), PreRestore(e, RollbackId[s], b)} :
          SameBut(x) /\ (Fills(Main) \/ Ends(Main) => x = Data(e, b))
    BY <1>3, <1>4 DEF Fills, Ends, Deletes
  <2>4. CASE d # e \/ a # b
    BY <1>6, <2>0, <2>1, <2>2, <2>3, <2>4
  <2>5. CASE d = e /\ a = b
    <3>1. CASE Fills(Main)
      <4>1. ToUndo(Data(d, a)) /\ ToUndo(Data(d, a))'
        <5>1. ToUndo(Data(e, b))
          BY <1>1, <1>3, <3>1 DEF ToUndo, Fills
        <5> QED BY <1>6, <2>5, <3>1, <5>1
      <4> QED BY <2>0, <2>1, <2>2, <2>3, <3>1, <4>1
    <3>2. CASE Ends(Main)
      <4>1. ToUndo(Data(d, a)) /\ ~ToUndo(Data(d, a))'
        <5>1. ToUndo(Data(e, b))
          BY <1>1, <1>3, <3>2 DEF ToUndo, Ends
        <5> QED BY <1>6, <2>5, <3>2, <5>1
      <4>2. Data(d, a) \in spoiled' \/ (pre \notin spoiled /\ files'[Data(d, a)] = files[pre])
        BY <1>3, <2>5, <3>2 DEF Ends
      <4>3. IsBefore(s, d, a, Data(d, a))'
        BY <1>0, <2>0, <4>1, <4>2 DEF IsAside, IsBefore
      <4> QED BY <4>1, <4>3
    <3>3. CASE Deletes(Main)
      <4>1. ~ToUndo(Data(d, a)) /\ ~ToUndo(Data(d, a))'
        BY <1>6, <2>5, <3>3
      <4>2. SameBut(PreRestore(e, RollbackId[s], b))
        BY <1>3, <3>3 DEF Deletes
      <4> QED BY <2>0, <2>1, <2>2, <4>1, <4>2
    <3> QED BY <1>4, <3>1, <3>2, <3>3
  <2> QED BY <2>4, <2>5
<1>8. \A i \in 1..Len(work'[Main]) : \E d \in DeDirs, a \in Names : work'[Main][i] = UndoOf(s, d, a)
  BY <1>6 DEF Undoing
<1> QED BY <1>6, <1>7, <1>8 DEF Undoing, UndoOf, OneTarget

LEMMA CopyKeepsRevertData ==
  ASSUME TypeInv, RevertPcInv, RevertStateInv, RevertDataInv, NEW p \in Procs, CopyStep(p)
  PROVE  RevertDataInv'
<1>0. CopyMoves(p) /\ UNCHANGED <<pc, state, backup, before, again>> /\ work[p] # <<>>
  BY CopyControl DEF CopyMoves
<1>1. CASE p = Binder
  <2>1. SameCopies /\ SameStarts
    BY <1>0, <1>1, ConstantFacts DEF CopyMoves, SameCopies, SameStarts, Unstarted, Copiers
  <2>2. RevertSame
    BY <1>1, BinderCopies, DeSameReverts
  <2> QED BY <1>0, <2>1, <2>2, RevertDataFrame
<1>2. CASE p \in Copiers
  <2> SUFFICES ASSUME NEW s \in Tracked
               PROVE  /\ state[s] = "ACTIVATED" /\ pc[Main] \notin Early => SetAside(s)'
                      /\ state[s] = "REVERT_IN_PROGRESS" /\ pc[Main] = "undo" => Undoing(s)'
                      /\ ~(state[s] = "REVERT_IN_PROGRESS" /\ pc[Main] # "undo")
    BY <1>0 DEF RevertDataInv, Tracked
  <2>1. s \in SessionIds
    BY DEF Tracked, Rollbacks
  <2>2. ASSUME state[s] = "REVERT_IN_PROGRESS" PROVE pc[Main] = "undo" /\ p = Main
    <3>1. pc[Main] \in Early \cup {"resume", "restore", "undo"}
      BY <2>1, <2>2 DEF RevertStateInv, Reverting, In
    <3> QED BY <1>0, <1>2, <3>1 DEF RevertPcInv, Copiers, Early
  <2>3. state[s] = "ACTIVATED" /\ pc[Main] \notin Early => SetAside(s)'
    <3>1. state[s] = "ACTIVATED" => pc[Main] # "undo"
      BY <2>1 DEF RevertStateInv, Activated, In
    <3> QED BY <1>2, <2>1, <3>1, CopyKeepsAside DEF RevertDataInv
  <2>4. state[s] = "REVERT_IN_PROGRESS" /\ pc[Main] = "undo" => Undoing(s)'
    BY <2>1, <2>2, CopyKeepsUndoing DEF RevertDataInv
  <2> QED BY <2>2, <2>3, <2>4
<1> QED BY <1>1, <1>2 DEF Procs, Copiers
(* Power, and the boot up to the scan of the sessions.                      *)
LEMMA RevertDataBoot ==
  ASSUME NoCheckpoint, TypeInv, RevertPcInv, RevertStateInv, RevertDataInv,
         \/ PowerLoss \/ RebootToInstall \/ Reboot \/ Boot \/ NeedsRollback
         \/ ScanStagedSessionsDirAndStage \/ ResumeRevertIfNeeded
  PROVE  RevertDataInv'
<1> USE DEF NoCheckpoint
<1>0. TypeOK /\ Main \in Procs /\ SnapshotDe \in Procs /\ Binder \in Procs
      /\ Main # SnapshotDe /\ Main # Binder /\ SnapshotDe # Binder
  BY ConstantFacts DEF TypeInv
<1>1. CASE PowerLoss \/ RebootToInstall \/ Reboot
  <2>1. /\ pc'[Main] = "off" /\ UNCHANGED <<state, before, again, backup, files, spoiled>>
    BY <1>1, PowerOffControl DEF PowerLoss, RebootToInstall, Reboot, PowerOff
  <2> SUFFICES ASSUME NEW s \in Tracked, state[s] = "REVERT_IN_PROGRESS", backup # Nothing,
                      NEW d \in DeDirs, NEW a \in Names
               PROVE  IsAside(s, d, a)'
    BY <2>1 DEF RevertDataInv, Tracked, Early
  <2>2. pc[Main] # "undo"
    BY DEF RevertStateInv
  <2>3. IsAside(s, d, a)
    BY <2>2 DEF RevertDataInv
  <2> QED BY <2>1, <2>3 DEF IsAside, IsBefore
<1>2. CASE Boot \/ NeedsRollback
  <2>1. /\ pc[Main] \in Early /\ pc'[Main] \in {"start", "scan"}
        /\ pc'[Binder] = pc[Binder] /\ pc'[SnapshotDe] = pc[SnapshotDe]
        /\ UNCHANGED <<state, before, again, backup, files, spoiled, work, step>>
    BY <1>0, <1>2, GotoFacts DEF Boot, NeedsRollback, Early, storage, history, copying
  <2>2. RevertSame /\ SameCopies /\ SameStarts
    BY <2>1 DEF RevertSame, SameCopies, SameStarts, Unstarted
  <2> QED BY <2>1, <2>2, RevertDataFrame DEF Early
<1>3. CASE ScanStagedSessionsDirAndStage
  <2>1. /\ pc[Main] = "scan" /\ pc'[Main] = "resume" /\ pc'[Binder] = "off" /\ pc'[SnapshotDe] = "off"
        /\ UNCHANGED <<backup, files, spoiled, work>>
    BY <1>0, <1>3, GotoFacts DEF ScanStagedSessionsDirAndStage, RevertPcInv, Early, copying
  <2>2. work[Main] = <<>> /\ work[SnapshotDe] = <<>>
    BY <2>1 DEF RevertPcInv, Early
  <2>3. ToActivate = {s \in SessionIds : state[s] = "STAGED"} /\ MayInstall
    BY DEF ToActivate, In, MayInstall
  <2>4. \A s \in SessionIds : state'[s] = IF s \in ToActivate THEN "ACTIVATED" ELSE state[s]
    <3>1. Commit(ToActivate, "ACTIVATED")
      BY <1>3, <2>3 DEF ScanStagedSessionsDirAndStage
    <3> QED BY <3>1, CommitFacts
  <2>5. again' = again \cup Activated
    BY <1>3 DEF ScanStagedSessionsDirAndStage, Activated
  <2>6. \A s \in SessionIds :
          IF s \in ToActivate THEN \A d \in DeDirs, a \in Names : before'[s].data[<<d, a>>] = files[Data(d, a)]
                              ELSE before'[s] = before[s]
    <3>1. CASE ToActivate = {}
      BY <1>3, <3>1 DEF ScanStagedSessionsDirAndStage
    <3>2. CASE ToActivate # {}
      <4> DEFINE now == [data |-> [x \in DeDirs \X Names |-> files[Data(x[1], x[2])]], version |-> version]
      <4>1. before' = [s \in SessionIds |-> IF s \in ToActivate THEN now ELSE before[s]]
        BY <1>3, <2>3, <3>2 DEF ScanStagedSessionsDirAndStage
      <4>2. \A d \in DeDirs, a \in Names : now.data[<<d, a>>] = files[Data(d, a)]
        OBVIOUS
      <4> HIDE DEF now
      <4> QED BY <4>1, <4>2
    <3> QED BY <3>1, <3>2
  <2> SUFFICES ASSUME NEW s \in Tracked'
               PROVE  /\ state'[s] = "ACTIVATED" => SetAside(s)'
                      /\ state'[s] = "REVERT_IN_PROGRESS" /\ backup' # Nothing =>
                           \A d \in DeDirs, a \in Names : IsAside(s, d, a)'
    BY <2>1 DEF RevertDataInv
  <2>7. s \in Rollbacks /\ s \in SessionIds /\ s \in Tracked /\ s \notin Activated
    BY <2>5 DEF Tracked, Rollbacks
  <2>8. ASSUME state'[s] = "ACTIVATED" PROVE SetAside(s)'
    <3>1. s \in ToActivate
      BY <2>4, <2>7, <2>8 DEF Activated, In
    <3>2. \A d \in DeDirs, a \in Names : Unstarted(d)' /\ IsBefore(s, d, a, Data(d, a))'
      BY <2>1, <2>6, <2>7, <3>1 DEF Unstarted, IsBefore
    <3>3. ASSUME NEW p \in Copiers
          PROVE  /\ \A i \in 1..Len(work'[p]) : \E d \in DeDirs, a \in Names :
                      p = Copier(d) /\ work'[p][i] \in {AsideOf(s, d, a), RestoreOf(s, d, a)}
                 /\ OneTarget(work'[p]) /\ RestoredNext(work'[p])
      <4>1. work'[p] = <<>>
        BY <2>1, <2>2 DEF Copiers
      <4>2. 1..Len(work'[p]) = {}
        <5>1. Len(<<>>) = 0 /\ 1..0 = {}
          OBVIOUS
        <5> QED BY <4>1, <5>1
      <4> QED BY <4>2 DEF OneTarget, RestoredNext
    <3> QED BY <3>2, <3>3 DEF SetAside, Copier, AsideOf, RestoreOf, OneTarget, RestoredNext
  <2>9. ASSUME state'[s] = "REVERT_IN_PROGRESS", backup' # Nothing, NEW d \in DeDirs, NEW a \in Names
        PROVE  IsAside(s, d, a)'
    <3>1. state[s] = "REVERT_IN_PROGRESS" /\ before'[s] = before[s] /\ backup # Nothing
      BY <2>1, <2>4, <2>6, <2>7, <2>9
    <3>2. IsAside(s, d, a)
      BY <2>1, <2>7, <3>1 DEF RevertDataInv
    <3> QED BY <2>1, <3>1, <3>2 DEF IsAside, IsBefore
  <2> QED BY <2>8, <2>9
<1>4. CASE ResumeRevertIfNeeded
  <2>1. /\ pc[Main] = "resume" /\ pc'[Main] \in {"restore", "sys"} /\ (resumed' <=> Reverting # {})
        /\ pc'[Binder] = pc[Binder] /\ pc'[SnapshotDe] = pc[SnapshotDe]
        /\ UNCHANGED <<before, again, backup, files, spoiled, work, step>>
    BY <1>0, <1>4, GotoFacts DEF ResumeRevertIfNeeded, Revert, Reverting, history, copying
  <2>2. \A s \in SessionIds : state'[s] = state[s]
    <3>1. CASE resumed'
      <4>1. \A s \in In(Unfinished) : state[s] = "REVERT_IN_PROGRESS"
        BY <2>1, <3>1 DEF RevertStateInv, OneUnderWay, Reverting, In, Unfinished
      <4>2. Commit(In(Unfinished), "REVERT_IN_PROGRESS")
        BY <1>4, <3>1 DEF ResumeRevertIfNeeded, Revert
      <4> QED BY <4>1, <4>2, CommitFacts
    <3>2. CASE ~resumed'
      BY <1>4, <3>2 DEF ResumeRevertIfNeeded
    <3> QED BY <3>1, <3>2
  <2>3. RevertSame /\ SameCopies /\ SameStarts
    BY <2>1 DEF RevertSame, SameCopies, SameStarts, Unstarted
  <2> QED BY <2>1, <2>2, <2>3, RevertDataFrame DEF Early, Rollbacks
<1> QED BY <1>1, <1>2, <1>3, <1>4

(* A failure, and the revert.                                              *)
LEMMA RevertDataRevert ==
  ASSUME RevertWhenInUse, NoCheckpoint, TypeInv, RevertPcInv, RevertStateInv, RevertDataInv,
         \/ ActivationFails \/ UpdatableCrashing
         \/ RestoreFails \/ RestoreActivePackages \/ FinishRevert
  PROVE  RevertDataInv'
<1> USE DEF NoCheckpoint
<1>0. TypeOK /\ WorkInv /\ Main \in Procs /\ SnapshotDe \in Procs /\ Binder \in Procs
      /\ Main # SnapshotDe /\ Main # Binder /\ SnapshotDe # Binder
  BY ConstantFacts DEF TypeInv
<1>1. CASE UpdatableCrashing
  <2>1. /\ pc[Main] = "activated" /\ pc[SnapshotDe] = "ready" /\ In({"STAGED"}) = {}
        /\ pc'[Main] = "restore" /\ Commit(In(Unfinished), "REVERT_IN_PROGRESS")
        /\ UNCHANGED <<before, again, backup, files, spoiled>>
    BY <1>0, <1>1, GotoFacts DEF UpdatableCrashing, Revert, history
  <2>2. pc[Binder] = "ready" /\ work[Main] = <<>> /\ Reverting = {}
    BY <2>1 DEF RevertPcInv, RevertStateInv, Early
  <2>3. \A s \in SessionIds : state'[s] = IF s \in In(Unfinished) THEN "REVERT_IN_PROGRESS" ELSE state[s]
    BY <2>1, CommitFacts
  <2>4. \A s \in SessionIds : state'[s] # "ACTIVATED" /\ (state'[s] = "REVERT_IN_PROGRESS" => state[s] = "ACTIVATED")
    BY <2>1, <2>2, <2>3 DEF In, Unfinished, Reverting
  <2> SUFFICES ASSUME NEW s \in Tracked, state'[s] = "REVERT_IN_PROGRESS", NEW d \in DeDirs, NEW a \in Names
               PROVE  IsAside(s, d, a)'
    BY <2>1, <2>4 DEF RevertDataInv, Tracked, Rollbacks
  <2>5. s \in SessionIds
    BY DEF Tracked, Rollbacks
  <2>6. SetAside(s)
    BY <2>1, <2>4, <2>5 DEF RevertDataInv, Early
  <2>7. IsAside(s, d, a)
    BY <2>1, <2>2, <2>5, <2>6, AllAreAside
  <2> QED BY <2>1, <2>7 DEF IsAside, IsBefore
<1>2. CASE RestoreFails \/ FinishRevert
  <2>1. PICK st \in {"REVERT_FAILED", "REVERTED"} : Commit(Reverting, st)
    BY <1>2 DEF RestoreFails, FinishRevert, Reverting
  <2>2. Activated = {}
    BY <1>2 DEF RestoreFails, FinishRevert, RevertStateInv
  <2>3. \A s \in SessionIds : state'[s] \notin {"ACTIVATED", "REVERT_IN_PROGRESS"}
    BY <2>1, <2>2, CommitFacts DEF Reverting, Activated, In
  <2> QED BY <2>3, RevertDataVacuous DEF Tracked, Rollbacks
<1>3. CASE RestoreActivePackages
  <2>1. /\ pc[Main] = "restore" /\ pc'[Main] = "undo" /\ backup # Nothing
        /\ work'[Main] = RestoreDePreRestoreSnapshotsIfPresent({s \in Reverting : IsRollback[s]})
        /\ UNCHANGED <<state, before, again, files, spoiled, step>>
    BY <1>0, <1>3, GotoFacts DEF RestoreActivePackages, Reverting, WorkInv, history
  <2>2. Activated = {} /\ step[Main] = "remove"
    BY <2>1 DEF RevertStateInv, RevertPcInv, Copiers
  <2> SUFFICES ASSUME NEW s \in Tracked, state[s] = "REVERT_IN_PROGRESS" PROVE Undoing(s)'
    BY <2>1, <2>2 DEF RevertDataInv, Tracked, Rollbacks, Activated, In
  <2>3. s \in SessionIds /\ s \in Rollbacks /\ IsRollback[s]
    BY DEF Tracked, Rollbacks
  <2>4. {q \in Reverting : IsRollback[q]} = {s}
    BY <2>3 DEF RevertStateInv, OneUnderWay, Reverting, In, Unfinished
  <2>5. IsUndoing(work'[Main], s)
    BY <2>1, <2>3, <2>4, UndoWork
  <2>6. ASSUME NEW d \in DeDirs, NEW a \in Names PROVE ToUndo(Data(d, a))' /\ IsAside(s, d, a)'
    <3>1. IsAside(s, d, a)
      BY <2>1 DEF RevertDataInv
    <3>2. UndoOf(s, d, a).to = Data(d, a)
      BY DEF UndoOf
    <3>3. ToUndo(Data(d, a))'
      BY <2>1, <2>2, <2>5, <3>2 DEF ToUndo, IsUndoing
    <3> QED BY <2>1, <3>1, <3>3 DEF IsAside, IsBefore
  <2> QED BY <2>5, <2>6 DEF IsUndoing, Undoing, UndoOf, OneTarget
<1>4. CASE ActivationFails
  <2>1. /\ pc[Main] = "sys" /\ Commit(In(Unfinished), "REVERT_IN_PROGRESS") /\ again' = again
        /\ \A s \in Activated : IsRollback[s] => s \in again
    BY <1>4 DEF ActivationFails, Revert, history, Activated
  <2>2. Reverting = {} /\ In({"STAGED"}) = {}
    BY <2>1 DEF RevertStateInv, Early
  <2>3. \A s \in SessionIds : state'[s] \in {"ACTIVATED", "REVERT_IN_PROGRESS"} => s \in Activated
    BY <2>1, <2>2, CommitFacts DEF In, Unfinished, Reverting, Activated
  <2> QED BY <2>1, <2>3, RevertDataVacuous DEF Tracked, Rollbacks
<1> QED BY <1>1, <1>2, <1>3, <1>4

(* What a boot has to copy for the rollback that it activates.               *)
LEMMA HandedOut ==
  ASSUME TypeInv, RevertPcInv, NEW s \in SessionIds, SetAside(s), UNCHANGED <<files, spoiled, before, step>>,
         NEW p \in Copiers, NEW D \in SUBSET DeDirs, \A d \in DeDirs : d \in D <=> Copier(d) = p,
         work[p] = <<>>, IsSettingAside(work'[p], s, D), \A o \in Copiers \ {p} : work'[o] = work[o],
         \A d \in D : Unstarted(d), \A d \in DeDirs \ D : Unstarted(d)' <=> Unstarted(d)
  PROVE  SetAside(s)'
<1>1. ASSUME NEW o \in Copiers
      PROVE  /\ \A i \in 1..Len(work'[o]) : \E d \in DeDirs, a \in Names :
                  o = Copier(d) /\ work'[o][i] \in {AsideOf(s, d, a), RestoreOf(s, d, a)}
             /\ OneTarget(work'[o]) /\ RestoredNext(work'[o])
  <2>1. CASE o # p
    BY <2>1 DEF SetAside
  <2>2. CASE o = p
    BY <2>2 DEF IsSettingAside, Paired
  <2> QED BY <2>1, <2>2
<1>2. ASSUME NEW d \in DeDirs, NEW a \in Names
      PROVE  IF Unstarted(d)' \/ ToCopy(d, PreRestore(d, RollbackId[s], a))'
               THEN IsBefore(s, d, a, Data(d, a))' ELSE IsAside(s, d, a)'
  <2> DEFINE pre == PreRestore(d, RollbackId[s], a)
  <2>0. /\ IF Unstarted(d) \/ ToCopy(d, pre) THEN IsBefore(s, d, a, Data(d, a)) ELSE IsAside(s, d, a)
        /\ IsBefore(s, d, a, Data(d, a))' <=> IsBefore(s, d, a, Data(d, a))
        /\ IsAside(s, d, a)' <=> IsAside(s, d, a)
    BY DEF SetAside, IsBefore, IsAside
  <2>1. CASE d \in D
    <3>1. PICK l \in 1..Len(work'[p]) : work'[p][l] = AsideOf(s, d, a)
      BY <2>1 DEF IsSettingAside
    <3>2. work'[p][l].to = pre /\ Copier(d) = p /\ step'[p] = "remove"
      BY <2>1, <3>1 DEF AsideOf, RevertPcInv
    <3>3. ToCopy(d, pre)'
      BY <3>2 DEF ToCopy, Copier
    <3> QED BY <2>0, <2>1, <3>3
  <2>2. CASE d \notin D
    <3>1. Copier(d) \in Copiers \ {p}
      BY <2>2 DEF Copier, Copiers
    <3>2. ToCopy(d, pre)' <=> ToCopy(d, pre)
      BY <3>1 DEF ToCopy, Copier
    <3> QED BY <2>0, <2>2, <3>2
  <2> QED BY <2>1, <2>2
<1> QED BY <1>1, <1>2 DEF SetAside, Copier, AsideOf, RestoreOf, OneTarget, RestoredNext

LEMMA RevertDataCopiers ==
  ASSUME NoCheckpoint, TypeInv, RevertPcInv, RevertStateInv, RevertDataInv,
         \/ SnapshotOrRestoreDeSysData \/ OnAllPackagesActivated
         \/ SnapshotOrRestoreDeUserData \/ OnAllPackagesReady
  PROVE  RevertDataInv'
<1> USE DEF NoCheckpoint
<1>0. TypeOK /\ WorkInv /\ Main \in Procs /\ SnapshotDe \in Procs /\ Binder \in Procs
      /\ Main # SnapshotDe /\ Main # Binder /\ SnapshotDe # Binder
  BY ConstantFacts DEF TypeInv
<1>1. /\ UNCHANGED <<state, before, again, backup, files, spoiled, step>>
      /\ pc[Main] \in {"activated", "reboot", "sys"} /\ pc'[Main] \in {"activated", "reboot", "sys"}
  <2>1. /\ UNCHANGED <<state, before, again, backup, files, spoiled, step>>
        /\ pc[Main] = "sys" \/ (pc[SnapshotDe] \in {"off", "user"} /\ pc[Binder] = "ready")
        /\ pc'[Main] = pc[Main] \/ (pc[Main] = "sys" /\ pc'[Main] = "activated")
    <3>1. pc[SnapshotDe] = "user" => pc[Binder] = "ready"
      BY DEF RevertPcInv
    <3>2. CASE SnapshotOrRestoreDeSysData
      BY <1>0, <3>2 DEF SnapshotOrRestoreDeSysData, TypeOK, storage, history
    <3>3. CASE OnAllPackagesActivated
      BY <1>0, <3>3 DEF OnAllPackagesActivated, TypeOK, storage, history, copying
    <3>4. CASE SnapshotOrRestoreDeUserData
      BY <1>0, <3>4, GotoFacts DEF SnapshotOrRestoreDeUserData, storage, history
    <3>5. CASE OnAllPackagesReady
      BY <1>0, <3>1, <3>5, GotoFacts DEF OnAllPackagesReady, storage, history, copying
    <3> QED BY <3>2, <3>3, <3>4, <3>5
  <2>2. pc[Main] \in Labels
    BY <1>0 DEF TypeOK
  <2>3. pc[Main] \in {"activated", "reboot", "sys"}
    BY <2>1, <2>2 DEF RevertPcInv, Labels, Early
  <2> QED BY <2>1, <2>3
<1>2. \A s \in SessionIds : state[s] # "REVERT_IN_PROGRESS"
  BY <1>1 DEF RevertStateInv, Reverting, In, Early
<1>3. CASE OnAllPackagesActivated \/ OnAllPackagesReady
  <2>1. SameCopies /\ SameStarts
    <3>1. UNCHANGED work
      BY <1>3 DEF OnAllPackagesActivated, OnAllPackagesReady, copying
    <3>2. CASE OnAllPackagesActivated
      <4>1. pc[Binder] = "start" /\ pc'[Binder] = "ready" /\ pc'[SnapshotDe] = pc[SnapshotDe]
        BY <1>0, <3>2 DEF OnAllPackagesActivated, TypeOK
      <4> QED BY <1>1, <3>1, <4>1 DEF SameCopies, SameStarts, Unstarted
    <3>3. CASE OnAllPackagesReady
      <4>1. pc'[Binder] = pc[Binder] /\ pc[SnapshotDe] = "user" /\ pc'[SnapshotDe] = "ready"
        BY <1>0, <3>3, GotoFacts DEF OnAllPackagesReady
      <4> QED BY <1>1, <3>1, <4>1 DEF SameCopies, SameStarts, Unstarted
    <3> QED BY <1>3, <3>2, <3>3
  <2>2. RevertSame
    BY <1>1 DEF RevertSame
  <2> QED BY <1>1, <1>2, <2>1, <2>2, RevertDataFrame DEF Early, Rollbacks
<1>4. CASE SnapshotOrRestoreDeSysData \/ SnapshotOrRestoreDeUserData
  <2> SUFFICES ASSUME NEW s \in Tracked, state[s] = "ACTIVATED" PROVE SetAside(s)'
    BY <1>1, <1>2 DEF RevertDataInv, Tracked, Rollbacks
  <2>1. s \in SessionIds /\ s \in Rollbacks /\ SetAside(s)
    BY <1>1 DEF Tracked, Rollbacks, RevertDataInv, Early
  <2>2. Activated = {s}
    BY <2>1 DEF RevertStateInv, OneUnderWay, Activated, In, Unfinished
  <2>3. CASE SnapshotOrRestoreDeSysData
    <3>1. /\ pc[Binder] = "off" /\ pc'[SnapshotDe] = pc[SnapshotDe]
          /\ work'[Main] = SysWork /\ work'[SnapshotDe] = work[SnapshotDe] /\ pc[Main] = "sys"
      BY <1>0, <2>3 DEF SnapshotOrRestoreDeSysData, SysWork, TypeOK, WorkInv
    <3>2. work[Main] = <<>>
      BY <3>1 DEF RevertPcInv
    <3>3. IsSettingAside(work'[Main], s, {Sys})
      BY <2>1, <2>2, <3>1, RollbackSysWork
    <3>4. /\ Main \in Copiers /\ {Sys} \in SUBSET DeDirs /\ \A o \in Copiers \ {Main} : work'[o] = work[o]
          /\ \A d \in DeDirs : d \in {Sys} <=> Copier(d) = Main
          /\ \A d \in {Sys} : Unstarted(d)
          /\ \A d \in DeDirs \ {Sys} : Unstarted(d)' <=> Unstarted(d)
      BY <1>0, <3>1 DEF Copiers, DeDirs, Copier, Unstarted
    <3> QED BY <1>1, <2>1, <3>2, <3>3, <3>4, HandedOut
  <2>4. CASE SnapshotOrRestoreDeUserData
    <3>1. /\ pc[SnapshotDe] = "off" /\ pc'[Binder] = pc[Binder]
          /\ work'[SnapshotDe] = UserWork /\ work'[Main] = work[Main]
      BY <1>0, <2>4, GotoFacts DEF SnapshotOrRestoreDeUserData, UserWork, WorkInv
    <3>2. work[SnapshotDe] = <<>>
      BY <3>1 DEF RevertPcInv
    <3>3. IsSettingAside(work'[SnapshotDe], s, UserDirs)
      BY <2>1, <2>2, <3>1, RollbackUserWork
    <3>4. /\ SnapshotDe \in Copiers /\ UserDirs \in SUBSET DeDirs /\ \A o \in Copiers \ {SnapshotDe} : work'[o] = work[o]
          /\ \A d \in DeDirs : d \in UserDirs <=> Copier(d) = SnapshotDe
          /\ \A d \in UserDirs : Unstarted(d)
          /\ \A d \in DeDirs \ UserDirs : Unstarted(d)' <=> Unstarted(d)
      BY <1>0, <3>1, DirsAssumption DEF Copiers, DeDirs, Copier, Unstarted
    <3> QED BY <1>1, <2>1, <3>2, <3>3, <3>4, HandedOut
  <2> QED BY <1>4, <2>3, <2>4
<1> QED BY <1>3, <1>4

(* The requests of clients, and writes of APEXes.                            *)
LEMMA RevertDataInUse ==
  ASSUME NoCheckpoint, TypeInv, RevertPcInv, RevertStateInv, RevertDataInv,
         \/ CommitChanges \/ Request \/ UNCHANGED vars
         \/ \E d \in DeDirs : \E a \in Names : Write(d, a)
  PROVE  RevertDataInv'
<1> USE DEF NoCheckpoint
<1>0. TypeOK /\ WorkInv /\ Binder \in Procs /\ Main # Binder /\ SnapshotDe # Binder /\ Copiers \subseteq Procs
  BY ConstantFacts DEF TypeInv, Copiers, Procs
<1>1. ASSUME UNCHANGED <<state, before, again, backup, pc, step>>, RevertSame, \A p \in Copiers : work'[p] = work[p]
      PROVE  RevertDataInv'
  <2>1. SameCopies /\ SameStarts
    BY <1>1 DEF SameCopies, SameStarts, Unstarted
  <2> QED BY <1>1, <2>1, RevertDataFrame
<1>2. CASE CommitChanges \/ UNCHANGED vars
  <2>1. RevertSame
    BY <1>2 DEF CommitChanges, vars, storage, history, RevertSame
  <2> QED BY <1>1, <1>2, <2>1 DEF CommitChanges, vars, storage, history, copying
<1>3. ASSUME NEW e \in DeDirs, NEW b \in Names, Write(e, b) PROVE RevertDataInv'
  <2>1. /\ pc[Main] = "activated" /\ (e = Sys \/ pc[SnapshotDe] = "ready") /\ work[Main] = <<>>
        /\ UNCHANGED <<state, backup, pc, work, step, before, again>>
    BY <1>3 DEF Write, copying
  <2>2. \A f \in Places : f # Data(e, b) => files'[f] = files[f] /\ (f \in spoiled' <=> f \in spoiled)
    BY <1>0, <1>3 DEF Write, TypeOK
  <2>3. pc[Binder] = "ready" /\ \A s \in SessionIds : state[s] # "REVERT_IN_PROGRESS"
    BY <2>1 DEF RevertPcInv, RevertStateInv, Reverting, In, Early
  <2> SUFFICES ASSUME NEW s \in Tracked, state[s] = "ACTIVATED" PROVE SetAside(s)'
    BY <2>1, <2>3 DEF RevertDataInv, Tracked, Rollbacks
  <2>4. s \in SessionIds /\ SetAside(s)
    BY <2>1 DEF Tracked, Rollbacks, RevertDataInv, Early
  <2>5. ASSUME NEW d \in DeDirs, NEW a \in Names
        PROVE  IF Unstarted(d)' \/ ToCopy(d, PreRestore(d, RollbackId[s], a))'
                 THEN IsBefore(s, d, a, Data(d, a))' ELSE IsAside(s, d, a)'
    <3> DEFINE pre == PreRestore(d, RollbackId[s], a)
    <3>1. /\ Unstarted(d)' <=> Unstarted(d)
          /\ ToCopy(d, pre)' <=> ToCopy(d, pre)
      BY <2>1 DEF Unstarted, ToCopy
    <3>2. IsAside(s, d, a)' <=> IsAside(s, d, a)
      <4>1. pre \in Places /\ pre # Data(e, b)
        BY <2>4, RevertPlaces, PrePlacesDiffer
      <4> QED BY <2>1, <2>2, <4>1 DEF IsAside, IsBefore
    <3>3. CASE d = e
      <4>1. ~Unstarted(d) /\ work[Copier(d)] = <<>>
        BY <2>1, <2>3, <3>3 DEF Unstarted, Copier, RevertPcInv
      <4>2. ~ToCopy(d, pre)
        <5>1. Len(<<>>) = 0
          OBVIOUS
        <5> QED BY <4>1, <5>1 DEF ToCopy
      <4> QED BY <2>4, <3>1, <3>2, <4>1, <4>2 DEF SetAside
    <3>4. CASE d # e
      <4>1. IsBefore(s, d, a, Data(d, a))' <=> IsBefore(s, d, a, Data(d, a))
        <5>1. Data(d, a) \in Places /\ Data(d, a) # Data(e, b)
          BY <2>4, <3>4, RevertPlaces, PlacesDiffer
        <5> QED BY <2>1, <2>2, <5>1 DEF IsBefore
      <4> QED BY <2>4, <3>1, <3>2, <4>1 DEF SetAside
    <3> QED BY <3>3, <3>4
  <2>6. \A p \in Copiers : /\ \A i \in 1..Len(work'[p]) : \E d \in DeDirs, a \in Names :
                                p = Copier(d) /\ work'[p][i] \in {AsideOf(s, d, a), RestoreOf(s, d, a)}
                           /\ OneTarget(work'[p]) /\ RestoredNext(work'[p])
    BY <2>1, <2>4 DEF SetAside
  <2> QED BY <2>5, <2>6 DEF SetAside, Copier, AsideOf, RestoreOf, OneTarget, RestoredNext
<1>4. ASSUME NEW s \in SessionIds, Submit(s) \/ MarkStagedSessionSuccessful(s) PROVE RevertDataInv'
  <2>1. \A q \in SessionIds : state'[q] \notin {"ACTIVATED", "REVERT_IN_PROGRESS"}
    <3>1. CASE Submit(s)
      <4>1. /\ In(Unfinished) = {}
            /\ \A q \in SessionIds : state'[q] = IF q = s THEN "STAGED" ELSE state[q]
        BY <1>0, <3>1 DEF Submit, TypeOK
      <4> QED BY <4>1 DEF In, Unfinished
    <3>2. CASE MarkStagedSessionSuccessful(s)
      <4>1. /\ state[s] = "ACTIVATED"
            /\ \A q \in SessionIds : state'[q] = IF q = s THEN "SUCCESS" ELSE state[q]
        BY <1>0, <3>2 DEF MarkStagedSessionSuccessful, TypeOK
      <4> QED BY <4>1 DEF RevertStateInv, OneUnderWay, In, Unfinished
    <3> QED BY <1>4, <3>1, <3>2
  <2> QED BY <2>1, RevertDataVacuous DEF Tracked, Rollbacks
<1>5. ASSUME NEW r \in Ids, DestroyDeSnapshots(r) PROVE RevertDataInv'
  <2>1. RevertSame
    <3> SUFFICES ASSUME NEW f \in Places, f.sub \in {"data", "pre"}
                 PROVE  files'[f] = files[f] /\ (f \in spoiled' <=> f \in spoiled)
      BY DEF RevertSame
    <3>1. files'[f] = files[f]
      BY <1>5 DEF DestroyDeSnapshots, Destroyed
    <3>2. f \notin {Snapshot(d, r, a) : d \in DeDirs, a \in Names}
      BY DEF Snapshot
    <3> QED BY <1>5, <3>1, <3>2 DEF DestroyDeSnapshots
  <2> QED BY <1>1, <1>5, <2>1 DEF DestroyDeSnapshots, copying
<1>6. ASSUME NEW d \in CeDirs, NEW retain, DestroyCeSnapshotsNotSpecified(d, retain) PROVE RevertDataInv'
  <2>1. RevertSame
    BY <1>6 DEF DestroyCeSnapshotsNotSpecified, Destroyed, RevertSame, history
  <2> QED BY <1>1, <1>6, <2>1 DEF DestroyCeSnapshotsNotSpecified, copying, history
<1>7. ASSUME NEW d \in CeDirs, NEW r \in Ids, NEW a \in Names, SnapshotOrRestoreCeData(d, r, a) PROVE RevertDataInv'
  <2>1. \A p \in Copiers : work'[p] = work[p]
    BY <1>0, <1>7 DEF SnapshotOrRestoreCeData, WorkInv, Copiers
  <2>2. RevertSame
    BY <1>7 DEF SnapshotOrRestoreCeData, RevertSame, storage, history
  <2> QED BY <1>1, <1>7, <2>1, <2>2 DEF SnapshotOrRestoreCeData, storage, history
<1> QED BY <1>2, <1>3, <1>4, <1>5, <1>6, <1>7 DEF Request, DestroyCeSnapshots

RevertInv == NoCheckpoint /\ TypeInv /\ RevertPcInv /\ RevertStateInv /\ RevertDataInv

LEMMA RevertKept ==
  ASSUME RevertWhenInUse, RevertInv, [Next]_vars
  PROVE  RevertInv'
<1> USE DEF RevertInv
<1>1. NoCheckpoint' /\ TypeInv' /\ RevertPcInv' /\ RevertStateInv'
  BY CheckpointNever, TypeKept, RevertPcKept, RevertStateKept
<1>2. RevertDataInv'
  <2>1. CASE \E p \in Procs : CopyStep(p)
    BY <2>1, CopyKeepsRevertData
  <2>2. Main \in Procs /\ SnapshotDe \in Procs /\ Binder \in Procs
    BY ConstantFacts
  <2> QED BY <2>1, <2>2, RevertDataBoot, RevertDataRevert, RevertDataCopiers, RevertDataInUse
       DEF Next, MainStep, SnapshotDeStep
<1> QED BY <1>1, <1>2

LEMMA RevertInit ==
  ASSUME Init, ~supportsFsCheckpoints
  PROVE  RevertInv
<1>1. TypeInv
  BY TypeInit
<1>2. /\ \A p \in Procs : pc[p] = "off" /\ work[p] = <<>> /\ step[p] = "remove"
      /\ \A s \in SessionIds : state[s] = "none"
      /\ ~resumed /\ ~journaling
  BY DEF Init
<1>3. NoCheckpoint
  BY <1>2 DEF NoCheckpoint
<1>4. RevertPcInv
  BY <1>2, ConstantFacts DEF RevertPcInv, Copiers, Early
<1>5. RevertStateInv
  BY <1>2, ConstantFacts DEF RevertStateInv, OneUnderWay, Reverting, In, Unfinished, Early
<1>6. RevertDataInv
  BY <1>2 DEF RevertDataInv, Tracked, Rollbacks
<1> QED BY <1>1, <1>3, <1>4, <1>5, <1>6 DEF RevertInv

(* A revert that ends has the data of the rollback back in its place.        *)
LEMMA RevertedWhole ==
  ASSUME RevertInv, [Next]_vars, NEW s \in SessionIds \ again,
         state[s] # "REVERTED", state'[s] = "REVERTED", IsRollback[s],
         NEW d \in DeDirs, NEW a \in Names
  PROVE  /\ before[s].version # Nothing
         /\ Data(d, a) \in spoiled \/ files[Data(d, a)] = before[s].data[<<d, a>>]
<1> USE DEF RevertInv
<1>1. FinishRevert
  <2> USE DEF NoCheckpoint
  <2>0. Main \in Procs /\ SnapshotDe \in Procs /\ Binder \in Procs
    BY ConstantFacts
  <2>1. ASSUME NEW p \in Procs, CopyStep(p) PROVE FALSE
    BY <2>1, CopyControl DEF CopyMoves
  <2>2. ~(UNCHANGED vars) /\ ~Boot /\ ~PowerLoss /\ ~RebootToInstall /\ ~CommitChanges /\ ~Reboot
    BY DEF vars, storage, Boot, PowerLoss, RebootToInstall, CommitChanges, Reboot, PowerOff
  <2>3. ~\E e \in DeDirs : \E b \in Names : Write(e, b)
    BY DEF Write
  <2>4. ~NeedsRollback /\ ~SnapshotOrRestoreDeSysData /\ ~OnAllPackagesActivated /\ ~RestoreActivePackages
        /\ ~SnapshotOrRestoreDeUserData /\ ~OnAllPackagesReady
    BY DEF NeedsRollback, SnapshotOrRestoreDeSysData, OnAllPackagesActivated, RestoreActivePackages,
         SnapshotOrRestoreDeUserData, OnAllPackagesReady, storage
  <2>5. \A S, st : Commit(S, st) => st = "REVERTED"
    BY CommitFacts
  <2>6. ~ScanStagedSessionsDirAndStage /\ ~RestoreFails
    BY <2>5 DEF ScanStagedSessionsDirAndStage, RestoreFails
  <2>7. ~ResumeRevertIfNeeded /\ ~ActivationFails /\ ~UpdatableCrashing
    <3>1. ~Revert
      BY <2>5 DEF Revert
    <3> QED BY <3>1 DEF ResumeRevertIfNeeded, ActivationFails, UpdatableCrashing
  <2>8. ~Request
    <3>1. \A q \in SessionIds : ~Submit(q) /\ ~MarkStagedSessionSuccessful(q)
      BY DEF Submit, MarkStagedSessionSuccessful, TypeInv, TypeOK
    <3>2. \A r : ~DestroyDeSnapshots(r)
      BY DEF DestroyDeSnapshots
    <3>3. \A e, retain : ~DestroyCeSnapshotsNotSpecified(e, retain)
      BY DEF DestroyCeSnapshotsNotSpecified
    <3>4. \A e, r, b : ~SnapshotOrRestoreCeData(e, r, b)
      BY DEF SnapshotOrRestoreCeData, storage
    <3> QED BY <3>1, <3>2, <3>3, <3>4 DEF Request, DestroyCeSnapshots
  <2> QED BY <2>0, <2>1, <2>2, <2>3, <2>4, <2>6, <2>7, <2>8 DEF Next, MainStep, SnapshotDeStep
<1>2. state[s] = "REVERT_IN_PROGRESS" /\ pc[Main] = "undo" /\ work[Main] = <<>>
  BY <1>1, CommitFacts DEF FinishRevert, In
<1>3. s \in Tracked
  BY DEF Tracked, Rollbacks
<1>4. ~ToUndo(Data(d, a))
  <2>1. Len(<<>>) = 0
    OBVIOUS
  <2> QED BY <1>2, <2>1 DEF ToUndo
<1>5. IsBefore(s, d, a, Data(d, a))
  BY <1>2, <1>3, <1>4 DEF RevertDataInv, Undoing
<1> QED BY <1>2, <1>5 DEF IsBefore, RevertStateInv

(* On devices without checkpoints a crash costs no data: a rollback that is   *)
(* reverted leaves what there was when it was activated, wherever power was  *)
(* lost in between; as long as its APEXes can be activated and no process    *)
(* crashes before they are in use, which is what lets OnStart and            *)
(* --snapshotde set the data aside in time.                                *)
THEOREM RevertsKeepData == ASSUME RevertWhenInUse PROVE Spec => RevertKeepsData
<1> DEFINE Kept == \A s \in SessionIds \ again :
             state[s] # "REVERTED" /\ state'[s] = "REVERTED" /\ IsRollback[s] /\ ~supportsFsCheckpoints =>
               \A d \in DeDirs : \A a \in Names :
                 \/ Data(d, a) \in spoiled
                 \/ IF before[s].version = Nothing THEN files[Data(d, a)] # Nothing
                    ELSE files[Data(d, a)] = before[s].data[<<d, a>>]
           Inv == supportsFsCheckpoints \/ RevertInv
<1>1. Init => Inv
  BY RevertInit
<1>2. Inv /\ [Next]_vars => Inv'
  <2> SUFFICES ASSUME Inv, [Next]_vars PROVE Inv'
    OBVIOUS
  <2>1. supportsFsCheckpoints' = supportsFsCheckpoints
    BY SupportIsFixed
  <2>2. RevertInv => RevertInv'
    BY RevertKept
  <2> QED BY <2>1, <2>2
<1>3. Inv /\ [Next]_vars => [Kept]_vars
  <2> SUFFICES ASSUME Inv, [Next]_vars PROVE Kept
    OBVIOUS
  <2> SUFFICES ASSUME NEW s \in SessionIds \ again, state[s] # "REVERTED", state'[s] = "REVERTED", IsRollback[s],
                      ~supportsFsCheckpoints, NEW d \in DeDirs, NEW a \in Names
               PROVE  \/ Data(d, a) \in spoiled
                      \/ IF before[s].version = Nothing THEN files[Data(d, a)] # Nothing
                         ELSE files[Data(d, a)] = before[s].data[<<d, a>>]
    OBVIOUS
  <2>1. /\ before[s].version # Nothing
        /\ Data(d, a) \in spoiled \/ files[Data(d, a)] = before[s].data[<<d, a>>]
    BY RevertedWhole
  <2> QED BY <2>1
<1> QED BY <1>1, <1>2, <1>3, PTL DEF Spec, RevertKeepsData
=============================================================================
