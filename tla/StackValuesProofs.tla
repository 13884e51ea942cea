------------------------- MODULE StackValuesProofs -------------------------
(***************************************************************************)
(* Lemmas about StackValues, for any types of parameters and locals, any   *)
(* callees and any number of registers: what each operator that moves      *)
(* operands leaves of the descriptions and of what they denote.  The       *)
(* proofs about OperandStack and ControlFlow rest on them.                 *)
(***************************************************************************)
EXTENDS StackValues, WellFoundedInduction, FiniteSetTheorems, TLAPS

-----------------------------------------------------------------------------
(* Recursion: what a definition f[k] == ... f[k - 1] ... defines.          *)

Less == {p \in Nat \X Nat : p[1] < p[2]}

LEMMA Least ==
  ASSUME NEW T, T \subseteq Nat, T # {}
  PROVE  \E m \in T : \A k \in T : m <= k
<1>1. IsWellFoundedOn(Less, Nat)
  BY NatLessThanWellFounded, Zenon DEF OpToRel, Less
<1>2. PICK m \in T : \A k \in T : ~(<<k, m>> \in Less)
  BY <1>1, WFMin
<1>3. \A k \in T : ~(k < m)  BY <1>2 DEF Less
<1> QED  BY <1>3

(* A property of all the values of a sequence follows step by step.        *)
LEMMA StepByStep ==
  ASSUME NEW n \in Nat, NEW f, NEW S, f[0] \in S[0],
         \A k \in 1..n : f[k - 1] \in S[k - 1] => f[k] \in S[k]
  PROVE  \A k \in 0..n : f[k] \in S[k]
<1> DEFINE Bad == {k \in 0..n : f[k] \notin S[k]}
<1> SUFFICES ASSUME Bad # {} PROVE FALSE  OBVIOUS
<1>1. PICK m \in Bad : \A k \in Bad : m <= k
  <2>1. Bad \subseteq Nat  OBVIOUS
  <2> QED  BY <2>1, Least
<1>2. m \in 1..n  BY <1>1
<1>3. m - 1 \in 0..n /\ m - 1 \notin Bad  BY <1>1, <1>2
<1> QED  BY <1>1, <1>2, <1>3

(* The function that such a definition describes exists.                   *)
Steps(n, S, g) == \A k \in 1..n : \A x \in S[k - 1] : g[k][x] \in S[k]
Runs(f, n, S, b, g) ==
  /\ f[0] = b /\ \A k \in 1..n : f[k] = g[k][f[k - 1]]
  /\ \A k \in 0..n : f[k] \in S[k]

LEMMA Recursion ==
  ASSUME NEW n \in Nat, NEW S, NEW b, b \in S[0], NEW g, Steps(n, S, g)
  PROVE  \E f : Runs(f, n, S, b, g)
<1>0. \A k \in 1..n : \A x \in S[k - 1] : g[k][x] \in S[k]  BY DEF Steps
<1> DEFINE Is(f, m) == f = [k \in 0..m |-> IF k = 0 THEN b ELSE g[k][f[k - 1]]]
           Bad == {m \in 0..n : ~\E f : Is(f, m)}
<1>1. Bad = {}
  <2> SUFFICES ASSUME Bad # {} PROVE FALSE  OBVIOUS
  <2>1. PICK m \in Bad : \A k \in Bad : m <= k
    <3>1. Bad \subseteq Nat  OBVIOUS
    <3> QED  BY <3>1, Least
  <2>2. m # 0
    <3>1. Is([k \in 0..0 |-> b], 0)  OBVIOUS
    <3> QED  BY <2>1, <3>1
  <2>3. m \in 1..n /\ m - 1 \in 0..n
    <3>1. m \in 0..n  BY <2>1
    <3> QED  BY <2>2, <3>1
  <2>4. PICK h : Is(h, m - 1)
    <3>1. m - 1 \notin Bad
      <4> HIDE DEF Bad
      <4> QED  BY <2>1, <2>3
    <3> QED  BY <2>3, <3>1, Zenon
  <2> DEFINE f == [k \in 0..m |-> IF k = m THEN g[m][h[m - 1]] ELSE h[k]]
  <2>5. Is(f, m)
    <3>1. ASSUME NEW k \in 0..m  PROVE f[k] = IF k = 0 THEN b ELSE g[k][f[k - 1]]
      <4>1. CASE k = m  BY <2>3, <4>1
      <4>2. CASE k # m
        <5>1. k \in 0..(m - 1) /\ f[k] = h[k]  BY <2>3, <4>2
        <5>2. k = 0 \/ f[k - 1] = h[k - 1]  BY <2>3, <5>1
        <5> QED  BY <2>4, <5>1, <5>2
      <4> QED  BY <4>1, <4>2
    <3> QED  BY <3>1
  <2> QED  BY <2>1, <2>5
<1>2. PICK f : Is(f, n)
  <2>1. n \in 0..n  OBVIOUS
  <2> QED  BY <1>1, <2>1, Zenon
<1>3. f[0] = b /\ \A k \in 1..n : f[k] = g[k][f[k - 1]]  BY <1>2
<1>4. \A k \in 0..n : f[k] \in S[k]
  <2>1. \A k \in 1..n : f[k - 1] \in S[k - 1] => f[k] \in S[k]  BY <1>0, <1>3
  <2> QED  BY <1>3, <2>1, StepByStep
<1> QED  BY <1>3, <1>4 DEF Runs

-----------------------------------------------------------------------------
(* Where consecutive values lie.                                           *)

LEMMA Sizes ==
  /\ Size("i32") = 1 /\ Size("i64") = 2
  /\ \A t \in Types : Size(t) \in {1, 2}
BY DEF Size, Types

LEMMA Aligned ==
  ASSUME NEW off \in Nat
  PROVE  /\ AlignUp(off, 1) = off
         /\ AlignUp(off, 2) = off + (off % 2) /\ off % 2 \in {0, 1} /\ AlignUp(off, 2) % 2 = 0
<1>1. AlignUp(off, 1) = off
  <2>1. (off + 1 - 1) \div 1 = off  OBVIOUS
  <2> QED  BY <2>1 DEF AlignUp
<1>2. off % 2 \in {0, 1}  OBVIOUS
<1>3. CASE off % 2 = 0
  <2>1. AlignUp(off, 2) = off  BY <1>3 DEF AlignUp
  <2>2. off = off + (off % 2)  BY <1>3
  <2>3. AlignUp(off, 2) % 2 = 0  BY <1>3, <2>1, Zenon
  <2> QED  BY <1>1, <1>2, <2>1, <2>2, <2>3, Zenon
<1>4. CASE off % 2 = 1
  <2>1. AlignUp(off, 2) = off + 1  BY <1>4 DEF AlignUp
  <2>2. (off + 1) % 2 = 0  BY <1>4
  <2>3. off + 1 = off + (off % 2)  BY <1>4
  <2>4. AlignUp(off, 2) % 2 = 0  BY <2>1, <2>2, Zenon
  <2> QED  BY <1>1, <1>2, <2>1, <2>3, <2>4, Zenon
<1> QED  BY <1>2, <1>3, <1>4

LEMMA AlignedTo ==
  ASSUME NEW off \in Nat, NEW t \in Types
  PROVE  /\ AlignUp(off, Size(t)) \in Nat /\ AlignUp(off, Size(t)) >= off
         /\ AlignUp(off, Size(t)) + Size(t) <= off + (off % 2) + 2
         /\ AlignUp(off, Size(t)) + (AlignUp(off, Size(t)) % 2) = off + (off % 2)
         /\ off % 2 \in {0, 1}
<1> DEFINE a == AlignUp(off, Size(t))
<1>1. off % 2 \in {0, 1}  OBVIOUS
<1>2. CASE Size(t) = 1
  <2>1. a = off  BY <1>2, Aligned, Zenon
  <2>2. off + Size(t) <= off + (off % 2) + 2 /\ off >= off  BY <1>1, <1>2
  <2> QED  BY <1>1, <2>1, <2>2, Zenon
<1>3. CASE Size(t) = 2
  <2>1. a = off + (off % 2) /\ a % 2 = 0  BY <1>3, Aligned, Zenon
  <2> HIDE DEF a
  <2>2. /\ a \in Nat /\ a >= off /\ a + Size(t) <= off + (off % 2) + 2 /\ a + 0 = off + (off % 2)
    BY <1>1, <1>3, <2>1
  <2>3. a + (a % 2) = off + (off % 2)  BY <2>1, <2>2, Zenon
  <2> QED  BY <1>1, <2>2, <2>3, Zenon DEF a
<1> QED  BY <1>2, <1>3, Sizes

LEMMA LayoutIs ==
  ASSUME NEW types \in Seq(Types), NEW base \in Nat
  PROVE  LET at == Layout(base, types)
         IN  /\ at \in [DOMAIN types -> Nat]
             /\ \A i \in DOMAIN types :
                  at[i] = AlignUp(IF i = 1 THEN base ELSE at[i - 1] + Size(types[i - 1]),
                                  Size(types[i]))
<1> DEFINE n == Len(types)
           S == [k \in 0..n |-> Nat]
           E(k, x) == AlignUp(IF k = 1 THEN base ELSE x + Size(types[k - 1]), Size(types[k]))
           g == [k \in 1..n |-> [x \in Nat |-> E(k, x)]]
           F == Layout(base, types)
<1>1. n \in Nat /\ DOMAIN types = 1..n /\ \A k \in 1..n : types[k] \in Types  OBVIOUS
<1>2. ASSUME NEW k \in 1..n, NEW x \in Nat  PROVE E(k, x) \in Nat
  <2> DEFINE off == IF k = 1 THEN base ELSE x + Size(types[k - 1])
  <2>1. off \in Nat
    <3>1. CASE k = 1  BY <3>1
    <3>2. CASE k # 1
      <4>1. types[k - 1] \in Types  BY <1>1, <3>2
      <4>2. Size(types[k - 1]) \in Nat  BY <4>1, Sizes
      <4> QED  BY <3>2, <4>2
    <3> QED  BY <3>1, <3>2
  <2> HIDE DEF off
  <2>2. AlignUp(off, Size(types[k])) \in Nat  BY <1>1, <2>1, AlignedTo
  <2> QED  BY <2>2 DEF off
<1> HIDE DEF E
<1>3. base \in S[0] /\ Steps(n, S, g)
  <2>1. ASSUME NEW k \in 1..n, NEW x \in S[k - 1]  PROVE g[k][x] \in S[k]
    <3>1. x \in Nat /\ S[k] = Nat  BY <1>1
    <3> QED  BY <1>2, <3>1
  <2>2. base \in S[0]  BY <1>1
  <2>3. Steps(n, S, g)
    <3> HIDE DEF n, S, g
    <3> QED  BY <2>1, Zenon DEF Steps
  <2> QED  BY <2>2, <2>3
<1>4. PICK f : Runs(f, n, S, base, g)
  <2> HIDE DEF n, S, g
  <2> QED  BY <1>1, <1>3, Recursion, Zenon
<1> DEFINE h == [k \in 1..n |-> f[k]]
<1>5. \A k \in 0..n : f[k] \in Nat  BY <1>4 DEF Runs
<1>6. \A k \in 1..n : f[k] = E(k, f[k - 1])
  <2> TAKE k \in 1..n
  <2>1. k - 1 \in 0..n /\ k \in 0..n /\ k # 0  BY <1>1
  <2>2. f[k] = g[k][f[k - 1]]
    <3> HIDE DEF g
    <3> QED  BY <1>4, <2>1 DEF Runs
  <2>3. f[k - 1] \in Nat  BY <1>5, <2>1
  <2> HIDE DEF n
  <2> QED  BY <2>2, <2>3
<1>7. \A k \in 1..n : h[k] = E(k, h[k - 1])
  <2> TAKE k \in 1..n
  <2>1. CASE k = 1
    <3>1. E(k, h[k - 1]) = E(k, f[k - 1])  BY <2>1, Zenon DEF E
    <3> QED  BY <1>6, <3>1
  <2>2. CASE k # 1  BY <1>1, <1>6, <2>2
  <2> QED  BY <2>1, <2>2
<1>8. h = [i \in DOMAIN types |-> E(i, h[i - 1])]  BY <1>1, <1>7
<1>9. \E q : q = [i \in DOMAIN types |-> E(i, q[i - 1])]  BY <1>8, Zenon
<1>10. F = [i \in DOMAIN types |-> E(i, F[i - 1])]
  <2>1. F = CHOOSE q : q = [i \in DOMAIN types |-> E(i, q[i - 1])]  BY Zenon DEF Layout, E
  <2> HIDE DEF F
  <2> QED  BY <1>9, <2>1, Zenon
<1> HIDE DEF F
<1>11. \A i \in 1..n : F[i] = E(i, F[i - 1])  BY <1>1, <1>10
<1>12. \A i \in 1..n : F[i] \in Nat
  <2> DEFINE R == [k \in 0..n |-> IF k = 0 THEN {0} ELSE Nat]
             q == [k \in 0..n |-> IF k = 0 THEN 0 ELSE F[k]]
  <2>1. q[0] \in R[0]  BY <1>1
  <2>2. ASSUME NEW k \in 1..n, q[k - 1] \in R[k - 1]  PROVE q[k] \in R[k]
    <3>1. CASE k = 1
      <4>1. E(k, F[k - 1]) = E(k, 0)  BY <3>1, Zenon DEF E
      <4> QED  BY <1>2, <1>11, <3>1, <4>1
    <3>2. CASE k # 1
      <4>1. F[k - 1] \in Nat  BY <1>1, <2>2, <3>2
      <4>2. F[k] \in Nat  BY <1>2, <1>11, <4>1, Zenon
      <4>3. k \in 0..n /\ k # 0  BY <1>1
      <4> QED  BY <4>2, <4>3
    <3> QED  BY <3>1, <3>2
  <2>3. \A k \in 0..n : q[k] \in R[k]
    <3> HIDE DEF q, R, n
    <3> QED  BY <1>1, <2>1, <2>2, StepByStep
  <2> QED  BY <1>1, <2>3
<1>13. F \in [DOMAIN types -> Nat]  BY <1>1, <1>10, <1>12
<1> QED  BY <1>1, <1>11, <1>13, Zenon DEF F, E

(* Each value lies behind all those before it, from base on.               *)
LEMMA LayoutOrdered ==
  ASSUME NEW types \in Seq(Types), NEW base \in Nat
  PROVE  LET at == Layout(base, types)
         IN  /\ \A i \in DOMAIN types : base <= at[i]
             /\ \A i, j \in DOMAIN types : i < j => at[i] + Size(types[i]) <= at[j]
<1> DEFINE n == Len(types)
           at == Layout(base, types)
           f == [k \in 0..n |-> IF k = 0 THEN base ELSE at[k]]
<1>1. n \in Nat /\ DOMAIN types = 1..n /\ \A k \in 1..n : types[k] \in Types  OBVIOUS
<1>0. \A k \in DOMAIN types :
        at[k] = AlignUp(IF k = 1 THEN base ELSE at[k - 1] + Size(types[k - 1]), Size(types[k]))
  BY LayoutIs
<1>2. \A k \in 1..n : at[k] \in Nat  BY <1>1, LayoutIs
<1>3. at[1] >= base \/ n = 0
  <2> SUFFICES ASSUME n # 0 PROVE at[1] >= base  OBVIOUS
  <2>1. 1 \in 1..n  BY <1>1
  <2>2. at[1] = AlignUp(base, Size(types[1]))  BY <1>1, <2>1, LayoutIs
  <2>3. types[1] \in Types  BY <1>1, <2>1
  <2> QED  BY <2>2, <2>3, AlignedTo
<1>4. \A k \in 1..n : k # 1 => at[k - 1] + Size(types[k - 1]) <= at[k]
  <2> TAKE k \in 1..n
  <2> SUFFICES ASSUME k # 1 PROVE at[k - 1] + Size(types[k - 1]) <= at[k]  OBVIOUS
  <2> DEFINE off == at[k - 1] + Size(types[k - 1])
  <2>1. k - 1 \in 1..n  BY <1>1
  <2>2. off \in Nat
    <3>1. at[k - 1] \in Nat  BY <1>2, <2>1, Zenon
    <3>2. Size(types[k - 1]) \in Nat  BY <1>1, <2>1, Sizes
    <3> HIDE DEF at
    <3> QED  BY <3>1, <3>2
  <2>3. at[k] = AlignUp(off, Size(types[k]))
    <3> HIDE DEF at
    <3> QED  BY <1>1, <1>0, Zenon
  <2> HIDE DEF off
  <2>4. AlignUp(off, Size(types[k])) >= off  BY <1>1, <2>2, AlignedTo
  <2> QED  BY <2>3, <2>4 DEF off
<1> HIDE DEF at
<1>5. \A k \in 1..n : Size(types[k]) \in {1, 2}  BY <1>1, Sizes
<1>6. \A i \in 1..n : base <= at[i]
  <2> DEFINE S == [k \in 0..n |-> {x \in Nat : base <= x}]
  <2>1. f[0] \in S[0]  BY <1>1
  <2>2. ASSUME NEW k \in 1..n, f[k - 1] \in S[k - 1]  PROVE f[k] \in S[k]
    <3>1. CASE k = 1  BY <1>1, <1>2, <1>3, <3>1
    <3>2. CASE k # 1
      <4>1. k - 1 \in 1..n  BY <1>1, <3>2
      <4> QED  BY <1>1, <1>2, <1>4, <1>5, <2>2, <3>2, <4>1
    <3> QED  BY <3>1, <3>2
  <2>3. \A k \in 0..n : f[k] \in S[k]
    <3> HIDE DEF f, S, n
    <3> QED  BY <1>1, <2>1, <2>2, StepByStep
  <2> QED  BY <1>1, <2>3
<1>7. ASSUME NEW i \in 1..n  PROVE \A j \in 1..n : i < j => at[i] + Size(types[i]) <= at[j]
  <2> DEFINE e == at[i] + Size(types[i])
             S == [k \in 0..n |-> {x \in Nat : i < k => e <= x}]
  <2>0. e \in Nat  BY <1>2, <1>5
  <2>1. f[0] \in S[0]  BY <1>1
  <2>2. ASSUME NEW k \in 1..n, f[k - 1] \in S[k - 1]  PROVE f[k] \in S[k]
    <3>1. CASE k = 1 \/ k <= i  BY <1>1, <1>2, <3>1
    <3>2. CASE k # 1 /\ k - 1 = i  BY <1>1, <1>2, <1>4, <3>2
    <3>3. CASE k # 1 /\ k - 1 > i
      <4>1. k - 1 \in 1..n  BY <1>1, <3>3
      <4>2. e <= at[k - 1]  BY <1>1, <2>2, <3>3, <4>1
      <4> HIDE DEF e
      <4>3. at[k - 1] + Size(types[k - 1]) <= at[k]  BY <1>4, <3>3
      <4>4. at[k - 1] \in Nat /\ at[k] \in Nat /\ Size(types[k - 1]) \in {1, 2}
        BY <1>2, <1>5, <4>1
      <4>5. e <= at[k]  BY <2>0, <4>2, <4>3, <4>4
      <4> QED  BY <1>1, <3>3, <4>4, <4>5
    <3> QED  BY <1>1, <3>1, <3>2, <3>3
  <2>3. \A k \in 0..n : f[k] \in S[k]
    <3> HIDE DEF f, S, n
    <3> QED  BY <1>1, <2>1, <2>2, StepByStep
  <2> QED  BY <1>1, <2>3
<1> QED  BY <1>1, <1>6, <1>7 DEF at

(* Places grow by three words at most, alignment included.                 *)
Even(a) == a + (a % 2)

LEMMA EvenIs ==
  ASSUME NEW a \in Nat
  PROVE  Even(a) \in Nat /\ a <= Even(a) /\ Even(a) <= a + 1 /\ Even(a) % 2 = 0
<1>1. a % 2 \in {0, 1}  OBVIOUS
<1>2. CASE a % 2 = 0
  <2>1. Even(a) = a  BY <1>2 DEF Even
  <2>2. a \in Nat /\ a <= a /\ a <= a + 1  OBVIOUS
  <2> QED  BY <1>2, <2>1, <2>2, Zenon
<1>3. CASE a % 2 = 1
  <2>1. Even(a) = a + 1  BY <1>3 DEF Even
  <2>2. a + 1 \in Nat /\ a <= a + 1 /\ a + 1 <= a + 1 /\ (a + 1) % 2 = 0  BY <1>3
  <2> QED  BY <2>1, <2>2, Zenon
<1> QED  BY <1>1, <1>2, <1>3

LEMMA LayoutClose ==
  ASSUME NEW types \in Seq(Types), NEW base \in Nat, base % 2 = 0
  PROVE  \A i \in DOMAIN types : Even(Layout(base, types)[i]) <= base + 3 * (i - 1)
<1> DEFINE n == Len(types)
           at == Layout(base, types)
           f == [k \in 0..n |-> IF k = 0 THEN base ELSE Even(at[k])]
           S == [k \in 0..n |-> {x \in Nat : k # 0 => x <= base + 3 * (k - 1)}]
<1>1. n \in Nat /\ DOMAIN types = 1..n /\ \A k \in 1..n : types[k] \in Types  OBVIOUS
<1>2. \A k \in 1..n : at[k] \in Nat /\ Even(at[k]) \in Nat /\ Even(at[k]) >= at[k]
  BY <1>1, LayoutIs, EvenIs
<1>0. \A k \in DOMAIN types :
        at[k] = AlignUp(IF k = 1 THEN base ELSE at[k - 1] + Size(types[k - 1]), Size(types[k]))
  BY LayoutIs
<1>3. n # 0 => Even(at[1]) = base
  <2> SUFFICES ASSUME n # 0 PROVE Even(at[1]) = base  OBVIOUS
  <2>1. 1 \in 1..n  BY <1>1
  <2>2. at[1] = AlignUp(base, Size(types[1])) /\ types[1] \in Types  BY <1>1, <2>1, LayoutIs
  <2>3. Even(at[1]) = base + (base % 2)  BY <2>2, AlignedTo, Zenon DEF Even
  <2> QED  BY <2>3
<1>4. \A k \in 1..n : k # 1 => Even(at[k]) <= Even(at[k - 1]) + 3
  <2> TAKE k \in 1..n
  <2> SUFFICES ASSUME k # 1 PROVE Even(at[k]) <= Even(at[k - 1]) + 3  OBVIOUS
  <2> DEFINE off == at[k - 1] + Size(types[k - 1])
  <2>1. k - 1 \in 1..n  BY <1>1
  <2>2. off \in Nat /\ off <= Even(at[k - 1]) + 2 /\ Even(at[k - 1]) \in Nat
    <3>1. Size(types[k - 1]) \in {1, 2}  BY <1>1, <2>1, Sizes
    <3>2. /\ at[k - 1] \in Nat /\ Even(at[k - 1]) \in Nat /\ Even(at[k - 1]) >= at[k - 1]
      BY <1>2, <2>1
    <3> HIDE DEF at
    <3> QED  BY <3>1, <3>2
  <2>3. at[k] = AlignUp(off, Size(types[k])) /\ types[k] \in Types
    <3> HIDE DEF at
    <3> QED  BY <1>0, <1>1, Zenon
  <2> HIDE DEF off
  <2>4. Even(at[k]) = off + (off % 2) /\ off % 2 \in {0, 1}
    BY <2>2, <2>3, AlignedTo, Zenon DEF Even
  <2> QED  BY <2>2, <2>4
<1> HIDE DEF at
<1>5. f[0] \in S[0]  BY <1>1
<1>6. ASSUME NEW k \in 1..n, f[k - 1] \in S[k - 1]  PROVE f[k] \in S[k]
  <2>1. CASE k = 1  BY <1>1, <1>2, <1>3, <2>1
  <2>2. CASE k # 1
    <3>1. k - 1 \in 1..n  BY <1>1, <2>2
    <3>2. Even(at[k - 1]) <= base + 3 * (k - 2)  BY <1>1, <1>6, <2>2, <3>1
    <3>3. Even(at[k]) <= base + 3 * (k - 1)
      <4>1. Even(at[k]) <= Even(at[k - 1]) + 3  BY <1>4, <2>2, Zenon
      <4>2. Even(at[k]) \in Nat /\ Even(at[k - 1]) \in Nat /\ k \in Nat  BY <1>2, <3>1
      <4> HIDE DEF n, f, S
      <4> QED  BY <3>2, <4>1, <4>2
    <3> QED  BY <1>1, <1>2, <2>2, <3>3
  <2> QED  BY <2>1, <2>2
<1>7. \A k \in 0..n : f[k] \in S[k]
  <2> HIDE DEF f, S, n
  <2> QED  BY <1>1, <1>5, <1>6, StepByStep
<1> QED  BY <1>1, <1>7 DEF at

-----------------------------------------------------------------------------
(* The frame.                                                              *)

Loaded == Values \cup {Junk}
Cells == [value : Loaded, part : {"whole", "low", "high"}]
Frames == [Words -> Cells]

(* Two places do not overlap.                                              *)
Beside(a, t, b, u) == a + Size(t) <= b \/ b + Size(u) <= a

LEMMA PutTyped ==
  ASSUME NEW f \in Frames, NEW off \in Nat, NEW t \in Types, NEW v \in Loaded
  PROVE  Put(f, off, t, v) \in Frames
<1>1. Cell(v, "whole") \in Cells /\ Cell(v, "low") \in Cells /\ Cell(v, "high") \in Cells
  BY DEF Cell, Cells
<1> QED  BY <1>1 DEF Put, Frames

LEMMA GetTyped ==
  ASSUME NEW f \in Frames, NEW off \in Nat, NEW t \in Types, off + Size(t) <= FrameWords
  PROVE  Get(f, off, t) \in Loaded
<1>1. off \in Words
  <2>1. Size(t) >= 1 /\ FrameWords \in Nat  BY Sizes, StackValuesAssumption
  <2> QED  BY <2>1, Sizes DEF Words
<1>2. f[off].value \in Loaded /\ Junk \in Loaded  BY <1>1 DEF Frames, Cells, Loaded
<1> QED  BY <1>2 DEF Get

LEMMA GetPut ==
  ASSUME NEW f \in Frames, NEW off \in Nat, NEW t \in Types, NEW v,
         off + Size(t) <= FrameWords
  PROVE  Get(Put(f, off, t, v), off, t) = v
<1>1. DOMAIN f = Words /\ off \in Words /\ (t = "i64" => off + 1 \in Words)
  BY Sizes, StackValuesAssumption DEF Frames, Words, Types
<1>2. CASE t = "i32"
  BY <1>1, <1>2 DEF Get, Put, Cell
<1>3. CASE t = "i64"
  <2> DEFINE x == Put(f, off, t, v)
  <2>1. x[off] = Cell(v, "low") /\ x[off + 1] = Cell(v, "high")
    BY <1>1, <1>3 DEF Put
  <2>2. x[off].part = "low" /\ x[off].value = v  BY <2>1 DEF Cell
  <2> HIDE DEF x
  <2>3. Get(x, off, t) = v  BY <1>3, <2>1, <2>2 DEF Get
  <2> QED  BY <2>3 DEF x
<1> QED  BY <1>2, <1>3 DEF Types

LEMMA GetBeside ==
  ASSUME NEW f \in Frames, NEW off \in Nat, NEW t \in Types, NEW v,
         NEW b \in Nat, NEW u \in Types, b + Size(u) <= FrameWords, Beside(off, t, b, u)
  PROVE  Get(Put(f, off, t, v), b, u) = Get(f, b, u)
<1> DEFINE x == Put(f, off, t, v)
<1>0. b \in Words /\ (u = "i64" => b + 1 \in Words)
  BY Sizes, StackValuesAssumption DEF Words, Types
<1>1. \A w \in Words : w # off /\ (t = "i64" => w # off + 1) => x[w] = f[w]
  BY DEF Put, Types, Frames
<1>2. x[b] = f[b]
  <2>1. b # off /\ (t = "i64" => b # off + 1)  BY Sizes DEF Beside
  <2> QED  BY <1>0, <1>1, <2>1
<1>3. u = "i64" => x[b + 1] = f[b + 1]
  <2>1. u = "i64" => b + 1 # off /\ (t = "i64" => b + 1 # off + 1)  BY Sizes DEF Beside
  <2> QED  BY <1>0, <1>1, <2>1
<1> HIDE DEF x
<1>4. Get(x, b, u) = Get(f, b, u)
  <2>1. CASE u = "i32"  BY <1>2, <2>1, Zenon DEF Get
  <2>2. CASE u = "i64"  BY <1>2, <1>3, <2>2 DEF Get
  <2> QED  BY <2>1, <2>2 DEF Types
<1> QED  BY <1>4 DEF x

(* Values written one after the other, none over another.                  *)
LEMMA PutsIs ==
  ASSUME NEW frame \in Frames, NEW types \in Seq(Types), NEW base \in Nat,
         NEW at \in [DOMAIN types -> Nat], NEW values \in [DOMAIN types -> Loaded],
         \A i \in DOMAIN types : base <= at[i] /\ at[i] + Size(types[i]) <= FrameWords,
         \A i, j \in DOMAIN types : i < j => at[i] + Size(types[i]) <= at[j]
  PROVE  LET x == Puts(frame, at, types, values)
         IN  /\ x \in Frames
             /\ \A k \in DOMAIN types : Get(x, at[k], types[k]) = values[k]
             /\ \A b \in Nat, u \in Types :
                  b + Size(u) <= base /\ b + Size(u) <= FrameWords => Get(x, b, u) = Get(frame, b, u)
<1> DEFINE n == Len(types)
           Laid(k) == {x \in Frames :
             /\ \A j \in 1..n : j <= k => Get(x, at[j], types[j]) = values[j]
             /\ \A b \in Nat, u \in Types :
                  b + Size(u) <= base /\ b + Size(u) <= FrameWords => Get(x, b, u) = Get(frame, b, u)}
           S == [k \in 0..n |-> Laid(k)]
           E(k, x) == Put(x, at[k], types[k], values[k])
           g == [k \in 1..n |-> [x \in Laid(k - 1) |-> E(k, x)]]
<1>1. n \in Nat /\ DOMAIN types = 1..n
      /\ \A k \in 1..n : types[k] \in Types /\ at[k] \in Nat /\ values[k] \in Loaded
  OBVIOUS
<1>2. ASSUME NEW k \in 1..n, NEW x \in Laid(k - 1)  PROVE E(k, x) \in Laid(k)
  <2>1. x \in Frames /\ E(k, x) \in Frames  BY <1>1, PutTyped
  <2>2. ASSUME NEW j \in 1..n, j <= k  PROVE Get(E(k, x), at[j], types[j]) = values[j]
    <3>1. CASE j = k  BY <1>1, <2>1, <3>1, GetPut
    <3>2. CASE j # k
      <4>1. j < k /\ j <= k - 1  BY <1>1, <2>2, <3>2
      <4>2. Get(x, at[j], types[j]) = values[j]  BY <4>1
      <4>3. Beside(at[k], types[k], at[j], types[j])  BY <1>1, <4>1 DEF Beside
      <4>4. at[j] + Size(types[j]) <= FrameWords  BY <1>1
      <4> QED  BY <1>1, <2>1, <4>2, <4>3, <4>4, GetBeside
    <3> QED  BY <3>1, <3>2
  <2>3. ASSUME NEW b \in Nat, NEW u \in Types, b + Size(u) <= base, b + Size(u) <= FrameWords
        PROVE  Get(E(k, x), b, u) = Get(frame, b, u)
    <3>1. Get(x, b, u) = Get(frame, b, u)  BY <2>3
    <3>2. Beside(at[k], types[k], b, u)
      <4>1. base <= at[k] /\ at[k] \in Nat  BY <1>1, Zenon
      <4>2. Size(u) \in Nat  BY Sizes
      <4> HIDE DEF n, S, g, E, Laid
      <4> QED  BY <2>3, <4>1, <4>2 DEF Beside
    <3> QED  BY <1>1, <2>1, <2>3, <3>1, <3>2, GetBeside
  <2> QED  BY <2>1, <2>2, <2>3
<1>3. frame \in Laid(0)  BY <1>1
<1> HIDE DEF E, Laid
<1>4. frame \in S[0] /\ Steps(n, S, g)
  <2>1. ASSUME NEW k \in 1..n, NEW x \in S[k - 1]  PROVE g[k][x] \in S[k]
    <3>1. x \in Laid(k - 1) /\ S[k] = Laid(k)  BY <1>1
    <3> QED  BY <1>2, <3>1
  <2>2. frame \in S[0]  BY <1>1, <1>3
  <2>3. Steps(n, S, g)
    <3> HIDE DEF n, S, g
    <3> QED  BY <2>1, Zenon DEF Steps
  <2> QED  BY <2>2, <2>3
<1>5. PICK f : Runs(f, n, S, frame, g)
  <2> HIDE DEF n, S, g
  <2> QED  BY <1>1, <1>4, Recursion, Zenon
<1> DEFINE h == [k \in 0..n |-> f[k]]
           F == CHOOSE q : q = [k \in 0..n |-> IF k = 0 THEN frame ELSE E(k, q[k - 1])]
<1>6. ASSUME NEW k \in 1..n  PROVE f[k] = E(k, f[k - 1])
  <2>1. k - 1 \in 0..n  BY <1>1
  <2>2. f[k] = g[k][f[k - 1]] /\ f[k - 1] \in S[k - 1]  BY <1>5, <2>1 DEF Runs
  <2>3. f[k - 1] \in Laid(k - 1)  BY <2>1, <2>2
  <2> QED  BY <2>2, <2>3
<1>7. h = [k \in 0..n |-> IF k = 0 THEN frame ELSE E(k, h[k - 1])]
  <2>1. f[0] = frame  BY <1>5 DEF Runs
  <2>2. \A k \in 0..n : k # 0 => k - 1 \in 0..n /\ k \in 1..n  BY <1>1
  <2> QED  BY <1>6, <2>1, <2>2
<1>8. F = [k \in 0..n |-> IF k = 0 THEN frame ELSE E(k, F[k - 1])]
  <2> HIDE DEF h
  <2> QED  BY <1>7, Zenon
<1>9. Puts(frame, at, types, values) = F[n]  BY Zenon DEF Puts, E
<1> HIDE DEF F
<1>10. \A k \in 0..n : F[k] \in S[k]
  <2>1. F[0] \in S[0]  BY <1>1, <1>3, <1>8
  <2>2. ASSUME NEW k \in 1..n, F[k - 1] \in S[k - 1]  PROVE F[k] \in S[k]
    <3>1. F[k - 1] \in Laid(k - 1) /\ S[k] = Laid(k)  BY <1>1, <2>2
    <3>2. F[k] = E(k, F[k - 1])  BY <1>1, <1>8
    <3> QED  BY <1>2, <3>1, <3>2
  <2> HIDE DEF n, S
  <2> QED  BY <1>1, <2>1, <2>2, StepByStep
<1>11. F[n] \in Laid(n)  BY <1>1, <1>10
<1> QED  BY <1>1, <1>9, <1>11 DEF Laid

-----------------------------------------------------------------------------
(* The locals.                                                             *)

ParamsEnd == EndOf(ParamTypes)

LEMMA Params ==
  /\ ParamsEnd \in Nat /\ FrameWords \in Nat /\ ParamsEnd <= FrameWords /\ ParamsEnd + 3 * MaxStack <= FrameWords
  /\ DOMAIN ParamTypes = 1..Len(ParamTypes) /\ Len(ParamTypes) \in Nat
  /\ \A p \in DOMAIN ParamTypes :
       /\ ParamTypes[p] \in Types /\ LocalPlace(p).mode = "frame"
       /\ LocalPlace(p).n = Layout(0, ParamTypes)[p] /\ LocalPlace(p).n \in Nat
       /\ LocalPlace(p).n + Size(ParamTypes[p]) <= ParamsEnd
  /\ \A p, q \in DOMAIN ParamTypes :
       p # q => Beside(LocalPlace(p).n, ParamTypes[p], LocalPlace(q).n, ParamTypes[q])
<1> DEFINE n == Len(ParamTypes)
           at == Layout(0, ParamTypes)
<1>1. /\ ParamTypes \in Seq(Types) /\ FrameWords \in Nat /\ MaxStack \in Nat
      /\ FrameWords >= EndOf(ParamTypes) + 3 * MaxStack
  BY StackValuesAssumption
<1>2. n \in Nat /\ DOMAIN ParamTypes = 1..n /\ \A p \in 1..n : ParamTypes[p] \in Types
  BY <1>1
<1>3. \A p \in 1..n : at[p] \in Nat  BY <1>1, <1>2, LayoutIs
<1>4. \A p, q \in 1..n : p < q => at[p] + Size(ParamTypes[p]) <= at[q]
  BY <1>1, <1>2, LayoutOrdered
<1>5. \A p \in 1..n : LocalPlace(p).mode = "frame" /\ LocalPlace(p).n = at[p]
  BY <1>2 DEF LocalPlace
<1> HIDE DEF at
<1>6. CASE n = 0
  <2>1. ParamsEnd = 0  BY <1>1, <1>6 DEF ParamsEnd, EndOf
  <2> QED  BY <1>1, <1>2, <1>6, <2>1 DEF ParamsEnd
<1>7. CASE n # 0
  <2>1. n \in 1..n  BY <1>2, <1>7
  <2>2. ParamsEnd = at[n] + Size(ParamTypes[n])
    <3>1. ParamTypes # <<>>  BY <1>7
    <3> QED  BY <3>1, Zenon DEF ParamsEnd, EndOf, at
  <2>3. ParamsEnd \in Nat  BY <1>2, <1>3, <2>1, <2>2, Sizes
  <2>4. \A p \in 1..n : at[p] + Size(ParamTypes[p]) <= ParamsEnd
    <3> TAKE p \in 1..n
    <3>1. CASE p = n  BY <1>2, <1>3, <2>2, <3>1, Sizes
    <3>2. CASE p # n
      <4>0. p < n
        <5>1. n \in Nat /\ p \in 1..n  BY <1>2
        <5> HIDE DEF n
        <5> QED  BY <3>2, <5>1
      <4>1. at[p] + Size(ParamTypes[p]) <= at[n]
        <5> HIDE DEF n
        <5> QED  BY <1>4, <2>1, <4>0, Zenon
      <4>2. Size(ParamTypes[p]) \in {1, 2} /\ Size(ParamTypes[n]) \in {1, 2}
        BY <1>2, <2>1, Sizes
      <4>3. at[p] \in Nat /\ at[n] \in Nat  BY <1>3, <2>1
      <4> QED  BY <2>2, <4>1, <4>2, <4>3
    <3> QED  BY <3>1, <3>2
  <2>5. \A p, q \in 1..n :
          p # q => Beside(LocalPlace(p).n, ParamTypes[p], LocalPlace(q).n, ParamTypes[q])
    BY <1>2, <1>4, <1>5 DEF Beside
  <2>6. ParamsEnd <= FrameWords /\ ParamsEnd + 3 * MaxStack <= FrameWords  BY <1>1, <2>3 DEF ParamsEnd
  <2> QED  BY <1>1, <1>2, <1>3, <1>5, <2>3, <2>4, <2>5, <2>6 DEF at
<1> QED  BY <1>6, <1>7

LEMMA LocalsAre ==
  /\ LocalTypes \in Seq(Types) /\ DOMAIN LocalTypes = 1..(Len(ParamTypes) + Len(VarTypes))
  /\ \A i \in DOMAIN LocalTypes :
       \/ i \in DOMAIN ParamTypes /\ LocalTypes[i] = ParamTypes[i]
       \/ /\ i \notin DOMAIN ParamTypes /\ LocalPlace(i).mode = "local"
          /\ LocalPlace(i).n = i - Len(ParamTypes) /\ LocalPlace(i).n \in DOMAIN VarTypes
<1>1. ParamTypes \in Seq(Types) /\ VarTypes \in Seq(Types)  BY StackValuesAssumption
<1>2. LocalTypes \in Seq(Types) /\ DOMAIN LocalTypes = 1..(Len(ParamTypes) + Len(VarTypes))
  BY <1>1 DEF LocalTypes
<1>3. ASSUME NEW i \in DOMAIN LocalTypes
      PROVE \/ i \in DOMAIN ParamTypes /\ LocalTypes[i] = ParamTypes[i]
            \/ /\ i \notin DOMAIN ParamTypes /\ LocalPlace(i).mode = "local"
               /\ LocalPlace(i).n = i - Len(ParamTypes) /\ LocalPlace(i).n \in DOMAIN VarTypes
  <2>1. CASE i <= Len(ParamTypes)  BY <1>1, <1>2, <2>1 DEF LocalTypes
  <2>2. CASE i > Len(ParamTypes)
    <3>1. LocalPlace(i) = [mode |-> "local", n |-> i - Len(ParamTypes)]
      BY <1>1, <1>2, <2>2 DEF LocalPlace
    <3>2. i - Len(ParamTypes) \in DOMAIN VarTypes /\ i \notin DOMAIN ParamTypes
      BY <1>1, <1>2, <2>2
    <3> QED  BY <3>1, <3>2
  <2> QED  BY <1>1, <1>2, <2>1, <2>2
<1> QED  BY <1>2, <1>3

-----------------------------------------------------------------------------
(* What is always true of the descriptions.                                *)

Machines == [stack : Seq(Operands), flag : {0, 1, Junk}, pages : Values,
             scratch : [Regs -> Loaded \cup {PagesAddress}],
             local : [DOMAIN VarTypes -> Loaded], frame : Frames]

(* What the description says can be read, and is a value.                  *)
Readable(scratch, d) ==
  /\ d.mode = "imm" => d.n \in Values
  /\ d.mode = "frame" => d.n + Size(d.type) <= FrameWords
  /\ d.mode = "local" => d.n \in DOMAIN VarTypes
  /\ d.mode \in {"reg", "cell"} => d.n \in Regs
  /\ d.mode = "reg" => scratch[d.n] \in Loaded
  /\ d.mode = "flag" => d.n \in {0, 1}

(* An operand in the frame is in its own place or is a parameter.          *)
Homed(d) ==
  d.mode = "frame" =>
    \/ d.n = d.at
    \/ \E p \in DOMAIN ParamTypes : d.n = LocalPlace(p).n /\ d.type = ParamTypes[p]

(* The i-th place is above the parameters and leaves room for the others.  *)
Placeable(at, i) == at \in Nat /\ ParamsEnd <= at /\ Even(at) + 2 <= ParamsEnd + 3 * i

InReg(d) == d.mode \in {"reg", "cell"}

Described(stack, scratch) ==
  \A i \in 1..Len(stack) :
    Readable(scratch, stack[i]) /\ Homed(stack[i]) /\ Placeable(stack[i].at, i)
Apart(stack) ==
  \A i, j \in 1..Len(stack) :
    /\ i < j => stack[i].at + Size(stack[i].type) <= stack[j].at
    /\ i # j /\ InReg(stack[i]) /\ InReg(stack[j]) => stack[i].n # stack[j].n

Good(s) ==
  /\ s \in Machines /\ Len(s.stack) <= MaxStack
  /\ Described(s.stack, s.scratch) /\ Apart(s.stack)

FlagsTop(s) ==
  \A i \in 1..Len(s.stack) :
    s.stack[i].mode = "flag" => i = Len(s.stack) /\ s.stack[i].type = "i32"
NoFlags(s) == \A i \in 1..Len(s.stack) : s.stack[i].mode # "flag"

(* Two machines hold the same operands and locals.                         *)
Home(i) == [type |-> LocalTypes[i], mode |-> LocalPlace(i).mode, n |-> LocalPlace(i).n]
Same(s, x) ==
  /\ Len(x.stack) = Len(s.stack) /\ x.pages = s.pages
  /\ \A i \in 1..Len(s.stack) :
       /\ x.stack[i].type = s.stack[i].type /\ x.stack[i].at = s.stack[i].at
       /\ Denoted(x, x.stack[i]) = Denoted(s, s.stack[i])
  /\ \A i \in DOMAIN LocalTypes : Denoted(x, Home(i)) = Denoted(s, Home(i))

LEMMA DenotedIs ==
  ASSUME NEW s, NEW d
  PROVE  /\ d.mode = "imm" => Denoted(s, d) = d.n
         /\ d.mode = "frame" => Denoted(s, d) = Get(s.frame, d.n, d.type)
         /\ d.mode = "local" => Denoted(s, d) = s.local[d.n]
         /\ d.mode = "reg" => Denoted(s, d) = s.scratch[d.n]
         /\ d.mode = "cell" =>
              Denoted(s, d) = IF s.scratch[d.n] = PagesAddress THEN s.pages ELSE Junk
         /\ d.mode = "flag" =>
              Denoted(s, d) = IF s.flag = Junk THEN Junk
                              ELSE IF d.n = 1 THEN s.flag ELSE 1 - s.flag
<1>1. CASE d.mode = "imm"  BY <1>1 DEF Denoted
<1>2. CASE d.mode = "frame"  BY <1>2 DEF Denoted
<1>3. CASE d.mode = "local"  BY <1>3 DEF Denoted
<1>4. CASE d.mode = "reg"  BY <1>4 DEF Denoted
<1>5. CASE d.mode = "cell"  BY <1>5 DEF Denoted
<1>6. CASE d.mode = "flag"  BY <1>6 DEF Denoted
<1> QED  BY <1>1, <1>2, <1>3, <1>4, <1>5, <1>6

LEMMA DenotedTyped ==
  ASSUME NEW s \in Machines, NEW d \in Operands, Readable(s.scratch, d)
  PROVE  Denoted(s, d) \in Loaded
<1>0. /\ s.frame \in Frames /\ s.pages \in Values /\ s.flag \in {0, 1, Junk}
      /\ s.local \in [DOMAIN VarTypes -> Loaded] /\ d.n \in Nat /\ d.type \in Types
  BY DEF Machines, Operands
<1>1. Values \subseteq Loaded /\ Junk \in Loaded /\ 0 \in Loaded /\ 1 \in Loaded
  BY StackValuesAssumption DEF Loaded
<1>2. CASE d.mode = "imm"  BY <1>1, <1>2, DenotedIs DEF Readable
<1>3. CASE d.mode = "frame"  BY <1>0, <1>3, DenotedIs, GetTyped DEF Readable
<1>4. CASE d.mode = "local"  BY <1>0, <1>4, DenotedIs DEF Readable
<1>5. CASE d.mode = "reg"  BY <1>5, DenotedIs DEF Readable
<1>6. CASE d.mode = "cell"  BY <1>0, <1>1, <1>6, DenotedIs
<1>7. CASE d.mode = "flag"  BY <1>0, <1>1, <1>7, DenotedIs DEF Readable, Junk
<1> QED  BY <1>2, <1>3, <1>4, <1>5, <1>6, <1>7 DEF Operands

LEMMA Parts ==
  ASSUME NEW s \in Machines
  PROVE  /\ s.stack \in Seq(Operands) /\ Len(s.stack) \in Nat
         /\ DOMAIN s.stack = 1..Len(s.stack)
         /\ \A i \in 1..Len(s.stack) :
              /\ s.stack[i] \in Operands /\ s.stack[i].type \in Types
              /\ s.stack[i].n \in Nat /\ s.stack[i].at \in Nat
              /\ s.stack[i].mode \in {"imm", "frame", "local", "reg", "cell", "flag"}
         /\ s.flag \in {0, 1, Junk} /\ s.pages \in Values /\ s.frame \in Frames
         /\ s.scratch \in [Regs -> Loaded \cup {PagesAddress}]
         /\ s.local \in [DOMAIN VarTypes -> Loaded]
<1>1. s.stack \in Seq(Operands)  BY DEF Machines
<1>2. \A i \in 1..Len(s.stack) : s.stack[i] \in Operands  BY <1>1
<1>3. \A i \in 1..Len(s.stack) :
        /\ s.stack[i].type \in Types /\ s.stack[i].n \in Nat /\ s.stack[i].at \in Nat
        /\ s.stack[i].mode \in {"imm", "frame", "local", "reg", "cell", "flag"}
  BY <1>2 DEF Operands
<1> QED  BY <1>1, <1>2, <1>3 DEF Machines

(* Every place is within the frame and beside all the others and beside    *)
(* what the descriptions name.                                             *)
LEMMA PlacesBeside ==
  ASSUME NEW s, Good(s), NEW i \in 1..Len(s.stack)
  PROVE  /\ s.stack[i].at \in Nat /\ s.stack[i].type \in Types /\ ParamsEnd <= s.stack[i].at
         /\ s.stack[i].at + Size(s.stack[i].type) <= FrameWords
         /\ \A j \in 1..Len(s.stack) :
              j # i /\ s.stack[j].mode = "frame" =>
                /\ s.stack[j].n + Size(s.stack[j].type) <= FrameWords
                /\ Beside(s.stack[i].at, s.stack[i].type, s.stack[j].n, s.stack[j].type)
         /\ \A p \in DOMAIN ParamTypes :
              Beside(s.stack[i].at, s.stack[i].type, LocalPlace(p).n, ParamTypes[p])
<1> DEFINE a == s.stack[i].at
           t == s.stack[i].type
<1>0. s \in Machines  BY DEF Good
<1>1. a \in Nat /\ t \in Types /\ Len(s.stack) \in Nat /\ Len(s.stack) <= MaxStack
  BY <1>0, Parts DEF Good
<1>2. Placeable(a, i) /\ i <= MaxStack /\ MaxStack \in Nat /\ i \in Nat
  BY <1>1, StackValuesAssumption DEF Good, Described
<1>3. ParamsEnd <= a /\ Even(a) + 2 <= ParamsEnd + 3 * i  BY <1>2 DEF Placeable
<1>4. a + Size(t) <= FrameWords
  <2>1. a <= Even(a) /\ Even(a) \in Nat  BY <1>1, EvenIs
  <2>2. Size(t) <= 2 /\ Size(t) \in Nat  BY <1>1, Sizes
  <2>3. ParamsEnd + 3 * i <= FrameWords /\ ParamsEnd \in Nat /\ FrameWords \in Nat  BY <1>2, Params
  <2> HIDE DEF a, t
  <2> QED  BY <1>1, <1>2, <1>3, <2>1, <2>2, <2>3
<1>5. \A p \in DOMAIN ParamTypes : LocalPlace(p).n + Size(ParamTypes[p]) <= a
  <2> TAKE p \in DOMAIN ParamTypes
  <2>1. /\ LocalPlace(p).n \in Nat /\ LocalPlace(p).n + Size(ParamTypes[p]) <= ParamsEnd
        /\ ParamTypes[p] \in Types /\ ParamsEnd \in Nat
    BY Params
  <2>2. Size(ParamTypes[p]) \in Nat  BY <2>1, Sizes
  <2> HIDE DEF a
  <2> QED  BY <1>1, <1>3, <2>1, <2>2
<1>6. ASSUME NEW j \in 1..Len(s.stack), j # i, s.stack[j].mode = "frame"
      PROVE  /\ s.stack[j].n + Size(s.stack[j].type) <= FrameWords
             /\ Beside(a, t, s.stack[j].n, s.stack[j].type)
  <2>1. Readable(s.scratch, s.stack[j]) /\ Homed(s.stack[j])  BY DEF Good, Described
  <2>2. s.stack[j].n + Size(s.stack[j].type) <= FrameWords  BY <1>6, <2>1 DEF Readable
  <2>3. CASE s.stack[j].n = s.stack[j].at
    <3>1. /\ i < j => a + Size(t) <= s.stack[j].at
          /\ j < i => s.stack[j].at + Size(s.stack[j].type) <= a
      BY DEF Good, Apart
    <3>2. i < j \/ j < i  BY <1>6
    <3> QED  BY <2>2, <2>3, <3>1, <3>2 DEF Beside
  <2>4. CASE s.stack[j].n # s.stack[j].at
    <3>1. PICK p \in DOMAIN ParamTypes :
            s.stack[j].n = LocalPlace(p).n /\ s.stack[j].type = ParamTypes[p]
      BY <1>6, <2>1, <2>4 DEF Homed
    <3> QED  BY <1>5, <2>2, <3>1 DEF Beside
  <2> QED  BY <2>3, <2>4
<1> QED  BY <1>1, <1>3, <1>4, <1>5, <1>6 DEF Beside

(* The code that saves the operands of some places.                        *)
Saved(d) == Moved(d, "frame", d.at)
Saves(s, x, places) ==
  /\ Good(x) /\ Same(s, x)
  /\ x.scratch = s.scratch /\ x.flag = s.flag /\ x.local = s.local /\ x.pages = s.pages
  /\ \A j \in 1..Len(s.stack) :
       x.stack[j] = IF j \in places THEN Saved(s.stack[j]) ELSE s.stack[j]

LEMMA SavedIs ==
  ASSUME NEW d \in Operands
  PROVE  /\ Saved(d) \in Operands /\ Saved(d).mode = "frame" /\ Saved(d).n = d.at
         /\ Saved(d).at = d.at /\ Saved(d).type = d.type
         /\ d.mode = "frame" /\ d.n = d.at => Saved(d) = d
BY DEF Saved, Moved, Operands

LEMMA SaveStackIs ==
  ASSUME NEW s \in Machines, NEW i \in 1..Len(s.stack), Readable(s.scratch, s.stack[i])
  PROVE  LET d == s.stack[i]
             x == SaveStack(s, i)
         IN  /\ x \in Machines /\ Len(x.stack) = Len(s.stack)
             /\ x.scratch = s.scratch /\ x.flag = s.flag
             /\ x.local = s.local /\ x.pages = s.pages
             /\ \A j \in 1..Len(s.stack) :
                  x.stack[j] = IF j = i THEN Saved(s.stack[j]) ELSE s.stack[j]
             /\ x.frame = IF d.mode = "frame" /\ d.n = d.at THEN s.frame
                          ELSE Put(s.frame, d.at, d.type, Denoted(s, d))
<1> DEFINE d == s.stack[i]
           x == SaveStack(s, i)
           y == [s EXCEPT !.frame = Put(@, d.at, d.type, Denoted(s, d)),
                          !.stack[i] = Moved(d, "frame", d.at)]
<1>1. d \in Operands /\ d.type \in Types /\ d.at \in Nat /\ s.frame \in Frames  BY Parts
<1>2. CASE d.mode = "frame" /\ d.n = d.at
  <2>1. x = s  BY <1>2 DEF SaveStack
  <2>2. Saved(d) = d  BY <1>1, <1>2, SavedIs
  <2> QED  BY <1>2, <2>1, <2>2
<1>3. CASE ~(d.mode = "frame" /\ d.n = d.at)
  <2>1. x = y  BY <1>3, Zenon DEF SaveStack
  <2> DEFINE f == Put(s.frame, d.at, d.type, Denoted(s, d))
             q == [s.stack EXCEPT ![i] = Saved(d)]
  <2>2. f \in Frames
    <3>1. Denoted(s, d) \in Loaded  BY <1>1, DenotedTyped
    <3> QED  BY <1>1, <3>1, PutTyped
  <2>3. q \in Seq(Operands) /\ Len(q) = Len(s.stack)
        /\ \A j \in 1..Len(s.stack) : q[j] = IF j = i THEN Saved(s.stack[j]) ELSE s.stack[j]
    <3>1. Saved(d) \in Operands  BY <1>1, SavedIs
    <3>2. s.stack \in Seq(Operands)  BY Parts
    <3> HIDE DEF d
    <3> QED  BY <3>1, <3>2 DEF d
  <2>4. y = [s EXCEPT !.frame = f, !.stack = q]  BY DEF Saved, Machines
  <2> HIDE DEF f, q, y
  <2>5. /\ y \in Machines /\ y.stack = q /\ y.frame = f /\ y.scratch = s.scratch
        /\ y.flag = s.flag /\ y.local = s.local /\ y.pages = s.pages
    BY <2>2, <2>3, <2>4 DEF Machines
  <2>6. y.frame = IF d.mode = "frame" /\ d.n = d.at THEN s.frame
                  ELSE Put(s.frame, d.at, d.type, Denoted(s, d))
    BY <1>3, <2>5, Zenon DEF f
  <2> QED  BY <2>1, <2>3, <2>5, <2>6, Zenon
<1> QED  BY <1>2, <1>3

(* What d names is the same in both.                                       *)
Unmoved(s, x, d) ==
  /\ d.mode \in {"imm", "frame", "local", "reg", "cell", "flag"}
  /\ d.mode = "frame" => Get(x.frame, d.n, d.type) = Get(s.frame, d.n, d.type)
  /\ d.mode = "local" => x.local[d.n] = s.local[d.n]
  /\ InReg(d) => x.scratch[d.n] = s.scratch[d.n]
  /\ d.mode = "cell" => x.pages = s.pages
  /\ d.mode = "flag" => x.flag = s.flag

LEMMA DenotedSame ==
  ASSUME NEW s, NEW x, NEW d, Unmoved(s, x, d)
  PROVE  Denoted(x, d) = Denoted(s, d)
<1> USE DEF Unmoved
<1>1. CASE d.mode = "imm"
  <2>1. Denoted(x, d) = d.n /\ Denoted(s, d) = d.n  BY <1>1, DenotedIs, Zenon
  <2> QED  BY <2>1, Zenon
<1>2. CASE d.mode = "frame"
  <2>1. /\ Denoted(x, d) = Get(x.frame, d.n, d.type)
        /\ Denoted(s, d) = Get(s.frame, d.n, d.type)
    BY <1>2, DenotedIs, Zenon
  <2> QED  BY <1>2, <2>1, Zenon
<1>3. CASE d.mode = "local"
  <2>1. Denoted(x, d) = x.local[d.n] /\ Denoted(s, d) = s.local[d.n]
    BY <1>3, DenotedIs, Zenon
  <2> QED  BY <1>3, <2>1, Zenon
<1>4. CASE d.mode = "reg"
  <2>1. Denoted(x, d) = x.scratch[d.n] /\ Denoted(s, d) = s.scratch[d.n]
    BY <1>4, DenotedIs, Zenon
  <2> QED  BY <1>4, <2>1, Zenon DEF InReg
<1>5. CASE d.mode = "cell"
  <2>1. /\ Denoted(x, d) = IF x.scratch[d.n] = PagesAddress THEN x.pages ELSE Junk
        /\ Denoted(s, d) = IF s.scratch[d.n] = PagesAddress THEN s.pages ELSE Junk
    BY <1>5, DenotedIs, Zenon
  <2>2. x.scratch[d.n] = s.scratch[d.n] /\ x.pages = s.pages  BY <1>5 DEF InReg
  <2> QED  BY <2>1, <2>2
<1>6. CASE d.mode = "flag"
  <2>1. /\ Denoted(x, d) = IF x.flag = Junk THEN Junk
                           ELSE IF d.n = 1 THEN x.flag ELSE 1 - x.flag
        /\ Denoted(s, d) = IF s.flag = Junk THEN Junk
                           ELSE IF d.n = 1 THEN s.flag ELSE 1 - s.flag
    BY <1>6, DenotedIs, Zenon
  <2>2. x.flag = s.flag  BY <1>6
  <2> QED  BY <2>1, <2>2
<1> QED  BY <1>1, <1>2, <1>3, <1>4, <1>5, <1>6

(* A local is in the frame among the parameters, or elsewhere.             *)
LEMMA HomeIs ==
  ASSUME NEW i \in DOMAIN LocalTypes
  PROVE  /\ Home(i).type = LocalTypes[i] /\ Home(i).mode = LocalPlace(i).mode
         /\ Home(i).n = LocalPlace(i).n /\ Home(i).type \in Types
         /\ \/ /\ Home(i).mode = "frame" /\ i \in DOMAIN ParamTypes /\ LocalTypes[i] = ParamTypes[i]
               /\ Home(i).n \in Nat /\ Home(i).n + Size(LocalTypes[i]) <= ParamsEnd
            \/ /\ Home(i).mode = "local" /\ Home(i).n \in DOMAIN VarTypes
               /\ Home(i).n = i - Len(ParamTypes) /\ i \notin DOMAIN ParamTypes
<1>1. Home(i).type = LocalTypes[i] /\ Home(i).mode = LocalPlace(i).mode /\ Home(i).n = LocalPlace(i).n
  BY DEF Home
<1>2. LocalTypes[i] \in Types  BY LocalsAre
<1>3. CASE i \in DOMAIN ParamTypes /\ LocalTypes[i] = ParamTypes[i]
  <2>1. /\ LocalPlace(i).mode = "frame" /\ LocalPlace(i).n \in Nat
        /\ LocalPlace(i).n + Size(ParamTypes[i]) <= ParamsEnd
    BY <1>3, Params
  <2> QED  BY <1>1, <1>2, <1>3, <2>1, Zenon
<1>4. CASE i \notin DOMAIN ParamTypes  BY <1>1, <1>2, <1>4, LocalsAre
<1> QED  BY <1>3, <1>4, LocalsAre

(* What only differs in the frame, and there only where an operand has its *)
(* own place.                                                              *)
LEMMA SaveGood ==
  ASSUME NEW s, Good(s), NEW i \in 1..Len(s.stack)
  PROVE  Saves(s, SaveStack(s, i), {i})
<1> DEFINE d == s.stack[i]
           x == SaveStack(s, i)
           n == Len(s.stack)
<1>0. s \in Machines /\ n <= MaxStack /\ Described(s.stack, s.scratch) /\ Apart(s.stack)
  BY DEF Good
<1>1. \A j \in 1..n :
        /\ Readable(s.scratch, s.stack[j]) /\ Homed(s.stack[j]) /\ Placeable(s.stack[j].at, j)
        /\ s.stack[j] \in Operands /\ s.stack[j].type \in Types
        /\ s.stack[j].n \in Nat /\ s.stack[j].at \in Nat
        /\ s.stack[j].mode \in {"imm", "frame", "local", "reg", "cell", "flag"}
  BY <1>0, Parts DEF Described
<1>2. /\ x \in Machines /\ Len(x.stack) = n /\ x.scratch = s.scratch /\ x.flag = s.flag
      /\ x.local = s.local /\ x.pages = s.pages
      /\ \A j \in 1..n : x.stack[j] = IF j = i THEN Saved(s.stack[j]) ELSE s.stack[j]
      /\ x.frame = IF d.mode = "frame" /\ d.n = d.at THEN s.frame
                   ELSE Put(s.frame, d.at, d.type, Denoted(s, d))
  BY <1>0, <1>1, SaveStackIs
<1> HIDE DEF x
<1>3. /\ Saved(d).mode = "frame" /\ Saved(d).n = d.at /\ Saved(d).at = d.at
      /\ Saved(d).type = d.type
  BY <1>1, SavedIs
<1>4. \A j \in 1..n : x.stack[j].at = s.stack[j].at /\ x.stack[j].type = s.stack[j].type
  BY <1>2, <1>3
<1>5. d.at + Size(d.type) <= FrameWords  BY PlacesBeside
<1>6. Described(x.stack, x.scratch)
  <2>1. ASSUME NEW j \in 1..n
        PROVE  Readable(s.scratch, x.stack[j]) /\ Homed(x.stack[j]) /\ Placeable(x.stack[j].at, j)
    <3>1. CASE j = i
      <4>1. x.stack[j] = Saved(d)  BY <1>2, <3>1
      <4>2. Readable(s.scratch, Saved(d))  BY <1>3, <1>5 DEF Readable
      <4>3. Homed(Saved(d))  BY <1>3 DEF Homed
      <4>4. Placeable(x.stack[j].at, j)  BY <1>1, <1>4
      <4> QED  BY <4>1, <4>2, <4>3, <4>4
    <3>2. CASE j # i
      <4>1. x.stack[j] = s.stack[j]  BY <1>2, <3>2
      <4> QED  BY <1>1, <4>1
    <3> QED  BY <3>1, <3>2
  <2> QED  BY <1>2, <2>1 DEF Described
<1>7. Apart(x.stack)
  <2> SUFFICES ASSUME NEW j \in 1..n, NEW k \in 1..n
               PROVE  /\ j < k => x.stack[j].at + Size(x.stack[j].type) <= x.stack[k].at
                      /\ j # k /\ InReg(x.stack[j]) /\ InReg(x.stack[k])
                           => x.stack[j].n # x.stack[k].n
    BY <1>2 DEF Apart
  <2>1. j < k => x.stack[j].at + Size(x.stack[j].type) <= x.stack[k].at
    <3>1. j < k => s.stack[j].at + Size(s.stack[j].type) <= s.stack[k].at
      BY <1>0 DEF Apart
    <3> QED  BY <1>4, <3>1, Zenon
  <2>2. \A m \in 1..n : InReg(x.stack[m]) => x.stack[m] = s.stack[m]
    BY <1>2, <1>3 DEF InReg
  <2>3. j # k /\ InReg(s.stack[j]) /\ InReg(s.stack[k]) => s.stack[j].n # s.stack[k].n
    BY <1>0 DEF Apart
  <2> QED  BY <2>1, <2>2, <2>3
<1>8. \A b \in Nat, u \in Types :
        b + Size(u) <= FrameWords /\ Beside(d.at, d.type, b, u)
          => Get(x.frame, b, u) = Get(s.frame, b, u)
  <2> TAKE b \in Nat, u \in Types
  <2> SUFFICES ASSUME b + Size(u) <= FrameWords, Beside(d.at, d.type, b, u)
               PROVE  Get(x.frame, b, u) = Get(s.frame, b, u)
    OBVIOUS
  <2>1. Get(Put(s.frame, d.at, d.type, Denoted(s, d)), b, u) = Get(s.frame, b, u)
    <3>1. s.frame \in Frames /\ d.at \in Nat /\ d.type \in Types  BY <1>0, <1>1, Parts
    <3> HIDE DEF d
    <3> QED  BY <3>1, GetBeside
  <2> QED  BY <1>2, <2>1, Zenon
<1>9. \A j \in 1..n : Denoted(x, x.stack[j]) = Denoted(s, s.stack[j])
  <2> TAKE j \in 1..n
  <2>1. CASE j = i
    <3>1. x.stack[j] = Saved(d)  BY <1>2, <2>1
    <3>2. Denoted(x, Saved(d)) = Get(x.frame, d.at, d.type)  BY <1>3, DenotedIs
    <3>3. Get(x.frame, d.at, d.type) = Denoted(s, d)
      <4>1. CASE d.mode = "frame" /\ d.n = d.at
        <5>1. Denoted(s, d) = Get(s.frame, d.n, d.type)  BY <4>1, DenotedIs
        <5> QED  BY <1>2, <4>1, <5>1
      <4>2. CASE ~(d.mode = "frame" /\ d.n = d.at)
        <5>1. x.frame = Put(s.frame, d.at, d.type, Denoted(s, d))  BY <1>2, <4>2, Zenon
        <5>2. s.frame \in Frames /\ d.at \in Nat /\ d.type \in Types  BY <1>0, <1>1, Parts
        <5> HIDE DEF d
        <5> QED  BY <1>5, <5>1, <5>2, GetPut
      <4> QED  BY <4>1, <4>2
    <3> QED  BY <2>1, <3>1, <3>2, <3>3, Zenon
  <2>2. CASE j # i
    <3>1. x.stack[j] = s.stack[j]  BY <1>2, <2>2
    <3>2. s.stack[j].mode = "frame" =>
            Get(x.frame, s.stack[j].n, s.stack[j].type) = Get(s.frame, s.stack[j].n, s.stack[j].type)
      <4>1. s.stack[j].n \in Nat /\ s.stack[j].type \in Types  BY <1>1
      <4>2. s.stack[j].mode = "frame" =>
              /\ s.stack[j].n + Size(s.stack[j].type) <= FrameWords
              /\ Beside(d.at, d.type, s.stack[j].n, s.stack[j].type)
        BY <2>2, PlacesBeside
      <4> QED  BY <1>8, <4>1, <4>2, Zenon
    <3>3. Denoted(x, s.stack[j]) = Denoted(s, s.stack[j])
      <4>1. s.stack[j].mode \in {"imm", "frame", "local", "reg", "cell", "flag"}  BY <1>1
      <4>2. /\ x.local[s.stack[j].n] = s.local[s.stack[j].n] /\ x.pages = s.pages
            /\ x.scratch[s.stack[j].n] = s.scratch[s.stack[j].n] /\ x.flag = s.flag
        BY <1>2, Zenon
      <4>3. Unmoved(s, x, s.stack[j])  BY <3>2, <4>1, <4>2 DEF Unmoved
      <4> QED  BY <4>3, DenotedSame, Zenon
    <3> QED  BY <3>1, <3>3, Zenon
  <2> QED  BY <2>1, <2>2
<1>10. \A k \in DOMAIN LocalTypes : Denoted(x, Home(k)) = Denoted(s, Home(k))
  <2> TAKE k \in DOMAIN LocalTypes
  <2>1. Home(k).mode = "frame" =>
          Get(x.frame, Home(k).n, Home(k).type) = Get(s.frame, Home(k).n, Home(k).type)
    <3> SUFFICES ASSUME Home(k).mode = "frame"
                 PROVE  Get(x.frame, Home(k).n, Home(k).type) = Get(s.frame, Home(k).n, Home(k).type)
      OBVIOUS
    <3>1. /\ k \in DOMAIN ParamTypes /\ Home(k).type = ParamTypes[k] /\ Home(k).n = LocalPlace(k).n
          /\ Home(k).n \in Nat /\ Home(k).type \in Types
      BY HomeIs
    <3>2. Home(k).n + Size(Home(k).type) <= FrameWords
      <4>1. LocalPlace(k).n + Size(ParamTypes[k]) <= ParamsEnd /\ ParamsEnd <= FrameWords
            /\ ParamsEnd \in Nat /\ FrameWords \in Nat /\ ParamTypes[k] \in Types
        BY <3>1, Params
      <4>2. Size(ParamTypes[k]) \in Nat  BY <4>1, Sizes
      <4> QED  BY <3>1, <4>1, <4>2
    <3>3. Beside(d.at, d.type, Home(k).n, Home(k).type)  BY <3>1, PlacesBeside
    <3> QED  BY <1>8, <3>1, <3>2, <3>3, Zenon
  <2>2. Home(k).mode \in {"frame", "local"}  BY HomeIs
  <2>3. Home(k).mode \in {"imm", "frame", "local", "reg", "cell", "flag"}  BY <2>2
  <2>4. /\ x.local[Home(k).n] = s.local[Home(k).n] /\ x.pages = s.pages
        /\ x.scratch[Home(k).n] = s.scratch[Home(k).n] /\ x.flag = s.flag
    BY <1>2, Zenon
  <2>5. Unmoved(s, x, Home(k))  BY <2>1, <2>3, <2>4 DEF Unmoved
  <2> QED  BY <2>5, DenotedSame, Zenon
<1>11. Good(x)  BY <1>0, <1>2, <1>6, <1>7 DEF Good
<1>12. Same(s, x)  BY <1>2, <1>4, <1>9, <1>10 DEF Same
<1>13. \A j \in 1..n : x.stack[j] = IF j \in {i} THEN Saved(s.stack[j]) ELSE s.stack[j]
  BY <1>2
<1> QED  BY <1>2, <1>11, <1>12, <1>13, Zenon DEF Saves, x

LEMMA SameTrans ==
  ASSUME NEW s, NEW x, NEW y, Same(s, x), Same(x, y)
  PROVE  Same(s, y)
BY Zenon DEF Same

LEMMA SameSelf == ASSUME NEW s PROVE Same(s, s)
BY Zenon DEF Same

LEMMA SavesNone ==
  ASSUME NEW s, Good(s), NEW P, \A j \in 1..Len(s.stack) : j \notin P
  PROVE  Saves(s, s, P)
BY SameSelf, Zenon DEF Saves

LEMMA SavesMore ==
  ASSUME NEW s, s \in Machines, NEW x, NEW P, Saves(s, x, P), NEW i \in 1..Len(s.stack), i \notin P,
         NEW Q, \A j \in 1..Len(s.stack) : j \in Q <=> (j \in P \/ j = i)
  PROVE  Saves(s, SaveStack(x, i), Q)
<1> DEFINE y == SaveStack(x, i)
<1>1. /\ Good(x) /\ Same(s, x) /\ Len(x.stack) = Len(s.stack)
      /\ x.scratch = s.scratch /\ x.flag = s.flag /\ x.local = s.local /\ x.pages = s.pages
      /\ \A j \in 1..Len(s.stack) :
           x.stack[j] = IF j \in P THEN Saved(s.stack[j]) ELSE s.stack[j]
  BY DEF Saves, Same
<1>2. Saves(x, y, {i})
  <2>1. i \in 1..Len(x.stack)  BY <1>1
  <2> QED  BY <1>1, <2>1, SaveGood, Zenon
<1> HIDE DEF y
<1>3. /\ Good(y) /\ Same(x, y)
      /\ y.scratch = x.scratch /\ y.flag = x.flag /\ y.local = x.local /\ y.pages = x.pages
      /\ \A j \in 1..Len(x.stack) :
           y.stack[j] = IF j \in {i} THEN Saved(x.stack[j]) ELSE x.stack[j]
  BY <1>2 DEF Saves
<1>4. ASSUME NEW j \in 1..Len(s.stack)
      PROVE  y.stack[j] = IF j \in Q THEN Saved(s.stack[j]) ELSE s.stack[j]
  <2>0. y.stack[j] = IF j \in {i} THEN Saved(x.stack[j]) ELSE x.stack[j]  BY <1>1, <1>3, Zenon
  <2>1. CASE j = i
    <3>1. y.stack[j] = Saved(x.stack[j])  BY <2>0, <2>1, Zenon
    <3>2. x.stack[j] = s.stack[j]  BY <1>1, <2>1, Zenon
    <3> QED  BY <2>1, <3>1, <3>2, Zenon
  <2>2. CASE j # i
    <3>1. y.stack[j] = x.stack[j]  BY <2>0, <2>2
    <3>2. j \in Q <=> j \in P  BY <2>2
    <3>3. x.stack[j] = IF j \in P THEN Saved(s.stack[j]) ELSE s.stack[j]  BY <1>1, Zenon
    <3> QED  BY <3>1, <3>2, <3>3, Zenon
  <2> QED  BY <2>1, <2>2
<1>5. Same(s, y)  BY <1>1, <1>3, SameTrans, Zenon
<1>6. y.scratch = s.scratch /\ y.flag = s.flag /\ y.local = s.local /\ y.pages = s.pages
  BY <1>1, <1>3, Zenon
<1>7. Good(y)  BY <1>3
<1> QED  BY <1>4, <1>5, <1>6, <1>7, Zenon DEF Saves, y

LEMMA SaveUpwardsIs ==
  ASSUME NEW s, Good(s), NEW P
  PROVE  Saves(s, SaveUpwards(s, P), P)
<1> DEFINE n == Len(s.stack)
           Upto(k) == {j \in 1..k : j \in P}
           E(k, x) == IF k \in P THEN SaveStack(x, k) ELSE x
           Is(k) == {x \in Machines : Saves(s, x, Upto(k))}
           S == [k \in 0..n |-> Is(k)]
           g == [k \in 1..n |-> [x \in Is(k - 1) |-> E(k, x)]]
<1>1. s \in Machines /\ n \in Nat  BY Parts DEF Good
<1>2. s \in Is(0)
  <2>1. \A j \in 1..Len(s.stack) : j \notin Upto(0)  OBVIOUS
  <2>2. Saves(s, s, Upto(0))
    <3> HIDE DEF Upto
    <3> QED  BY <2>1, SavesNone, Zenon
  <2> QED  BY <1>1, <2>2
<1>3. ASSUME NEW k \in 1..n, NEW x \in Is(k - 1)  PROVE E(k, x) \in Is(k)
  <2>1. Saves(s, x, Upto(k - 1)) /\ x \in Machines  OBVIOUS
  <2>2. CASE k \in P
    <3>1. \A j \in 1..n : j \in Upto(k) <=> (j \in Upto(k - 1) \/ j = k)  BY <1>1, <2>2
    <3>2. k \notin Upto(k - 1)  BY <1>1
    <3>3. Saves(s, SaveStack(x, k), Upto(k))
      <4> HIDE DEF Upto
      <4> QED  BY <1>1, <2>1, <3>1, <3>2, SavesMore, Zenon
    <3>4. SaveStack(x, k) \in Machines  BY <3>3, Zenon DEF Saves, Good
    <3> HIDE DEF Upto
    <3> QED  BY <2>2, <3>3, <3>4
  <2>3. CASE k \notin P
    <3>1. \A j : j \in Upto(k) <=> j \in Upto(k - 1)  BY <1>1, <2>3
    <3>2. Upto(k) = Upto(k - 1)
      <4> HIDE DEF Upto
      <4> QED  BY <3>1, Zenon
    <3> HIDE DEF Upto
    <3> QED  BY <2>1, <2>3, <3>2, Zenon
  <2> QED  BY <2>2, <2>3
<1> HIDE DEF E, Is
<1>4. s \in S[0] /\ Steps(n, S, g)
  <2>1. ASSUME NEW k \in 1..n, NEW x \in S[k - 1]  PROVE g[k][x] \in S[k]
    <3>1. x \in Is(k - 1) /\ S[k] = Is(k)  BY <1>1
    <3> QED  BY <1>3, <3>1
  <2>2. s \in S[0]  BY <1>1, <1>2
  <2>3. Steps(n, S, g)
    <3> HIDE DEF n, S, g
    <3> QED  BY <2>1, Zenon DEF Steps
  <2> QED  BY <2>2, <2>3
<1>5. PICK f : Runs(f, n, S, s, g)
  <2> HIDE DEF n, S, g
  <2> QED  BY <1>1, <1>4, Recursion, Zenon
<1> DEFINE h == [k \in 0..n |-> f[k]]
           F == CHOOSE q : q = [k \in 0..n |-> IF k = 0 THEN s ELSE E(k, q[k - 1])]
<1>6. ASSUME NEW k \in 1..n  PROVE f[k] = E(k, f[k - 1])
  <2>1. k - 1 \in 0..n  BY <1>1
  <2>2. f[k] = g[k][f[k - 1]] /\ f[k - 1] \in S[k - 1]
    <3> HIDE DEF g, S, n
    <3> QED  BY <1>5, <2>1 DEF Runs
  <2>3. f[k - 1] \in Is(k - 1)  BY <2>1, <2>2
  <2> QED  BY <2>2, <2>3
<1>7. h = [k \in 0..n |-> IF k = 0 THEN s ELSE E(k, h[k - 1])]
  <2>1. f[0] = s  BY <1>5, Zenon DEF Runs
  <2>2. \A k \in 0..n : k # 0 => k - 1 \in 0..n /\ k \in 1..n  BY <1>1
  <2> HIDE DEF n
  <2> QED  BY <1>6, <2>1, <2>2
<1>8. F = [k \in 0..n |-> IF k = 0 THEN s ELSE E(k, F[k - 1])]
  <2> HIDE DEF h
  <2> QED  BY <1>7, Zenon
<1>9. SaveUpwards(s, P) = F[n]
  <2>1. \A q : [k \in 0..Depth(s) |-> IF k = 0 THEN s ELSE IF k \in P THEN SaveStack(q[k - 1], k)
                                                    ELSE q[k - 1]]
             = [k \in 0..n |-> IF k = 0 THEN s ELSE E(k, q[k - 1])]
    BY Zenon DEF E, Depth
  <2> QED  BY <2>1, Zenon DEF SaveUpwards, E, Depth
<1> HIDE DEF F
<1>10. \A k \in 0..n : F[k] \in S[k]
  <2>1. F[0] \in S[0]  BY <1>1, <1>2, <1>8
  <2>2. ASSUME NEW k \in 1..n, F[k - 1] \in S[k - 1]  PROVE F[k] \in S[k]
    <3>1. F[k - 1] \in Is(k - 1) /\ S[k] = Is(k)  BY <1>1, <2>2
    <3>2. F[k] = E(k, F[k - 1])  BY <1>1, <1>8
    <3> QED  BY <1>3, <3>1, <3>2
  <2> HIDE DEF n, S
  <2> QED  BY <1>1, <2>1, <2>2, StepByStep
<1>11. F[n] \in Is(n)
  <2>1. n \in 0..n /\ S[n] = Is(n)  BY <1>1
  <2> HIDE DEF n, S
  <2> QED  BY <1>10, <2>1, Zenon
<1>12. Saves(s, F[n], Upto(n))  BY <1>11 DEF Is
<1>13. \A j \in 1..Len(s.stack) : j \in Upto(n) <=> j \in P  OBVIOUS
<1> HIDE DEF Upto
<1> QED  BY <1>9, <1>12, <1>13, Zenon DEF Saves

-----------------------------------------------------------------------------
(* Registers.                                                              *)

LEMMA MinIs ==
  ASSUME NEW T, T \subseteq Nat, T # {}
  PROVE  Min(T) \in T /\ \A k \in T : Min(T) <= k
<1>1. \E m \in T : \A k \in T : m <= k  BY Least
<1>2. Min(T) = CHOOSE x \in T : \A y \in T : x <= y  BY Zenon DEF Min
<1> QED  BY <1>1, <1>2, Zenon

(* No operand among the k lowest uses register r.                          *)
Free(stack, r, k) == \A i \in 1..k : InReg(stack[i]) => stack[i].n # r

LEMMA HoldersAre ==
  ASSUME NEW s, NEW r, NEW k \in Nat
  PROVE  /\ Holders(s, r, k) \subseteq Nat
         /\ \A i : i \in Holders(s, r, k) <=> (i \in 1..k /\ InReg(s.stack[i]) /\ s.stack[i].n = r)
         /\ Holders(s, r, k) = {} <=> Free(s.stack, r, k)
<1>1. \A i : i \in Holders(s, r, k) <=> (i \in 1..k /\ InReg(s.stack[i]) /\ s.stack[i].n = r)
  BY DEF Holders, InReg
<1>2. Holders(s, r, k) \subseteq Nat  BY <1>1
<1>3. Holders(s, r, k) = {} <=> Free(s.stack, r, k)  BY <1>1, Zenon DEF Free
<1> QED  BY <1>1, <1>2, <1>3

(* The registers between them can always give one.                         *)
LEMMA FreeRegIs ==
  ASSUME NEW s, NEW k \in Nat
  PROVE  FreeReg(s, k) \in Regs
<1> DEFINE free == {r \in Regs : Holders(s, r, k) = {}}
<1>1. Scratch \in Regs /\ Regs \subseteq Nat  BY StackValuesAssumption DEF Regs
<1>2. FreeReg(s, k) = IF free = {} THEN Scratch ELSE Min(free)  BY Zenon DEF FreeReg
<1>3. free \subseteq Regs  OBVIOUS
<1> HIDE DEF free
<1>4. free # {} => Min(free) \in Regs
  <2>1. free \subseteq Nat  BY <1>1, <1>3
  <2> QED  BY <1>3, <2>1, MinIs, Zenon
<1> QED  BY <1>1, <1>2, <1>4, Zenon

(* The first user of a register is the only one, and is saved.             *)
LEMMA Evicts ==
  ASSUME NEW s, Good(s), NEW r, NEW k \in 0..Len(s.stack)
  PROVE  LET h == Holders(s, r, k)
             x == IF h = {} THEN s ELSE SaveStack(s, Min(h))
         IN  Saves(s, x, h) /\ Free(x.stack, r, k)
<1> DEFINE h == Holders(s, r, k)
           n == Len(s.stack)
           x == IF h = {} THEN s ELSE SaveStack(s, Min(h))
<1>1. s \in Machines /\ n \in Nat /\ k \in Nat /\ k <= n  BY Parts DEF Good
<1>2. /\ h \subseteq Nat /\ (h = {} <=> Free(s.stack, r, k))
      /\ \A i : i \in h <=> (i \in 1..k /\ InReg(s.stack[i]) /\ s.stack[i].n = r)
  BY <1>1, HoldersAre
<1> HIDE DEF h
<1>3. CASE h = {}
  <2>1. x = s  BY <1>3
  <2>2. \A j \in 1..Len(s.stack) : j \notin h  BY <1>3
  <2>3. Saves(s, s, h)  BY <2>2, SavesNone, Zenon
  <2> HIDE DEF x
  <2> QED  BY <1>2, <1>3, <2>1, <2>3, Zenon DEF h, x
<1>4. CASE h # {}
  <2> DEFINE m == Min(h)
  <2>1. m \in h  BY <1>2, <1>4, MinIs, Zenon
  <2>2. x = SaveStack(s, m)  BY <1>4, Zenon
  <2> HIDE DEF m, x
  <2>3. m \in 1..n /\ InReg(s.stack[m]) /\ s.stack[m].n = r  BY <1>1, <1>2, <2>1
  <2>4. Saves(s, x, {m})  BY <2>2, <2>3, SaveGood, Zenon
  <2>5. \A i \in 1..n : i \in h <=> i = m
    <3>1. \A i \in 1..n : i # m /\ InReg(s.stack[i]) => s.stack[i].n # r
      BY <2>3 DEF Good, Apart
    <3> QED  BY <1>2, <2>1, <2>3, <3>1
  <2>6. Saves(s, x, h)
    <3>1. \A j \in 1..n : j \in {m} <=> j \in h  BY <2>5
    <3> QED  BY <2>4, <3>1, Zenon DEF Saves
  <2>7. Free(x.stack, r, k)
    <3>1. \A j \in 1..n : x.stack[j] = IF j \in h THEN Saved(s.stack[j]) ELSE s.stack[j]
      BY <2>6 DEF Saves
    <3>2. ASSUME NEW j \in 1..k, InReg(x.stack[j])  PROVE x.stack[j].n # r
      <4>1. j \in 1..n /\ s.stack[j] \in Operands  BY <1>1, Parts
      <4>2. CASE j \in h
        <5>1. x.stack[j] = Saved(s.stack[j])  BY <3>1, <4>1, <4>2
        <5>2. Saved(s.stack[j]).mode = "frame"  BY <4>1, SavedIs
        <5> QED  BY <3>2, <5>1, <5>2 DEF InReg
      <4>3. CASE j \notin h
        <5>1. x.stack[j] = s.stack[j]  BY <3>1, <4>1, <4>3
        <5> QED  BY <1>2, <3>2, <4>3, <5>1
      <4> QED  BY <4>2, <4>3
    <3> QED  BY <3>2 DEF Free
  <2> QED  BY <2>6, <2>7 DEF h, x
<1> QED  BY <1>3, <1>4

LEMMA FreedIs ==
  ASSUME NEW s, Good(s), NEW k \in 0..Len(s.stack)
  PROVE  /\ FreeReg(s, k) \in Regs
         /\ Saves(s, Freed(s, k), Holders(s, FreeReg(s, k), k))
         /\ Free(Freed(s, k).stack, FreeReg(s, k), k)
<1>1. FreeReg(s, k) \in Regs
  <2>1. k \in Nat  OBVIOUS
  <2> QED  BY <2>1, FreeRegIs
<1> DEFINE r == FreeReg(s, k)
<1>2. Freed(s, k) = IF Holders(s, r, k) = {} THEN s ELSE SaveStack(s, Min(Holders(s, r, k)))
  BY Zenon DEF Freed
<1> HIDE DEF r
<1>3. Saves(s, Freed(s, k), Holders(s, r, k)) /\ Free(Freed(s, k).stack, r, k)
  BY <1>2, Evicts, Zenon
<1> QED  BY <1>1, <1>3 DEF r

LEMMA SavesFlags ==
  ASSUME NEW s, s \in Machines, NEW x, NEW P, Saves(s, x, P)
  PROVE  /\ Len(x.stack) = Len(s.stack) /\ x \in Machines
         /\ \A j \in 1..Len(s.stack) : x.stack[j].mode = "flag" => s.stack[j].mode = "flag"
         /\ FlagsTop(s) => FlagsTop(x)
         /\ NoFlags(s) => NoFlags(x)
<1>1. Len(x.stack) = Len(s.stack) /\ x \in Machines  BY DEF Saves, Same, Good
<1>2. ASSUME NEW j \in 1..Len(s.stack), x.stack[j].mode = "flag"  PROVE s.stack[j].mode = "flag"
  <2>1. x.stack[j] = IF j \in P THEN Saved(s.stack[j]) ELSE s.stack[j]  BY DEF Saves
  <2>2. Saved(s.stack[j]).mode = "frame"  BY Parts, SavedIs
  <2> QED  BY <1>2, <2>1, <2>2
<1>3. \A j \in 1..Len(s.stack) : x.stack[j].type = s.stack[j].type  BY Zenon DEF Saves, Same
<1>4. FlagsTop(s) => FlagsTop(x)  BY <1>1, <1>2, <1>3, Zenon DEF FlagsTop
<1>5. NoFlags(s) => NoFlags(x)  BY <1>1, <1>2, Zenon DEF NoFlags
<1> QED  BY <1>1, <1>2, <1>4, <1>5

(* Saving operands puts no other one into a register.                      *)
LEMMA SavesInReg ==
  ASSUME NEW s, s \in Machines, NEW x, NEW P, Saves(s, x, P)
  PROVE  /\ \A j \in 1..Len(s.stack) : InReg(x.stack[j]) => x.stack[j] = s.stack[j]
         /\ \A j \in 1..Len(s.stack) :
              s.stack[j].mode = "frame" /\ s.stack[j].n = s.stack[j].at =>
                x.stack[j] = s.stack[j]
<1> SUFFICES ASSUME NEW j \in 1..Len(s.stack)
    PROVE /\ InReg(x.stack[j]) => x.stack[j] = s.stack[j]
          /\ s.stack[j].mode = "frame" /\ s.stack[j].n = s.stack[j].at => x.stack[j] = s.stack[j]
  OBVIOUS
<1>1. x.stack[j] = IF j \in P THEN Saved(s.stack[j]) ELSE s.stack[j]  BY Zenon DEF Saves
<1>2. s.stack[j] \in Operands  BY Parts
<1>3. CASE j \in P
  <2>1. x.stack[j] = Saved(s.stack[j])  BY <1>1, <1>3, Zenon
  <2>2. Saved(s.stack[j]).mode = "frame"  BY <1>2, SavedIs
  <2>3. ~InReg(x.stack[j])  BY <2>1, <2>2 DEF InReg
  <2> QED  BY <1>2, <2>1, <2>3, SavedIs, Zenon
<1>4. CASE j \notin P  BY <1>1, <1>4, Zenon
<1> QED  BY <1>3, <1>4

-----------------------------------------------------------------------------
(* Pushing, popping, writing a register.                                   *)

LEMMA EvenPlus ==
  ASSUME NEW a \in Nat, NEW t \in Types
  PROVE  Even(a + Size(t)) <= Even(a) + 2 /\ Even(a + Size(t)) \in Nat
<1>1. CASE Size(t) = 1
  <2>1. Even(a + 1) <= (a + 1) + 1 /\ a <= Even(a) /\ Even(a) \in Nat /\ Even(a + 1) \in Nat
    BY EvenIs
  <2>2. Even(a + 1) <= Even(a) + 2  BY <2>1
  <2> QED  BY <1>1, <2>1, <2>2, Zenon
<1>2. CASE Size(t) = 2
  <2>1. (a + 2) % 2 = a % 2  OBVIOUS
  <2>2. Even(a + 2) = (a + 2) + (a % 2)  BY <2>1, Zenon DEF Even
  <2>3. Even(a) = a + (a % 2) /\ a % 2 \in {0, 1}  BY DEF Even
  <2>4. Even(a + 2) <= Even(a) + 2 /\ Even(a + 2) \in Nat  BY <2>2, <2>3
  <2> QED  BY <1>2, <2>4, Zenon
<1> QED  BY <1>1, <1>2, Sizes

LEMMA NextSlotIs ==
  ASSUME NEW s, Good(s), NEW t \in Types
  PROVE  /\ Placeable(NextSlot(s, t), Len(s.stack) + 1)
         /\ \A i \in 1..Len(s.stack) : s.stack[i].at + Size(s.stack[i].type) <= NextSlot(s, t)
<1> DEFINE n == Len(s.stack)
           to == NextSlot(s, t)
<1>1. /\ s \in Machines /\ s.stack \in Seq(Operands) /\ n \in Nat
      /\ Described(s.stack, s.scratch) /\ Apart(s.stack)
  BY Parts DEF Good
<1>2. CASE n = 0
  <2>1. to = ParamsEnd
    <3>1. s.stack = <<>>  BY <1>1, <1>2
    <3> QED  BY <3>1, Zenon DEF NextSlot, ParamsEnd
  <2>2. ParamsEnd \in Nat  BY Params
  <2>3. Even(ParamsEnd) <= ParamsEnd + 1 /\ Even(ParamsEnd) \in Nat  BY <2>2, EvenIs
  <2>4. Placeable(ParamsEnd, 1)  BY <2>2, <2>3 DEF Placeable
  <2> QED  BY <1>2, <2>1, <2>4
<1>3. CASE n # 0
  <2> DEFINE d == s.stack[n]
             off == d.at + Size(d.type)
  <2>1. n \in 1..n /\ d.at \in Nat /\ d.type \in Types  BY <1>1, <1>3, Parts
  <2>2. to = AlignUp(off, Size(t))
    <3>1. s.stack # <<>>  BY <1>3
    <3>2. Last(s.stack) = d  BY DEF Last
    <3> QED  BY <3>1, <3>2, Zenon DEF NextSlot
  <2>3. Placeable(d.at, n)  BY <1>1, <2>1 DEF Described
  <2>4. off \in Nat /\ off >= d.at  BY <2>1, Sizes
  <2>5. Even(off) <= Even(d.at) + 2 /\ Even(off) \in Nat /\ Even(d.at) \in Nat
    BY <2>1, EvenPlus, EvenIs
  <2>6. \A i \in 1..n : i < n => s.stack[i].at + Size(s.stack[i].type) <= d.at
    BY <1>1, <2>1 DEF Apart
  <2> HIDE DEF off, d
  <2>7. to \in Nat /\ to >= off /\ Even(to) = Even(off)
    <3>1. /\ AlignUp(off, Size(t)) \in Nat /\ AlignUp(off, Size(t)) >= off
          /\ AlignUp(off, Size(t)) + (AlignUp(off, Size(t)) % 2) = off + (off % 2)
      BY <2>4, AlignedTo
    <3> QED  BY <2>2, <3>1, Zenon DEF Even
  <2> HIDE DEF to
  <2>8. Placeable(to, n + 1)
    <3>1. ParamsEnd <= d.at /\ Even(d.at) + 2 <= ParamsEnd + 3 * n /\ ParamsEnd \in Nat  BY <2>3, Params DEF Placeable
    <3> QED  BY <1>1, <2>1, <2>4, <2>5, <2>7, <3>1, SMTT(30) DEF Placeable
  <2>9. \A i \in 1..n : s.stack[i].at + Size(s.stack[i].type) <= to
    <3> TAKE i \in 1..n
    <3>1. CASE i = n
      <4>1. s.stack[i].at + Size(s.stack[i].type) = off  BY <3>1, Zenon DEF off, d
      <4> QED  BY <2>4, <2>7, <4>1
    <3>2. CASE i # n
      <4>1. s.stack[i].at + Size(s.stack[i].type) <= d.at  BY <1>1, <2>6, <3>2
      <4>2. s.stack[i].at \in Nat /\ Size(s.stack[i].type) \in Nat  BY <1>1, Parts, Sizes
      <4> QED  BY <2>1, <2>4, <2>7, <4>1, <4>2
    <3> QED  BY <3>1, <3>2
  <2> QED  BY <2>8, <2>9 DEF to
<1> QED  BY <1>2, <1>3

(* The k lowest operands and the locals are the same in both machines.     *)
Agrees(s, x, k) ==
  /\ x.pages = s.pages
  /\ \A i \in 1..k :
       /\ x.stack[i].type = s.stack[i].type /\ x.stack[i].at = s.stack[i].at
       /\ Denoted(x, x.stack[i]) = Denoted(s, s.stack[i])
  /\ \A i \in DOMAIN LocalTypes : Denoted(x, Home(i)) = Denoted(s, Home(i))

LEMMA AgreesTrans ==
  ASSUME NEW s, NEW x, NEW y, NEW k, Agrees(s, x, k), Agrees(x, y, k)
  PROVE  Agrees(s, y, k)
BY Zenon DEF Agrees

LEMMA SameAgrees ==
  ASSUME NEW s, NEW x, Same(s, x), Len(s.stack) \in Nat, NEW k \in 0..Len(s.stack)
  PROVE  Agrees(s, x, k) /\ Len(x.stack) = Len(s.stack)
<1>1. \A i \in 1..k : i \in 1..Len(s.stack)  OBVIOUS
<1> QED  BY <1>1 DEF Same, Agrees

(* The same descriptions, of the same machine but for register r.          *)
Spared(s, x, k, r) ==
  /\ s \in Machines /\ k \in 0..Len(s.stack)
  /\ \A i \in 1..k : x.stack[i] = s.stack[i]
  /\ x.frame = s.frame /\ x.local = s.local /\ x.pages = s.pages
  /\ \A i \in 1..k : s.stack[i].mode = "flag" => x.flag = s.flag
  /\ \A q \in Regs : q # r => x.scratch[q] = s.scratch[q]
  /\ x.scratch = s.scratch \/ Free(s.stack, r, k)
  /\ \A i \in 1..k : InReg(s.stack[i]) => s.stack[i].n \in Regs

LEMMA Untouched ==
  ASSUME NEW s, NEW x, NEW k, NEW r, Spared(s, x, k, r)
  PROVE  Agrees(s, x, k)
<1>0. /\ s \in Machines /\ k \in 0..Len(s.stack)
      /\ \A i \in 1..k : x.stack[i] = s.stack[i]
      /\ x.frame = s.frame /\ x.local = s.local /\ x.pages = s.pages
      /\ \A i \in 1..k : s.stack[i].mode = "flag" => x.flag = s.flag
      /\ \A q \in Regs : q # r => x.scratch[q] = s.scratch[q]
      /\ x.scratch = s.scratch \/ Free(s.stack, r, k)
      /\ \A i \in 1..k : InReg(s.stack[i]) => s.stack[i].n \in Regs
  BY Zenon DEF Spared
<1>1. \A i \in 1..k : i \in 1..Len(s.stack)  BY <1>0, Parts
<1>2. ASSUME NEW i \in 1..k  PROVE Denoted(x, x.stack[i]) = Denoted(s, s.stack[i])
  <2>1. s.stack[i].mode \in {"imm", "frame", "local", "reg", "cell", "flag"}  BY <1>0, <1>1, Parts
  <2>2. InReg(s.stack[i]) => x.scratch[s.stack[i].n] = s.scratch[s.stack[i].n]
    BY <1>0 DEF Free
  <2>3. Unmoved(s, x, s.stack[i])  BY <1>0, <2>1, <2>2, Zenon DEF Unmoved
  <2>4. Denoted(x, s.stack[i]) = Denoted(s, s.stack[i])  BY <2>3, DenotedSame, Zenon
  <2>5. x.stack[i] = s.stack[i]  BY <1>0
  <2> QED  BY <2>4, <2>5, Zenon
<1>3. ASSUME NEW i \in DOMAIN LocalTypes  PROVE Denoted(x, Home(i)) = Denoted(s, Home(i))
  <2>1. Home(i).mode \in {"frame", "local"}  BY HomeIs
  <2>2. Unmoved(s, x, Home(i))  BY <1>0, <2>1 DEF Unmoved, InReg
  <2> QED  BY <2>2, DenotedSame, Zenon
<1>4. \A i \in 1..k : x.stack[i].type = s.stack[i].type /\ x.stack[i].at = s.stack[i].at
  BY <1>0, Zenon
<1> QED  BY <1>0, <1>2, <1>3, <1>4, Zenon DEF Agrees

LEMMA PopIs ==
  ASSUME NEW s, Good(s), NEW k \in 0..Len(s.stack)
  PROVE  LET x == Pop(s, k)
         IN  /\ Good(x) /\ Len(x.stack) = Len(s.stack) - k /\ Agrees(s, x, Len(s.stack) - k)
             /\ x.frame = s.frame /\ x.scratch = s.scratch /\ x.flag = s.flag
             /\ x.local = s.local /\ x.pages = s.pages
             /\ \A i \in 1..(Len(s.stack) - k) : x.stack[i] = s.stack[i]
             /\ FlagsTop(s) => FlagsTop(x)
             /\ NoFlags(s) \/ (FlagsTop(s) /\ k # 0) => NoFlags(x)
<1> DEFINE n == Len(s.stack)
           q == SubSeq(s.stack, 1, n - k)
           x == Pop(s, k)
<1>1. /\ s \in Machines /\ s.stack \in Seq(Operands) /\ n \in Nat /\ n <= MaxStack
      /\ Described(s.stack, s.scratch) /\ Apart(s.stack) /\ MaxStack \in Nat
  BY Parts, StackValuesAssumption DEF Good
<1>2. q \in Seq(Operands) /\ Len(q) = n - k /\ \A i \in 1..(n - k) : q[i] = s.stack[i]
  BY <1>1
<1>3. x = [s EXCEPT !.stack = q]  BY DEF Pop
<1> HIDE DEF q, x
<1>4. /\ x \in Machines /\ x.stack = q /\ x.frame = s.frame /\ x.scratch = s.scratch
      /\ x.flag = s.flag /\ x.local = s.local /\ x.pages = s.pages
  BY <1>1, <1>2, <1>3 DEF Machines
<1>5. \A i \in 1..(n - k) : i \in 1..n /\ x.stack[i] = s.stack[i]  BY <1>1, <1>2, <1>4
<1>6. Len(x.stack) = n - k  BY <1>2, <1>4
<1>7. Good(x)
  <2>1. Described(x.stack, x.scratch)  BY <1>1, <1>4, <1>5, <1>6 DEF Described
  <2>2. Apart(x.stack)  BY <1>1, <1>5, <1>6 DEF Apart
  <2>3. Len(x.stack) <= MaxStack  BY <1>1, <1>6
  <2> QED  BY <1>4, <2>1, <2>2, <2>3 DEF Good
<1>8. Agrees(s, x, n - k)
  <2>1. \A i \in 1..(n - k) : InReg(s.stack[i]) => s.stack[i].n \in Regs
    BY <1>1, <1>5 DEF Described, Readable, InReg
  <2>2. n - k \in 0..Len(s.stack)  BY <1>1
  <2>3. \A z \in Regs : z # 0 => x.scratch[z] = s.scratch[z]  BY <1>4
  <2>4. Spared(s, x, n - k, 0)
    <3>1. /\ s \in Machines /\ \A i \in 1..(n - k) : x.stack[i] = s.stack[i]
          /\ x.frame = s.frame /\ x.local = s.local /\ x.pages = s.pages
          /\ x.flag = s.flag /\ x.scratch = s.scratch
      BY <1>1, <1>4, <1>5, Zenon
    <3> QED  BY <2>1, <2>2, <2>3, <3>1, Zenon DEF Spared
  <2> QED  BY <2>4, Untouched, Zenon
<1>9. /\ FlagsTop(s) => FlagsTop(x)
      /\ NoFlags(s) \/ (FlagsTop(s) /\ k # 0) => NoFlags(x)
  <2>1. NoFlags(s) => NoFlags(x)  BY <1>5, <1>6 DEF NoFlags
  <2>2. FlagsTop(s) /\ k # 0 => NoFlags(x)
    <3>1. k # 0 => \A i \in 1..(n - k) : i # n  BY <1>1
    <3> QED  BY <1>5, <1>6, <3>1 DEF FlagsTop, NoFlags
  <2>3. FlagsTop(s) /\ k = 0 => FlagsTop(x)
    <3>1. k = 0 => n - k = n  BY <1>1
    <3> QED  BY <1>5, <1>6, <3>1 DEF FlagsTop
  <2>4. NoFlags(x) => FlagsTop(x)  BY Zenon DEF FlagsTop, NoFlags
  <2> QED  BY <2>1, <2>2, <2>3, <2>4
<1> QED  BY <1>4, <1>5, <1>6, <1>7, <1>8, <1>9 DEF x

(* What is pushed, when it may be, and what the machine is then.           *)
Fresh(s, t, mode, n) == [type |-> t, mode |-> mode, n |-> n, at |-> NextSlot(s, t)]
Pushable(s, k, t, mode, n) ==
  /\ Good(s) /\ Len(s.stack) = k /\ k < MaxStack /\ t \in Types /\ n \in Nat
  /\ mode \in {"imm", "frame", "local", "reg", "cell", "flag"}
  /\ Readable(s.scratch, Fresh(s, t, mode, n)) /\ Homed(Fresh(s, t, mode, n))
  /\ mode \in {"reg", "cell"} => Free(s.stack, n, k)
  /\ mode = "flag" => t = "i32"
Pushed(s, k, d, x) ==
  /\ Good(x) /\ Len(x.stack) = k + 1 /\ Agrees(s, x, k)
  /\ x.frame = s.frame /\ x.scratch = s.scratch /\ x.flag = s.flag
  /\ x.local = s.local /\ x.pages = s.pages /\ x.stack[k + 1] = d
  /\ NoFlags(s) => FlagsTop(x)

LEMMA PushIs ==
  ASSUME NEW s, NEW m, NEW t, NEW mode, NEW n, Pushable(s, m, t, mode, n)
  PROVE  Pushed(s, m, Fresh(s, t, mode, n), Push(s, t, mode, n))
<1> DEFINE d == Fresh(s, t, mode, n)
           q == Append(s.stack, d)
           x == Push(s, t, mode, n)
<1>0. /\ Good(s) /\ Len(s.stack) = m /\ m < MaxStack /\ t \in Types /\ n \in Nat
      /\ mode \in {"imm", "frame", "local", "reg", "cell", "flag"}
      /\ Readable(s.scratch, d) /\ Homed(d)
      /\ mode \in {"reg", "cell"} => Free(s.stack, n, m)
      /\ mode = "flag" => t = "i32"
  BY Zenon DEF Pushable
<1>1. /\ Len(s.stack) = m /\ s \in Machines /\ s.stack \in Seq(Operands) /\ m \in Nat /\ m < MaxStack
      /\ Described(s.stack, s.scratch) /\ Apart(s.stack) /\ MaxStack \in Nat
  BY <1>0, Parts, StackValuesAssumption DEF Good
<1>2. /\ Placeable(d.at, m + 1)
      /\ \A i \in 1..m : s.stack[i].at + Size(s.stack[i].type) <= d.at
  <2>1. /\ Placeable(NextSlot(s, t), Len(s.stack) + 1)
        /\ \A i \in 1..Len(s.stack) : s.stack[i].at + Size(s.stack[i].type) <= NextSlot(s, t)
    BY <1>0, NextSlotIs, Zenon
  <2>2. d.at = NextSlot(s, t)  BY DEF Fresh
  <2> QED  BY <1>0, <2>1, <2>2, Zenon
<1>3. /\ d \in Operands /\ d.mode = mode /\ d.n = n
      /\ Readable(s.scratch, d) /\ Homed(d)
  BY <1>0, <1>2 DEF Operands, Placeable, Fresh
<1>4. x = [s EXCEPT !.stack = q]
  <2>1. x = [s EXCEPT !.stack = Append(@, d)]  BY Zenon DEF Push, Fresh
  <2> HIDE DEF d
  <2> QED  BY <1>1, <2>1 DEF Machines
<1> HIDE DEF d
<1>5. /\ q \in Seq(Operands) /\ Len(q) = m + 1 /\ q[m + 1] = d
      /\ \A i \in 1..m : q[i] = s.stack[i]
  BY <1>1, <1>3
<1> HIDE DEF q, x
<1>6. /\ x \in Machines /\ x.stack = q /\ x.frame = s.frame /\ x.scratch = s.scratch
      /\ x.flag = s.flag /\ x.local = s.local /\ x.pages = s.pages
  BY <1>1, <1>4, <1>5 DEF Machines
<1>7. /\ Len(x.stack) = m + 1 /\ x.stack[m + 1] = d
      /\ \A i \in 1..m : x.stack[i] = s.stack[i]
      /\ \A i \in 1..(m + 1) : i \in 1..m \/ i = m + 1
  BY <1>1, <1>5, <1>6
<1>8. Described(x.stack, x.scratch)
  <2>1. \A i \in 1..m :
          /\ Readable(x.scratch, x.stack[i]) /\ Homed(x.stack[i])
          /\ Placeable(x.stack[i].at, i)
    BY <1>1, <1>6, <1>7 DEF Described
  <2>2. /\ Readable(x.scratch, x.stack[m + 1]) /\ Homed(x.stack[m + 1])
        /\ Placeable(x.stack[m + 1].at, m + 1)
    BY <1>2, <1>3, <1>6, <1>7
  <2> QED  BY <1>7, <2>1, <2>2, Zenon DEF Described
<1>9. Apart(x.stack)
  <2>1. ASSUME NEW i \in 1..(m + 1), NEW j \in 1..(m + 1)
        PROVE  i < j => x.stack[i].at + Size(x.stack[i].type) <= x.stack[j].at
    <3> SUFFICES ASSUME i < j PROVE x.stack[i].at + Size(x.stack[i].type) <= x.stack[j].at
      OBVIOUS
    <3>1. i \in 1..m  BY <1>1, <2>1
    <3>2. CASE j = m + 1
      <4>1. x.stack[j] = d /\ x.stack[i] = s.stack[i]  BY <1>7, <3>1, <3>2, Zenon
      <4> QED  BY <1>2, <3>1, <4>1, Zenon
    <3>3. CASE j \in 1..m
      <4>1. s.stack[i].at + Size(s.stack[i].type) <= s.stack[j].at
        BY <1>1, <3>1, <3>3 DEF Apart
      <4> QED  BY <1>7, <3>1, <3>3, <4>1, Zenon
    <3> QED  BY <1>7, <3>2, <3>3
  <2>2. ASSUME NEW i \in 1..(m + 1), NEW j \in 1..(m + 1), i # j,
               InReg(x.stack[i]), InReg(x.stack[j])
        PROVE  x.stack[i].n # x.stack[j].n
    <3>1. InReg(d) => Free(s.stack, n, m)  BY <1>0, <1>3 DEF InReg
    <3>2. CASE i \in 1..m /\ j \in 1..m
      <4>1. x.stack[i] = s.stack[i] /\ x.stack[j] = s.stack[j]  BY <1>7, <3>2
      <4> QED  BY <1>1, <2>2, <3>2, <4>1 DEF Apart
    <3>3. CASE i \in 1..m /\ j = m + 1
      <4>1. x.stack[i] = s.stack[i] /\ x.stack[j] = d  BY <1>7, <3>3
      <4> QED  BY <1>3, <2>2, <3>1, <3>3, <4>1 DEF Free
    <3>4. CASE i = m + 1 /\ j \in 1..m
      <4>1. x.stack[j] = s.stack[j] /\ x.stack[i] = d  BY <1>7, <3>4
      <4> QED  BY <1>3, <2>2, <3>1, <3>4, <4>1 DEF Free
    <3> QED  BY <1>7, <2>2, <3>2, <3>3, <3>4
  <2> QED  BY <1>7, <2>1, <2>2 DEF Apart
<1>10. Good(x)
  <2>1. Len(x.stack) <= MaxStack  BY <1>1, <1>7
  <2> QED  BY <1>6, <1>8, <1>9, <2>1 DEF Good
<1>11. Agrees(s, x, m)
  <2>1. \A i \in 1..m : InReg(s.stack[i]) => s.stack[i].n \in Regs
    BY <1>1 DEF Described, Readable, InReg
  <2>2. m \in 0..Len(s.stack)  BY <1>1
  <2>3. \A z \in Regs : z # n => x.scratch[z] = s.scratch[z]  BY <1>6
  <2>4. \A i \in 1..m : s.stack[i].mode = "flag" => x.flag = s.flag  BY <1>6
  <2>5. /\ s \in Machines /\ x.frame = s.frame /\ x.local = s.local /\ x.pages = s.pages
        /\ x.scratch = s.scratch /\ \A i \in 1..m : x.stack[i] = s.stack[i]
    BY <1>1, <1>6, <1>7, Zenon
  <2>6. Spared(s, x, m, n)  BY <2>1, <2>2, <2>3, <2>4, <2>5, Zenon DEF Spared
  <2> QED  BY <2>6, Untouched, Zenon
<1>12. NoFlags(s) => FlagsTop(x)
  <2>1. d.type = t  BY DEF Fresh, d
  <2>2. \A i \in 1..m : s.stack[i].mode # "flag" => x.stack[i].mode # "flag"  BY <1>7, Zenon
  <2> QED  BY <1>0, <1>1, <1>3, <1>7, <2>1, <2>2, Zenon DEF FlagsTop, NoFlags
<1> QED  BY <1>6, <1>7, <1>10, <1>11, <1>12, Zenon DEF Pushed, x, d

(* A register is written: only those that use it can tell.                 *)
WithReg(s, r, v) == [s EXCEPT !.scratch[r] = v]

LEMMA WriteIs ==
  ASSUME NEW s, Good(s), NEW r \in Regs, NEW v \in Loaded \cup {PagesAddress},
         v \in Loaded \/ Free(s.stack, r, Len(s.stack))
  PROVE  LET x == WithReg(s, r, v)
         IN  /\ Good(x) /\ x.stack = s.stack /\ x.frame = s.frame /\ x.flag = s.flag
             /\ x.local = s.local /\ x.pages = s.pages /\ x.scratch[r] = v
             /\ \A q \in Regs : q # r => x.scratch[q] = s.scratch[q]
             /\ \A k \in 0..Len(s.stack) : Free(s.stack, r, k) => Agrees(s, x, k)
<1> DEFINE n == Len(s.stack)
           x == WithReg(s, r, v)
<1>1. /\ s \in Machines /\ n \in Nat /\ n <= MaxStack
      /\ Described(s.stack, s.scratch) /\ Apart(s.stack)
      /\ s.scratch \in [Regs -> Loaded \cup {PagesAddress}]
  BY Parts DEF Good
<1> DEFINE w == [s.scratch EXCEPT ![r] = v]
<1>2. x = [s EXCEPT !.scratch = w]  BY DEF WithReg
<1>3. /\ w \in [Regs -> Loaded \cup {PagesAddress}] /\ w[r] = v
      /\ \A q \in Regs : q # r => w[q] = s.scratch[q]
  BY <1>1
<1> HIDE DEF w, x
<1>4. /\ x \in Machines /\ x.stack = s.stack /\ x.frame = s.frame /\ x.flag = s.flag
      /\ x.local = s.local /\ x.pages = s.pages /\ x.scratch = w
  BY <1>1, <1>2, <1>3 DEF Machines
<1>5. Described(x.stack, x.scratch)
  <2>1. ASSUME NEW i \in 1..n  PROVE Readable(w, s.stack[i])
    <3>1. Readable(s.scratch, s.stack[i])  BY <1>1 DEF Described
    <3>2. s.stack[i].mode = "reg" => w[s.stack[i].n] \in Loaded
      <4> SUFFICES ASSUME s.stack[i].mode = "reg" PROVE w[s.stack[i].n] \in Loaded  OBVIOUS
      <4>1. s.stack[i].n \in Regs /\ s.scratch[s.stack[i].n] \in Loaded  BY <3>1 DEF Readable
      <4>2. CASE s.stack[i].n = r
        <5>1. ~Free(s.stack, r, n)  BY <4>2 DEF Free, InReg
        <5> QED  BY <1>3, <4>2, <5>1
      <4>3. CASE s.stack[i].n # r  BY <1>3, <4>1, <4>3
      <4> QED  BY <4>2, <4>3
    <3> QED  BY <3>1, <3>2 DEF Readable
  <2> QED  BY <1>1, <1>4, <2>1 DEF Described
<1>6. Good(x)  BY <1>1, <1>4, <1>5 DEF Good
<1>7. ASSUME NEW k \in 0..Len(s.stack), Free(s.stack, r, k)  PROVE Agrees(s, x, k)
  <2>1. \A i \in 1..k : InReg(s.stack[i]) => s.stack[i].n \in Regs
    <3>1. \A i \in 1..k : i \in 1..n  BY <1>1
    <3> QED  BY <1>1, <3>1 DEF Described, Readable, InReg
  <2>2. \A q \in Regs : q # r => x.scratch[q] = s.scratch[q]  BY <1>3, <1>4
  <2>3. /\ \A i \in 1..k : x.stack[i] = s.stack[i]
        /\ \A i \in 1..k : s.stack[i].mode = "flag" => x.flag = s.flag
        /\ x.frame = s.frame /\ x.local = s.local /\ x.pages = s.pages
    BY <1>4, Zenon
  <2>4. Spared(s, x, k, r)  BY <1>1, <1>7, <2>1, <2>2, <2>3, Zenon DEF Spared
  <2> QED  BY <2>4, Untouched, Zenon
<1> QED  BY <1>3, <1>4, <1>6, <1>7 DEF x

LEMMA AgreesAll ==
  ASSUME NEW s, NEW x, NEW n \in Nat, Len(s.stack) = n, Len(x.stack) = n, n # 0,
         Agrees(s, x, n - 1), x.stack[n].type = s.stack[n].type, x.stack[n].at = s.stack[n].at,
         Denoted(x, x.stack[n]) = Denoted(s, s.stack[n])
  PROVE  Same(s, x)
<1>1. \A i \in 1..n : i \in 1..(n - 1) \/ i = n  OBVIOUS
<1>2. \A i \in 1..n :
        /\ x.stack[i].type = s.stack[i].type /\ x.stack[i].at = s.stack[i].at
        /\ Denoted(x, x.stack[i]) = Denoted(s, s.stack[i])
  BY <1>1, Zenon DEF Agrees
<1> QED  BY <1>2, Zenon DEF Same, Agrees

(* The topmost operand is loaded into a register.                          *)
LEMMA LoadRegIs ==
  ASSUME NEW s, Good(s), NEW n \in Nat \ {0}, Len(s.stack) = n, NEW k \in {n - 1, n}
  PROVE  LET x == LoadReg(s, n, k)
         IN  /\ Good(x) /\ Same(s, x) /\ Len(x.stack) = n /\ x.flag = s.flag
             /\ x.stack[n].mode \in {"reg", "local"}
             /\ \A j \in 1..(n - 1) : x.stack[j].mode = "flag" => s.stack[j].mode = "flag"
<1> DEFINE r == FreeReg(s, k)
           f == Freed(s, k)
           d == f.stack[n]
           v == Denoted(f, d)
           y == WithReg(f, r, v)
           x == LoadReg(s, n, k)
<1>0. s \in Machines /\ k \in 0..Len(s.stack) /\ n \in 1..n  BY DEF Good
<1>1. CASE InRegister(s.stack[n])
  <2>1. x = s  BY <1>1, Zenon DEF LoadReg
  <2>2. s.stack[n].mode \in {"reg", "local"}  BY <1>1 DEF InRegister
  <2> HIDE DEF x
  <2> QED  BY <2>1, <2>2, SameSelf, Zenon DEF x
<1>2. CASE ~InRegister(s.stack[n])
  <2>1. r \in Regs /\ Saves(s, f, Holders(s, r, k)) /\ Free(f.stack, r, k)  BY <1>0, FreedIs
  <2>2. /\ Good(f) /\ Same(s, f) /\ f \in Machines /\ Len(f.stack) = n /\ f.flag = s.flag
        /\ \A j \in 1..n : f.stack[j].mode = "flag" => s.stack[j].mode = "flag"
    BY <1>0, <2>1, SavesFlags, SMTT(30) DEF Saves
  <2>3. x = [f EXCEPT !.scratch[r] = v, !.stack[n] = Moved(@, "reg", r)]
    BY <1>2, Zenon DEF LoadReg
  <2> HIDE DEF f, r
  <2>4. /\ d \in Operands /\ Readable(f.scratch, d) /\ Placeable(d.at, n)
        /\ f.stack \in Seq(Operands) /\ f.scratch \in [Regs -> Loaded \cup {PagesAddress}]
    BY <1>0, <2>2, Parts DEF Good, Described
  <2>5. v \in Loaded  BY <2>2, <2>4, DenotedTyped
  <2> DEFINE m == Moved(d, "reg", r)
             q == [f.stack EXCEPT ![n] = m]
  <2>6. m \in Operands /\ m.mode = "reg" /\ m.n = r /\ m.at = d.at /\ m.type = d.type
    <3>1. r \in Nat  BY <2>1, StackValuesAssumption DEF Regs
    <3> HIDE DEF d
    <3> QED  BY <2>4, <3>1 DEF Moved, Operands
  <2>7. /\ Good(y) /\ y.stack = f.stack /\ y.flag = f.flag /\ y.pages = f.pages
        /\ y.frame = f.frame /\ y.local = f.local /\ y.scratch[r] = v
        /\ Agrees(f, y, n - 1)
    <3>1. Free(f.stack, r, n - 1)  BY <1>0, <2>1 DEF Free
    <3>2. n - 1 \in 0..Len(f.stack)  BY <2>2
    <3>3. v \in Loaded \cup {PagesAddress}  BY <2>5
    <3> HIDE DEF v
    <3>4. /\ Good(y) /\ y.stack = f.stack /\ y.flag = f.flag /\ y.pages = f.pages
          /\ y.frame = f.frame /\ y.local = f.local /\ y.scratch[r] = v
          /\ \A z \in 0..Len(f.stack) : Free(f.stack, r, z) => Agrees(f, y, z)
      BY <2>1, <2>2, <2>5, <3>3, WriteIs
    <3> QED  BY <3>1, <3>2, <3>4, Zenon
  <2>8. x = [y EXCEPT !.stack = q]
    <3> HIDE DEF v
    <3> QED  BY <2>2, <2>3 DEF Machines, WithReg
  <2> HIDE DEF d, v, y, x, m
  <2>9. /\ q \in Seq(Operands) /\ Len(q) = n /\ q[n] = m
        /\ \A j \in 1..(n - 1) : q[j] = f.stack[j]
    BY <1>0, <2>2, <2>4, <2>6
  <2> HIDE DEF q
  <2>10. y \in Machines  BY <2>7 DEF Good
  <2>11. /\ x \in Machines /\ x.stack = q /\ x.frame = y.frame /\ x.scratch = y.scratch
         /\ x.flag = y.flag /\ x.local = y.local /\ x.pages = y.pages
    BY <2>8, <2>9, <2>10 DEF Machines
  <2>12. /\ Len(x.stack) = n /\ x.stack[n] = m
         /\ \A j \in 1..(n - 1) : x.stack[j] = y.stack[j] /\ j \in 1..n /\ j # n
         /\ \A j \in 1..n : j \in 1..(n - 1) \/ j = n
    BY <2>7, <2>9, <2>11
  <2>13. Described(x.stack, x.scratch)
    <3>1. Described(y.stack, y.scratch) /\ Len(y.stack) = n  BY <2>2, <2>7 DEF Good
    <3>2. \A j \in 1..(n - 1) :
            /\ Readable(x.scratch, x.stack[j]) /\ Homed(x.stack[j])
            /\ Placeable(x.stack[j].at, j)
      BY <2>11, <2>12, <3>1 DEF Described
    <3>3. Readable(x.scratch, m) /\ Homed(m)
      BY <2>1, <2>5, <2>6, <2>7, <2>11 DEF Readable, Homed
    <3>4. Placeable(m.at, n)  BY <2>4, <2>6 DEF d
    <3> QED  BY <2>12, <3>2, <3>3, <3>4, Zenon DEF Described
  <2>14. Apart(x.stack)
    <3>0. Apart(f.stack) /\ Len(f.stack) = n  BY <2>2 DEF Good
    <3>1. \A j \in 1..n : x.stack[j].at = f.stack[j].at /\ x.stack[j].type = f.stack[j].type
      BY <2>6, <2>7, <2>12 DEF d
    <3>2. ASSUME NEW i \in 1..n, NEW j \in 1..n, i < j
          PROVE  x.stack[i].at + Size(x.stack[i].type) <= x.stack[j].at
      <4>1. f.stack[i].at + Size(f.stack[i].type) <= f.stack[j].at  BY <3>0, <3>2 DEF Apart
      <4> QED  BY <3>1, <4>1, Zenon
    <3>3. \A j \in 1..(n - 1) : InReg(f.stack[j]) => f.stack[j].n # r
      BY <1>0, <2>1 DEF Free
    <3>4. ASSUME NEW i \in 1..n, NEW j \in 1..n, i # j, InReg(x.stack[i]), InReg(x.stack[j])
          PROVE  x.stack[i].n # x.stack[j].n
      <4>1. CASE i \in 1..(n - 1) /\ j \in 1..(n - 1)
        <5>1. x.stack[i] = f.stack[i] /\ x.stack[j] = f.stack[j]  BY <2>7, <2>12, <4>1
        <5> QED  BY <3>0, <3>4, <5>1 DEF Apart
      <4>2. CASE i \in 1..(n - 1) /\ j = n
        <5>1. x.stack[i] = f.stack[i] /\ x.stack[j] = m  BY <2>7, <2>12, <4>2
        <5> QED  BY <2>6, <3>3, <3>4, <4>2, <5>1
      <4>3. CASE i = n /\ j \in 1..(n - 1)
        <5>1. x.stack[j] = f.stack[j] /\ x.stack[i] = m  BY <2>7, <2>12, <4>3
        <5> QED  BY <2>6, <3>3, <3>4, <4>3, <5>1
      <4> QED  BY <2>12, <3>4, <4>1, <4>2, <4>3
    <3> QED  BY <2>12, <3>2, <3>4 DEF Apart
  <2>15. Good(x)  BY <2>2, <2>11, <2>12, <2>13, <2>14 DEF Good
  <2>16. Same(f, x)
    <3>1. Agrees(y, x, n - 1)
      <4>1. \A i \in 1..(n - 1) : InReg(y.stack[i]) => y.stack[i].n \in Regs
        BY <2>2, <2>7, <2>12 DEF Good, Described, Readable, InReg
      <4>2. n - 1 \in 0..Len(y.stack)  BY <2>2, <2>7
      <4>3. \A z \in Regs : z # 0 => x.scratch[z] = y.scratch[z]  BY <2>11
      <4>4. /\ y \in Machines /\ \A i \in 1..(n - 1) : x.stack[i] = y.stack[i]
            /\ x.frame = y.frame /\ x.local = y.local /\ x.pages = y.pages
            /\ \A i \in 1..(n - 1) : y.stack[i].mode = "flag" => x.flag = y.flag
            /\ x.scratch = y.scratch \/ Free(y.stack, 0, n - 1)
        BY <2>10, <2>11, <2>12
      <4>5. Spared(y, x, n - 1, 0)  BY <4>1, <4>2, <4>3, <4>4, Zenon DEF Spared
      <4> QED  BY <4>5, Untouched, Zenon
    <3>2. Agrees(f, x, n - 1)  BY <2>7, <3>1, AgreesTrans, Zenon
    <3>3. Denoted(x, x.stack[n]) = Denoted(f, f.stack[n])
      <4>1. Denoted(x, m) = x.scratch[m.n]  BY <2>6, DenotedIs
      <4>2. x.scratch[m.n] = v  BY <2>6, <2>7, <2>11, Zenon
      <4> QED  BY <2>12, <4>1, <4>2, Zenon DEF v, d
    <3>4. x.stack[n].type = f.stack[n].type /\ x.stack[n].at = f.stack[n].at
      BY <2>6, <2>12, Zenon DEF d
    <3> QED  BY <2>2, <2>12, <3>2, <3>3, <3>4, AgreesAll
  <2>17. Same(s, x)  BY <2>2, <2>16, SameTrans, Zenon
  <2>18. x.stack[n].mode \in {"reg", "local"}  BY <2>6, <2>12
  <2>19. \A j \in 1..(n - 1) : x.stack[j].mode = "flag" => s.stack[j].mode = "flag"
    BY <2>2, <2>7, <2>12
  <2>20. x.flag = s.flag  BY <2>2, <2>7, <2>11
  <2> QED  BY <2>12, <2>15, <2>17, <2>18, <2>19, <2>20, Zenon DEF x
<1> QED  BY <1>1, <1>2

(* No operand is in the flags any more.                                    *)
Loads(s, x, n) ==
  /\ Good(x) /\ Same(s, x) /\ Len(x.stack) = n /\ x.stack[n].mode \in {"reg", "local"}
  /\ \A j \in 1..(n - 1) : x.stack[j].mode = "flag" => s.stack[j].mode = "flag"

LEMMA LoadTop ==
  ASSUME NEW s, Good(s), NEW n \in Nat \ {0}, Len(s.stack) = n
  PROVE  Loads(s, LoadReg(s, n, n), n)
<1>1. n \in {n - 1, n}  OBVIOUS
<1> QED  BY <1>1, LoadRegIs DEF Loads

LEMMA FetchedIs ==
  ASSUME NEW s, Good(s), FlagsTop(s)
  PROVE  Good(Fetched(s)) /\ NoFlags(Fetched(s)) /\ Same(s, Fetched(s))
<1> DEFINE n == Len(s.stack)
           x == Fetched(s)
<1>1. s \in Machines /\ n \in Nat /\ s.stack \in Seq(Operands)  BY Parts DEF Good
<1>2. Last(s.stack) = s.stack[n]  BY DEF Last
<1>3. CASE s.stack # <<>> /\ Last(s.stack).mode = "flag"
  <2>1. x = LoadReg(s, n, n)  BY <1>3, Zenon DEF Fetched, Depth
  <2>2. n # 0  BY <1>1, <1>3
  <2> HIDE DEF x
  <2>3. /\ Good(x) /\ Same(s, x) /\ Len(x.stack) = n /\ x.stack[n].mode \in {"reg", "local"}
        /\ \A j \in 1..(n - 1) : x.stack[j].mode = "flag" => s.stack[j].mode = "flag"
    <3>1. n \in Nat \ {0} /\ Len(s.stack) = n  BY <1>1, <2>2
    <3> HIDE DEF n
    <3>2. Loads(s, LoadReg(s, n, n), n)  BY <3>1, LoadTop
    <3> QED  BY <2>1, <3>2, Zenon DEF Loads
  <2>4. \A j \in 1..(n - 1) : s.stack[j].mode # "flag"
    <3>1. \A j \in 1..(n - 1) : j \in 1..n /\ j # n  BY <1>1
    <3> QED  BY <3>1 DEF FlagsTop
  <2>5. NoFlags(x)
    <3>1. \A j \in 1..n : j \in 1..(n - 1) \/ j = n  BY <1>1
    <3> QED  BY <2>3, <2>4, <3>1 DEF NoFlags
  <2> QED  BY <2>3, <2>5 DEF x
<1>4. CASE ~(s.stack # <<>> /\ Last(s.stack).mode = "flag")
  <2>1. x = s  BY <1>4, Zenon DEF Fetched
  <2>2. NoFlags(s)
    <3>1. n # 0 => s.stack[n].mode # "flag"
      <4>1. n # 0 => s.stack # <<>>  BY <1>1
      <4> QED  BY <1>2, <1>4, <4>1, Zenon
    <3> QED  BY <1>1, <3>1 DEF FlagsTop, NoFlags
  <2> HIDE DEF x
  <2> QED  BY <2>1, <2>2, SameSelf, Zenon DEF x
<1> QED  BY <1>3, <1>4

-----------------------------------------------------------------------------
(* What no description names may be overwritten.                           *)
LEMMA SettledIs ==
  ASSUME NEW s, Good(s), FlagsTop(s)
  PROVE  LET x == Settled(s)
         IN  Good(x) /\ FlagsTop(x) /\ Same(s, x) /\ x.stack = s.stack
<1> DEFINE n == Len(s.stack)
           kept == UNION {p[1]..(p[1] + Size(p[2]) - 1) : p \in Named(s)}
           frame == [w \in Words |-> IF w \in kept THEN s.frame[w] ELSE Spoilt]
           scratch == [r \in Regs |-> IF Holders(s, r, n) = {} THEN Junk ELSE s.scratch[r]]
           flag == IF s.stack # <<>> /\ Last(s.stack).mode = "flag" THEN s.flag ELSE Junk
           x == Settled(s)
<1>1. /\ s \in Machines /\ s.stack \in Seq(Operands) /\ n \in Nat /\ n <= MaxStack
      /\ Described(s.stack, s.scratch) /\ Apart(s.stack) /\ s.frame \in Frames
      /\ s.scratch \in [Regs -> Loaded \cup {PagesAddress}] /\ s.flag \in {0, 1, Junk}
  BY Parts DEF Good
<1>2. x = [s EXCEPT !.frame = frame, !.scratch = scratch, !.flag = flag]
  BY Zenon DEF Settled, Depth
<1>3. frame \in Frames
  <2>1. Spoilt \in Cells  BY DEF Spoilt, Cell, Cells, Loaded
  <2>2. \A w \in Words : s.frame[w] \in Cells  BY <1>1 DEF Frames
  <2> HIDE DEF kept
  <2> QED  BY <2>1, <2>2 DEF Frames
<1>4. scratch \in [Regs -> Loaded \cup {PagesAddress}]
  <2>1. Junk \in Loaded  BY DEF Loaded
  <2>2. \A r \in Regs : s.scratch[r] \in Loaded \cup {PagesAddress}  BY <1>1
  <2> QED  BY <2>1, <2>2
<1>5. flag \in {0, 1, Junk}  BY <1>1
<1>6. \A i \in 1..n : InReg(s.stack[i]) /\ s.stack[i].n \in Regs =>
        scratch[s.stack[i].n] = s.scratch[s.stack[i].n]
  <2> TAKE i \in 1..n
  <2> SUFFICES ASSUME InReg(s.stack[i]), s.stack[i].n \in Regs
               PROVE  scratch[s.stack[i].n] = s.scratch[s.stack[i].n]
    OBVIOUS
  <2>1. i \in Holders(s, s.stack[i].n, n)  BY <1>1, HoldersAre
  <2>2. Holders(s, s.stack[i].n, n) # {}  BY <2>1
  <2> QED  BY <2>2
<1>7. \A i \in 1..n : s.stack[i].mode = "flag" => flag = s.flag
  <2> TAKE i \in 1..n
  <2> SUFFICES ASSUME s.stack[i].mode = "flag" PROVE flag = s.flag  OBVIOUS
  <2>1. i = n  BY DEF FlagsTop
  <2>2. s.stack # <<>>  BY <1>1, <2>1
  <2>3. Last(s.stack) = s.stack[n]  BY DEF Last
  <2> QED  BY <2>1, <2>2, <2>3
<1>8. \A b \in Nat, u \in Types :
        <<b, u>> \in Named(s) /\ b + Size(u) <= FrameWords => Get(frame, b, u) = Get(s.frame, b, u)
  <2> TAKE b \in Nat, u \in Types
  <2> SUFFICES ASSUME <<b, u>> \in Named(s), b + Size(u) <= FrameWords
               PROVE  Get(frame, b, u) = Get(s.frame, b, u)
    OBVIOUS
  <2>1. \A w \in b..(b + Size(u) - 1) : w \in kept
    <3>1. <<b, u>>[1] = b /\ <<b, u>>[2] = u  OBVIOUS
    <3>2. (b..(b + Size(u) - 1)) \subseteq kept  BY <3>1
    <3> HIDE DEF kept
    <3> QED  BY <3>2
  <2> HIDE DEF kept
  <2>2. b \in Words /\ b \in b..(b + Size(u) - 1)
    BY Sizes, StackValuesAssumption DEF Words
  <2>3. u = "i64" => b + 1 \in Words /\ b + 1 \in b..(b + Size(u) - 1)
    BY Sizes, StackValuesAssumption DEF Words
  <2>4. frame[b] = s.frame[b]  BY <2>1, <2>2
  <2>5. u = "i64" => frame[b + 1] = s.frame[b + 1]  BY <2>1, <2>3
  <2> HIDE DEF frame
  <2>6. CASE u = "i32"  BY <2>4, <2>6, Zenon DEF Get
  <2>7. CASE u = "i64"  BY <2>4, <2>5, <2>7 DEF Get
  <2> QED  BY <2>6, <2>7 DEF Types
<1> HIDE DEF frame, scratch, flag, x
<1>9. /\ x \in Machines /\ x.stack = s.stack /\ x.frame = frame /\ x.scratch = scratch
      /\ x.flag = flag /\ x.local = s.local /\ x.pages = s.pages
  BY <1>1, <1>2, <1>3, <1>4, <1>5 DEF Machines
<1>10. Described(x.stack, x.scratch)
  <2>1. ASSUME NEW i \in 1..n  PROVE Readable(scratch, s.stack[i])
    <3>1. Readable(s.scratch, s.stack[i])  BY <1>1 DEF Described
    <3> QED  BY <1>6, <3>1 DEF Readable, InReg
  <2> QED  BY <1>1, <1>9, <2>1 DEF Described
<1>11. Good(x)  BY <1>1, <1>9, <1>10 DEF Good
<1>12. FlagsTop(x)  BY <1>9 DEF FlagsTop
<1>13. ASSUME NEW i \in 1..n  PROVE Denoted(x, x.stack[i]) = Denoted(s, s.stack[i])
  <2>1. /\ s.stack[i].mode \in {"imm", "frame", "local", "reg", "cell", "flag"}
        /\ s.stack[i].n \in Nat /\ s.stack[i].type \in Types /\ Readable(s.scratch, s.stack[i])
    BY <1>1, Parts DEF Described
  <2>2. s.stack[i].mode = "frame" =>
          Get(frame, s.stack[i].n, s.stack[i].type) = Get(s.frame, s.stack[i].n, s.stack[i].type)
    <3> SUFFICES ASSUME s.stack[i].mode = "frame"
                 PROVE  Get(frame, s.stack[i].n, s.stack[i].type)
                          = Get(s.frame, s.stack[i].n, s.stack[i].type)
      OBVIOUS
    <3>1. <<s.stack[i].n, s.stack[i].type>> \in Named(s)
      <4>1. i \in DOMAIN s.stack  BY <1>1
      <4> QED  BY <4>1 DEF Named
    <3>2. s.stack[i].n + Size(s.stack[i].type) <= FrameWords  BY <2>1 DEF Readable
    <3> QED  BY <1>8, <2>1, <3>1, <3>2, Zenon
  <2>3. Unmoved(s, x, s.stack[i])
    <3>1. InReg(s.stack[i]) => s.stack[i].n \in Regs  BY <2>1 DEF Readable, InReg
    <3>2. InReg(s.stack[i]) => scratch[s.stack[i].n] = s.scratch[s.stack[i].n]
      BY <1>6, <3>1, Zenon
    <3>3. s.stack[i].mode = "flag" => flag = s.flag  BY <1>7
    <3> QED  BY <1>9, <2>1, <2>2, <3>2, <3>3 DEF Unmoved
  <2>4. Denoted(x, s.stack[i]) = Denoted(s, s.stack[i])  BY <2>3, DenotedSame, Zenon
  <2> QED  BY <1>9, <2>4, Zenon
<1>14. ASSUME NEW i \in DOMAIN LocalTypes  PROVE Denoted(x, Home(i)) = Denoted(s, Home(i))
  <2>1. Home(i).mode \in {"frame", "local"} /\ Home(i).type \in Types  BY HomeIs
  <2>2. Home(i).mode = "frame" =>
          Get(frame, Home(i).n, Home(i).type) = Get(s.frame, Home(i).n, Home(i).type)
    <3> SUFFICES ASSUME Home(i).mode = "frame"
                 PROVE  Get(frame, Home(i).n, Home(i).type) = Get(s.frame, Home(i).n, Home(i).type)
      OBVIOUS
    <3>1. /\ i \in DOMAIN ParamTypes /\ Home(i).n \in Nat /\ Home(i).n = LocalPlace(i).n
          /\ Home(i).type = LocalTypes[i] /\ Home(i).n + Size(LocalTypes[i]) <= ParamsEnd
      BY HomeIs
    <3>2. <<Home(i).n, Home(i).type>> \in Named(s)  BY <3>1, Zenon DEF Named
    <3>3. Home(i).n + Size(Home(i).type) <= FrameWords
      <4>1. ParamsEnd <= FrameWords /\ ParamsEnd \in Nat /\ FrameWords \in Nat  BY Params
      <4>2. Size(LocalTypes[i]) \in Nat  BY <2>1, <3>1, Sizes
      <4> QED  BY <3>1, <4>1, <4>2
    <3> QED  BY <1>8, <2>1, <3>1, <3>2, <3>3, Zenon
  <2>3. Unmoved(s, x, Home(i))  BY <1>9, <2>1, <2>2 DEF Unmoved, InReg
  <2> QED  BY <2>3, DenotedSame, Zenon
<1>15. Same(s, x)
  <2>1. \A i \in 1..n : x.stack[i].type = s.stack[i].type /\ x.stack[i].at = s.stack[i].at
    BY <1>9
  <2> QED  BY <1>9, <1>13, <1>14, <2>1, Zenon DEF Same
<1> QED  BY <1>9, <1>11, <1>12, <1>15 DEF x

-----------------------------------------------------------------------------
(* Locals are written.                                                     *)

(* No operand but the topmost is still in the place of local i.            *)
LEMMA KeptIs ==
  ASSUME NEW s, Good(s), NEW i \in DOMAIN LocalTypes
  PROVE  LET x == Kept(s, i)
         IN  /\ Good(x) /\ Same(s, x) /\ Len(x.stack) = Len(s.stack)
             /\ FlagsTop(s) => FlagsTop(x)
             /\ NoFlags(s) => NoFlags(x)
             /\ \A j \in 1..(Len(s.stack) - 1) :
                  ~(x.stack[j].mode = LocalPlace(i).mode /\ x.stack[j].n = LocalPlace(i).n)
<1> DEFINE n == Len(s.stack)
           p == LocalPlace(i)
           P == {j \in 1..(n - 1) : s.stack[j].mode = p.mode /\ s.stack[j].n = p.n}
           x == Kept(s, i)
<1>1. s \in Machines /\ n \in Nat  BY Parts DEF Good
<1>2. x = SaveUpwards(s, P)  BY Zenon DEF Kept, Depth
<1>3. Saves(s, x, P)
  <2> HIDE DEF P, x
  <2> QED  BY <1>2, SaveUpwardsIs, Zenon
<1> HIDE DEF x
<1>4. /\ Good(x) /\ Same(s, x) /\ Len(x.stack) = n
      /\ \A j \in 1..n : x.stack[j] = IF j \in P THEN Saved(s.stack[j]) ELSE s.stack[j]
      /\ FlagsTop(s) => FlagsTop(x)
      /\ NoFlags(s) => NoFlags(x)
  <2> HIDE DEF P
  <2> QED  BY <1>1, <1>3, SavesFlags DEF Saves
<1>5. ASSUME NEW j \in 1..(n - 1), x.stack[j].mode = p.mode, x.stack[j].n = p.n  PROVE FALSE
  <2>1. j \in 1..n /\ s.stack[j] \in Operands  BY <1>1, Parts
  <2>2. CASE j \in P
    <3>1. x.stack[j] = Saved(s.stack[j])  BY <1>4, <2>1, <2>2
    <3>2. p.mode = "frame" /\ p.n = s.stack[j].at  BY <1>5, <2>1, <3>1, SavedIs
    <3>3. Beside(s.stack[j].at, s.stack[j].type, p.n, LocalTypes[i]) /\ LocalTypes[i] \in Types
          /\ s.stack[j].at \in Nat /\ s.stack[j].type \in Types
      <4>1. Home(i).mode = "frame"  BY <3>2, HomeIs
      <4>2. i \in DOMAIN ParamTypes /\ LocalTypes[i] = ParamTypes[i] /\ LocalTypes[i] \in Types
        BY <4>1, HomeIs
      <4> QED  BY <2>1, <4>2, PlacesBeside
    <3> QED  BY <3>2, <3>3, Sizes DEF Beside
  <2>3. CASE j \notin P
    <3>1. x.stack[j] = s.stack[j]  BY <1>4, <2>1, <2>3
    <3> QED  BY <1>5, <2>3, <3>1
  <2> QED  BY <2>2, <2>3
<1> QED  BY <1>4, <1>5 DEF x

LEMMA WrittenIs ==
  ASSUME NEW s, Good(s), NEW n \in Nat \ {0}, Len(s.stack) = n, NEW i \in DOMAIN LocalTypes,
         s.stack[n].type = LocalTypes[i],
         \A j \in 1..(n - 1) :
           ~(s.stack[j].mode = LocalPlace(i).mode /\ s.stack[j].n = LocalPlace(i).n)
  PROVE  LET x == Written(s, i)
         IN  /\ Good(x) /\ x.stack = s.stack /\ x.pages = s.pages
             /\ \A j \in 1..n : Denoted(x, x.stack[j]) = Denoted(s, s.stack[j])
             /\ Denoted(x, Home(i)) = Denoted(s, s.stack[n])
             /\ \A k \in DOMAIN LocalTypes : k # i => Denoted(x, Home(k)) = Denoted(s, Home(k))
<1> DEFINE p == LocalPlace(i)
           t == LocalTypes[i]
           v == Denoted(s, s.stack[n])
           x == Written(s, i)
<1>0. Top(s) = s.stack[n]  BY Zenon DEF Top, Depth
<1>1. /\ s \in Machines /\ n \in 1..n /\ Described(s.stack, s.scratch) /\ s.frame \in Frames
      /\ s.local \in [DOMAIN VarTypes -> Loaded]
      /\ \A j \in 1..n :
           /\ s.stack[j].type \in Types /\ s.stack[j].n \in Nat /\ s.stack[j].at \in Nat
           /\ s.stack[j].mode \in {"imm", "frame", "local", "reg", "cell", "flag"}
           /\ Readable(s.scratch, s.stack[j]) /\ Homed(s.stack[j])
  BY Parts DEF Good, Described
<1>2. v \in Loaded
  <2>1. s.stack[n] \in Operands  BY <1>1, Parts
  <2> QED  BY <1>1, <2>1, DenotedTyped
<1> HIDE DEF v
<1>3. p.mode \in {"frame", "local"} /\ Home(i).mode = p.mode /\ Home(i).n = p.n /\ Home(i).type = t
  BY HomeIs
<1>4. CASE p.mode = "frame"
  <2>1. /\ i \in DOMAIN ParamTypes /\ t = ParamTypes[i] /\ t \in Types /\ p.n \in Nat
        /\ p.n + Size(t) <= FrameWords
    <3>1. /\ i \in DOMAIN ParamTypes /\ t = ParamTypes[i] /\ t \in Types /\ p.n \in Nat
          /\ p.n + Size(t) <= ParamsEnd
      BY <1>3, <1>4, HomeIs
    <3>2. ParamsEnd <= FrameWords /\ ParamsEnd \in Nat /\ FrameWords \in Nat /\ Size(t) \in Nat
      BY <3>1, Params, Sizes
    <3> HIDE DEF p, t
    <3> QED  BY <3>1, <3>2
  <2>2. x = [s EXCEPT !.frame = Put(@, p.n, t, v)]
    BY <1>0, <1>4, Zenon DEF Written, v
  <2>3. Put(s.frame, p.n, t, v) \in Frames  BY <1>1, <1>2, <2>1, PutTyped
  <2> DEFINE f == Put(s.frame, p.n, t, v)
  <2> HIDE DEF f, x
  <2>4. /\ x \in Machines /\ x.stack = s.stack /\ x.frame = f /\ x.scratch = s.scratch
        /\ x.flag = s.flag /\ x.local = s.local /\ x.pages = s.pages
    BY <1>1, <2>2, <2>3 DEF Machines, f
  <2>5. Get(f, p.n, t) = v  BY <1>1, <2>1, GetPut, Zenon DEF f
  <2>6. \A b \in Nat, u \in Types :
          b + Size(u) <= FrameWords /\ Beside(p.n, t, b, u) => Get(f, b, u) = Get(s.frame, b, u)
    <3> HIDE DEF p, t
    <3> QED  BY <1>1, <2>1, GetBeside DEF f
  <2>7. Good(x)  BY <1>1, <2>4 DEF Good
  <2>8. ASSUME NEW j \in 1..n,
               ~(s.stack[j].mode = "frame" /\ s.stack[j].n = p.n)
        PROVE  Denoted(x, s.stack[j]) = Denoted(s, s.stack[j])
    <3>1. s.stack[j].mode = "frame" =>
            Get(f, s.stack[j].n, s.stack[j].type) = Get(s.frame, s.stack[j].n, s.stack[j].type)
      <4> SUFFICES ASSUME s.stack[j].mode = "frame"
                   PROVE  Get(f, s.stack[j].n, s.stack[j].type)
                            = Get(s.frame, s.stack[j].n, s.stack[j].type)
        OBVIOUS
      <4>1. s.stack[j].n + Size(s.stack[j].type) <= FrameWords  BY <1>1 DEF Readable
      <4>2. Beside(p.n, t, s.stack[j].n, s.stack[j].type)
        <5>1. CASE s.stack[j].n = s.stack[j].at
          <6>1. Beside(s.stack[j].at, s.stack[j].type, p.n, t)
            BY <1>1, <2>1, PlacesBeside
          <6> QED  BY <5>1, <6>1 DEF Beside
        <5>2. CASE s.stack[j].n # s.stack[j].at
          <6>1. PICK q \in DOMAIN ParamTypes :
                  s.stack[j].n = LocalPlace(q).n /\ s.stack[j].type = ParamTypes[q]
            BY <1>1, <5>2 DEF Homed
          <6>2. q # i  BY <2>8, <6>1
          <6> QED  BY <2>1, <6>1, <6>2, Params
        <5> QED  BY <5>1, <5>2
      <4> QED  BY <1>1, <2>6, <4>1, <4>2, Zenon
    <3>2. Unmoved(s, x, s.stack[j])
      <4> HIDE DEF p, t
      <4> QED  BY <1>1, <2>4, <3>1 DEF Unmoved
    <3> QED  BY <3>2, DenotedSame, Zenon
  <2>9. Denoted(x, s.stack[n]) = v
    <3>1. CASE s.stack[n].mode = "frame" /\ s.stack[n].n = p.n
      <4>1. Denoted(x, s.stack[n]) = Get(x.frame, s.stack[n].n, s.stack[n].type)
        BY <3>1, DenotedIs
      <4> QED  BY <2>4, <2>5, <3>1, <4>1, Zenon
    <3>2. CASE ~(s.stack[n].mode = "frame" /\ s.stack[n].n = p.n)
      BY <1>1, <2>8, <3>2, Zenon DEF v
    <3> QED  BY <3>1, <3>2
  <2>10. \A j \in 1..n : Denoted(x, s.stack[j]) = Denoted(s, s.stack[j])
    <3>1. \A j \in 1..n : j = n \/ j \in 1..(n - 1)  OBVIOUS
    <3>2. \A j \in 1..(n - 1) : ~(s.stack[j].mode = "frame" /\ s.stack[j].n = p.n)
      BY <1>4, Zenon
    <3> QED  BY <2>8, <2>9, <3>1, <3>2, Zenon DEF v
  <2>11. Denoted(x, Home(i)) = v
    <3>1. Denoted(x, Home(i)) = Get(x.frame, p.n, t)  BY <1>3, <1>4, DenotedIs
    <3> QED  BY <2>4, <2>5, <3>1, Zenon
  <2>12. ASSUME NEW k \in DOMAIN LocalTypes, k # i
         PROVE  Denoted(x, Home(k)) = Denoted(s, Home(k))
    <3>1. Home(k).mode = "frame" =>
            Get(f, Home(k).n, Home(k).type) = Get(s.frame, Home(k).n, Home(k).type)
      <4> SUFFICES ASSUME Home(k).mode = "frame"
                   PROVE  Get(f, Home(k).n, Home(k).type) = Get(s.frame, Home(k).n, Home(k).type)
        OBVIOUS
      <4>1. /\ k \in DOMAIN ParamTypes /\ Home(k).type = ParamTypes[k]
            /\ Home(k).n = LocalPlace(k).n /\ Home(k).n \in Nat /\ Home(k).type \in Types
            /\ Home(k).n + Size(Home(k).type) <= ParamsEnd
        BY HomeIs
      <4>2. Home(k).n + Size(Home(k).type) <= FrameWords
        <5>1. ParamsEnd <= FrameWords /\ ParamsEnd \in Nat /\ FrameWords \in Nat
              /\ Size(Home(k).type) \in Nat
          BY <4>1, Params, Sizes
        <5> QED  BY <4>1, <5>1
      <4>3. Beside(p.n, t, Home(k).n, Home(k).type)  BY <2>1, <2>12, <4>1, Params
      <4> QED  BY <2>6, <4>1, <4>2, <4>3, Zenon
    <3>2. Home(k).mode \in {"frame", "local"}  BY HomeIs
    <3>3. Unmoved(s, x, Home(k))
      <4> HIDE DEF p, t
      <4> QED  BY <2>4, <3>1, <3>2 DEF Unmoved, InReg
    <3> QED  BY <3>3, DenotedSame, Zenon
  <2> QED  BY <2>4, <2>7, <2>10, <2>11, <2>12, Zenon DEF v, x
<1>5. CASE p.mode = "local"
  <2>1. p.n \in DOMAIN VarTypes  BY <1>3, <1>5, HomeIs
  <2> DEFINE l == [s.local EXCEPT ![p.n] = v]
  <2>2. x = [s EXCEPT !.local = l]
    <3>1. p.mode # "frame"  BY <1>5
    <3> QED  BY <1>0, <3>1, Zenon DEF Written, v
  <2>3. /\ l \in [DOMAIN VarTypes -> Loaded] /\ l[p.n] = v
        /\ \A m \in DOMAIN VarTypes : m # p.n => l[m] = s.local[m]
    BY <1>1, <1>2, <2>1
  <2> HIDE DEF l, x
  <2>4. /\ x \in Machines /\ x.stack = s.stack /\ x.frame = s.frame /\ x.scratch = s.scratch
        /\ x.flag = s.flag /\ x.local = l /\ x.pages = s.pages
    BY <1>1, <2>2, <2>3 DEF Machines
  <2>5. Good(x)  BY <1>1, <2>4 DEF Good
  <2>6. ASSUME NEW j \in 1..n, ~(s.stack[j].mode = "local" /\ s.stack[j].n = p.n)
        PROVE  Denoted(x, s.stack[j]) = Denoted(s, s.stack[j])
    <3>1. s.stack[j].mode = "local" => l[s.stack[j].n] = s.local[s.stack[j].n]
      BY <1>1, <2>3, <2>6 DEF Readable
    <3>2. Unmoved(s, x, s.stack[j])
      <4> HIDE DEF p, t
      <4> QED  BY <1>1, <2>4, <3>1 DEF Unmoved
    <3> QED  BY <3>2, DenotedSame, Zenon
  <2>7. Denoted(x, s.stack[n]) = v
    <3>1. CASE s.stack[n].mode = "local" /\ s.stack[n].n = p.n
      <4>1. Denoted(x, s.stack[n]) = x.local[s.stack[n].n]  BY <3>1, DenotedIs
      <4> QED  BY <2>3, <2>4, <3>1, <4>1, Zenon
    <3>2. CASE ~(s.stack[n].mode = "local" /\ s.stack[n].n = p.n)
      BY <1>1, <2>6, <3>2, Zenon DEF v
    <3> QED  BY <3>1, <3>2
  <2>8. \A j \in 1..n : Denoted(x, s.stack[j]) = Denoted(s, s.stack[j])
    <3>1. \A j \in 1..n : j = n \/ j \in 1..(n - 1)  OBVIOUS
    <3>2. \A j \in 1..(n - 1) : ~(s.stack[j].mode = "local" /\ s.stack[j].n = p.n)
      BY <1>5, Zenon
    <3> QED  BY <2>6, <2>7, <3>1, <3>2, Zenon DEF v
  <2>9. Denoted(x, Home(i)) = v
    <3>1. Denoted(x, Home(i)) = x.local[p.n]  BY <1>3, <1>5, DenotedIs
    <3> QED  BY <2>3, <2>4, <3>1, Zenon
  <2>10. ASSUME NEW k \in DOMAIN LocalTypes, k # i
         PROVE  Denoted(x, Home(k)) = Denoted(s, Home(k))
    <3>1. Home(k).mode = "local" => l[Home(k).n] = s.local[Home(k).n]
      <4> SUFFICES ASSUME Home(k).mode = "local" PROVE l[Home(k).n] = s.local[Home(k).n]
        OBVIOUS
      <4>1. Home(k).n \in DOMAIN VarTypes /\ Home(k).n = k - Len(ParamTypes)  BY HomeIs
      <4>2. Home(i).n = i - Len(ParamTypes)  BY <1>3, <1>5, HomeIs
      <4>3. k \in Nat /\ i \in Nat /\ Len(ParamTypes) \in Nat  BY LocalsAre, Params
      <4>4. Home(k).n # Home(i).n  BY <2>10, <4>1, <4>2, <4>3
      <4> QED  BY <1>3, <2>3, <4>1, <4>4
    <3>2. Home(k).mode \in {"frame", "local"}  BY HomeIs
    <3>3. Unmoved(s, x, Home(k))
      <4> HIDE DEF p, t
      <4> QED  BY <2>4, <3>1, <3>2 DEF Unmoved, InReg
    <3> QED  BY <3>3, DenotedSame, Zenon
  <2> QED  BY <2>4, <2>5, <2>8, <2>9, <2>10, Zenon DEF v, x
<1> QED  BY <1>3, <1>4, <1>5

-----------------------------------------------------------------------------
(* Calls.                                                                  *)

(* Before a call no operand is in a scratch register or in the flags.      *)
Stored(stack, k) == \A i \in 1..k : stack[i].mode \in {"imm", "frame", "local"}

LEMMA PreparedIs ==
  ASSUME NEW s, Good(s), FlagsTop(s)
  PROVE  LET x == Prepared(s)
         IN  Good(x) /\ Same(s, x) /\ Len(x.stack) = Len(s.stack) /\ Stored(x.stack, Len(s.stack))
<1> DEFINE n == Len(s.stack)
           f == Fetched(s)
           d == Freed(f, n)
           P == {i \in DOMAIN d.stack :
                   d.stack[i].mode \in {"reg", "cell"} /\ d.stack[i].n < FirstSaved}
           x == Prepared(s)
<1>1. s \in Machines /\ n \in Nat  BY Parts DEF Good
<1>2. Good(f) /\ NoFlags(f) /\ Same(s, f) /\ Len(f.stack) = n /\ f \in Machines
  BY FetchedIs DEF Same, Good
<1>3. x = SaveUpwards(d, P)
  <2>1. Depth(f) = n  BY <1>2 DEF Depth
  <2> HIDE DEF f
  <2> QED  BY <2>1, Zenon DEF Prepared, Unloaded, f
<1> HIDE DEF f, P, x
<1>4. Good(d) /\ Same(f, d) /\ Len(d.stack) = n /\ d \in Machines /\ NoFlags(d)
  <2>1. n \in 0..Len(f.stack)  BY <1>1, <1>2
  <2>2. Saves(f, d, Holders(f, FreeReg(f, n), n))  BY <1>2, <2>1, FreedIs
  <2> HIDE DEF d
  <2> QED  BY <1>2, <2>2, SavesFlags, ZenonT(60) DEF Saves
<1> HIDE DEF d
<1>5. Saves(d, x, P)  BY <1>3, <1>4, SaveUpwardsIs, Zenon
<1>6. /\ Good(x) /\ Same(d, x) /\ Len(x.stack) = n
      /\ \A j \in 1..n : x.stack[j] = IF j \in P THEN Saved(d.stack[j]) ELSE d.stack[j]
  BY <1>4, <1>5, SavesFlags DEF Saves
<1>7. ASSUME NEW j \in 1..n  PROVE x.stack[j].mode \in {"imm", "frame", "local"}
  <2>1. /\ d.stack[j] \in Operands /\ j \in DOMAIN d.stack /\ d.stack[j].mode # "flag"
        /\ d.stack[j].mode \in {"imm", "frame", "local", "reg", "cell", "flag"}
    BY <1>4, Parts DEF NoFlags
  <2>2. CASE j \in P
    <3>1. x.stack[j] = Saved(d.stack[j])  BY <1>6, <2>2
    <3> QED  BY <2>1, <3>1, SavedIs
  <2>3. CASE j \notin P
    <3>1. x.stack[j] = d.stack[j]  BY <1>6, <2>3
    <3>2. d.stack[j].mode \in {"reg", "cell"} => d.stack[j].n \in Regs
      BY <1>4 DEF Good, Described, Readable
    <3>3. \A r \in Regs : r < FirstSaved  BY StackValuesAssumption DEF Regs
    <3> QED  BY <2>1, <2>3, <3>1, <3>2, <3>3 DEF P
  <2> QED  BY <2>2, <2>3
<1>8. Same(s, x)  BY <1>2, <1>4, <1>6, SameTrans, Zenon
<1> QED  BY <1>6, <1>7, <1>8 DEF Stored, x

LEMMA ConcatIs ==
  ASSUME NEW S, NEW a \in Seq(S), NEW b \in Seq(S)
  PROVE  /\ a \o b \in Seq(S) /\ Len(a \o b) = Len(a) + Len(b)
         /\ \A i \in 1..Len(a) : (a \o b)[i] = a[i]
         /\ \A k \in 1..Len(b) : (a \o b)[Len(a) + k] = b[k]
         /\ \A i \in 1..(Len(a) + Len(b)) :
              i \in 1..Len(a) \/ (i - Len(a) \in 1..Len(b) /\ (a \o b)[i] = b[i - Len(a)])
OBVIOUS

(* What the frame may look like when the callee returns: base is where its *)
(* results are, q what is left of the caller's operands, m of them.        *)
Leaves(p, c, base, results, q, m) ==
  /\ c \in Callees /\ base \in Nat /\ results \in [DOMAIN c.results -> Values]
  /\ q = Pop(p, Len(c.params)) /\ Good(q) /\ m \in Nat /\ Len(q.stack) = m
  /\ Stored(q.stack, m) /\ base % 2 = 0 /\ ParamsEnd <= base /\ base + 2 <= ParamsEnd + 3 * (m + 1)
  /\ \A i \in 1..m : q.stack[i].at + Size(q.stack[i].type) <= base
  /\ m + Len(c.results) <= MaxStack

(* The caller goes on with m of its operands and with the results.         *)
Resumes(x, c, results, q, m) ==
  /\ Good(x) /\ Stored(x.stack, Len(x.stack)) /\ Len(x.stack) = m + Len(c.results) /\ Agrees(q, x, m)
  /\ \A k \in DOMAIN c.results :
       /\ x.stack[m + k].type = c.results[k]
       /\ Denoted(x, x.stack[m + k]) = results[k]

LEMMA ReturnedIs ==
  ASSUME NEW p, NEW c, NEW base, NEW results, NEW q, NEW m, Leaves(p, c, base, results, q, m)
  PROVE  Resumes(Returned(p, c, base, results), c, results, q, m)
<1> DEFINE t == c.results
           nr == Len(c.results)
           at == Layout(base, t)
           low == [w \in Words |-> IF w < base THEN p.frame[w] ELSE Spoilt]
           new == [k \in 1..nr |->
                     [type |-> t[k], mode |-> "frame", n |-> at[k], at |-> at[k]]]
           frame == Puts(low, at, t, results)
           scratch == [r \in Regs |-> Junk]
           stack == q.stack \o new
           x == Returned(p, c, base, results)
<1>0. /\ base \in Nat /\ base % 2 = 0 /\ ParamsEnd <= base /\ base + 2 <= ParamsEnd + 3 * (m + 1)
      /\ m \in Nat /\ Len(q.stack) = m /\ m + nr <= MaxStack /\ MaxStack \in Nat
      /\ ParamsEnd \in Nat /\ FrameWords \in Nat /\ ParamsEnd + 3 * MaxStack <= FrameWords
  BY Params, StackValuesAssumption DEF Leaves
<1>1. /\ q \in Machines /\ q.stack \in Seq(Operands) /\ Described(q.stack, q.scratch)
      /\ Apart(q.stack) /\ q.frame \in Frames /\ MaxStack \in Nat
      /\ Stored(q.stack, m) /\ q = Pop(p, Len(c.params))
      /\ \A i \in 1..m : q.stack[i].at + Size(q.stack[i].type) <= base
  BY Parts, StackValuesAssumption DEF Good, Leaves
<1>2. t \in Seq(Types) /\ nr \in Nat /\ DOMAIN t = 1..nr /\ \A k \in 1..nr : t[k] \in Types
  BY StackValuesAssumption, SMTT(30) DEF Leaves
<1>51. results \in [DOMAIN t -> Loaded]  BY DEF Leaves, Loaded
<1> HIDE DEF t, nr
<1>3. q.frame = p.frame
  <2>1. q = [p EXCEPT !.stack = SubSeq(p.stack, 1, Len(p.stack) - Len(c.params))]
    BY <1>1, Zenon DEF Pop
  <2> QED  BY <1>1, <2>1 DEF Machines
<1>4. x = [q EXCEPT !.stack = stack, !.frame = frame, !.scratch = scratch, !.flag = Junk]
  <2>1. x = [q EXCEPT !.stack = @ \o new, !.frame = frame, !.scratch = scratch, !.flag = Junk]
    BY <1>1, <1>2, Zenon DEF Returned, t
  <2> HIDE DEF new, frame, scratch
  <2> QED  BY <1>1, <2>1 DEF Machines
<1>5. \A k \in 1..nr : at[k] \in Nat  BY <1>0, <1>2, LayoutIs
<1>6. /\ \A k \in 1..nr : base <= at[k]
      /\ \A j, k \in 1..nr : j < k => at[j] + Size(t[j]) <= at[k]
  BY <1>0, <1>2, LayoutOrdered
<1>7. \A k \in 1..nr : Even(at[k]) <= base + 3 * (k - 1)
  BY <1>0, <1>2, LayoutClose
<1>50. at \in [DOMAIN t -> Nat]  BY <1>0, <1>2, LayoutIs
<1> HIDE DEF at
<1>8. \A k \in 1..nr : Placeable(at[k], m + k)
  <2> TAKE k \in 1..nr
  <2>1. /\ at[k] \in Nat /\ base <= at[k] /\ Even(at[k]) <= base + 3 * (k - 1)
        /\ Even(at[k]) \in Nat /\ ParamsEnd \in Nat
    BY <1>5, <1>6, <1>7, EvenIs, Params
  <2>2. ParamsEnd <= at[k] /\ Even(at[k]) + 2 <= ParamsEnd + 3 * (m + k)  BY <1>0, <1>2, <2>1, SMTT(30)
  <2> QED  BY <2>1, <2>2 DEF Placeable
<1>9. \A k \in 1..nr : at[k] + Size(t[k]) <= FrameWords
  <2> TAKE k \in 1..nr
  <2>1. /\ at[k] \in Nat /\ at[k] <= Even(at[k]) /\ Even(at[k]) \in Nat
        /\ Even(at[k]) + 2 <= ParamsEnd + 3 * (m + k)
    BY <1>5, <1>8, EvenIs DEF Placeable
  <2>2. Size(t[k]) \in {1, 2}  BY <1>2, Sizes
  <2>3. ParamsEnd + 3 * MaxStack <= FrameWords /\ ParamsEnd \in Nat /\ FrameWords \in Nat  BY Params
  <2>4. m + k <= MaxStack  BY <1>0, <1>2
  <2> QED  BY <1>0, <1>2, <2>1, <2>2, <2>3, <2>4
<1>10. low \in Frames
  <2>1. Spoilt \in Cells  BY DEF Spoilt, Cell, Cells, Loaded
  <2>2. \A w \in Words : p.frame[w] \in Cells  BY <1>1, <1>3 DEF Frames
  <2> QED  BY <2>1, <2>2 DEF Frames
<1>11. \A b \in Nat, u \in Types :
         b + Size(u) <= base /\ b + Size(u) <= FrameWords => Get(low, b, u) = Get(q.frame, b, u)
  <2> TAKE b \in Nat, u \in Types
  <2> SUFFICES ASSUME b + Size(u) <= base, b + Size(u) <= FrameWords
               PROVE  Get(low, b, u) = Get(q.frame, b, u)
    OBVIOUS
  <2>0. /\ base \in Nat /\ FrameWords \in Nat /\ Size(u) \in {1, 2}
        /\ u = "i64" => Size(u) = 2
    BY <1>0, Sizes
  <2>1. b \in Words /\ b < base  BY <2>0 DEF Words
  <2>2. u = "i64" => b + 1 \in Words /\ b + 1 < base  BY <2>0 DEF Words
  <2>3. low[b] = q.frame[b]  BY <1>3, <2>1
  <2>4. u = "i64" => low[b + 1] = q.frame[b + 1]  BY <1>3, <2>2
  <2> HIDE DEF low
  <2>5. CASE u = "i32"  BY <2>3, <2>5, Zenon DEF Get
  <2>6. CASE u = "i64"  BY <2>3, <2>4, <2>6 DEF Get
  <2> QED  BY <2>5, <2>6 DEF Types
<1> HIDE DEF low
<1>12. /\ frame \in Frames
       /\ \A k \in 1..nr : Get(frame, at[k], t[k]) = results[k]
       /\ \A b \in Nat, u \in Types :
            b + Size(u) <= base /\ b + Size(u) <= FrameWords => Get(frame, b, u) = Get(low, b, u)
  <2>2. \A k \in DOMAIN t : base <= at[k] /\ at[k] + Size(t[k]) <= FrameWords
    BY <1>2, <1>6, <1>9
  <2>3. \A j, k \in DOMAIN t : j < k => at[j] + Size(t[j]) <= at[k]  BY <1>2, <1>6
  <2>4. base \in Nat  BY <1>0
  <2> DEFINE z == Puts(low, at, t, results)
  <2>5. /\ z \in Frames
        /\ \A k \in DOMAIN t : Get(z, at[k], t[k]) = results[k]
        /\ \A b \in Nat, u \in Types :
             b + Size(u) <= base /\ b + Size(u) <= FrameWords => Get(z, b, u) = Get(low, b, u)
    BY <1>2, <1>10, <1>50, <1>51, <2>2, <2>3, <2>4, PutsIs, ZenonT(20)
  <2> QED  BY <1>2, <2>5, Zenon
<1> HIDE DEF frame
<1>13. \A b \in Nat, u \in Types :
         b + Size(u) <= base /\ b + Size(u) <= FrameWords => Get(frame, b, u) = Get(q.frame, b, u)
  BY <1>11, <1>12, Zenon
<1>14. /\ \A k \in 1..nr :
            /\ new[k] \in Operands /\ new[k].type = t[k] /\ new[k].mode = "frame"
            /\ new[k].n = at[k] /\ new[k].at = at[k]
       /\ new \in Seq(Operands) /\ Len(new) = nr
  <2>1. \A k \in 1..nr :
          /\ new[k] \in Operands /\ new[k].type = t[k] /\ new[k].mode = "frame"
          /\ new[k].n = at[k] /\ new[k].at = at[k]
    BY <1>2, <1>5 DEF Operands
  <2>2. new \in Seq(Operands) /\ Len(new) = nr  BY <1>2, <2>1
  <2> QED  BY <2>1, <2>2
<1> HIDE DEF new
<1>15. /\ stack \in Seq(Operands) /\ Len(stack) = m + nr
       /\ \A i \in 1..m : stack[i] = q.stack[i]
       /\ \A k \in 1..nr : stack[m + k] = new[k]
       /\ \A i \in 1..(m + nr) : i \in 1..m \/ (i - m \in 1..nr /\ stack[i] = new[i - m])
  <2>1. Len(q.stack) = m /\ Len(new) = nr  BY <1>0, <1>14
  <2>2. /\ stack \in Seq(Operands) /\ Len(stack) = Len(q.stack) + Len(new)
        /\ \A i \in 1..Len(q.stack) : stack[i] = q.stack[i]
        /\ \A k \in 1..Len(new) : stack[Len(q.stack) + k] = new[k]
        /\ \A i \in 1..(Len(q.stack) + Len(new)) :
             \/ i \in 1..Len(q.stack)
             \/ i - Len(q.stack) \in 1..Len(new) /\ stack[i] = new[i - Len(q.stack)]
    <3>1. q.stack \in Seq(Operands) /\ new \in Seq(Operands)  BY <1>1, <1>14
    <3> QED  BY <3>1, ConcatIs, ZenonT(60)
  <2> HIDE DEF stack
  <2> QED  BY <2>1, <2>2, Zenon
<1>16. scratch \in [Regs -> Loaded \cup {PagesAddress}]  BY DEF Loaded
<1> HIDE DEF stack, scratch, x
<1>17. /\ x \in Machines /\ x.stack = stack /\ x.frame = frame /\ x.local = q.local
       /\ x.pages = q.pages
  BY <1>1, <1>4, <1>12, <1>15, <1>16 DEF Machines
<1>18. \A i \in 1..(m + nr) :
         /\ Readable(x.scratch, stack[i]) /\ Homed(stack[i]) /\ Placeable(stack[i].at, i)
         /\ stack[i].mode \in {"imm", "frame", "local"}
  <2> TAKE i \in 1..(m + nr)
  <2>1. CASE i \in 1..m
    <3>1. /\ stack[i] = q.stack[i] /\ stack[i].mode \in {"imm", "frame", "local"}
          /\ Readable(q.scratch, q.stack[i]) /\ Homed(q.stack[i]) /\ Placeable(q.stack[i].at, i)
      BY <1>0, <1>1, <1>15, <2>1 DEF Described, Stored
    <3> QED  BY <3>1 DEF Readable
  <2>2. CASE i - m \in 1..nr /\ stack[i] = new[i - m]
    <3> DEFINE k == i - m
    <3>1. /\ stack[i].mode = "frame" /\ stack[i].n = at[k] /\ stack[i].at = at[k]
          /\ stack[i].type = t[k]
      BY <1>14, <2>2
    <3>2. m + k = i /\ k \in 1..nr  BY <1>0, <1>2, <2>2
    <3>3. Placeable(at[k], i) /\ at[k] + Size(t[k]) <= FrameWords
      <4> HIDE DEF k
      <4> QED  BY <1>8, <1>9, <3>2
    <3> HIDE DEF k
    <3> QED  BY <3>1, <3>3 DEF Readable, Homed
  <2> QED  BY <1>15, <2>1, <2>2
<1>19. Described(x.stack, x.scratch) /\ Stored(x.stack, Len(x.stack)) /\ Len(x.stack) = m + nr
  BY <1>15, <1>17, <1>18 DEF Described, Stored
<1>20. ASSUME NEW i \in 1..(m + nr), NEW j \in 1..(m + nr), i < j
       PROVE  stack[i].at + Size(stack[i].type) <= stack[j].at
  <2>1. CASE i \in 1..m /\ j \in 1..m
    <3>1. q.stack[i].at + Size(q.stack[i].type) <= q.stack[j].at  BY <1>0, <1>1, <1>20, <2>1 DEF Apart
    <3> QED  BY <1>15, <2>1, <3>1, Zenon
  <2>2. CASE i \in 1..m /\ j \notin 1..m
    <3>1. q.stack[i].at + Size(q.stack[i].type) <= base  BY <1>1, <2>2
    <3>2. j - m \in 1..nr /\ stack[j].at = at[j - m]  BY <1>14, <1>15, <2>2
    <3>3. base <= at[j - m] /\ at[j - m] \in Nat /\ base \in Nat  BY <1>0, <1>5, <1>6, <3>2
    <3>4. q.stack[i].at \in Nat /\ Size(q.stack[i].type) \in Nat
      <4>1. i \in 1..Len(q.stack)  BY <1>0, <2>2
      <4>2. q.stack[i].at \in Nat /\ q.stack[i].type \in Types  BY <1>1, <4>1, Parts, Zenon
      <4>3. Size(q.stack[i].type) \in {1, 2}  BY <4>2, Sizes, Zenon
      <4> QED  BY <4>2, <4>3
    <3>5. q.stack[i].at + Size(q.stack[i].type) <= at[j - m]  BY <3>1, <3>3, <3>4
    <3> QED  BY <1>15, <2>2, <3>2, <3>5, Zenon
  <2>3. CASE i \notin 1..m
    <3>0. i - m \in 1..nr /\ stack[i] = new[i - m]  BY <1>15, <2>3
    <3>1. i - m \in 1..nr /\ stack[i].at = at[i - m] /\ stack[i].type = t[i - m]
      BY <1>14, <3>0, Zenon
    <3>2. j \notin 1..m  BY <1>0, <1>2, <1>20, <2>3
    <3>3. j - m \in 1..nr /\ stack[j].at = at[j - m]  BY <1>14, <1>15, <3>2
    <3>4. i - m < j - m  BY <1>0, <1>2, <1>20
    <3>5. at[i - m] + Size(t[i - m]) <= at[j - m]  BY <1>6, <3>1, <3>3, <3>4, Zenon
    <3> QED  BY <3>1, <3>3, <3>5, Zenon
  <2> QED  BY <2>1, <2>2, <2>3
<1>21. Apart(x.stack)
  <2>1. \A i \in 1..(m + nr) : ~InReg(stack[i])  BY <1>18 DEF InReg
  <2> QED  BY <1>15, <1>17, <1>20, <2>1 DEF Apart
<1>22. Good(x)  BY <1>0, <1>17, <1>19, <1>21 DEF Good
<1>23. Agrees(q, x, m)
  <2>1. ASSUME NEW i \in 1..m  PROVE Denoted(x, x.stack[i]) = Denoted(q, q.stack[i])
    <3>1. /\ q.stack[i].mode \in {"imm", "frame", "local"} /\ q.stack[i].n \in Nat
          /\ q.stack[i].at \in Nat /\ q.stack[i].type \in Types
          /\ Readable(q.scratch, q.stack[i]) /\ Homed(q.stack[i])
      BY <1>0, <1>1, Parts DEF Stored, Described
    <3>2. q.stack[i].mode = "frame" =>
            Get(frame, q.stack[i].n, q.stack[i].type) = Get(q.frame, q.stack[i].n, q.stack[i].type)
      <4> SUFFICES ASSUME q.stack[i].mode = "frame"
                   PROVE  Get(frame, q.stack[i].n, q.stack[i].type)
                            = Get(q.frame, q.stack[i].n, q.stack[i].type)
        OBVIOUS
      <4>1. q.stack[i].n + Size(q.stack[i].type) <= FrameWords  BY <3>1 DEF Readable
      <4>2. q.stack[i].n + Size(q.stack[i].type) <= base
        <5>1. CASE q.stack[i].n = q.stack[i].at  BY <1>1, <5>1
        <5>2. CASE q.stack[i].n # q.stack[i].at
          <6>1. PICK z \in DOMAIN ParamTypes :
                  q.stack[i].n = LocalPlace(z).n /\ q.stack[i].type = ParamTypes[z]
            BY <3>1, <5>2 DEF Homed
          <6>2. q.stack[i].n + Size(q.stack[i].type) <= ParamsEnd /\ ParamsEnd \in Nat  BY <6>1, Params
          <6>3. Size(q.stack[i].type) \in Nat  BY <3>1, Sizes
          <6> QED  BY <1>0, <3>1, <6>2, <6>3
        <5> QED  BY <5>1, <5>2
      <4> QED  BY <1>13, <3>1, <4>1, <4>2, Zenon
    <3>3. Unmoved(q, x, q.stack[i])  BY <1>17, <3>1, <3>2 DEF Unmoved, InReg
    <3>4. x.stack[i] = q.stack[i]  BY <1>15, <1>17
    <3>5. Denoted(x, q.stack[i]) = Denoted(q, q.stack[i])  BY <3>3, DenotedSame, Zenon
    <3> QED  BY <3>4, <3>5, Zenon
  <2>2. ASSUME NEW i \in DOMAIN LocalTypes  PROVE Denoted(x, Home(i)) = Denoted(q, Home(i))
    <3>1. Home(i).mode \in {"frame", "local"} /\ Home(i).type \in Types  BY HomeIs
    <3>2. Home(i).mode = "frame" =>
            Get(frame, Home(i).n, Home(i).type) = Get(q.frame, Home(i).n, Home(i).type)
      <4> SUFFICES ASSUME Home(i).mode = "frame"
                   PROVE  Get(frame, Home(i).n, Home(i).type) = Get(q.frame, Home(i).n, Home(i).type)
        OBVIOUS
      <4>1. /\ Home(i).n \in Nat /\ Home(i).type = LocalTypes[i]
            /\ Home(i).n + Size(LocalTypes[i]) <= ParamsEnd
        BY HomeIs
      <4>2. ParamsEnd <= FrameWords /\ ParamsEnd \in Nat /\ FrameWords \in Nat /\ Size(LocalTypes[i]) \in Nat
        BY <3>1, <4>1, Params, Sizes
      <4>3. Home(i).n + Size(Home(i).type) <= FrameWords /\ Home(i).n + Size(Home(i).type) <= base
        BY <1>0, <4>1, <4>2
      <4> QED  BY <1>13, <3>1, <4>1, <4>3, Zenon
    <3>3. Unmoved(q, x, Home(i))  BY <1>17, <3>1, <3>2 DEF Unmoved, InReg
    <3> QED  BY <3>3, DenotedSame, Zenon
  <2>3. \A i \in 1..m : x.stack[i] = q.stack[i]  BY <1>15, <1>17
  <2> QED  BY <1>17, <2>1, <2>2, <2>3, Zenon DEF Agrees
<1>24. ASSUME NEW k \in DOMAIN t
       PROVE  x.stack[m + k].type = t[k] /\ Denoted(x, x.stack[m + k]) = results[k]
  <2>1. /\ x.stack[m + k].type = t[k] /\ x.stack[m + k].mode = "frame"
        /\ x.stack[m + k].n = at[k]
    BY <1>2, <1>14, <1>15, <1>17
  <2>2. Denoted(x, x.stack[m + k]) = Get(frame, at[k], t[k])  BY <1>17, <2>1, DenotedIs
  <2> QED  BY <1>2, <1>12, <2>1, <2>2
<1> QED  BY <1>19, <1>22, <1>23, <1>24, Zenon DEF Resumes, x, t, nr

(* The caller's operands when it has saved all that must be: m of them     *)
(* are below the arguments.                                                *)
Ready(s, c, m) ==
  /\ Good(s) /\ Stored(s.stack, Len(s.stack)) /\ c \in Callees
  /\ m \in Nat /\ Len(s.stack) = m + Len(c.params)
  /\ \A k \in 1..Len(c.params) : s.stack[m + k].type = c.params[k]

LEMMA ReadyIs ==
  ASSUME NEW s, NEW c, NEW m, Ready(s, c, m)
  PROVE  /\ Good(s) /\ s \in Machines /\ m \in Nat /\ Len(c.params) \in Nat
         /\ c.params \in Seq(Types) /\ DOMAIN c.params = 1..Len(c.params)
         /\ Len(s.stack) = m + Len(c.params) /\ Len(s.stack) <= MaxStack /\ MaxStack \in Nat
         /\ FirstArg(s, c) = m + 1 /\ Args(s, c) = (m + 1)..(m + Len(c.params))
         /\ \A k \in 1..Len(c.params) : c.params[k] \in Types /\ m + k \in 1..Len(s.stack)
         /\ \A k \in 1..Len(c.params) : s.stack[m + k].type = c.params[k]
         /\ \A i \in 1..m : i \in 1..Len(s.stack)
         /\ \A i \in 1..Len(s.stack) :
              /\ s.stack[i] \in Operands /\ s.stack[i].type \in Types
              /\ s.stack[i].n \in Nat /\ s.stack[i].at \in Nat
              /\ s.stack[i].mode \in {"imm", "frame", "local"}
              /\ Readable(s.scratch, s.stack[i]) /\ Homed(s.stack[i])
              /\ Placeable(s.stack[i].at, i)
<1>1. /\ Good(s) /\ m \in Nat /\ Len(s.stack) = m + Len(c.params) /\ c \in Callees
      /\ Stored(s.stack, Len(s.stack))
  BY DEF Ready
<1>2. c.params \in Seq(Types)  BY <1>1, StackValuesAssumption
<1>3. /\ Len(c.params) \in Nat /\ DOMAIN c.params = 1..Len(c.params)
      /\ \A k \in 1..Len(c.params) : c.params[k] \in Types
  BY <1>2
<1>4. s \in Machines /\ Len(s.stack) <= MaxStack /\ MaxStack \in Nat
  BY <1>1, StackValuesAssumption DEF Good
<1>5. FirstArg(s, c) = m + 1 /\ Args(s, c) = (m + 1)..(m + Len(c.params))
  <2>1. FirstArg(s, c) = m + 1
    <3>1. Depth(s) = m + Len(c.params)  BY <1>1 DEF Depth
    <3> QED  BY <1>1, <1>3, <3>1 DEF FirstArg
  <2> QED  BY <1>1, <2>1, Zenon DEF Args, Depth
<1>6. \A k \in 1..Len(c.params) : m + k \in 1..Len(s.stack)  BY <1>1, <1>3
<1>7. \A i \in 1..m : i \in 1..Len(s.stack)  BY <1>1, <1>3
<1>8. \A k \in 1..Len(c.params) : s.stack[m + k].type = c.params[k]  BY Zenon DEF Ready
<1>9. \A i \in 1..Len(s.stack) :
        /\ s.stack[i] \in Operands /\ s.stack[i].type \in Types
        /\ s.stack[i].n \in Nat /\ s.stack[i].at \in Nat
        /\ s.stack[i].mode \in {"imm", "frame", "local"}
        /\ Readable(s.scratch, s.stack[i]) /\ Homed(s.stack[i])
        /\ Placeable(s.stack[i].at, i)
  BY <1>1, <1>4, Parts DEF Stored, Good, Described
<1> QED  BY <1>1, <1>2, <1>3, <1>4, <1>5, <1>6, <1>7, <1>8, <1>9, Zenon

LEMMA EvenOr ==
  ASSUME NEW a \in Nat
  PROVE  /\ a % 2 \in {0, 1}
         /\ a % 2 = 1 => Even(a) = a + 1
         /\ a % 2 # 1 => Even(a) = a /\ a % 2 = 0
<1>1. a % 2 \in {0, 1}  OBVIOUS
<1>2. CASE a % 2 = 0
  <2>1. Even(a) = a  BY <1>2 DEF Even
  <2>2. 0 # 1  OBVIOUS
  <2> QED  BY <1>1, <1>2, <2>1, <2>2, Zenon
<1>3. CASE a % 2 = 1
  <2>1. Even(a) = a + 1  BY <1>3 DEF Even
  <2> QED  BY <1>1, <1>3, <2>1, Zenon
<1> QED  BY <1>1, <1>2, <1>3

(* Where the callee's frame begins.                                        *)
LEMMA CalleeFrameIs ==
  ASSUME NEW s, NEW c, NEW m, Ready(s, c, m)
  PROVE  LET at == FirstPlace(s, c)
             base == CalleeFrame(s, c, FALSE)
         IN  /\ at \in Nat /\ base = Even(at) /\ base \in Nat /\ base % 2 = 0
             /\ at % 2 = 1 => base = at + 1
             /\ at % 2 # 1 => base = at
             /\ ParamsEnd <= at /\ at <= base /\ base + 2 <= ParamsEnd + 3 * (m + 1)
             /\ \A i \in 1..m : s.stack[i].at + Size(s.stack[i].type) <= at
             /\ Len(c.params) # 0 => at = s.stack[m + 1].at
<1> DEFINE at == FirstPlace(s, c)
           np == Len(c.params)
           base == CalleeFrame(s, c, FALSE)
<1>1. /\ Good(s) /\ s \in Machines /\ m \in Nat /\ np \in Nat /\ c.params \in Seq(Types)
      /\ Len(s.stack) = m + np /\ FirstArg(s, c) = m + 1
      /\ \A k \in 1..np : m + k \in 1..Len(s.stack)
      /\ \A i \in 1..m : i \in 1..Len(s.stack)
  BY ReadyIs, Zenon
<1>2. /\ Placeable(at, m + 1) /\ \A i \in 1..m : s.stack[i].at + Size(s.stack[i].type) <= at
      /\ np # 0 => at = s.stack[m + 1].at
  <2>1. CASE np = 0
    <3>1. at = NextSlot(s, "i32")
      <4>1. c.params = <<>>  BY <1>1, <2>1
      <4> QED  BY <4>1, Zenon DEF FirstPlace
    <3>2. Len(s.stack) = m  BY <1>1, <2>1
    <3>3. "i32" \in Types  BY DEF Types
    <3> HIDE DEF at
    <3> QED  BY <1>1, <2>1, <3>1, <3>2, <3>3, NextSlotIs
  <2>2. CASE np # 0
    <3>1. at = s.stack[m + 1].at
      <4>1. c.params # <<>>  BY <2>2
      <4> QED  BY <1>1, <4>1, Zenon DEF FirstPlace
    <3>2. m + 1 \in 1..Len(s.stack)  BY <1>1, <2>2
    <3>3. Placeable(s.stack[m + 1].at, m + 1)  BY <1>1, <3>2 DEF Good, Described
    <3>4. \A i \in 1..m : i < m + 1  BY <1>1
    <3>5. \A i \in 1..m : s.stack[i].at + Size(s.stack[i].type) <= s.stack[m + 1].at
      BY <1>1, <3>2, <3>4 DEF Good, Apart
    <3> HIDE DEF at
    <3> QED  BY <3>1, <3>3, <3>5, Zenon
  <2> QED  BY <2>1, <2>2
<1>3. base = IF at % 2 = 1 THEN at + 1 ELSE at  BY Zenon DEF CalleeFrame
<1> HIDE DEF at, base
<1>4. at \in Nat /\ ParamsEnd <= at /\ Even(at) + 2 <= ParamsEnd + 3 * (m + 1)  BY <1>2 DEF Placeable
<1>5. /\ at % 2 = 1 => base = at + 1 /\ base = Even(at)
      /\ at % 2 # 1 => base = at /\ base = Even(at)
  BY <1>3, <1>4, EvenOr, Zenon
<1>6. base = Even(at)  BY <1>5, Zenon
<1>7. base \in Nat /\ at <= base /\ base % 2 = 0  BY <1>4, <1>6, EvenIs, Zenon
<1>8. base + 2 <= ParamsEnd + 3 * (m + 1)  BY <1>4, <1>6, Zenon
<1> QED  BY <1>2, <1>4, <1>5, <1>6, <1>7, <1>8, Zenon DEF at, base, np

(* The places that the callee expects its arguments in.                    *)
LEMMA ArgumentsFit ==
  ASSUME NEW s, NEW c, NEW m, Ready(s, c, m)
  PROVE  LET at == Layout(CalleeFrame(s, c, FALSE), c.params)
         IN  \A k \in 1..Len(c.params) :
               /\ at[k] \in Nat /\ at[k] + Size(c.params[k]) <= FrameWords
               /\ \A j \in 1..Len(c.params) : j < k => at[j] + Size(c.params[j]) <= at[k]
<1> DEFINE base == CalleeFrame(s, c, FALSE)
           at == Layout(base, c.params)
           np == Len(c.params)
<1>1. /\ m \in Nat /\ np \in Nat /\ c.params \in Seq(Types) /\ Len(s.stack) = m + np
      /\ Len(s.stack) <= MaxStack /\ MaxStack \in Nat /\ DOMAIN c.params = 1..np
      /\ \A k \in 1..np : c.params[k] \in Types
  BY ReadyIs, Zenon
<1>2. base \in Nat /\ base % 2 = 0 /\ base + 2 <= ParamsEnd + 3 * (m + 1)  BY CalleeFrameIs, Zenon
<1>3. ParamsEnd \in Nat /\ FrameWords \in Nat /\ ParamsEnd + 3 * MaxStack <= FrameWords  BY Params
<1> HIDE DEF base
<1> SUFFICES ASSUME NEW k \in 1..np
             PROVE  /\ at[k] \in Nat /\ at[k] + Size(c.params[k]) <= FrameWords
                    /\ \A j \in 1..np : j < k => at[j] + Size(c.params[j]) <= at[k]
  BY DEF base
<1>4. at[k] \in Nat  BY <1>1, <1>2, LayoutIs
<1>5. Even(at[k]) <= base + 3 * (k - 1)  BY <1>1, <1>2, LayoutClose
<1>6. \A j \in 1..np : j < k => at[j] + Size(c.params[j]) <= at[k]
  BY <1>1, <1>2, LayoutOrdered
<1>7. at[k] <= Even(at[k]) /\ Even(at[k]) \in Nat  BY <1>4, EvenIs
<1>8. Size(c.params[k]) \in {1, 2}  BY <1>1, Sizes
<1> HIDE DEF at
<1>9. at[k] + Size(c.params[k]) <= FrameWords
  <2>1. m + k <= MaxStack  BY <1>1
  <2>2. Even(at[k]) + 2 <= ParamsEnd + 3 * (m + k)  BY <1>1, <1>2, <1>3, <1>5, <1>7
  <2> QED  BY <1>1, <1>3, <1>4, <1>7, <1>8, <2>1, <2>2
<1> QED  BY <1>4, <1>6, <1>9

LEMMA AlignMonotone ==
  ASSUME NEW a \in Nat, NEW b \in Nat, a <= b, NEW t \in Types
  PROVE  AlignUp(a, Size(t)) <= AlignUp(b, Size(t))
<1>1. CASE Size(t) = 1
  <2>1. AlignUp(a, 1) = a /\ AlignUp(b, 1) = b  BY Aligned
  <2> QED  BY <1>1, <2>1, Zenon
<1>2. CASE Size(t) = 2
  <2>1. /\ AlignUp(a, 2) = a + (a % 2) /\ AlignUp(b, 2) = b + (b % 2)
        /\ a % 2 \in {0, 1} /\ b % 2 \in {0, 1}
    BY Aligned
  <2>2. CASE a = b
    <3>1. AlignUp(a, 2) \in Nat  BY <2>1
    <3>2. AlignUp(a, 2) <= AlignUp(a, 2)  BY <3>1
    <3> QED  BY <1>2, <2>2, <3>2, Zenon
  <2>3. CASE a # b
    <3>1. a + (a % 2) <= b + (b % 2)
      <4>1. a + 1 <= b  BY <2>3
      <4> QED  BY <2>1, <4>1
    <3> QED  BY <1>2, <2>1, <3>1, Zenon
  <2> QED  BY <2>2, <2>3
<1> QED  BY <1>1, <1>2, Sizes

(* The callee's frame is not moved up.                                     *)
Straight(s, c) == FirstPlace(s, c) % 2 # 1

(* Arguments that follow one another are where the callee expects them, or *)
(* below, when its frame is moved up.                                      *)
Follow(s, c, m) ==
  LET at == Layout(CalleeFrame(s, c, FALSE), c.params)
  IN  \A k \in 1..Len(c.params) :
        s.stack[m + k].at <= at[k] /\ (Straight(s, c) => s.stack[m + k].at = at[k])

LEMMA Following ==
  ASSUME NEW s, NEW c, NEW m, Ready(s, c, m), Consecutive(s, c)
  PROVE  Follow(s, c, m)
<1> DEFINE base == CalleeFrame(s, c, FALSE)
           at == Layout(base, c.params)
           np == Len(c.params)
           even == Straight(s, c)
           S == [k \in 0..np |->
                   {x \in Nat : k # 0 => s.stack[m + k].at <= x /\ (even => s.stack[m + k].at = x)}]
           f == [k \in 0..np |-> IF k = 0 THEN 0 ELSE at[k]]
<1>1. /\ m \in Nat /\ np \in Nat /\ c.params \in Seq(Types) /\ Len(s.stack) = m + np
      /\ DOMAIN c.params = 1..np /\ FirstArg(s, c) = m + 1
      /\ \A k \in 1..np :
           /\ c.params[k] \in Types /\ m + k \in 1..Len(s.stack)
           /\ s.stack[m + k].type = c.params[k]
      /\ \A i \in 1..Len(s.stack) : s.stack[i].at \in Nat
  <2>1. /\ m \in Nat /\ np \in Nat /\ c.params \in Seq(Types) /\ Len(s.stack) = m + np
        /\ DOMAIN c.params = 1..np /\ FirstArg(s, c) = m + 1
    BY ReadyIs, Zenon
  <2>2. \A k \in 1..np : c.params[k] \in Types /\ m + k \in 1..Len(s.stack)
    BY ReadyIs, Zenon
  <2>3. \A k \in 1..np : s.stack[m + k].type = c.params[k]  BY Zenon DEF Ready
  <2>4. \A i \in 1..Len(s.stack) : s.stack[i].at \in Nat  BY ReadyIs, Zenon
  <2> QED  BY <2>1, <2>2, <2>3, <2>4, Zenon
<1>2. /\ base \in Nat /\ base % 2 = 0 /\ FirstPlace(s, c) <= base
      /\ even => base = FirstPlace(s, c)
      /\ np # 0 => FirstPlace(s, c) = s.stack[m + 1].at
  BY CalleeFrameIs, Zenon DEF Straight
<1>3. \A k \in 1..np : k # 1 =>
        s.stack[m + k].at = AlignUp(s.stack[m + (k - 1)].at + Size(c.params[k - 1]), Size(c.params[k]))
  <2> TAKE k \in 1..np
  <2> SUFFICES ASSUME k # 1
      PROVE s.stack[m + k].at
              = AlignUp(s.stack[m + (k - 1)].at + Size(c.params[k - 1]), Size(c.params[k]))
    OBVIOUS
  <2>1. k - 1 \in 1..np /\ (m + k) - 1 = m + (k - 1)  BY <1>1
  <2>2. m + k \in FirstArg(s, c) + 1 .. Depth(s)  BY <1>1 DEF Depth
  <2>3. LET d == s.stack[(m + k) - 1]
        IN  s.stack[m + k].at = AlignUp(d.at + Size(d.type), Size(s.stack[m + k].type))
    BY <2>2, Zenon DEF Consecutive
  <2>4. s.stack[m + (k - 1)].type = c.params[k - 1] /\ s.stack[m + k].type = c.params[k]
    BY <1>1, <2>1, Zenon
  <2> QED  BY <2>1, <2>3, <2>4, Zenon
<1>4. /\ np # 0 => at[1] = AlignUp(base, Size(c.params[1]))
      /\ \A k \in 1..np : k # 1 =>
           at[k] = AlignUp(at[k - 1] + Size(c.params[k - 1]), Size(c.params[k]))
  <2>1. \A k \in 1..np :
          at[k] = AlignUp(IF k = 1 THEN base ELSE at[k - 1] + Size(c.params[k - 1]),
                          Size(c.params[k]))
    <3>1. \A k \in DOMAIN c.params :
            at[k] = AlignUp(IF k = 1 THEN base ELSE at[k - 1] + Size(c.params[k - 1]),
                            Size(c.params[k]))
      BY <1>1, <1>2, LayoutIs, Zenon
    <3> QED  BY <1>1, <3>1, Zenon
  <2>2. np # 0 => 1 \in 1..np  BY <1>1
  <2> HIDE DEF at, np, base
  <2> QED  BY <2>1, <2>2, Zenon
<1>5. \A k \in 1..np : at[k] \in Nat  BY <1>1, <1>2, LayoutIs
<1> HIDE DEF at, base, even
<1>6. f[0] \in S[0]  BY <1>1
<1>7. ASSUME NEW k \in 1..np, f[k - 1] \in S[k - 1]  PROVE f[k] \in S[k]
  <2> DEFINE a == s.stack[m + k].at
  <2> SUFFICES a <= at[k] /\ (even => a = at[k])  BY <1>1, <1>5
  <2>1. CASE k = 1
    <3>1. AlignUp(base, Size(c.params[1])) = base
      <4>1. c.params[1] \in Types  BY <1>1, <2>1
      <4>2. /\ AlignUp(base, 1) = base /\ AlignUp(base, 2) = base + (base % 2)
        BY <1>2, Aligned
      <4>3. base + 0 = base  BY <1>2
      <4>4. AlignUp(base, 2) = base  BY <1>2, <4>2, <4>3, Zenon
      <4>5. Size(c.params[1]) = 1 \/ Size(c.params[1]) = 2  BY <4>1, Sizes
      <4> QED  BY <4>2, <4>4, <4>5, Zenon
    <3>2. np # 0  BY <1>1
    <3>3. at[k] = base /\ a = FirstPlace(s, c)  BY <1>2, <1>4, <2>1, <3>1, <3>2, Zenon
    <3> QED  BY <1>2, <3>3, Zenon
  <2>2. CASE k # 1
    <3> DEFINE j == k - 1
               z == Size(c.params[j])
               b == s.stack[m + j].at
    <3>1. j \in 1..np /\ f[j] = at[j] /\ f[j] \in S[j] /\ j # 0 /\ j \in 0..np
      BY <1>1, <1>7, <2>2
    <3>2. b <= at[j] /\ (even => b = at[j])
      <4> HIDE DEF j
      <4> QED  BY <3>1
    <3>3. b \in Nat /\ at[j] \in Nat /\ z \in Nat
      <4> HIDE DEF j
      <4>1. m + j \in 1..Len(s.stack) /\ c.params[j] \in Types  BY <1>1, <3>1, Zenon
      <4>2. b \in Nat /\ at[j] \in Nat  BY <1>1, <1>5, <3>1, <4>1, Zenon
      <4>3. z \in Nat  BY <4>1, Sizes
      <4> QED  BY <4>2, <4>3
    <3>4. a = AlignUp(b + z, Size(c.params[k])) /\ at[k] = AlignUp(at[j] + z, Size(c.params[k]))
      BY <1>3, <1>4, <2>2, Zenon
    <3>5. c.params[k] \in Types  BY <1>1
    <3> HIDE DEF a, b, z, j
    <3>6. b + z <= at[j] + z /\ b + z \in Nat /\ at[j] + z \in Nat  BY <3>2, <3>3
    <3>7. a <= at[k]  BY <3>4, <3>5, <3>6, AlignMonotone, Zenon
    <3>8. even => a = at[k]  BY <3>2, <3>4, Zenon
    <3> QED  BY <3>7, <3>8 DEF a
  <2> QED  BY <2>1, <2>2
<1>8. \A k \in 0..np : f[k] \in S[k]
  <2> HIDE DEF f, S, np
  <2> QED  BY <1>1, <1>6, <1>7, StepByStep
<1>9. \A k \in 1..np : s.stack[m + k].at <= at[k] /\ (even => s.stack[m + k].at = at[k])
  <2> TAKE k \in 1..np
  <2>1. k \in 0..np /\ k # 0  BY <1>1
  <2>2. f[k] \in S[k] /\ f[k] = at[k]
    <3>1. f[k] \in S[k]  BY <1>8, <2>1, Zenon
    <3> QED  BY <2>1, <3>1
  <2> QED  BY <2>1, <2>2
<1> QED  BY <1>9, Zenon DEF Follow, at, base, even, np

(* The lowest operands of a good stack, in whatever else has changed.      *)
LEMMA GoodPrefix ==
  ASSUME NEW s, Good(s), NEW x, x \in Machines, NEW m \in 0..Len(s.stack), Len(x.stack) = m,
         \A i \in 1..m : x.stack[i] = s.stack[i], x.scratch = s.scratch
  PROVE  Good(x)
<1>1. Len(s.stack) \in Nat /\ Len(s.stack) <= MaxStack /\ MaxStack \in Nat
  BY Parts, StackValuesAssumption DEF Good
<1>2. \A i \in 1..m : i \in 1..Len(s.stack)  BY <1>1
<1>3. Described(x.stack, x.scratch)  BY <1>2 DEF Good, Described
<1>4. Apart(x.stack)  BY <1>2 DEF Good, Apart
<1>5. Len(x.stack) <= MaxStack  BY <1>1
<1> QED  BY <1>3, <1>4, <1>5 DEF Good

LEMMA PopParts ==
  ASSUME NEW s, s \in Machines, NEW k \in 0..Len(s.stack)
  PROVE  LET x == Pop(s, k)
         IN  /\ x \in Machines /\ Len(x.stack) = Len(s.stack) - k
             /\ x.frame = s.frame /\ x.scratch = s.scratch /\ x.flag = s.flag
             /\ x.local = s.local /\ x.pages = s.pages
             /\ \A i \in 1..(Len(s.stack) - k) : x.stack[i] = s.stack[i]
<1> DEFINE n == Len(s.stack)
           q == SubSeq(s.stack, 1, n - k)
<1>1. s.stack \in Seq(Operands) /\ n \in Nat  BY Parts
<1>2. q \in Seq(Operands) /\ Len(q) = n - k /\ \A i \in 1..(n - k) : q[i] = s.stack[i]
  BY <1>1
<1>3. Pop(s, k) = [s EXCEPT !.stack = q]  BY DEF Pop
<1> HIDE DEF q
<1> QED  BY <1>1, <1>2, <1>3 DEF Machines

(* What the arguments look like once they are saved, and what the callee   *)
(* then finds.                                                             *)
Delivered(s, c, m, x) ==
  LET base == CalleeFrame(s, c, FALSE)
  IN  /\ x \in Machines /\ Len(x.stack) = Len(s.stack)
      /\ x.scratch = s.scratch /\ x.flag = s.flag /\ x.local = s.local /\ x.pages = s.pages
      /\ \A i \in 1..m : x.stack[i] = s.stack[i]
      /\ Consecutive(s, c) =>
           /\ Agrees(s, x, m)
           /\ \A k \in 1..Len(c.params) :
                Get(x.frame, Layout(base, c.params)[k], c.params[k])
                  = Denoted(s, s.stack[m + k])

LEMMA DeliveredInPlace ==
  ASSUME NEW s, NEW c, NEW m, Ready(s, c, m), Straight(s, c)
  PROVE  Delivered(s, c, m, Placed(s, c, FALSE))
<1> DEFINE x == Placed(s, c, FALSE)
           np == Len(c.params)
           at == Layout(CalleeFrame(s, c, FALSE), c.params)
<1>1. x = SaveUpwards(s, Args(s, c))  BY Zenon DEF Placed, Straight
<1>2. /\ Good(s) /\ s \in Machines /\ m \in Nat /\ np \in Nat /\ Len(s.stack) = m + np
      /\ Args(s, c) = (m + 1)..(m + np)
  BY ReadyIs, Zenon
<1>3. \A k \in 1..np : s.stack[m + k].type = c.params[k]  BY Zenon DEF Ready
<1> HIDE DEF x
<1>4. Saves(s, x, Args(s, c))  BY <1>1, <1>2, SaveUpwardsIs, Zenon
<1>5. /\ x \in Machines /\ Len(x.stack) = Len(s.stack) /\ Same(s, x)
      /\ x.scratch = s.scratch /\ x.flag = s.flag /\ x.local = s.local /\ x.pages = s.pages
  BY <1>2, <1>4, SavesFlags DEF Saves
<1>6. \A i \in 1..Len(s.stack) :
        x.stack[i] = IF i \in Args(s, c) THEN Saved(s.stack[i]) ELSE s.stack[i]
  BY <1>4, Zenon DEF Saves
<1>7. \A i \in 1..m : x.stack[i] = s.stack[i]
  <2> TAKE i \in 1..m
  <2>1. i \in 1..Len(s.stack) /\ i \notin Args(s, c)  BY <1>2
  <2> QED  BY <1>6, <2>1, Zenon
<1>8. Agrees(s, x, m)
  <2>1. m \in 0..Len(s.stack) /\ Len(s.stack) \in Nat  BY <1>2
  <2> QED  BY <1>5, <2>1, SameAgrees, Zenon
<1>10. Consecutive(s, c) =>
         \A j \in 1..np : Straight(s, c) => s.stack[m + j].at = at[j]
  <2> SUFFICES ASSUME Consecutive(s, c)
               PROVE \A j \in 1..np : Straight(s, c) => s.stack[m + j].at = at[j]
    OBVIOUS
  <2>1. \A j \in 1..np : s.stack[m + j].at <= at[j] /\ (Straight(s, c) => s.stack[m + j].at = at[j])
    <3>1. Follow(s, c, m)  BY Following, Zenon
    <3> QED  BY <3>1, Zenon DEF Follow
  <2> QED  BY <2>1, Zenon
<1>9. ASSUME Consecutive(s, c), NEW k \in 1..np
      PROVE  Get(x.frame, at[k], c.params[k]) = Denoted(s, s.stack[m + k])
  <2> DEFINE d == s.stack[m + k]
  <2>1. m + k \in 1..Len(s.stack) /\ m + k \in Args(s, c)  BY <1>2
  <2>2. d \in Operands  BY <1>2, <2>1, Parts
  <2>3. x.stack[m + k] = Saved(d)  BY <1>6, <2>1, Zenon
  <2>4. Denoted(x, x.stack[m + k]) = Denoted(s, d)  BY <1>5, <2>1, Zenon DEF Same
  <2>5. d.at = at[k]
    <3>1. Consecutive(s, c) /\ k \in 1..np /\ Straight(s, c)  BY <1>9
    <3>2. s.stack[m + k].at = at[k]
      <4> HIDE DEF at, np
      <4> QED  BY <1>10, <3>1, Zenon
    <3> QED  BY <3>2
  <2>6. d.type = c.params[k]  BY <1>3
  <2> HIDE DEF d
  <2>7. Denoted(x, Saved(d)) = Get(x.frame, d.at, d.type)  BY <2>2, SavedIs, DenotedIs
  <2> QED  BY <2>3, <2>4, <2>5, <2>6, <2>7, Zenon DEF d
<1> QED  BY <1>5, <1>7, <1>8, <1>9, Zenon DEF Delivered, x

(* One argument is saved further up than it was; those after it have been. *)
Upward(s, c, m, k, x) ==
  LET n == Len(s.stack)
      at == Layout(CalleeFrame(s, c, FALSE), c.params)
  IN  /\ x \in Machines /\ Len(x.stack) = n
      /\ x.scratch = s.scratch /\ x.flag = s.flag /\ x.local = s.local /\ x.pages = s.pages
      /\ \A i \in 1..m : x.stack[i] = s.stack[i]
      /\ \A i \in 1..n : i > m =>
           /\ x.stack[i].type = s.stack[i].type /\ x.stack[i].at = at[i - m]
           /\ i <= n - k => x.stack[i].mode = s.stack[i].mode /\ x.stack[i].n = s.stack[i].n
           /\ i > n - k => x.stack[i].mode = "frame" /\ x.stack[i].n = at[i - m]
      /\ Consecutive(s, c) =>
           /\ \A i \in 1..n : Denoted(x, x.stack[i]) = Denoted(s, s.stack[i])
           /\ \A i \in DOMAIN LocalTypes : Denoted(x, Home(i)) = Denoted(s, Home(i))

LEMMA UpwardStart ==
  ASSUME NEW s, NEW c, NEW m, Ready(s, c, m), FirstPlace(s, c) % 2 = 1
  PROVE  Upward(s, c, m, 0, Replaced(s, c, CalleeFrame(s, c, FALSE)))
<1> DEFINE base == CalleeFrame(s, c, FALSE)
           at == Layout(base, c.params)
           n == Len(s.stack)
           np == Len(c.params)
           q == [i \in DOMAIN s.stack |->
                   IF i \in Args(s, c) THEN [s.stack[i] EXCEPT !.at = at[i - FirstArg(s, c) + 1]]
                   ELSE s.stack[i]]
           x == Replaced(s, c, base)
<1>1. /\ s \in Machines /\ m \in Nat /\ np \in Nat /\ n = m + np
      /\ Args(s, c) = (m + 1)..(m + np) /\ FirstArg(s, c) = m + 1
  BY ReadyIs, ZenonT(60)
<1>2. /\ s.stack \in Seq(Operands) /\ DOMAIN s.stack = 1..n
      /\ \A i \in 1..n : s.stack[i] \in Operands
  BY <1>1, Parts
<1>3. x = [s EXCEPT !.stack = q]  BY Zenon DEF Replaced
<1>4. \A k \in 1..np : at[k] \in Nat  BY ArgumentsFit, Zenon
<1> HIDE DEF at, base, x
<1>5. ASSUME NEW i \in 1..n, i > m
      PROVE  /\ q[i] \in Operands /\ q[i].at = at[i - m] /\ q[i].type = s.stack[i].type
             /\ q[i].mode = s.stack[i].mode /\ q[i].n = s.stack[i].n
  <2>1. i \in Args(s, c) /\ i - m \in 1..np /\ i - FirstArg(s, c) + 1 = i - m  BY <1>1, <1>5
  <2>2. q[i] = [s.stack[i] EXCEPT !.at = at[i - m]]
    <3>1. q[i] = [s.stack[i] EXCEPT !.at = at[i - FirstArg(s, c) + 1]]  BY <1>2, <2>1
    <3> QED  BY <2>1, <3>1, Zenon
  <2>3. at[i - m] \in Nat /\ s.stack[i] \in Operands  BY <1>2, <1>4, <2>1
  <2> DEFINE d == s.stack[i]
             a == at[i - m]
  <2>4. q[i] = [d EXCEPT !.at = a] /\ d \in Operands /\ a \in Nat  BY <2>2, <2>3, Zenon
  <2> HIDE DEF d, a, q
  <2>5. /\ q[i] \in Operands /\ q[i].at = a /\ q[i].type = d.type
        /\ q[i].mode = d.mode /\ q[i].n = d.n
    BY <2>4 DEF Operands
  <2> QED  BY <2>5 DEF d, a
<1>6. \A i \in 1..m : q[i] = s.stack[i] /\ i \in 1..n
  <2> TAKE i \in 1..m
  <2>1. i \in DOMAIN s.stack /\ i \notin Args(s, c)  BY <1>1, <1>2
  <2> QED  BY <1>2, <2>1
<1>7. q \in Seq(Operands) /\ Len(q) = n
  <2>1. \A i \in 1..n : q[i] \in Operands
    <3> TAKE i \in 1..n
    <3>1. CASE i > m
      <4> HIDE DEF q
      <4> QED  BY <1>5, <3>1
    <3>2. CASE i <= m
      <4>1. i \in 1..m  BY <1>1, <3>2
      <4>2. q[i] = s.stack[i]  BY <1>6, <4>1, Zenon
      <4> QED  BY <1>2, <4>2, Zenon
    <3> QED  BY <1>1, <3>1, <3>2
  <2>2. DOMAIN q = 1..n /\ n \in Nat  BY <1>1, <1>2
  <2>3. q = [i \in 1..n |-> q[i]]  BY <2>2
  <2> HIDE DEF q, n
  <2> QED  BY <2>1, <2>2, <2>3
<1> HIDE DEF q
<1>8. /\ x \in Machines /\ x.stack = q /\ x.frame = s.frame /\ x.scratch = s.scratch
      /\ x.flag = s.flag /\ x.local = s.local /\ x.pages = s.pages
  BY <1>1, <1>3, <1>7 DEF Machines
<1>9. \A i \in 1..n : Denoted(x, x.stack[i]) = Denoted(s, s.stack[i])
  <2> TAKE i \in 1..n
  <2> DEFINE d == s.stack[i]
             e == x.stack[i]
  <2>1. e.type = d.type /\ e.mode = d.mode /\ e.n = d.n
    <3>1. CASE i > m  BY <1>5, <1>8, <3>1
    <3>2. CASE i <= m
      <4>1. i \in 1..m  BY <1>1, <3>2
      <4> QED  BY <1>6, <1>8, <4>1
    <3> QED  BY <1>1, <3>1, <3>2
  <2>2. d.mode \in {"imm", "frame", "local", "reg", "cell", "flag"}  BY <1>1, Parts
  <2> HIDE DEF d, e
  <2>3. Denoted(x, d) = Denoted(s, d)
    <3>1. Unmoved(s, x, d)  BY <1>8, <2>2 DEF Unmoved
    <3> QED  BY <3>1, DenotedSame, Zenon
  <2>4. Denoted(x, e) = Denoted(x, d)  BY <2>1, Zenon DEF Denoted
  <2> QED  BY <2>3, <2>4, Zenon DEF d, e
<1>10. \A i \in DOMAIN LocalTypes : Denoted(x, Home(i)) = Denoted(s, Home(i))
  <2> TAKE i \in DOMAIN LocalTypes
  <2>1. Home(i).mode \in {"frame", "local"}  BY HomeIs
  <2>2. Unmoved(s, x, Home(i))  BY <1>8, <2>1 DEF Unmoved, InReg
  <2> QED  BY <2>2, DenotedSame, Zenon
<1>11. \A i \in 1..m : x.stack[i] = s.stack[i]  BY <1>6, <1>8
<1>12. \A i \in 1..n : i > m =>
         /\ x.stack[i].type = s.stack[i].type /\ x.stack[i].at = at[i - m]
         /\ x.stack[i].mode = s.stack[i].mode /\ x.stack[i].n = s.stack[i].n
  BY <1>5, <1>8
<1>13. \A i \in 1..n : ~(i > n - 0)  BY <1>1
<1>14. Len(x.stack) = n  BY <1>7, <1>8
<1>15. \A i \in 1..n : i > m =>
         /\ x.stack[i].type = s.stack[i].type /\ x.stack[i].at = at[i - m]
         /\ i <= n - 0 => x.stack[i].mode = s.stack[i].mode /\ x.stack[i].n = s.stack[i].n
         /\ i > n - 0 => x.stack[i].mode = "frame" /\ x.stack[i].n = at[i - m]
  BY <1>12, <1>13, Zenon
<1> HIDE DEF n
<1> QED  BY <1>8, <1>9, <1>10, <1>11, <1>14, <1>15, Zenon DEF Upward, x, base, at, n

LEMMA UpwardStep ==
  ASSUME NEW s, NEW c, NEW m, Ready(s, c, m), FirstPlace(s, c) % 2 = 1,
         NEW k \in 1..Len(s.stack), NEW x, Upward(s, c, m, k - 1, x)
  PROVE  LET i == Len(s.stack) + 1 - k
         IN  Upward(s, c, m, k, IF i \in Args(s, c) THEN SaveStack(x, i) ELSE x)
<1> DEFINE n == Len(s.stack)
           np == Len(c.params)
           base == CalleeFrame(s, c, FALSE)
           at == Layout(base, c.params)
           i == n + 1 - k
           d == x.stack[i]
           y == IF i \in Args(s, c) THEN SaveStack(x, i) ELSE x
<1>1. /\ s \in Machines /\ m \in Nat /\ np \in Nat /\ n = m + np /\ n \in Nat /\ Good(s)
      /\ Args(s, c) = (m + 1)..(m + np)
  <2>1. /\ s \in Machines /\ m \in Nat /\ np \in Nat /\ n = m + np /\ Good(s)
        /\ Args(s, c) = (m + 1)..(m + np)
    BY ReadyIs, ZenonT(60)
  <2>2. n \in Nat
    <3> HIDE DEF n, np
    <3> QED  BY <2>1
  <2> QED  BY <2>1, <2>2
<1>2. /\ x \in Machines /\ Len(x.stack) = n
      /\ x.scratch = s.scratch /\ x.flag = s.flag /\ x.local = s.local /\ x.pages = s.pages
      /\ \A j \in 1..m : x.stack[j] = s.stack[j]
      /\ \A j \in 1..n : j > m =>
           /\ x.stack[j].type = s.stack[j].type /\ x.stack[j].at = at[j - m]
           /\ j <= n - (k - 1) => x.stack[j].mode = s.stack[j].mode /\ x.stack[j].n = s.stack[j].n
           /\ j > n - (k - 1) => x.stack[j].mode = "frame" /\ x.stack[j].n = at[j - m]
      /\ Consecutive(s, c) =>
           /\ \A j \in 1..n : Denoted(x, x.stack[j]) = Denoted(s, s.stack[j])
           /\ \A j \in DOMAIN LocalTypes : Denoted(x, Home(j)) = Denoted(s, Home(j))
  BY Zenon DEF Upward
<1>3. \A j \in 1..np :
        /\ at[j] \in Nat /\ at[j] + Size(c.params[j]) <= FrameWords
        /\ \A z \in 1..np : z < j => at[z] + Size(c.params[z]) <= at[j]
  BY ArgumentsFit, Zenon
<1>4. \A j \in 1..np : s.stack[m + j].type = c.params[j] /\ c.params[j] \in Types
  <2>1. \A j \in 1..np : s.stack[m + j].type = c.params[j]  BY Zenon DEF Ready
  <2>2. \A j \in 1..np : c.params[j] \in Types  BY ReadyIs, Zenon
  <2> QED  BY <2>1, <2>2, Zenon
<1>5. \A j \in 1..n :
        /\ s.stack[j] \in Operands /\ s.stack[j].n \in Nat /\ s.stack[j].at \in Nat
        /\ s.stack[j].type \in Types /\ s.stack[j].mode \in {"imm", "frame", "local"}
        /\ Readable(s.scratch, s.stack[j]) /\ Homed(s.stack[j])
  BY ReadyIs, Zenon
<1> HIDE DEF at, base
<1>6. i \in 1..n /\ n - k = i - 1 /\ n - (k - 1) = i  BY <1>1
<1>7. CASE i \notin Args(s, c)
  <2>1. y = x  BY <1>7
  <2>2. i <= m  BY <1>1, <1>6, <1>7
  <2>3. \A j \in 1..n : j > m =>
          /\ x.stack[j].type = s.stack[j].type /\ x.stack[j].at = at[j - m]
          /\ j <= n - k => x.stack[j].mode = s.stack[j].mode /\ x.stack[j].n = s.stack[j].n
          /\ j > n - k => x.stack[j].mode = "frame" /\ x.stack[j].n = at[j - m]
    <3>1. \A j \in 1..n : j > m => j > n - (k - 1) /\ ~(j <= n - k)  BY <1>1, <1>6, <2>2
    <3> HIDE DEF i, n
    <3> QED  BY <1>2, <3>1, Zenon
  <2>4. Upward(s, c, m, k, x)
    <3> HIDE DEF i, n
    <3> QED  BY <1>2, <2>3, Zenon DEF Upward, at, base, n
  <2> HIDE DEF y
  <2> QED  BY <2>1, <2>4, Zenon DEF y, i, n
<1>8. CASE i \in Args(s, c)
  <2>1. i > m /\ i - m \in 1..np  BY <1>1, <1>6, <1>8
  <2>2. y = SaveStack(x, i)  BY <1>8
  <2>3. /\ d \in Operands /\ d.type \in Types /\ d.n \in Nat /\ d.at \in Nat
        /\ \A j \in 1..n :
             /\ x.stack[j] \in Operands /\ x.stack[j].type \in Types /\ x.stack[j].n \in Nat
             /\ x.stack[j].mode \in {"imm", "frame", "local", "reg", "cell", "flag"}
    BY <1>2, <1>6, Parts
  <2>4. /\ d.type = s.stack[i].type /\ d.at = at[i - m] /\ d.mode = s.stack[i].mode
        /\ d.n = s.stack[i].n
    <3>1. i \in 1..n /\ i > m /\ i <= n - (k - 1)  BY <1>1, <1>6, <2>1
    <3> HIDE DEF i, n
    <3> QED  BY <1>2, <3>1, Zenon
  <2>5. Readable(x.scratch, d)
    <3>1. Readable(s.scratch, s.stack[i])  BY <1>5, <1>6
    <3> HIDE DEF d, i
    <3> QED  BY <1>2, <2>4, <3>1 DEF Readable
  <2>6. /\ y \in Machines /\ Len(y.stack) = n /\ y.scratch = x.scratch /\ y.flag = x.flag
        /\ y.local = x.local /\ y.pages = x.pages
        /\ \A j \in 1..n : y.stack[j] = IF j = i THEN Saved(x.stack[j]) ELSE x.stack[j]
        /\ y.frame = IF d.mode = "frame" /\ d.n = d.at THEN x.frame
                     ELSE Put(x.frame, d.at, d.type, Denoted(x, d))
    <3>1. x \in Machines /\ Len(x.stack) = n /\ i \in 1..n  BY <1>2, <1>6, Zenon
    <3> DEFINE z == SaveStack(x, i)
    <3>2. /\ z \in Machines /\ Len(z.stack) = Len(x.stack)
          /\ z.scratch = x.scratch /\ z.flag = x.flag
          /\ z.local = x.local /\ z.pages = x.pages
          /\ \A j \in 1..Len(x.stack) : z.stack[j] = IF j = i THEN Saved(x.stack[j]) ELSE x.stack[j]
          /\ z.frame = IF d.mode = "frame" /\ d.n = d.at THEN x.frame
                       ELSE Put(x.frame, d.at, d.type, Denoted(x, d))
      <4>1. i \in 1..Len(x.stack)  BY <3>1, Zenon
      <4> HIDE DEF i
      <4> QED  BY <2>5, <3>1, <4>1, SaveStackIs
    <3> HIDE DEF i, n, y, d, z
    <3>3. y = z  BY <2>2, Zenon DEF z
    <3> QED  BY <3>1, <3>2, <3>3, Zenon
  <2>7. /\ Saved(d).mode = "frame" /\ Saved(d).n = d.at /\ Saved(d).at = d.at
        /\ Saved(d).type = d.type
    BY <2>3, SavedIs
  <2> HIDE DEF y
  <2>8. y.stack[i] = Saved(d) /\ \A j \in 1..n : j # i => y.stack[j] = x.stack[j]
    BY <1>6, <2>6
  <2> HIDE DEF d
  <2>9. \A j \in 1..m : y.stack[j] = s.stack[j]
    <3>1. \A j \in 1..m : j \in 1..n /\ j # i  BY <1>1, <2>1
    <3> QED  BY <1>2, <2>8, <3>1, Zenon
  <2>10. \A j \in 1..n : j > m =>
           /\ y.stack[j].type = s.stack[j].type /\ y.stack[j].at = at[j - m]
           /\ j <= n - k => y.stack[j].mode = s.stack[j].mode /\ y.stack[j].n = s.stack[j].n
           /\ j > n - k => y.stack[j].mode = "frame" /\ y.stack[j].n = at[j - m]
    <3> TAKE j \in 1..n
    <3> SUFFICES ASSUME j > m
        PROVE /\ y.stack[j].type = s.stack[j].type /\ y.stack[j].at = at[j - m]
              /\ j <= n - k => y.stack[j].mode = s.stack[j].mode /\ y.stack[j].n = s.stack[j].n
              /\ j > n - k => y.stack[j].mode = "frame" /\ y.stack[j].n = at[j - m]
      OBVIOUS
    <3>1. CASE j = i
      <4>1. ~(j <= n - k)  BY <1>6, <3>1
      <4> HIDE DEF i, n
      <4> QED  BY <2>4, <2>7, <2>8, <3>1, <4>1, Zenon
    <3>2. CASE j # i
      <4>1. /\ j <= n - k => j <= n - (k - 1)
            /\ j > n - k => j > n - (k - 1)
        BY <1>6, <3>2
      <4>2. y.stack[j] = x.stack[j]  BY <2>8, <3>2
      <4> HIDE DEF i, n
      <4> QED  BY <1>2, <4>1, <4>2, Zenon
    <3> QED  BY <3>1, <3>2
  <2>11. ASSUME Consecutive(s, c)
         PROVE  /\ \A j \in 1..n : Denoted(y, y.stack[j]) = Denoted(s, s.stack[j])
                /\ \A j \in DOMAIN LocalTypes : Denoted(y, Home(j)) = Denoted(s, Home(j))
    <3>1. s.stack[i].at <= d.at /\ d.at + Size(d.type) <= FrameWords
      <4>1. \A j \in 1..np :
              s.stack[m + j].at <= at[j] /\ (Straight(s, c) => s.stack[m + j].at = at[j])
        <5>1. Follow(s, c, m)  BY <2>11, Following, Zenon
        <5> QED  BY <5>1, Zenon DEF Follow, at, base
      <4>2. m + (i - m) = i  BY <1>1, <1>6
      <4> DEFINE z == i - m
      <4>3. /\ s.stack[m + z].at <= at[z] /\ s.stack[m + z].type = c.params[z]
            /\ at[z] + Size(c.params[z]) <= FrameWords
        <5> HIDE DEF z
        <5>1. z \in 1..np  BY <2>1 DEF z
        <5> QED  BY <1>3, <1>4, <4>1, <5>1, Zenon
      <4> QED  BY <2>4, <4>2, <4>3, Zenon
    <3>2. x.frame \in Frames  BY <1>2, Parts
    <3>3. \A b \in Nat, u \in Types :
            b + Size(u) <= FrameWords /\ Beside(d.at, d.type, b, u)
              => Get(y.frame, b, u) = Get(x.frame, b, u)
      <4> TAKE b \in Nat, u \in Types
      <4>1. b + Size(u) <= FrameWords /\ Beside(d.at, d.type, b, u)
              => Get(Put(x.frame, d.at, d.type, Denoted(x, d)), b, u) = Get(x.frame, b, u)
        BY <2>3, <3>2, GetBeside
      <4> QED  BY <2>6, <4>1, Zenon
    <3>4. Denoted(y, y.stack[i]) = Denoted(s, s.stack[i])
      <4>1. Denoted(y, Saved(d)) = Get(y.frame, d.at, d.type)  BY <2>7, DenotedIs, Zenon
      <4>2. Get(y.frame, d.at, d.type) = Denoted(x, d)
        <5>1. CASE d.mode = "frame" /\ d.n = d.at
          <6>1. Denoted(x, d) = Get(x.frame, d.n, d.type)  BY <5>1, DenotedIs
          <6> QED  BY <2>6, <5>1, <6>1, Zenon
        <5>2. CASE ~(d.mode = "frame" /\ d.n = d.at)
          <6>1. y.frame = Put(x.frame, d.at, d.type, Denoted(x, d))  BY <2>6, <5>2, Zenon
          <6> QED  BY <2>3, <3>1, <3>2, <6>1, GetPut
        <5> QED  BY <5>1, <5>2
      <4>3. Denoted(x, d) = Denoted(s, s.stack[i])
        <5> HIDE DEF i, n
        <5> QED  BY <1>2, <1>6, <2>11, Zenon DEF d
      <4> QED  BY <2>8, <4>1, <4>2, <4>3, Zenon
    <3>5. ASSUME NEW j \in 1..n, j # i  PROVE Denoted(y, x.stack[j]) = Denoted(x, x.stack[j])
      <4> DEFINE e == x.stack[j]
      <4>1. e.mode = "frame" => Get(y.frame, e.n, e.type) = Get(x.frame, e.n, e.type)
        <5> SUFFICES ASSUME e.mode = "frame"
                     PROVE  Get(y.frame, e.n, e.type) = Get(x.frame, e.n, e.type)
          OBVIOUS
        <5>1. e.n \in Nat /\ e.type \in Types  BY <2>3
        <5>2. e.n + Size(e.type) <= FrameWords /\ Beside(d.at, d.type, e.n, e.type)
          <6>1. CASE j > i
            <7> DEFINE z == j - m
                       w == i - m
            <7>1. z \in 1..np /\ w \in 1..np /\ w < z /\ m + z = j /\ m + w = i
              BY <1>1, <2>1, <6>1
            <7>2. e.n = at[z] /\ e.type = s.stack[j].type
              <8>1. j > m /\ j > n - (k - 1)  BY <1>1, <1>6, <2>1, <6>1
              <8> HIDE DEF i, n
              <8> QED  BY <1>2, <8>1, Zenon
            <7> HIDE DEF z, w
            <7>3. s.stack[m + z].type = c.params[z] /\ s.stack[m + w].type = c.params[w]
              BY <1>4, <7>1, Zenon
            <7>4. e.type = c.params[z] /\ d.type = c.params[w] /\ d.at = at[w]
              BY <2>4, <7>1, <7>2, <7>3, Zenon DEF w
            <7>5. at[z] + Size(c.params[z]) <= FrameWords /\ at[w] + Size(c.params[w]) <= at[z]
              BY <1>3, <7>1, Zenon
            <7> QED  BY <7>2, <7>4, <7>5, Zenon DEF Beside
          <6>2. CASE j < i
            <7> DEFINE o == s.stack[j]
            <7>1. e.n = o.n /\ e.type = o.type /\ e.mode = o.mode
              <8>1. j <= n - (k - 1) /\ (j > m \/ j \in 1..m)  BY <1>1, <1>6, <6>2
              <8> HIDE DEF i, n
              <8> QED  BY <1>2, <8>1, Zenon
            <7>2. Readable(s.scratch, o) /\ Homed(o) /\ o.n \in Nat /\ o.type \in Types
                  /\ o.at \in Nat
              BY <1>5
            <7>3. /\ o.at + Size(o.type) <= s.stack[i].at
                  /\ ParamsEnd <= s.stack[i].at /\ s.stack[i].at \in Nat
              <8>1. o.at + Size(o.type) <= s.stack[i].at
                BY <1>1, <1>6, <6>2 DEF Good, Apart
              <8> HIDE DEF i, n, o
              <8> QED  BY <1>1, <1>6, <8>1, PlacesBeside DEF n
            <7> HIDE DEF e, o
            <7>4. o.n + Size(o.type) <= FrameWords  BY <7>1, <7>2 DEF Readable
            <7>5. o.n + Size(o.type) <= s.stack[i].at
              <8>1. CASE o.n = o.at  BY <7>3, <8>1
              <8>2. CASE o.n # o.at
                <9>1. PICK p \in DOMAIN ParamTypes : o.n = LocalPlace(p).n /\ o.type = ParamTypes[p]
                  BY <7>1, <7>2, <8>2 DEF Homed
                <9>2. o.n + Size(o.type) <= ParamsEnd /\ ParamsEnd \in Nat  BY <9>1, Params
                <9>3. Size(o.type) \in Nat  BY <7>2, Sizes
                <9>4. o.n + Size(o.type) \in Nat  BY <7>2, <9>3
                <9> HIDE DEF i, n
                <9> QED  BY <7>3, <9>2, <9>4
              <8> QED  BY <8>1, <8>2
            <7>6. Size(o.type) \in Nat  BY <7>2, Sizes
            <7>7. o.n + Size(o.type) <= d.at
              <8> HIDE DEF i
              <8> QED  BY <2>3, <3>1, <7>2, <7>3, <7>5, <7>6
            <7> QED  BY <7>1, <7>4, <7>7, Zenon DEF Beside
          <6> QED  BY <3>5, <1>6, <6>1, <6>2
        <5> QED  BY <3>3, <5>1, <5>2, Zenon
      <4>2. e.mode \in {"imm", "frame", "local", "reg", "cell", "flag"}  BY <2>3
      <4>3. Unmoved(x, y, e)
        <5> HIDE DEF e
        <5> QED  BY <2>6, <4>1, <4>2 DEF Unmoved
      <4> QED  BY <4>3, DenotedSame, Zenon
    <3>6. ASSUME NEW j \in DOMAIN LocalTypes  PROVE Denoted(y, Home(j)) = Denoted(x, Home(j))
      <4>1. Home(j).mode \in {"frame", "local"} /\ Home(j).type \in Types  BY HomeIs
      <4>2. Home(j).mode = "frame" =>
              Get(y.frame, Home(j).n, Home(j).type) = Get(x.frame, Home(j).n, Home(j).type)
        <5> SUFFICES ASSUME Home(j).mode = "frame"
            PROVE Get(y.frame, Home(j).n, Home(j).type) = Get(x.frame, Home(j).n, Home(j).type)
          OBVIOUS
        <5>1. /\ Home(j).n \in Nat /\ Home(j).type = LocalTypes[j]
              /\ Home(j).n + Size(LocalTypes[j]) <= ParamsEnd
          BY HomeIs
        <5>2. ParamsEnd <= FrameWords /\ ParamsEnd \in Nat /\ FrameWords \in Nat
              /\ Size(LocalTypes[j]) \in Nat
          BY <4>1, <5>1, Params, Sizes
        <5>3. ParamsEnd <= s.stack[i].at /\ s.stack[i].at \in Nat
          <6> HIDE DEF i, n
          <6> QED  BY <1>1, <1>6, PlacesBeside DEF n
        <5>4. /\ Home(j).n + Size(Home(j).type) <= FrameWords
              /\ Home(j).n + Size(Home(j).type) <= d.at
          <6>1. s.stack[i].at <= d.at /\ d.at \in Nat  BY <2>3, <3>1, Zenon
          <6>2. Home(j).n + Size(Home(j).type) <= ParamsEnd  BY <5>1, Zenon
          <6>3. Home(j).n + Size(Home(j).type) \in Nat  BY <5>1, <5>2
          <6> HIDE DEF i, d, n
          <6> QED  BY <5>2, <5>3, <6>1, <6>2, <6>3
        <5>5. Beside(d.at, d.type, Home(j).n, Home(j).type)  BY <5>4, Zenon DEF Beside
        <5> QED  BY <3>3, <4>1, <5>1, <5>4, <5>5, Zenon
      <4>3. Unmoved(x, y, Home(j))  BY <2>6, <4>1, <4>2 DEF Unmoved, InReg
      <4> QED  BY <4>3, DenotedSame, Zenon
    <3>7. \A j \in 1..n : Denoted(y, y.stack[j]) = Denoted(s, s.stack[j])
      <4> TAKE j \in 1..n
      <4>1. CASE j = i  BY <3>4, <4>1, Zenon
      <4>2. CASE j # i
        <5>1. y.stack[j] = x.stack[j] /\ Denoted(x, x.stack[j]) = Denoted(s, s.stack[j])
          BY <1>2, <2>8, <2>11, <4>2, Zenon
        <5> QED  BY <3>5, <4>2, <5>1, Zenon
      <4> QED  BY <4>1, <4>2
    <3>8. \A j \in DOMAIN LocalTypes : Denoted(y, Home(j)) = Denoted(s, Home(j))
      BY <1>2, <2>11, <3>6, Zenon
    <3> QED  BY <3>7, <3>8, Zenon
  <2>12. Upward(s, c, m, k, y)
    <3> HIDE DEF i, n
    <3> QED  BY <1>2, <2>6, <2>9, <2>10, <2>11, Zenon DEF Upward, at, base, n
  <2> QED  BY <2>12, Zenon DEF y, i, n
<1> QED  BY <1>7, <1>8

LEMMA DeliveredUp ==
  ASSUME NEW s, NEW c, NEW m, Ready(s, c, m), FirstPlace(s, c) % 2 = 1
  PROVE  Delivered(s, c, m, Placed(s, c, FALSE))
<1> DEFINE base == CalleeFrame(s, c, FALSE)
           b == Replaced(s, c, base)
           n == Depth(b)
           P == Args(s, c)
           E(k, x) == IF n + 1 - k \in P THEN SaveStack(x, n + 1 - k) ELSE x
           Is(k) == {x \in Machines : Upward(s, c, m, k, x)}
           S == [k \in 0..n |-> Is(k)]
           g == [k \in 1..n |-> [x \in Is(k - 1) |-> E(k, x)]]
<1>0. Upward(s, c, m, 0, b)  BY UpwardStart, Zenon
<1>1. /\ s \in Machines /\ m \in Nat /\ Len(c.params) \in Nat /\ Len(s.stack) = m + Len(c.params)
      /\ \A k \in 1..Len(c.params) : c.params[k] \in Types
  BY ReadyIs, Zenon
<1>2. b \in Is(0) /\ n = Len(s.stack) /\ n = m + Len(c.params)
  <2> HIDE DEF b
  <2>1. b \in Machines /\ Len(b.stack) = Len(s.stack)  BY <1>0, Zenon DEF Upward
  <2> QED  BY <1>0, <1>1, <2>1, Zenon DEF Depth
<1>3. ASSUME NEW k \in 1..n, NEW x \in Is(k - 1)  PROVE E(k, x) \in Is(k)
  <2> HIDE DEF b, P
  <2>1. Upward(s, c, m, k - 1, x)  OBVIOUS
  <2>2. Upward(s, c, m, k, E(k, x))
    <3> HIDE DEF n
    <3>1. k \in 1..Len(s.stack)  BY <1>2
    <3> QED  BY <1>2, <2>1, <3>1, UpwardStep, Zenon DEF P
  <2> HIDE DEF E
  <2>3. E(k, x) \in Machines  BY <2>2, Zenon DEF Upward
  <2> QED  BY <2>2, <2>3
<1> HIDE DEF E, Is, b, P
<1>4. n \in Nat
  <2> HIDE DEF n
  <2> QED  BY <1>1, <1>2
<1>5. b \in S[0] /\ Steps(n, S, g)
  <2>1. ASSUME NEW k \in 1..n, NEW x \in S[k - 1]  PROVE g[k][x] \in S[k]
    <3>1. x \in Is(k - 1) /\ S[k] = Is(k)  BY <1>4
    <3> QED  BY <1>3, <3>1
  <2>2. b \in S[0]  BY <1>2, <1>4
  <2>3. Steps(n, S, g)
    <3> HIDE DEF n, S, g
    <3> QED  BY <2>1, Zenon DEF Steps
  <2> QED  BY <2>2, <2>3
<1>6. PICK f : Runs(f, n, S, b, g)
  <2> HIDE DEF n, S, g
  <2> QED  BY <1>4, <1>5, Recursion, Zenon
<1> DEFINE h == [k \in 0..n |-> f[k]]
           F == CHOOSE q : q = [k \in 0..n |-> IF k = 0 THEN b ELSE E(k, q[k - 1])]
<1>7. ASSUME NEW k \in 1..n  PROVE f[k] = E(k, f[k - 1])
  <2>1. k - 1 \in 0..n  BY <1>4
  <2>2. f[k] = g[k][f[k - 1]] /\ f[k - 1] \in S[k - 1]
    <3> HIDE DEF g, S, n
    <3> QED  BY <1>6, <2>1 DEF Runs
  <2>3. f[k - 1] \in Is(k - 1)  BY <2>1, <2>2
  <2> QED  BY <2>2, <2>3
<1>8. h = [k \in 0..n |-> IF k = 0 THEN b ELSE E(k, h[k - 1])]
  <2>1. f[0] = b  BY <1>6, Zenon DEF Runs
  <2>2. \A k \in 0..n : k # 0 => k - 1 \in 0..n /\ k \in 1..n  BY <1>4
  <2> HIDE DEF n
  <2> QED  BY <1>7, <2>1, <2>2
<1>9. F = [k \in 0..n |-> IF k = 0 THEN b ELSE E(k, F[k - 1])]
  <2> HIDE DEF h
  <2> QED  BY <1>8, Zenon
<1>10. SaveDownwards(b, P) = F[n]  BY Zenon DEF SaveDownwards, E
<1> HIDE DEF F
<1>11. \A k \in 0..n : F[k] \in S[k]
  <2>1. F[0] \in S[0]  BY <1>4, <1>2, <1>9
  <2>2. ASSUME NEW k \in 1..n, F[k - 1] \in S[k - 1]  PROVE F[k] \in S[k]
    <3>1. F[k - 1] \in Is(k - 1) /\ S[k] = Is(k)  BY <1>4, <2>2
    <3>2. F[k] = E(k, F[k - 1])  BY <1>4, <1>9
    <3> QED  BY <1>3, <3>1, <3>2
  <2> HIDE DEF n, S
  <2> QED  BY <1>4, <2>1, <2>2, StepByStep
<1>12. F[n] \in Is(n)
  <2>1. n \in 0..n /\ S[n] = Is(n)  BY <1>4
  <2> HIDE DEF n, S
  <2> QED  BY <1>11, <2>1, Zenon
<1> DEFINE x == Placed(s, c, FALSE)
<1>13. x = SaveDownwards(b, P)  BY Zenon DEF Placed, b, P
<1>14. Upward(s, c, m, n, x)  BY <1>10, <1>12, <1>13 DEF Is
<1> HIDE DEF x, base
<1> DEFINE at == Layout(base, c.params)
<1>15. /\ x \in Machines /\ Len(x.stack) = n
       /\ x.scratch = s.scratch /\ x.flag = s.flag /\ x.local = s.local /\ x.pages = s.pages
       /\ \A i \in 1..m : x.stack[i] = s.stack[i]
       /\ \A i \in 1..n : i > m =>
            /\ x.stack[i].type = s.stack[i].type /\ x.stack[i].at = at[i - m]
            /\ i > n - n => x.stack[i].mode = "frame" /\ x.stack[i].n = at[i - m]
       /\ Consecutive(s, c) =>
            /\ \A i \in 1..n : Denoted(x, x.stack[i]) = Denoted(s, s.stack[i])
            /\ \A i \in DOMAIN LocalTypes : Denoted(x, Home(i)) = Denoted(s, Home(i))
  <2> HIDE DEF n
  <2> QED  BY <1>2, <1>14, Zenon DEF Upward, base
<1>16. \A i \in 1..m : i \in 1..n
  <2> HIDE DEF n
  <2> QED  BY <1>1, <1>2
<1>17. Consecutive(s, c) => Agrees(s, x, m)
  <2> HIDE DEF n
  <2> QED  BY <1>15, <1>16, Zenon DEF Agrees
<1>18. ASSUME Consecutive(s, c), NEW k \in 1..Len(c.params)
       PROVE  Get(x.frame, at[k], c.params[k]) = Denoted(s, s.stack[m + k])
  <2> DEFINE j == m + k
             d == x.stack[j]
  <2>1. j \in 1..n /\ j > m /\ j > n - n /\ j - m = k
    <3> HIDE DEF n
    <3> QED  BY <1>1, <1>2
  <2>2. s.stack[j].type = c.params[k]  BY Zenon DEF Ready
  <2> HIDE DEF n, j, at
  <2>3. d.mode = "frame" /\ d.n = at[j - m] /\ d.type = s.stack[j].type  BY <1>15, <2>1, Zenon
  <2>4. Denoted(x, d) = Denoted(s, s.stack[j])  BY <1>15, <1>18, <2>1, Zenon
  <2> HIDE DEF d
  <2>5. Denoted(x, d) = Get(x.frame, d.n, d.type)  BY <2>3, DenotedIs
  <2> QED  BY <2>1, <2>2, <2>3, <2>4, <2>5, Zenon DEF j
<1> HIDE DEF n
<1> QED  BY <1>2, <1>15, <1>17, <1>18, Zenon DEF Delivered, x, base

LEMMA PlacedIs ==
  ASSUME NEW s, NEW c, NEW m, Ready(s, c, m)
  PROVE  Delivered(s, c, m, Placed(s, c, FALSE))
<1>1. CASE FirstPlace(s, c) % 2 = 1  BY <1>1, DeliveredUp, Zenon
<1>2. CASE FirstPlace(s, c) % 2 # 1
  <2>1. Straight(s, c)  BY <1>2 DEF Straight
  <2> QED  BY <2>1, DeliveredInPlace, Zenon
<1> QED  BY <1>1, <1>2

LEMMA PreparedReady ==
  ASSUME NEW z, Good(z), FlagsTop(z), NEW c, c \in Callees, NEW m, m \in Nat,
         Len(z.stack) = m + Len(c.params),
         \A k \in 1..Len(c.params) : z.stack[m + k].type = c.params[k]
  PROVE  /\ Ready(Prepared(z), c, m) /\ Same(z, Prepared(z))
         /\ Consecutive(z, c) => Consecutive(Prepared(z), c)
<1> DEFINE s == Prepared(z)
           np == Len(c.params)
<1>1. Good(s) /\ Same(z, s) /\ Len(s.stack) = Len(z.stack) /\ Stored(s.stack, Len(z.stack))
  BY PreparedIs, Zenon
<1>2. np \in Nat  BY StackValuesAssumption
<1> HIDE DEF s
<1>3. \A i \in 1..Len(z.stack) :
        s.stack[i].type = z.stack[i].type /\ s.stack[i].at = z.stack[i].at
  BY <1>1, Zenon DEF Same
<1>4. \A k \in 1..np : m + k \in 1..Len(z.stack)  BY <1>2
<1>5. \A k \in 1..np : s.stack[m + k].type = c.params[k]  BY <1>3, <1>4, Zenon
<1>6. Ready(s, c, m)  BY <1>1, <1>5, Zenon DEF Ready
<1>7. ASSUME Consecutive(z, c)  PROVE Consecutive(s, c)
  <2>1. FirstArg(s, c) = FirstArg(z, c) /\ FirstArg(z, c) = m + 1 /\ Depth(s) = Depth(z)
        /\ Depth(z) = m + np
    <3> HIDE DEF np
    <3>1. Depth(z) = m + np /\ Depth(s) = m + np  BY <1>1, Zenon DEF Depth, np
    <3>2. FirstArg(z, c) = Depth(z) - np + 1 /\ FirstArg(s, c) = Depth(s) - np + 1
      BY Zenon DEF FirstArg, np
    <3>3. Depth(z) - np + 1 = m + 1  BY <1>2, <3>1
    <3> QED  BY <3>1, <3>2, <3>3, Zenon
  <2>2. \A i \in (m + 1) + 1 .. m + np :
          z.stack[i].at = AlignUp(z.stack[i - 1].at + Size(z.stack[i - 1].type),
                                  Size(z.stack[i].type))
    BY <1>7, <2>1, Zenon DEF Consecutive
  <2>3. ASSUME NEW i \in (m + 1) + 1 .. m + np
        PROVE  s.stack[i].at = AlignUp(s.stack[i - 1].at + Size(s.stack[i - 1].type),
                                       Size(s.stack[i].type))
    <3>1. i \in 1..Len(z.stack) /\ i - 1 \in 1..Len(z.stack)  BY <1>2
    <3> HIDE DEF np
    <3> QED  BY <1>3, <2>2, <3>1, Zenon
  <2> QED  BY <2>1, <2>3, Zenon DEF Consecutive
<1> QED  BY <1>1, <1>6, <1>7, Zenon DEF s

(* A call: what the caller has when the callee has returned, and what the  *)
(* callee has received.                                                    *)
(* The arguments as the callee finds them, and what it leaves in x.        *)
CameBack(s, c, m, results, received, x) ==
  /\ Good(x) /\ Stored(x.stack, Len(x.stack)) /\ Len(x.stack) = m + Len(c.results)
  /\ \A k \in DOMAIN c.results :
       /\ x.stack[m + k].type = c.results[k]
       /\ Denoted(x, x.stack[m + k]) = results[k]
  /\ Consecutive(s, c) =>
       /\ Agrees(s, x, m)
       /\ received = [k \in DOMAIN c.params |-> Denoted(s, s.stack[m + k])]

LEMMA CalledIs ==
  ASSUME NEW s, NEW c, NEW m, Ready(s, c, m), NEW results,
         results \in [DOMAIN c.results -> Values], m + Len(c.results) <= MaxStack
  PROVE  LET base == CalleeFrame(s, c, FALSE)
             p == Placed(s, c, FALSE)
         IN  CameBack(s, c, m, results, Received(p, c, base), Returned(p, c, base, results))
<1> DEFINE base == CalleeFrame(s, c, FALSE)
           at == Layout(base, c.params)
           p == Placed(s, c, FALSE)
           x == Returned(p, c, base, results)
           np == Len(c.params)
           q == Pop(p, np)
<1>1. /\ Good(s) /\ s \in Machines /\ m \in Nat /\ np \in Nat /\ Len(s.stack) = m + np
      /\ DOMAIN c.params = 1..np /\ Len(s.stack) <= MaxStack /\ MaxStack \in Nat
      /\ \A i \in 1..m : i \in 1..Len(s.stack)
      /\ \A i \in 1..Len(s.stack) :
           s.stack[i].type \in Types /\ s.stack[i].at \in Nat
           /\ s.stack[i].mode \in {"imm", "frame", "local"}
  BY ReadyIs, ZenonT(60)
<1>2. /\ p \in Machines /\ Len(p.stack) = Len(s.stack)
      /\ p.scratch = s.scratch /\ p.flag = s.flag /\ p.local = s.local /\ p.pages = s.pages
      /\ \A i \in 1..m : p.stack[i] = s.stack[i]
      /\ Consecutive(s, c) =>
           /\ Agrees(s, p, m)
           /\ \A k \in 1..np : Get(p.frame, at[k], c.params[k]) = Denoted(s, s.stack[m + k])
  <2>1. Delivered(s, c, m, p)  BY PlacedIs, Zenon
  <2> QED  BY <2>1, Zenon DEF Delivered
<1> DEFINE fp == FirstPlace(s, c)
<1>3. /\ fp \in Nat /\ base \in Nat /\ base % 2 = 0 /\ ParamsEnd <= fp /\ fp <= base
      /\ base + 2 <= ParamsEnd + 3 * (m + 1)
      /\ \A i \in 1..m : s.stack[i].at + Size(s.stack[i].type) <= fp
  BY CalleeFrameIs, Zenon
<1> HIDE DEF p, base, fp
<1>4. /\ q \in Machines /\ Len(q.stack) = m
      /\ q.frame = p.frame /\ q.scratch = p.scratch /\ q.flag = p.flag
      /\ q.local = p.local /\ q.pages = p.pages
      /\ \A i \in 1..m : q.stack[i] = p.stack[i]
  <2>1. np \in 0..Len(p.stack) /\ Len(p.stack) - np = m
    <3> HIDE DEF np
    <3> QED  BY <1>1, <1>2
  <2> HIDE DEF q, np
  <2>2. /\ q \in Machines /\ Len(q.stack) = Len(p.stack) - np
        /\ q.frame = p.frame /\ q.scratch = p.scratch /\ q.flag = p.flag
        /\ q.local = p.local /\ q.pages = p.pages
        /\ \A i \in 1..(Len(p.stack) - np) : q.stack[i] = p.stack[i]
    BY <1>2, <2>1, PopParts, Zenon DEF q
  <2> QED  BY <2>1, <2>2, Zenon
<1> HIDE DEF q
<1>5. m \in 0..Len(s.stack)
  <2> HIDE DEF np
  <2> QED  BY <1>1
<1>6. Good(q)  BY <1>1, <1>2, <1>4, <1>5, GoodPrefix
<1>7. \A i \in 1..m : q.stack[i] = s.stack[i]  BY <1>2, <1>4, Zenon
<1>8. Leaves(p, c, base, results, q, m)
  <2>1. Stored(q.stack, m)  BY <1>1, <1>7, Zenon DEF Stored
  <2>2. \A i \in 1..m : q.stack[i].at + Size(q.stack[i].type) <= base
    <3> TAKE i \in 1..m
    <3> DEFINE a == s.stack[i].at
               z == Size(s.stack[i].type)
    <3>1. a \in Nat /\ z \in Nat
      <4>1. a \in Nat /\ s.stack[i].type \in Types  BY <1>1, Zenon
      <4> QED  BY <4>1, Sizes
    <3>2. a + z <= fp  BY <1>3, Zenon
    <3> HIDE DEF a, z
    <3>3. a + z <= base  BY <1>3, <3>1, <3>2
    <3> QED  BY <1>7, <3>3, Zenon DEF a, z
  <2>3. ParamsEnd <= base
    <3>1. ParamsEnd \in Nat  BY Params
    <3> QED  BY <1>3, <3>1
  <2>4. c \in Callees  BY Zenon DEF Ready
  <2> QED  BY <1>1, <1>3, <1>4, <1>6, <2>1, <2>2, <2>3, <2>4, Zenon DEF Leaves, q
<1>9. /\ Good(x) /\ Stored(x.stack, Len(x.stack)) /\ Len(x.stack) = m + Len(c.results) /\ Agrees(q, x, m)
      /\ \A k \in DOMAIN c.results :
           /\ x.stack[m + k].type = c.results[k]
           /\ Denoted(x, x.stack[m + k]) = results[k]
  <2>1. Resumes(x, c, results, q, m)  BY <1>8, ReturnedIs, Zenon
  <2> HIDE DEF x
  <2> QED  BY <2>1, Zenon DEF Resumes
<1> HIDE DEF x
<1>10. Agrees(p, q, m)
  <2>1. m \in 0..Len(p.stack)  BY <1>2, <1>5
  <2>2. \A i \in 1..m : InReg(p.stack[i]) => p.stack[i].n \in Regs
    <3> TAKE i \in 1..m
    <3>1. s.stack[i].mode \in {"imm", "frame", "local"} /\ p.stack[i] = s.stack[i]
      BY <1>1, <1>2, Zenon
    <3> QED  BY <3>1 DEF InReg
  <2>3. \A r \in Regs : r # 0 => q.scratch[r] = p.scratch[r]  BY <1>4, Zenon
  <2>4. Spared(p, q, m, 0)  BY <1>2, <1>4, <2>1, <2>2, <2>3, Zenon DEF Spared
  <2> QED  BY <2>4, Untouched, Zenon
<1>11. Consecutive(s, c) => Agrees(s, x, m)  BY <1>2, <1>9, <1>10, AgreesTrans, Zenon
<1>12. Consecutive(s, c) =>
         Received(p, c, base) = [k \in DOMAIN c.params |-> Denoted(s, s.stack[m + k])]
  <2> SUFFICES ASSUME Consecutive(s, c)
      PROVE Received(p, c, base) = [k \in DOMAIN c.params |-> Denoted(s, s.stack[m + k])]
    OBVIOUS
  <2>1. \A k \in DOMAIN c.params : Get(p.frame, at[k], c.params[k]) = Denoted(s, s.stack[m + k])
    BY <1>1, <1>2, Zenon
  <2> HIDE DEF at
  <2>2. [k \in DOMAIN c.params |-> Get(p.frame, at[k], c.params[k])]
          = [k \in DOMAIN c.params |-> Denoted(s, s.stack[m + k])]
    BY <2>1, Zenon
  <2>3. Received(p, c, base) = [k \in DOMAIN c.params |-> Get(p.frame, at[k], c.params[k])]
    BY Zenon DEF Received, at
  <2> QED  BY <2>2, <2>3, Zenon
<1> QED  BY <1>9, <1>11, <1>12, Zenon DEF CameBack, x, p, base

(* The memory may have grown.                                              *)
LEMMA GrownIs ==
  ASSUME NEW s, Good(s), NEW count \in Values
  PROVE  LET x == [s EXCEPT !.pages = count]
         IN  /\ Good(x) /\ x.stack = s.stack /\ x.pages = count
             /\ NoFlags(s) => NoFlags(x)
             /\ \A i \in 1..Len(s.stack) : s.stack[i].mode # "cell" =>
                  Denoted(x, x.stack[i]) = Denoted(s, s.stack[i])
             /\ \A i \in DOMAIN LocalTypes : Denoted(x, Home(i)) = Denoted(s, Home(i))
<1> DEFINE x == [s EXCEPT !.pages = count]
<1>1. /\ x.stack = s.stack /\ x.pages = count /\ x.frame = s.frame /\ x.scratch = s.scratch
      /\ x.local = s.local /\ x.flag = s.flag /\ x \in Machines
  BY DEF Good, Machines
<1> HIDE DEF x
<1>2. Good(x)  BY <1>1 DEF Good
<1>3. NoFlags(s) => NoFlags(x)  BY <1>1 DEF NoFlags
<1>4. ASSUME NEW i \in 1..Len(s.stack), s.stack[i].mode # "cell"
      PROVE  Denoted(x, x.stack[i]) = Denoted(s, s.stack[i])
  <2>1. s.stack[i].mode \in {"imm", "frame", "local", "reg", "cell", "flag"}
    BY Parts DEF Good
  <2>2. \A d : d.mode \in {"imm", "frame", "local", "reg", "flag"} => Denoted(x, d) = Denoted(s, d)
    <3> TAKE d
    <3> QED  BY <1>1, DenotedIs
  <2> QED  BY <1>1, <1>4, <2>1, <2>2
<1>5. ASSUME NEW i \in DOMAIN LocalTypes  PROVE Denoted(x, Home(i)) = Denoted(s, Home(i))
  <2>1. Home(i).mode \in {"frame", "local"}  BY HomeIs
  <2> QED  BY <1>1, <2>1, DenotedIs
<1> QED  BY <1>1, <1>2, <1>3, <1>4, <1>5 DEF x

-----------------------------------------------------------------------------
(* What each instruction does.                                             *)

LEMMA EnteredIs ==
  ASSUME NEW args \in [DOMAIN ParamTypes -> Values], NEW count \in Values
  PROVE  LET x == Entered(args, count)
         IN  /\ Good(x) /\ FlagsTop(x) /\ x.stack = <<>> /\ x.pages = count
             /\ \A i \in DOMAIN LocalTypes : Denoted(x, Home(i)) \in Values
             /\ x.scratch = [r \in Regs |-> Junk]
             /\ \A i \in DOMAIN LocalTypes :
                  Denoted(x, Home(i)) = IF i \in DOMAIN ParamTypes THEN args[i] ELSE 0
<1> DEFINE at == Layout(0, ParamTypes)
           low == [w \in Words |-> Spoilt]
           frame == Puts(low, at, ParamTypes, args)
           scratch == [r \in Regs |-> Junk]
           local == [i \in DOMAIN VarTypes |-> 0]
           x == Entered(args, count)
<1>1. x = [stack |-> <<>>, flag |-> Junk, pages |-> count, scratch |-> scratch, local |-> local,
           frame |-> frame]
  BY DEF Entered
<1>2. ParamTypes \in Seq(Types) /\ MaxStack \in Nat /\ 0 \in Values
  BY StackValuesAssumption
<1>3. DOMAIN ParamTypes = 1..Len(ParamTypes) /\ Len(ParamTypes) \in Nat  BY Params
<1>4. at \in [DOMAIN ParamTypes -> Nat]  BY <1>2, LayoutIs
<1>5. low \in Frames
  <2>1. Spoilt \in Cells  BY DEF Spoilt, Cell, Cells, Loaded
  <2> QED  BY <2>1 DEF Frames
<1>6. \A i, j \in DOMAIN ParamTypes : i < j => at[i] + Size(ParamTypes[i]) <= at[j]
  BY <1>2, <1>3, LayoutOrdered
<1>7. \A p \in DOMAIN ParamTypes :
        /\ 0 <= at[p] /\ at[p] + Size(ParamTypes[p]) <= FrameWords /\ LocalPlace(p).n = at[p]
  <2> TAKE p \in DOMAIN ParamTypes
  <2>1. /\ LocalPlace(p).n = at[p] /\ LocalPlace(p).n \in Nat
        /\ LocalPlace(p).n + Size(ParamTypes[p]) <= ParamsEnd /\ ParamTypes[p] \in Types
    BY Params
  <2>2. ParamsEnd \in Nat /\ FrameWords \in Nat /\ ParamsEnd <= FrameWords /\ Size(ParamTypes[p]) \in Nat
    BY <2>1, Params, Sizes
  <2> HIDE DEF at
  <2> QED  BY <2>1, <2>2
<1>8. args \in [DOMAIN ParamTypes -> Loaded]  BY DEF Loaded
<1> HIDE DEF at, low
<1>9. /\ frame \in Frames
      /\ \A k \in DOMAIN ParamTypes : Get(frame, at[k], ParamTypes[k]) = args[k]
  <2>1. 0 \in Nat  OBVIOUS
  <2> DEFINE y == Puts(low, at, ParamTypes, args)
  <2>2. /\ y \in Frames
        /\ \A k \in DOMAIN ParamTypes : Get(y, at[k], ParamTypes[k]) = args[k]
        /\ \A b \in Nat, u \in Types :
             b + Size(u) <= 0 /\ b + Size(u) <= FrameWords => Get(y, b, u) = Get(low, b, u)
    <3>1. \A i \in DOMAIN ParamTypes : 0 <= at[i] /\ at[i] + Size(ParamTypes[i]) <= FrameWords
      BY <1>7, Zenon
    <3>2. ParamTypes \in Seq(Types)  BY <1>2, Zenon
    <3> HIDE DEF frame, x, scratch, local
    <3> QED  BY <3>2, <1>4, <1>5, <1>6, <1>8, <2>1, <3>1, PutsIs, ZenonT(60)
  <2> QED  BY <2>2, Zenon
<1> HIDE DEF frame, x
<1>10. scratch \in [Regs -> Loaded \cup {PagesAddress}] /\ local \in [DOMAIN VarTypes -> Loaded]
  BY <1>2 DEF Loaded
<1>11. <<>> \in Seq(Operands) /\ Len(<<>>) = 0  OBVIOUS
<1> HIDE DEF scratch
<1>12. /\ x \in Machines /\ x.stack = <<>> /\ x.pages = count /\ x.frame = frame
       /\ x.local = local /\ x.scratch = scratch
  BY <1>1, <1>9, <1>10, <1>11 DEF Machines
<1>13. Good(x) /\ FlagsTop(x)
  <2>1. Len(x.stack) = 0  BY <1>12
  <2>2. \A i : ~(i \in 1..Len(x.stack))  BY <2>1
  <2>3. Described(x.stack, x.scratch)  BY <2>2, Zenon DEF Described
  <2>4. Apart(x.stack)  BY <2>2, Zenon DEF Apart
  <2>5. FlagsTop(x)  BY <2>2, Zenon DEF FlagsTop
  <2> QED  BY <1>2, <1>12, <2>1, <2>3, <2>4, <2>5 DEF Good
<1>14. ASSUME NEW i \in DOMAIN LocalTypes
       PROVE  /\ Denoted(x, Home(i)) \in Values
              /\ Denoted(x, Home(i)) = IF i \in DOMAIN ParamTypes THEN args[i] ELSE 0
  <2> DEFINE h == Home(i)
  <2>1. /\ h.type = LocalTypes[i] /\ h.n = LocalPlace(i).n
        /\ \/ h.mode = "frame" /\ i \in DOMAIN ParamTypes /\ LocalTypes[i] = ParamTypes[i]
           \/ h.mode = "local" /\ h.n \in DOMAIN VarTypes /\ i \notin DOMAIN ParamTypes
    BY HomeIs
  <2> HIDE DEF h
  <2>2. CASE h.mode = "frame" /\ i \in DOMAIN ParamTypes /\ LocalTypes[i] = ParamTypes[i]
    <3>1. Denoted(x, h) = Get(x.frame, h.n, h.type)  BY <2>2, DenotedIs
    <3>2. Get(frame, at[i], ParamTypes[i]) = args[i]  BY <1>9, <2>2
    <3>3. h.n = at[i] /\ h.type = ParamTypes[i]  BY <1>7, <2>1, <2>2
    <3>4. args[i] \in Values  BY <2>2
    <3> QED  BY <1>12, <2>2, <3>1, <3>2, <3>3, <3>4, Zenon DEF h
  <2>3. CASE h.mode = "local" /\ h.n \in DOMAIN VarTypes /\ i \notin DOMAIN ParamTypes
    <3>1. Denoted(x, h) = x.local[h.n]  BY <2>3, DenotedIs
    <3>2. local[h.n] = 0  BY <2>3
    <3> QED  BY <1>2, <1>12, <2>3, <3>1, <3>2 DEF h
  <2> QED  BY <2>1, <2>2, <2>3
<1> QED  BY <1>12, <1>13, <1>14 DEF x, scratch

(* k operands of z are left in y, and the locals: nothing else, or a v of  *)
(* type t on top of them.                                                  *)
Keeps(z, y, k) == Good(y) /\ FlagsTop(y) /\ Len(y.stack) = k /\ Agrees(z, y, k)
Leads(z, y, k, t, v) ==
  /\ Good(y) /\ FlagsTop(y) /\ Len(y.stack) = k + 1 /\ Agrees(z, y, k)
  /\ y.stack[k + 1].type = t /\ Denoted(y, y.stack[k + 1]) = v

LEMMA KeepsSettled ==
  ASSUME NEW z, NEW y, NEW k, Keeps(z, y, k), k \in Nat
  PROVE  Keeps(z, Settled(y), k)
<1>1. Good(y) /\ FlagsTop(y) /\ Len(y.stack) = k /\ Agrees(z, y, k)  BY Zenon DEF Keeps
<1> DEFINE x == Settled(y)
<1>2. Good(x) /\ FlagsTop(x) /\ Same(y, x)  BY <1>1, SettledIs, Zenon
<1> HIDE DEF x
<1>3. k \in 0..Len(y.stack) /\ Len(y.stack) \in Nat  BY <1>1
<1>4. Agrees(y, x, k) /\ Len(x.stack) = k  BY <1>1, <1>2, <1>3, SameAgrees, Zenon
<1>5. Agrees(z, x, k)  BY <1>1, <1>4, AgreesTrans, Zenon
<1> QED  BY <1>2, <1>4, <1>5, Zenon DEF Keeps, x

LEMMA LeadsSettled ==
  ASSUME NEW z, NEW y, NEW k, NEW t, NEW v, Leads(z, y, k, t, v), k \in Nat
  PROVE  Leads(z, Settled(y), k, t, v)
<1>1. /\ Good(y) /\ FlagsTop(y) /\ Len(y.stack) = k + 1 /\ Agrees(z, y, k)
      /\ y.stack[k + 1].type = t /\ Denoted(y, y.stack[k + 1]) = v
  BY Zenon DEF Leads
<1> DEFINE x == Settled(y)
<1>2. Good(x) /\ FlagsTop(x) /\ Same(y, x)  BY <1>1, SettledIs, Zenon
<1> HIDE DEF x
<1>3. k \in 0..Len(y.stack) /\ Len(y.stack) \in Nat /\ k + 1 \in 1..Len(y.stack)  BY <1>1
<1>4. Agrees(y, x, k) /\ Len(x.stack) = Len(y.stack)  BY <1>2, <1>3, SameAgrees, Zenon
<1>5. Agrees(z, x, k)  BY <1>1, <1>4, AgreesTrans, Zenon
<1>6. x.stack[k + 1].type = y.stack[k + 1].type
      /\ Denoted(x, x.stack[k + 1]) = Denoted(y, y.stack[k + 1])
  BY <1>2, <1>3, Zenon DEF Same
<1> QED  BY <1>1, <1>2, <1>4, <1>5, <1>6, Zenon DEF Leads, x

(* The operands fetched: no flags, and everything as it was.               *)
LEMMA FetchedParts ==
  ASSUME NEW z, Good(z), FlagsTop(z)
  PROVE  LET s == Fetched(z)
         IN  /\ Good(s) /\ NoFlags(s) /\ FlagsTop(s) /\ s \in Machines
             /\ Len(s.stack) = Len(z.stack) /\ Len(z.stack) \in Nat
             /\ \A k \in 0..Len(z.stack) : Agrees(z, s, k)
             /\ \A i \in 1..Len(z.stack) :
                  s.stack[i].type = z.stack[i].type
                  /\ Denoted(s, s.stack[i]) = Denoted(z, z.stack[i])
             /\ s.pages = z.pages
<1> DEFINE s == Fetched(z)
<1>1. Good(s) /\ NoFlags(s) /\ Same(z, s)  BY FetchedIs, Zenon
<1> HIDE DEF s
<1>2. Len(z.stack) \in Nat /\ s \in Machines  BY <1>1, Parts DEF Good
<1>3. Len(s.stack) = Len(z.stack)  BY <1>1, Zenon DEF Same
<1>4. \A k \in 0..Len(z.stack) : Agrees(z, s, k)  BY <1>1, <1>2, SameAgrees, Zenon
<1>5. FlagsTop(s)  BY <1>1, Zenon DEF NoFlags, FlagsTop
<1> QED  BY <1>1, <1>2, <1>3, <1>4, <1>5, Zenon DEF Same, s

LEMMA PushLeads ==
  ASSUME NEW z, NEW s, NEW k, k \in Nat, NoFlags(s), Agrees(z, s, k), NEW t, NEW mode, NEW n,
         Pushable(s, k, t, mode, n), NEW v, v = Denoted(s, Fresh(s, t, mode, n))
  PROVE  Leads(z, Push(s, t, mode, n), k, t, v)
<1> DEFINE x == Push(s, t, mode, n)
           d == Fresh(s, t, mode, n)
<1>1. Pushed(s, k, d, x)  BY PushIs, Zenon
<1> HIDE DEF x
<1>2. d.type = t  BY DEF Fresh
<1> HIDE DEF d
<1>3. /\ Good(x) /\ Len(x.stack) = k + 1 /\ Agrees(s, x, k)
      /\ x.frame = s.frame /\ x.scratch = s.scratch /\ x.flag = s.flag
      /\ x.local = s.local /\ x.pages = s.pages /\ x.stack[k + 1] = d /\ FlagsTop(x)
  BY <1>1, Zenon DEF Pushed
<1>4. Agrees(z, x, k)  BY <1>3, AgreesTrans, Zenon
<1>5. Denoted(x, d) = Denoted(s, d)  BY <1>3, Zenon DEF Denoted
<1> QED  BY <1>2, <1>3, <1>4, <1>5, Zenon DEF Leads, x, d

LEMMA ConstIs ==
  ASSUME NEW z, Good(z), FlagsTop(z), NEW k, Len(z.stack) = k, k < MaxStack,
         NEW t \in Types, NEW v \in Values
  PROVE  Leads(z, Push(Fetched(z), t, "imm", v), k, t, v)
<1> DEFINE s == Fetched(z)
           d == Fresh(s, t, "imm", v)
<1>1. /\ Good(s) /\ NoFlags(s) /\ Len(s.stack) = Len(z.stack) /\ Len(z.stack) \in Nat
      /\ \A j \in 0..Len(z.stack) : Agrees(z, s, j)
  BY FetchedParts, Zenon
<1> HIDE DEF s
<1>2. k \in Nat /\ Len(s.stack) = k /\ Agrees(z, s, k)
  <2>1. Len(z.stack) \in 0..Len(z.stack)  BY <1>1
  <2> QED  BY <1>1, <2>1, Zenon
<1>3. v \in Nat  BY StackValuesAssumption
<1>4. d.mode = "imm" /\ d.n = v  BY DEF Fresh
<1> HIDE DEF d
<1>5. Readable(s.scratch, d) /\ Homed(d)  BY <1>4 DEF Readable, Homed
<1>6. Denoted(s, d) = v  BY <1>4, DenotedIs
<1>7. Pushable(s, k, t, "imm", v)  BY <1>1, <1>2, <1>3, <1>5 DEF Pushable, d
<1> QED  BY <1>1, <1>2, <1>6, <1>7, PushLeads, Zenon DEF s, d

LEMMA LocalGetIs ==
  ASSUME NEW z, Good(z), FlagsTop(z), NEW k, Len(z.stack) = k, k < MaxStack,
         NEW i \in DOMAIN LocalTypes
  PROVE  Leads(z, Push(Fetched(z), LocalTypes[i], LocalPlace(i).mode, LocalPlace(i).n),
               k, LocalTypes[i], Denoted(z, Home(i)))
<1> DEFINE s == Fetched(z)
           t == LocalTypes[i]
           mode == LocalPlace(i).mode
           n == LocalPlace(i).n
           d == Fresh(s, t, mode, n)
           h == Home(i)
<1>1. /\ Good(s) /\ NoFlags(s) /\ Len(s.stack) = Len(z.stack) /\ Len(z.stack) \in Nat
      /\ \A j \in 0..Len(z.stack) : Agrees(z, s, j)
  BY FetchedParts, Zenon
<1> HIDE DEF s
<1>2. k \in Nat /\ Len(s.stack) = k /\ Agrees(z, s, k)
  <2>1. Len(z.stack) \in 0..Len(z.stack)  BY <1>1
  <2> QED  BY <1>1, <2>1, Zenon
<1>3. h.type = t /\ h.mode = mode /\ h.n = n /\ t \in Types  BY HomeIs
<1>4. d.type = t /\ d.mode = mode /\ d.n = n  BY DEF Fresh
<1>5. /\ n \in Nat /\ mode \in {"frame", "local"}
      /\ mode = "local" => n \in DOMAIN VarTypes
      /\ mode = "frame" =>
           /\ n + Size(t) <= FrameWords
           /\ \E p \in DOMAIN ParamTypes : n = LocalPlace(p).n /\ t = ParamTypes[p]
  <2>1. CASE h.mode = "frame" /\ i \in DOMAIN ParamTypes /\ LocalTypes[i] = ParamTypes[i]
    <3>1. h.n \in Nat /\ h.n + Size(LocalTypes[i]) <= ParamsEnd
      BY <2>1, HomeIs
    <3>2. ParamsEnd <= FrameWords /\ ParamsEnd \in Nat /\ FrameWords \in Nat /\ Size(t) \in Nat
      BY <1>3, Params, Sizes
    <3>3. n \in Nat /\ mode = "frame" /\ n + Size(t) <= ParamsEnd  BY <1>3, <2>1, <3>1, Zenon
    <3> HIDE DEF n, t, mode, h
    <3>4. n + Size(t) <= FrameWords  BY <3>2, <3>3
    <3>5. \E p \in DOMAIN ParamTypes : n = LocalPlace(p).n /\ t = ParamTypes[p]
      BY <2>1, Zenon DEF n, t
    <3> QED  BY <3>3, <3>4, <3>5
  <2>2. CASE h.mode = "local" /\ h.n \in DOMAIN VarTypes
    <3>1. DOMAIN VarTypes \subseteq Nat  BY StackValuesAssumption
    <3> HIDE DEF n, t, mode, h
    <3> QED  BY <1>3, <2>2, <3>1
  <2> QED  BY <2>1, <2>2, HomeIs
<1> HIDE DEF n, t, mode, d, h
<1>6. Readable(s.scratch, d) /\ Homed(d)  BY <1>4, <1>5 DEF Readable, Homed
<1>7. Denoted(s, d) = Denoted(z, h)
  <2>1. Denoted(s, h) = Denoted(z, h)  BY <1>2, Zenon DEF Agrees, h
  <2>2. Denoted(s, d) = Denoted(s, h)  BY <1>3, <1>4, Zenon DEF Denoted
  <2> QED  BY <2>1, <2>2
<1>8. Pushable(s, k, t, mode, n)
  <2>1. mode \in {"imm", "frame", "local", "reg", "cell", "flag"} /\ ~(mode \in {"reg", "cell"})
    BY <1>5
  <2> QED  BY <1>1, <1>2, <1>3, <1>5, <1>6, <2>1, Zenon DEF Pushable, d
<1>9. Leads(z, Push(s, t, mode, n), k, t, Denoted(z, h))
  BY <1>1, <1>2, <1>7, <1>8, PushLeads, Zenon DEF d
<1> QED  BY <1>9, Zenon DEF s, t, mode, n, h

LEMMA DropIs ==
  ASSUME NEW z, Good(z), FlagsTop(z), NEW k \in Nat, Len(z.stack) = k + 1
  PROVE  Keeps(z, Pop(Fetched(z), 1), k)
<1> DEFINE s == Fetched(z)
           x == Pop(s, 1)
<1>1. /\ Good(s) /\ FlagsTop(s) /\ Len(s.stack) = Len(z.stack)
      /\ \A j \in 0..Len(z.stack) : Agrees(z, s, j)
  BY FetchedParts, Zenon
<1> HIDE DEF s
<1>2. 1 \in 0..Len(s.stack) /\ Len(s.stack) - 1 = k /\ k \in 0..Len(z.stack)  BY <1>1
<1>3. Good(x) /\ Len(x.stack) = Len(s.stack) - 1 /\ Agrees(s, x, Len(s.stack) - 1)
      /\ FlagsTop(x)
  BY <1>1, <1>2, PopIs, Zenon
<1> HIDE DEF x
<1>4. Agrees(z, x, k)  BY <1>1, <1>2, <1>3, AgreesTrans, Zenon
<1> QED  BY <1>2, <1>3, <1>4, Zenon DEF Keeps, x, s

(* The value of a local is replaced; k operands are left.                  *)
Sets(z, y, k, i, v) ==
  /\ Good(y) /\ FlagsTop(y) /\ Len(y.stack) = k /\ y.pages = z.pages
  /\ \A j \in 1..k :
       y.stack[j].type = z.stack[j].type /\ Denoted(y, y.stack[j]) = Denoted(z, z.stack[j])
  /\ Denoted(y, Home(i)) = v
  /\ \A j \in DOMAIN LocalTypes : j # i => Denoted(y, Home(j)) = Denoted(z, Home(j))

LEMMA SetsSettled ==
  ASSUME NEW z, NEW y, NEW k, NEW i, NEW v, Sets(z, y, k, i, v), k \in Nat,
         i \in DOMAIN LocalTypes
  PROVE  Sets(z, Settled(y), k, i, v)
<1>1. /\ Good(y) /\ FlagsTop(y) /\ Len(y.stack) = k /\ y.pages = z.pages
      /\ \A j \in 1..k :
           y.stack[j].type = z.stack[j].type /\ Denoted(y, y.stack[j]) = Denoted(z, z.stack[j])
      /\ Denoted(y, Home(i)) = v
      /\ \A j \in DOMAIN LocalTypes : j # i => Denoted(y, Home(j)) = Denoted(z, Home(j))
  BY Zenon DEF Sets
<1> DEFINE x == Settled(y)
<1>2. Good(x) /\ FlagsTop(x) /\ Same(y, x)  BY <1>1, SettledIs, Zenon
<1> HIDE DEF x
<1>3. /\ Len(x.stack) = k /\ x.pages = y.pages
      /\ \A j \in 1..k :
           x.stack[j].type = y.stack[j].type /\ Denoted(x, x.stack[j]) = Denoted(y, y.stack[j])
      /\ \A j \in DOMAIN LocalTypes : Denoted(x, Home(j)) = Denoted(y, Home(j))
  BY <1>1, <1>2, Zenon DEF Same
<1> QED  BY <1>1, <1>2, <1>3, Zenon DEF Sets, x

LEMMA LocalTeeIs ==
  ASSUME NEW z, Good(z), FlagsTop(z), NEW k \in Nat \ {0}, Len(z.stack) = k,
         NEW i \in DOMAIN LocalTypes, z.stack[k].type = LocalTypes[i]
  PROVE  Sets(z, Written(Kept(Fetched(z), i), i), k, i, Denoted(z, z.stack[k]))
<1> DEFINE s == Fetched(z)
           f == Kept(s, i)
           x == Written(f, i)
<1>1. /\ Good(s) /\ NoFlags(s) /\ Len(s.stack) = k /\ s.pages = z.pages
      /\ Agrees(z, s, k)
      /\ \A j \in 1..k : s.stack[j].type = z.stack[j].type
                         /\ Denoted(s, s.stack[j]) = Denoted(z, z.stack[j])
  <2>1. k \in 0..Len(z.stack)  OBVIOUS
  <2> QED  BY <2>1, FetchedParts, Zenon
<1> HIDE DEF s
<1>2. /\ Good(f) /\ Same(s, f) /\ Len(f.stack) = Len(s.stack) /\ NoFlags(f)
      /\ \A j \in 1..(Len(s.stack) - 1) :
           ~(f.stack[j].mode = LocalPlace(i).mode /\ f.stack[j].n = LocalPlace(i).n)
  BY <1>1, KeptIs, Zenon
<1> HIDE DEF f
<1>3. /\ Len(f.stack) = k /\ f.pages = s.pages
      /\ \A j \in 1..k : f.stack[j].type = s.stack[j].type
                         /\ Denoted(f, f.stack[j]) = Denoted(s, s.stack[j])
      /\ \A j \in DOMAIN LocalTypes : Denoted(f, Home(j)) = Denoted(s, Home(j))
      /\ \A j \in 1..(k - 1) :
           ~(f.stack[j].mode = LocalPlace(i).mode /\ f.stack[j].n = LocalPlace(i).n)
  BY <1>1, <1>2, Zenon DEF Same
<1>4. k \in 1..k  OBVIOUS
<1>5. f.stack[k].type = LocalTypes[i]  BY <1>1, <1>3, <1>4, Zenon
<1>6. /\ Good(x) /\ x.stack = f.stack /\ x.pages = f.pages
      /\ \A j \in 1..k : Denoted(x, x.stack[j]) = Denoted(f, f.stack[j])
      /\ Denoted(x, Home(i)) = Denoted(f, f.stack[k])
      /\ \A j \in DOMAIN LocalTypes : j # i => Denoted(x, Home(j)) = Denoted(f, Home(j))
  BY <1>2, <1>3, <1>5, WrittenIs, Zenon
<1> HIDE DEF x
<1>7. FlagsTop(x)
  <2>1. NoFlags(x)  BY <1>2, <1>6, Zenon DEF NoFlags
  <2> QED  BY <2>1, Zenon DEF NoFlags, FlagsTop
<1>8. \A j \in DOMAIN LocalTypes : Denoted(s, Home(j)) = Denoted(z, Home(j))
  BY <1>1, Zenon DEF Agrees
<1>9. \A j \in 1..k :
        x.stack[j].type = z.stack[j].type /\ Denoted(x, x.stack[j]) = Denoted(z, z.stack[j])
  BY <1>1, <1>3, <1>6, Zenon
<1>10. Denoted(x, Home(i)) = Denoted(z, z.stack[k])  BY <1>1, <1>3, <1>4, <1>6, Zenon
<1>11. \A j \in DOMAIN LocalTypes : j # i => Denoted(x, Home(j)) = Denoted(z, Home(j))
  BY <1>3, <1>6, <1>8, Zenon
<1> QED  BY <1>1, <1>3, <1>6, <1>7, <1>9, <1>10, <1>11, Zenon DEF Sets, x, f, s

LEMMA LocalSetIs ==
  ASSUME NEW z, Good(z), FlagsTop(z), NEW k \in Nat, Len(z.stack) = k + 1,
         NEW i \in DOMAIN LocalTypes, z.stack[k + 1].type = LocalTypes[i]
  PROVE  Sets(z, Pop(Written(Kept(Fetched(z), i), i), 1), k, i, Denoted(z, z.stack[k + 1]))
<1> DEFINE y == Written(Kept(Fetched(z), i), i)
           x == Pop(y, 1)
           v == Denoted(z, z.stack[k + 1])
<1>1. Sets(z, y, k + 1, i, v)
  <2>1. k + 1 \in Nat \ {0}  OBVIOUS
  <2> QED  BY <2>1, LocalTeeIs, Zenon
<1> HIDE DEF y
<1>2. /\ Good(y) /\ FlagsTop(y) /\ Len(y.stack) = k + 1 /\ y.pages = z.pages
      /\ \A j \in 1..(k + 1) :
           y.stack[j].type = z.stack[j].type /\ Denoted(y, y.stack[j]) = Denoted(z, z.stack[j])
      /\ Denoted(y, Home(i)) = v
      /\ \A j \in DOMAIN LocalTypes : j # i => Denoted(y, Home(j)) = Denoted(z, Home(j))
  BY <1>1, Zenon DEF Sets
<1>3. 1 \in 0..Len(y.stack) /\ Len(y.stack) - 1 = k /\ \A j \in 1..k : j \in 1..(k + 1)
  BY <1>2
<1>4. Good(x) /\ Len(x.stack) = Len(y.stack) - 1 /\ Agrees(y, x, Len(y.stack) - 1)
      /\ FlagsTop(x)
  BY <1>2, <1>3, PopIs, Zenon
<1> HIDE DEF x, v
<1>5. /\ Len(x.stack) = k /\ x.pages = y.pages
      /\ \A j \in 1..k : x.stack[j].type = y.stack[j].type
                         /\ Denoted(x, x.stack[j]) = Denoted(y, y.stack[j])
      /\ \A j \in DOMAIN LocalTypes : Denoted(x, Home(j)) = Denoted(y, Home(j))
  BY <1>3, <1>4, Zenon DEF Agrees
<1> QED  BY <1>2, <1>3, <1>4, <1>5, Zenon DEF Sets, x, y, v

(* Loading the topmost operand only saves others.                          *)
LEMMA LoadRegBelow ==
  ASSUME NEW s, Good(s), NEW n \in Nat \ {0}, Len(s.stack) = n, NEW k \in {n - 1, n},
         NEW j \in 1..(n - 1)
  PROVE  LET x == LoadReg(s, n, k)
         IN  /\ InReg(x.stack[j]) => x.stack[j] = s.stack[j]
             /\ s.stack[j].mode = "frame" /\ s.stack[j].n = s.stack[j].at =>
                  x.stack[j] = s.stack[j]
<1> DEFINE r == FreeReg(s, k)
           f == Freed(s, k)
           x == LoadReg(s, n, k)
           e == Moved(f.stack[n], "reg", r)
<1>1. s \in Machines /\ k \in 0..Len(s.stack) /\ n \in 1..n /\ j \in 1..n /\ j # n
  BY DEF Good
<1>2. Saves(s, f, Holders(s, r, k))  BY <1>1, FreedIs, Zenon
<1>3. \/ x = s
      \/ x = [f EXCEPT !.scratch[r] = Denoted(f, f.stack[n]), !.stack[n] = Moved(@, "reg", r)]
  BY Zenon DEF LoadReg
<1>4. f \in Machines /\ Len(f.stack) = n  BY <1>1, <1>2, SavesFlags, Zenon
<1>5. /\ InReg(f.stack[j]) => f.stack[j] = s.stack[j]
      /\ s.stack[j].mode = "frame" /\ s.stack[j].n = s.stack[j].at => f.stack[j] = s.stack[j]
  BY <1>1, <1>2, SavesInReg, Zenon
<1>6. n \in DOMAIN f.stack /\ DOMAIN f.stack = 1..n  BY <1>1, <1>4, Parts
<1>7. x = s \/ x.stack = [f.stack EXCEPT ![n] = e]  BY <1>3, <1>4 DEF Machines
<1> HIDE DEF e, x, f, r
<1>8. CASE x = s  BY <1>8, Zenon DEF x
<1>9. CASE x.stack = [f.stack EXCEPT ![n] = e]
  <2>1. x.stack[j] = f.stack[j]  BY <1>1, <1>6, <1>9
  <2> QED  BY <1>5, <2>1, Zenon DEF x
<1> QED  BY <1>7, <1>8, <1>9

(* The topmost operands are replaced by what the flags are set to.         *)
Flagged(s, v) == [s EXCEPT !.flag = v]

LEMMA FlagResult ==
  ASSUME NEW z, NEW s, Good(s), FlagsTop(s), NEW k \in Nat, NEW j \in {1, 2},
         Len(s.stack) = k + j, Agrees(z, s, k), NEW v \in {0, 1, Junk}
  PROVE  Leads(z, Push(Pop(Flagged(s, v), j), "i32", "flag", 1), k, "i32", v)
<1> DEFINE g == Flagged(s, v)
           x == Pop(g, j)
           d == Fresh(x, "i32", "flag", 1)
<1>1. /\ g.stack = s.stack /\ g.frame = s.frame /\ g.scratch = s.scratch /\ g.local = s.local
      /\ g.pages = s.pages /\ g.flag = v /\ g \in Machines /\ s \in Machines
  BY DEF Good, Machines, Flagged
<1> HIDE DEF g
<1>2. Good(g)  BY <1>1 DEF Good
<1>3. FlagsTop(g) /\ j # 0
  <2>1. j # 0  OBVIOUS
  <2> QED  BY <1>1, <2>1, Zenon DEF FlagsTop
<1>4. /\ j \in 0..Len(g.stack) /\ Len(g.stack) - j = k /\ k \in 0..Len(s.stack)
      /\ \A i \in 1..k : i \in 1..Len(s.stack) /\ i # Len(s.stack)
  BY <1>1
<1>5. Agrees(s, g, k)
  <2>1. \A i \in 1..k : s.stack[i].mode # "flag"  BY <1>4, Zenon DEF FlagsTop
  <2>2. \A i \in 1..k : InReg(s.stack[i]) => s.stack[i].n \in Regs
    BY <1>4 DEF Good, Described, Readable, InReg
  <2>3. Spared(s, g, k, 1)  BY <1>1, <1>4, <2>1, <2>2, Zenon DEF Spared
  <2> QED  BY <2>3, Untouched, Zenon
<1>6. /\ Good(x) /\ Len(x.stack) = k /\ Agrees(g, x, k) /\ x.flag = v /\ NoFlags(x)
  <2> HIDE DEF x
  <2>1. /\ Good(x) /\ Len(x.stack) = Len(g.stack) - j /\ Agrees(g, x, Len(g.stack) - j)
        /\ x.flag = g.flag
        /\ NoFlags(g) \/ (FlagsTop(g) /\ j # 0) => NoFlags(x)
    BY <1>2, <1>4, PopIs, Zenon DEF x
  <2> QED  BY <1>1, <1>3, <1>4, <2>1, Zenon
<1> HIDE DEF x
<1>7. Agrees(z, x, k)
  <2>1. Agrees(z, g, k)  BY <1>5, AgreesTrans, Zenon
  <2> QED  BY <1>6, <2>1, AgreesTrans, Zenon
<1>8. k < MaxStack
  <2>1. Len(s.stack) <= MaxStack /\ MaxStack \in Nat  BY StackValuesAssumption DEF Good
  <2> QED  BY <2>1
<1>9. d.mode = "flag" /\ d.n = 1  BY DEF Fresh
<1> HIDE DEF d
<1>10. Readable(x.scratch, d) /\ Homed(d)  BY <1>9 DEF Readable, Homed
<1>11. Denoted(x, d) = v  BY <1>6, <1>9, DenotedIs
<1>12. Pushable(x, k, "i32", "flag", 1)
  BY <1>6, <1>8, <1>10 DEF Pushable, d, Types
<1>13. Leads(z, Push(x, "i32", "flag", 1), k, "i32", v)
  BY <1>6, <1>7, <1>11, <1>12, PushLeads, Zenon DEF d
<1> QED  BY <1>13, Zenon DEF x, g

Zero01(v) == IF v = Junk THEN Junk ELSE IF v = 0 THEN 1 ELSE 0

(* A comparison on top of the stack is negated in place.                   *)
LEMMA FlippedIs ==
  ASSUME NEW z, Good(z), FlagsTop(z), NEW k \in Nat, Len(z.stack) = k + 1,
         z.stack[k + 1].mode = "flag"
  PROVE  Leads(z, [z EXCEPT !.stack[k + 1].n = 1 - @], k, "i32",
               Zero01(Denoted(z, z.stack[k + 1])))
<1> DEFINE d == z.stack[k + 1]
           e == [d EXCEPT !.n = 1 - @]
           q == [z.stack EXCEPT ![k + 1] = e]
           y == [z EXCEPT !.stack[k + 1].n = 1 - @]
<1>1. /\ z \in Machines /\ z.stack \in Seq(Operands) /\ k + 1 \in 1..Len(z.stack)
      /\ d \in Operands /\ d.n \in Nat /\ z.flag \in {0, 1, Junk}
      /\ Described(z.stack, z.scratch) /\ Apart(z.stack) /\ Len(z.stack) <= MaxStack
      /\ \A i \in 1..k : i \in 1..Len(z.stack) /\ i # k + 1
  BY Parts DEF Good
<1>2. d.n \in {0, 1} /\ d.type = "i32"
  BY <1>1 DEF Described, Readable, FlagsTop
<1>3. y = [z EXCEPT !.stack = q]  OBVIOUS
<1>4. e.n = 1 - d.n /\ e.mode = "flag" /\ e.type = "i32" /\ e.at = d.at /\ e \in Operands
  BY <1>1, <1>2 DEF Operands
<1>5. Len(q) = Len(z.stack) /\ q \in Seq(Operands) /\ q[k + 1] = e
      /\ \A i \in 1..Len(z.stack) : i # k + 1 => q[i] = z.stack[i]
  BY <1>1, <1>4
<1> HIDE DEF q, e
<1>6. /\ y.stack = q /\ y.scratch = z.scratch /\ y.frame = z.frame /\ y.flag = z.flag
      /\ y.local = z.local /\ y.pages = z.pages /\ y \in Machines
  BY <1>1, <1>3, <1>5 DEF Machines
<1> HIDE DEF y
<1>7. Described(q, z.scratch)
  <2> SUFFICES ASSUME NEW i \in 1..Len(z.stack)
      PROVE Readable(z.scratch, q[i]) /\ Homed(q[i]) /\ Placeable(q[i].at, i)
    BY <1>5, Zenon DEF Described
  <2>1. Readable(z.scratch, z.stack[i]) /\ Homed(z.stack[i]) /\ Placeable(z.stack[i].at, i)
    BY <1>1, Zenon DEF Described
  <2>2. CASE i # k + 1  BY <1>5, <2>1, <2>2, Zenon
  <2>3. CASE i = k + 1
    <3>1. q[i] = e /\ q[i].at = z.stack[i].at  BY <1>4, <1>5, <2>3, Zenon
    <3>2. Readable(z.scratch, e) /\ Homed(e)  BY <1>2, <1>4 DEF Readable, Homed
    <3> QED  BY <2>1, <3>1, <3>2, Zenon
  <2> QED  BY <2>2, <2>3
<1>8. Apart(q)
  <2>1. \A i \in 1..Len(z.stack) :
          /\ q[i].at = z.stack[i].at /\ q[i].type = z.stack[i].type
          /\ InReg(q[i]) => InReg(z.stack[i]) /\ q[i].n = z.stack[i].n
    BY <1>2, <1>4, <1>5 DEF InReg
  <2> SUFFICES ASSUME NEW i \in 1..Len(z.stack), NEW j \in 1..Len(z.stack)
      PROVE  /\ i < j => q[i].at + Size(q[i].type) <= q[j].at
             /\ i # j /\ InReg(q[i]) /\ InReg(q[j]) => q[i].n # q[j].n
    BY <1>5, Zenon DEF Apart
  <2>2. /\ i < j => z.stack[i].at + Size(z.stack[i].type) <= z.stack[j].at
        /\ i # j /\ InReg(z.stack[i]) /\ InReg(z.stack[j]) => z.stack[i].n # z.stack[j].n
    BY <1>1, Zenon DEF Apart
  <2> QED  BY <2>1, <2>2, Zenon
<1>9. Good(y)  BY <1>1, <1>5, <1>6, <1>7, <1>8 DEF Good
<1>10. FlagsTop(y)
  <2>1. \A i \in 1..Len(z.stack) : q[i].mode = z.stack[i].mode /\ q[i].type = z.stack[i].type
    BY <1>2, <1>4, <1>5
  <2> QED  BY <1>5, <1>6, <2>1, Zenon DEF FlagsTop
<1>11. Agrees(z, y, k)
  <2>1. k \in 0..Len(z.stack)  BY <1>1
  <2>2. \A i \in 1..k : InReg(z.stack[i]) => z.stack[i].n \in Regs
    BY <1>1 DEF Described, Readable, InReg
  <2>3. \A i \in 1..k : y.stack[i] = z.stack[i]  BY <1>1, <1>5, <1>6, Zenon
  <2>4. Spared(z, y, k, 1)  BY <1>1, <1>6, <2>1, <2>2, <2>3, Zenon DEF Spared
  <2> QED  BY <2>4, Untouched, Zenon
<1>12. Denoted(y, e) = Zero01(Denoted(z, d))
  <2>1. Denoted(y, e) = IF z.flag = Junk THEN Junk ELSE IF e.n = 1 THEN z.flag ELSE 1 - z.flag
    BY <1>4, <1>6, DenotedIs
  <2>2. Denoted(z, d) = IF z.flag = Junk THEN Junk ELSE IF d.n = 1 THEN z.flag ELSE 1 - z.flag
    BY DenotedIs
  <2> HIDE DEF d
  <2> QED  BY <1>1, <1>2, <1>4, <2>1, <2>2 DEF Zero01, Junk
<1>13. y.stack[k + 1] = e /\ Len(y.stack) = k + 1 /\ e.type = "i32"
  BY <1>4, <1>5, <1>6, Zenon
<1>14. Leads(z, y, k, "i32", Zero01(Denoted(z, d)))
  <2> HIDE DEF d
  <2>1. Leads(z, y, k, "i32", Denoted(y, e))  BY <1>9, <1>10, <1>11, <1>13, Zenon DEF Leads
  <2> QED  BY <1>12, <2>1
<1> QED  BY <1>14, Zenon DEF y

LEMMA EqzIs ==
  ASSUME NEW z, Good(z), FlagsTop(z), NEW k \in Nat, Len(z.stack) = k + 1
  PROVE  LET v == Zero01(Denoted(z, z.stack[k + 1]))
         IN  Leads(z, IF z.stack[k + 1].mode = "flag" THEN [z EXCEPT !.stack[k + 1].n = 1 - @]
                      ELSE Push(Pop(Flagged(z, v), 1), "i32", "flag", 1),
                   k, "i32", v)
<1> DEFINE v == Zero01(Denoted(z, z.stack[k + 1]))
<1>1. CASE z.stack[k + 1].mode = "flag"  BY <1>1, FlippedIs, Zenon
<1>2. CASE z.stack[k + 1].mode # "flag"
  <2>1. v \in {0, 1, Junk} /\ 1 \in {1, 2}  BY DEF Zero01
  <2>2. Agrees(z, z, k)
    <3>1. Same(z, z)  BY SameSelf, Zenon
    <3>2. Len(z.stack) \in Nat /\ k \in 0..Len(z.stack)  OBVIOUS
    <3> QED  BY <3>1, <3>2, SameAgrees, Zenon
  <2> HIDE DEF v
  <2>3. Leads(z, Push(Pop(Flagged(z, v), 1), "i32", "flag", 1), k, "i32", v)
    BY <2>1, <2>2, FlagResult, Zenon
  <2> QED  BY <1>2, <2>3, Zenon DEF v
<1> QED  BY <1>1, <1>2

(* The operands that a signature takes.                                    *)
Taken(z, types, m) ==
  /\ m = Len(z.stack) - Len(types) /\ Len(z.stack) >= Len(types)
  /\ TopTypes(z, Len(types)) = types
Split(z, types, m) ==
  /\ m \in Nat /\ Len(z.stack) = m + Len(types) /\ Len(types) \in Nat
  /\ DOMAIN types = 1..Len(types)
  /\ \A k \in 1..Len(types) : z.stack[m + k].type = types[k]

LEMMA TakenIs ==
  ASSUME NEW z, Good(z), NEW types \in Seq(Types), NEW m, Taken(z, types, m)
  PROVE  Split(z, types, m)
<1>1. Len(z.stack) \in Nat /\ Len(types) \in Nat /\ DOMAIN types = 1..Len(types)
  BY Parts DEF Good
<1>2. m \in Nat /\ Len(z.stack) = m + Len(types)  BY <1>1 DEF Taken
<1>3. ASSUME NEW k \in 1..Len(types)  PROVE z.stack[m + k].type = types[k]
  <2>1. types = [i \in 1..Len(types) |-> z.stack[m + i].type]
    BY Zenon DEF Taken, TopTypes, Depth
  <2> DEFINE T == [i \in 1..Len(types) |-> z.stack[m + i].type]
  <2>2. T[k] = z.stack[m + k].type  BY Zenon
  <2> HIDE DEF T
  <2> QED  BY <2>1, <2>2, Zenon DEF T
<1> QED  BY <1>1, <1>2, <1>3 DEF Split

(* A return leaves the locals and no operand.                              *)
LEMMA LeftIs ==
  ASSUME NEW z, Good(z)
  PROVE  Keeps(z, Settled([z EXCEPT !.stack = <<>>]), 0)
<1> DEFINE s == [z EXCEPT !.stack = <<>>]
<1>1. z \in Machines /\ MaxStack \in Nat  BY StackValuesAssumption DEF Good
<1>2. <<>> \in Seq(Operands) /\ Len(<<>>) = 0  OBVIOUS
<1>3. /\ s \in Machines /\ s.stack = <<>> /\ s.frame = z.frame /\ s.local = z.local
      /\ s.pages = z.pages /\ s.scratch = z.scratch
  BY <1>1, <1>2 DEF Machines
<1> HIDE DEF s
<1>4. Len(s.stack) = 0 /\ \A i : ~(i \in 1..Len(s.stack))  BY <1>2, <1>3
<1>5. Good(s)
  <2>1. Described(s.stack, s.scratch)  BY <1>4, Zenon DEF Described
  <2>2. Apart(s.stack)  BY <1>4, Zenon DEF Apart
  <2> QED  BY <1>1, <1>3, <1>4, <2>1, <2>2 DEF Good
<1>6. FlagsTop(s)  BY <1>4, Zenon DEF FlagsTop
<1>7. Agrees(z, s, 0)
  <2>1. 0 \in 0..Len(z.stack) /\ \A i : ~(i \in 1..0)  BY <1>1, Parts
  <2>2. Spared(z, s, 0, 0)  BY <1>1, <1>3, <2>1, Zenon DEF Spared
  <2> QED  BY <2>2, Untouched, Zenon
<1>8. Keeps(z, s, 0)  BY <1>4, <1>5, <1>6, <1>7, Zenon DEF Keeps
<1>9. 0 \in Nat  OBVIOUS
<1> QED  BY <1>8, <1>9, KeepsSettled, Zenon DEF s

(***************************************************************************)
(* The operands and the locals are what WebAssembly has.                   *)
(***************************************************************************)

LEMMA SequencesEqual ==
  ASSUME NEW S, NEW a \in Seq(S), NEW b \in Seq(S), Len(a) = Len(b),
         \A i \in 1..Len(a) : a[i] = b[i]
  PROVE  a = b
OBVIOUS

LEMMA PrefixIs ==
  ASSUME NEW S, NEW q \in Seq(S), NEW k \in 0..Len(q)
  PROVE  /\ SubSeq(q, 1, k) \in Seq(S) /\ Len(SubSeq(q, 1, k)) = k
         /\ \A i \in 1..k : SubSeq(q, 1, k)[i] = q[i]
OBVIOUS

(* What is left of q when all but its k first elements are replaced.       *)
Ends(q, k, new, r) ==
  /\ Len(r) = k + Len(new) /\ \A i \in 1..k : r[i] = q[i]
  /\ \A j \in 1..Len(new) : r[k + j] = new[j]

LEMMA EndsIs ==
  ASSUME NEW S, NEW q \in Seq(S), NEW k \in 0..Len(q), NEW new \in Seq(S), NEW r \in Seq(S),
         Ends(q, k, new, r)
  PROVE  r = SubSeq(q, 1, k) \o new
<1> DEFINE a == SubSeq(q, 1, k)
           b == a \o new
<1>1. a \in Seq(S) /\ Len(a) = k /\ \A i \in 1..k : a[i] = q[i]  BY PrefixIs
<1> HIDE DEF a
<1>2. /\ b \in Seq(S) /\ Len(b) = Len(a) + Len(new)
      /\ \A i \in 1..Len(a) : b[i] = a[i]
      /\ \A j \in 1..Len(new) : b[Len(a) + j] = new[j]
      /\ \A i \in 1..(Len(a) + Len(new)) :
           i \in 1..Len(a) \/ (i - Len(a) \in 1..Len(new) /\ b[i] = new[i - Len(a)])
  BY <1>1, ConcatIs
<1> HIDE DEF b
<1>3. k \in Nat /\ Len(new) \in Nat  OBVIOUS
<1>4. Len(r) = Len(b)  BY <1>1, <1>2 DEF Ends
<1>5. ASSUME NEW i \in 1..Len(r)  PROVE r[i] = b[i]
  <2>1. CASE i \in 1..k  BY <1>1, <1>2, <2>1 DEF Ends
  <2>2. CASE i \notin 1..k
    <3>1. i - k \in 1..Len(new) /\ b[i] = new[i - k]  BY <1>1, <1>2, <1>3, <1>4, <2>2
    <3>2. r[k + (i - k)] = new[i - k]  BY <3>1 DEF Ends
    <3>3. k + (i - k) = i  BY <1>3
    <3> QED  BY <3>1, <3>2, <3>3
  <2> QED  BY <2>1, <2>2
<1>6. r = b  BY <1>2, <1>4, <1>5, SequencesEqual
<1> QED  BY <1>6 DEF a, b

Homes(s) == [i \in DOMAIN LocalTypes |-> Denoted(s, Home(i))]
LEMMA HomesSame ==
  ASSUME NEW z, NEW y,
         \A i \in DOMAIN LocalTypes : Denoted(y, Home(i)) = Denoted(z, Home(i))
  PROVE  Homes(y) = Homes(z)
BY DEF Homes

LEMMA LayoutStart ==
  ASSUME NEW types \in Seq(Types), 1 \in DOMAIN types
  PROVE  Layout(0, types)[1] = 0
<1>1. types[1] \in Types /\ 0 \in Nat  OBVIOUS
<1>2. Layout(0, types)[1] = AlignUp(0, Size(types[1]))  BY <1>1, LayoutIs
<1>3. Size(types[1]) \in {1, 2}  BY <1>1, Sizes
<1>4. AlignUp(0, 1) = 0 /\ AlignUp(0, 2) = 0  BY DEF AlignUp
<1> QED  BY <1>2, <1>3, <1>4
=============================================================================
