------------------------- MODULE OperandStackProofs -------------------------
(***************************************************************************)
(* Proofs about OperandStack, for any types of parameters and locals, any  *)
(* callees and any number of registers.                                    *)
(***************************************************************************)
EXTENDS OperandStack, StackValuesProofs

LEMMA ValuesIn ==
  /\ Values \subseteq Loaded /\ Junk \in Loaded /\ {0, 1, Junk} \subseteq Loaded
  /\ \A x, y : Computed(x, y) \in Loaded
<1>1. Values \subseteq Loaded /\ Junk \in Loaded /\ {0, 1, Junk} \subseteq Loaded
  BY StackValuesAssumption DEF Loaded
<1>2. ASSUME NEW x, NEW y  PROVE Computed(x, y) \in Loaded
  <2>1. CASE x \in Values /\ y \in Values
    <3>1. Binop[x, y] \in Values  BY <2>1, OperandStackAssumption
    <3> QED  BY <1>1, <2>1, <3>1 DEF Computed
  <2>2. CASE ~(x \in Values /\ y \in Values)  BY <1>1, <2>2, Zenon DEF Computed
  <2> QED  BY <2>1, <2>2
<1> QED  BY <1>1, <1>2

(* The topmost operands are replaced by what a register is set to.         *)
RegisterFree(z, f, k, j, r, t) ==
  /\ Good(f) /\ FlagsTop(f)
  /\ k \in Nat /\ j \in {1, 2} /\ Len(f.stack) = k + j /\ Agrees(z, f, k)
  /\ r \in Regs /\ t \in Types /\ Free(f.stack, r, k)

LEMMA RegisterResult ==
  ASSUME NEW z, NEW f, NEW k, NEW j, NEW r, NEW t, RegisterFree(z, f, k, j, r, t),
         NEW v, v \in Loaded
  PROVE  Leads(z, Push(Pop(WithReg(f, r, v), j), t, "reg", r), k, t, v)
<1> DEFINE g == WithReg(f, r, v)
           s == Pop(g, j)
           d == Fresh(s, t, "reg", r)
<1>1. /\ Good(f) /\ FlagsTop(f)
      /\ k \in Nat /\ j \in {1, 2} /\ Len(f.stack) = k + j /\ Agrees(z, f, k)
      /\ r \in Regs /\ t \in Types /\ Free(f.stack, r, k)
  BY Zenon DEF RegisterFree
<1>2. k \in 0..Len(f.stack) /\ j \in 0..Len(f.stack) /\ Len(f.stack) - j = k
  BY <1>1
<1>3. /\ Good(g) /\ g.stack = f.stack /\ g.scratch[r] = v
      /\ \A i \in 0..Len(f.stack) : Free(f.stack, r, i) => Agrees(f, g, i)
  <2>1. v \in Loaded \cup {PagesAddress}  OBVIOUS
  <2>2. v \in Loaded \/ Free(f.stack, r, Len(f.stack))  OBVIOUS
  <2>3. Good(f) /\ r \in Regs  BY <1>1, Zenon
  <2> HIDE DEF g
  <2>4. /\ Good(g) /\ g.stack = f.stack /\ g.frame = f.frame /\ g.flag = f.flag
        /\ g.local = f.local /\ g.pages = f.pages /\ g.scratch[r] = v
        /\ \A q \in Regs : q # r => g.scratch[q] = f.scratch[q]
        /\ \A i \in 0..Len(f.stack) : Free(f.stack, r, i) => Agrees(f, g, i)
    BY <2>1, <2>2, <2>3, WriteIs, Zenon DEF g
  <2> QED  BY <2>4, Zenon
<1> HIDE DEF g
<1>4. FlagsTop(g) /\ j # 0
  <2>1. j # 0  BY <1>1
  <2> QED  BY <1>1, <1>3, <2>1, Zenon DEF NoFlags, FlagsTop
<1>5. /\ Good(s) /\ Len(s.stack) = k /\ Agrees(g, s, k) /\ s.scratch = g.scratch
      /\ \A i \in 1..k : s.stack[i] = g.stack[i]
      /\ NoFlags(s)
  <2>1. j \in 0..Len(g.stack) /\ Len(g.stack) - j = k  BY <1>2, <1>3, Zenon
  <2> HIDE DEF s
  <2>2. /\ Good(s) /\ Len(s.stack) = Len(g.stack) - j /\ Agrees(g, s, Len(g.stack) - j)
        /\ s.scratch = g.scratch
        /\ \A i \in 1..(Len(g.stack) - j) : s.stack[i] = g.stack[i]
        /\ NoFlags(g) \/ (FlagsTop(g) /\ j # 0) => NoFlags(s)
    BY <1>3, <2>1, PopIs, Zenon DEF s
  <2> QED  BY <1>4, <2>1, <2>2, Zenon
<1> HIDE DEF s
<1>6. Agrees(z, s, k)
  <2>1. Agrees(f, g, k)  BY <1>1, <1>2, <1>3, Zenon
  <2>2. Agrees(z, g, k)  BY <1>1, <2>1, AgreesTrans, Zenon
  <2> QED  BY <1>5, <2>2, AgreesTrans, Zenon
<1>7. k < MaxStack /\ r \in Nat
  <2>1. Len(f.stack) <= MaxStack /\ MaxStack \in Nat  BY <1>1, StackValuesAssumption DEF Good
  <2> QED  BY <1>1, <2>1, StackValuesAssumption DEF Regs
<1>8. d.mode = "reg" /\ d.n = r  BY DEF Fresh
<1> HIDE DEF d
<1>9. s.scratch[r] = v  BY <1>3, <1>5, Zenon
<1>10. Readable(s.scratch, d) /\ Homed(d)  BY <1>1, <1>8, <1>9 DEF Readable, Homed
<1>11. Denoted(s, d) = v  BY <1>8, <1>9, DenotedIs
<1>12. Free(s.stack, r, k)  BY <1>1, <1>3, <1>5, Zenon DEF Free
<1>13. Pushable(s, k, t, "reg", r)
  BY <1>1, <1>5, <1>7, <1>10, <1>12 DEF Pushable, d
<1>14. Leads(z, Push(s, t, "reg", r), k, t, v)
  BY <1>1, <1>5, <1>6, <1>11, <1>13, PushLeads, Zenon DEF d
<1> QED  BY <1>14, Zenon DEF s, g

LEMMA ArithmeticIs ==
  ASSUME NEW z, Good(z), FlagsTop(z), NEW k \in Nat, Len(z.stack) = k + 2
  PROVE  LET s == Fetched(z)
             r == FreeReg(s, k)
             f == Freed(s, k)
             v == Computed(Denoted(f, f.stack[k + 1]), Denoted(f, f.stack[k + 2]))
         IN  /\ Len(s.stack) = k + 2 /\ Len(f.stack) = k + 2
             /\ Leads(z, Push(Pop(WithReg(f, r, v), 2), f.stack[k + 2].type, "reg", r), k,
                      z.stack[k + 2].type,
                      Computed(Denoted(z, z.stack[k + 1]), Denoted(z, z.stack[k + 2])))
<1> DEFINE s == Fetched(z)
           r == FreeReg(s, k)
           f == Freed(s, k)
<1>1. /\ Good(s) /\ NoFlags(s) /\ s \in Machines /\ Len(s.stack) = Len(z.stack)
      /\ \A j \in 0..Len(z.stack) : Agrees(z, s, j)
      /\ \A i \in 1..Len(z.stack) :
           s.stack[i].type = z.stack[i].type /\ Denoted(s, s.stack[i]) = Denoted(z, z.stack[i])
  BY FetchedParts, Zenon
<1> HIDE DEF s
<1>2. /\ k \in 0..Len(s.stack) /\ k \in 0..Len(z.stack) /\ Len(s.stack) \in Nat
      /\ k + 1 \in 1..Len(s.stack) /\ k + 2 \in 1..Len(s.stack)
  BY <1>1
<1>3. r \in Regs /\ Saves(s, f, Holders(s, r, k)) /\ Free(f.stack, r, k)
  BY <1>1, <1>2, FreedIs, Zenon
<1> HIDE DEF r, f
<1>4. Good(f) /\ Same(s, f) /\ NoFlags(f) /\ Len(f.stack) = Len(s.stack)
  BY <1>1, <1>3, SavesFlags, Zenon DEF Saves
<1>5. Agrees(z, f, k)
  <2>1. Agrees(s, f, k)  BY <1>2, <1>4, SameAgrees, Zenon
  <2>2. Agrees(z, s, k)  BY <1>1, <1>2, Zenon
  <2> QED  BY <2>1, <2>2, AgreesTrans, Zenon
<1>6. \A i \in 1..Len(s.stack) :
        f.stack[i].type = z.stack[i].type /\ Denoted(f, f.stack[i]) = Denoted(z, z.stack[i])
  BY <1>1, <1>4, Zenon DEF Same
<1> DEFINE v == Computed(Denoted(f, f.stack[k + 1]), Denoted(f, f.stack[k + 2]))
<1>7. v = Computed(Denoted(z, z.stack[k + 1]), Denoted(z, z.stack[k + 2])) /\ v \in Loaded
      /\ f.stack[k + 2].type = z.stack[k + 2].type
  <2>1. Denoted(f, f.stack[k + 1]) = Denoted(z, z.stack[k + 1])
        /\ Denoted(f, f.stack[k + 2]) = Denoted(z, z.stack[k + 2])
        /\ f.stack[k + 2].type = z.stack[k + 2].type
    BY <1>2, <1>6, Zenon
  <2> QED  BY <2>1, ValuesIn, Zenon
<1> HIDE DEF v
<1> DEFINE t == f.stack[k + 2].type
<1>8. t \in Types
  <2>1. f \in Machines /\ k + 2 \in 1..Len(f.stack)  BY <1>2, <1>4 DEF Good
  <2> QED  BY <2>1, Parts
<1> HIDE DEF t
<1>9. RegisterFree(z, f, k, 2, r, t)
  <2>1. Len(f.stack) = k + 2 /\ 2 \in {1, 2} /\ k \in Nat  BY <1>1, <1>4
  <2>2. FlagsTop(f)  BY <1>4, Zenon DEF NoFlags, FlagsTop
  <2> QED  BY <1>3, <1>4, <1>5, <1>8, <2>1, <2>2, Zenon DEF RegisterFree
<1>10. Leads(z, Push(Pop(WithReg(f, r, v), 2), t, "reg", r), k, t, v)
  BY <1>7, <1>9, RegisterResult, Zenon
<1>11. Len(s.stack) = k + 2 /\ Len(f.stack) = k + 2  BY <1>1, <1>4, Zenon
<1> QED  BY <1>7, <1>10, <1>11, Zenon DEF s, r, f, v, t

(* An operand is brought into register r, unless it is taken to be there.  *)
Into(s, x, i, r) ==
  /\ Good(x) /\ Same(s, x) /\ Len(x.stack) = Len(s.stack)
  /\ NoFlags(s) => NoFlags(x)
  /\ \A q \in Regs : q # r => x.scratch[q] = s.scratch[q]
  /\ \A j \in 1..Len(s.stack) : InReg(x.stack[j]) => x.stack[j] = s.stack[j]
  /\ \A j \in 1..Len(s.stack) : j # i /\ InReg(x.stack[j]) => x.stack[j].n # r
  /\ s.stack[i].mode # "cell" => x.scratch[r] = Denoted(s, s.stack[i])

LEMMA IntoRegIs ==
  ASSUME NEW s, Good(s), NEW i \in 1..Len(s.stack), NEW r \in Regs
  PROVE  Into(s, IntoReg(s, i, r), i, r)
<1> DEFINE n == Len(s.stack)
           h == Holders(s, r, n)
           f == IF h = {} THEN s ELSE SaveStack(s, Min(h))
           x == IntoReg(s, i, r)
<1>1. /\ s \in Machines /\ n \in Nat /\ n \in 0..n /\ Depth(s) = n
      /\ \A j \in 1..n : /\ s.stack[j].mode \in {"imm", "frame", "local", "reg", "cell", "flag"}
                         /\ s.stack[j] \in Operands /\ Readable(s.scratch, s.stack[j])
  BY Parts DEF Good, Depth, Described
<1>2. Saves(s, f, h) /\ Free(f.stack, r, n)
  <2> HIDE DEF f, n
  <2> QED  BY <1>1, Evicts, Zenon DEF f, h, n
<1>3. /\ h \subseteq Nat
      /\ \A j : j \in h <=> (j \in 1..n /\ InReg(s.stack[j]) /\ s.stack[j].n = r)
  <2> HIDE DEF n
  <2> QED  BY <1>1, HoldersAre, Zenon DEF h
<1>4. x = IF h # {} /\ Min(h) = i THEN s ELSE WithReg(f, r, Denoted(f, f.stack[i]))
  BY <1>1, Zenon DEF IntoReg, WithReg, Depth
<1> HIDE DEF x, h, f
<1>5. CASE h # {} /\ Min(h) = i
  <2>1. i \in h  BY <1>3, <1>5, MinIs
  <2>2. InReg(s.stack[i]) /\ s.stack[i].n = r  BY <1>3, <2>1, Zenon
  <2>3. x = s  BY <1>4, <1>5, Zenon
  <2>4. Same(s, s)  BY SameSelf, Zenon
  <2>5. \A j \in 1..n : j # i /\ InReg(s.stack[j]) => s.stack[j].n # r
    BY <2>2 DEF Good, Apart
  <2>6. s.stack[i].mode # "cell" => s.scratch[r] = Denoted(s, s.stack[i])
    BY <2>2, DenotedIs DEF InReg
  <2>7. Into(s, s, i, r)  BY <2>4, <2>5, <2>6, Zenon DEF Into
  <2> QED  BY <2>3, <2>7, Zenon DEF x
<1>6. CASE ~(h # {} /\ Min(h) = i)
  <2> DEFINE v == Denoted(f, f.stack[i])
  <2>1. x = WithReg(f, r, v)  BY <1>4, <1>6, Zenon
  <2>2. Good(f) /\ Same(s, f) /\ f.scratch = s.scratch  BY <1>2, Zenon DEF Saves
  <2>3. /\ Len(f.stack) = n /\ (NoFlags(s) => NoFlags(f))
        /\ \A j \in 1..n : InReg(f.stack[j]) => f.stack[j] = s.stack[j]
    BY <1>1, <1>2, SavesFlags, SavesInReg, Zenon
  <2>4. v = Denoted(s, s.stack[i])  BY <2>2, Zenon DEF Same
  <2>5. v \in Loaded
    <3>1. s.stack[i] \in Operands /\ Readable(s.scratch, s.stack[i])  BY <1>1, Zenon
    <3> QED  BY <1>1, <2>4, <3>1, DenotedTyped, Zenon
  <2> HIDE DEF v
  <2>6. /\ Good(x) /\ x.stack = f.stack /\ x.frame = f.frame /\ x.flag = f.flag
        /\ x.local = f.local /\ x.pages = f.pages /\ x.scratch[r] = v
        /\ \A q \in Regs : q # r => x.scratch[q] = f.scratch[q]
        /\ \A k \in 0..Len(f.stack) : Free(f.stack, r, k) => Agrees(f, x, k)
    <3>1. v \in Loaded \cup {PagesAddress}  BY <2>5
    <3>2. v \in Loaded \/ Free(f.stack, r, Len(f.stack))  BY <2>5
    <3> DEFINE g == WithReg(f, r, v)
    <3>3. /\ Good(g) /\ g.stack = f.stack /\ g.frame = f.frame /\ g.flag = f.flag
          /\ g.local = f.local /\ g.pages = f.pages /\ g.scratch[r] = v
          /\ \A q \in Regs : q # r => g.scratch[q] = f.scratch[q]
          /\ \A k \in 0..Len(f.stack) : Free(f.stack, r, k) => Agrees(f, g, k)
      BY <2>2, <3>1, <3>2, WriteIs, Zenon
    <3> QED  BY <2>1, <3>3, Zenon
  <2>7. Same(s, x)
    <3>1. Agrees(f, x, n)  BY <1>1, <1>2, <2>3, <2>6, Zenon
    <3>2. Same(f, x)  BY <2>3, <2>6, <3>1, Zenon DEF Agrees, Same
    <3> QED  BY <2>2, <3>2, SameTrans, Zenon
  <2>8. NoFlags(s) => NoFlags(x)  BY <2>3, <2>6, Zenon DEF NoFlags
  <2>9. \A j \in 1..n : j # i /\ InReg(x.stack[j]) => x.stack[j].n # r
    BY <1>2, <2>6, Zenon DEF Free
  <2>10. /\ Len(x.stack) = n /\ x.scratch[r] = Denoted(s, s.stack[i])
         /\ \A q \in Regs : q # r => x.scratch[q] = s.scratch[q]
         /\ \A j \in 1..n : InReg(x.stack[j]) => x.stack[j] = s.stack[j]
    BY <2>2, <2>3, <2>4, <2>6, Zenon
  <2>11. Good(x)  BY <2>6
  <2>12. s.stack[i].mode # "cell" => x.scratch[r] = Denoted(s, s.stack[i])  BY <2>10
  <2> QED  BY <2>7, <2>8, <2>9, <2>10, <2>11, <2>12, Zenon DEF Into, x
<1> QED  BY <1>5, <1>6, Zenon DEF x

(* Fetching the flags leaves no operand in memory that was not there.      *)
LEMMA FetchedCells ==
  ASSUME NEW z, Good(z), NEW j \in 1..Len(z.stack), Fetched(z).stack[j].mode = "cell"
  PROVE  z.stack[j].mode = "cell"
<1> DEFINE n == Len(z.stack)
           x == LoadReg(z, n, n)
<1>1. n \in Nat \ {0} /\ n \in {n - 1, n}  BY Parts DEF Good
<1>2. Fetched(z) = z \/ Fetched(z) = x  BY Zenon DEF Fetched, Depth
<1>3. x.stack[n].mode \in {"reg", "local"}  BY <1>1, LoadRegIs
<1>4. \A i \in 1..(n - 1) : InReg(x.stack[i]) => x.stack[i] = z.stack[i]
  BY <1>1, LoadRegBelow, Zenon
<1> HIDE DEF x
<1>5. j \in 1..(n - 1) \/ j = n  BY <1>1
<1>6. ASSUME x.stack[j].mode = "cell"  PROVE z.stack[j].mode = "cell"
  <2>1. j # n /\ InReg(x.stack[j])  BY <1>3, <1>6 DEF InReg
  <2>2. x.stack[j] = z.stack[j]  BY <1>4, <1>5, <2>1, Zenon
  <2> QED  BY <1>6, <2>2, Zenon
<1>7. CASE Fetched(z) = z  BY <1>7
<1>8. CASE Fetched(z) = x
  <2>1. x.stack[j].mode = "cell"  BY <1>8
  <2> QED  BY <1>6, <2>1
<1> QED  BY <1>2, <1>7, <1>8

LEMMA DivideIs ==
  ASSUME NEW z, Good(z), FlagsTop(z), NEW k \in Nat, Len(z.stack) = k + 2
  PROVE  LET s == Fetched(z)
             f == IntoReg(IntoReg(Freed(s, k), k + 1, 1), k + 2, 2)
             w == Computed(f.scratch[1], f.scratch[2])
         IN  /\ Len(s.stack) = k + 2 /\ Len(f.stack) = k + 2
             /\ Leads(z, Push(Pop(WithReg(f, 1, w), 2), f.stack[k + 2].type, "reg", 1), k,
                      z.stack[k + 2].type, w)
             /\ z.stack[k + 1].mode # "cell" /\ z.stack[k + 2].mode # "cell" =>
                  w = Computed(Denoted(z, z.stack[k + 1]), Denoted(z, z.stack[k + 2]))
<1> DEFINE s == Fetched(z)
           r == FreeReg(s, k)
           e == Freed(s, k)
           g == IntoReg(e, k + 1, 1)
           f == IntoReg(g, k + 2, 2)
           w == Computed(f.scratch[1], f.scratch[2])
           t == f.stack[k + 2].type
<1>1. /\ Good(s) /\ NoFlags(s) /\ s \in Machines /\ Len(s.stack) = Len(z.stack)
      /\ \A j \in 0..Len(z.stack) : Agrees(z, s, j)
      /\ \A i \in 1..Len(z.stack) :
           s.stack[i].type = z.stack[i].type /\ Denoted(s, s.stack[i]) = Denoted(z, z.stack[i])
  BY FetchedParts, Zenon
<1>2. \A j \in 1..Len(z.stack) : s.stack[j].mode = "cell" => z.stack[j].mode = "cell"
  BY FetchedCells, Zenon
<1> HIDE DEF s
<1>3. /\ k \in 0..Len(s.stack) /\ k \in 0..Len(z.stack) /\ Len(s.stack) = k + 2
      /\ k + 1 \in 1..(k + 2) /\ k + 2 \in 1..(k + 2) /\ k + 1 # k + 2 /\ k + 2 \in Nat
      /\ \A j \in 1..k : j \in 1..(k + 2) /\ j # k + 1 /\ j # k + 2
  BY <1>1
<1>4. 1 \in Regs /\ 2 \in Regs
  <2>1. Scratch \in Nat \ {0, 1}  BY StackValuesAssumption
  <2> QED  BY <2>1 DEF Regs
<1>5. r \in Regs /\ Saves(s, e, Holders(s, r, k))
  BY <1>1, <1>3, FreedIs, Zenon
<1> HIDE DEF r
<1>6. /\ Good(e) /\ Same(s, e) /\ NoFlags(e) /\ Len(e.stack) = k + 2
      /\ \A j \in 1..(k + 2) : InReg(e.stack[j]) => e.stack[j] = s.stack[j]
  <2>1. Good(e) /\ Same(s, e)  BY <1>5, Zenon DEF Saves
  <2>2. NoFlags(e) /\ Len(e.stack) = Len(s.stack)  BY <1>1, <1>5, SavesFlags, Zenon
  <2>3. \A j \in 1..Len(s.stack) : InReg(e.stack[j]) => e.stack[j] = s.stack[j]
    BY <1>1, <1>5, SavesInReg, Zenon
  <2> QED  BY <1>3, <2>1, <2>2, <2>3, Zenon
<1> HIDE DEF e
<1>7. Into(e, g, k + 1, 1)  BY <1>3, <1>4, <1>6, IntoRegIs, Zenon
<1> HIDE DEF g
<1>8. /\ Good(g) /\ Same(e, g) /\ Len(g.stack) = k + 2 /\ NoFlags(g)
      /\ \A j \in 1..(k + 2) : InReg(g.stack[j]) => g.stack[j] = e.stack[j]
      /\ \A j \in 1..(k + 2) : j # k + 1 /\ InReg(g.stack[j]) => g.stack[j].n # 1
      /\ e.stack[k + 1].mode # "cell" => g.scratch[1] = Denoted(e, e.stack[k + 1])
  BY <1>6, <1>7, Zenon DEF Into
<1>9. Into(g, f, k + 2, 2)  BY <1>3, <1>4, <1>8, IntoRegIs, Zenon
<1> HIDE DEF f
<1>10. /\ Good(f) /\ Same(g, f) /\ Len(f.stack) = k + 2 /\ NoFlags(f)
       /\ \A q \in Regs : q # 2 => f.scratch[q] = g.scratch[q]
       /\ \A j \in 1..(k + 2) : InReg(f.stack[j]) => f.stack[j] = g.stack[j]
       /\ g.stack[k + 2].mode # "cell" => f.scratch[2] = Denoted(g, g.stack[k + 2])
  BY <1>8, <1>9, Zenon DEF Into
<1>11. Free(f.stack, 1, k)  BY <1>3, <1>8, <1>10, Zenon DEF Free
<1>12. Same(s, f)  BY <1>6, <1>8, <1>10, SameTrans, Zenon
<1>13. Agrees(z, f, k)
  <2>1. Agrees(s, f, k)
    <3>1. Len(s.stack) \in Nat  BY <1>3, Zenon
    <3> QED  BY <1>3, <1>12, <3>1, SameAgrees, Zenon
  <2>2. Agrees(z, s, k)  BY <1>1, <1>3, Zenon
  <2> QED  BY <2>1, <2>2, AgreesTrans, Zenon
<1>14. t = z.stack[k + 2].type
  <2>1. k + 2 \in 1..Len(z.stack) /\ k + 2 \in 1..Len(s.stack)  BY <1>3
  <2>2. f.stack[k + 2].type = s.stack[k + 2].type  BY <1>12, <2>1, Zenon DEF Same
  <2> QED  BY <1>1, <2>1, <2>2, Zenon
<1>15. t \in Types
  <2>1. f \in Machines /\ k + 2 \in 1..Len(f.stack)  BY <1>3, <1>10, Zenon DEF Good
  <2> QED  BY <2>1, Parts
<1>16. RegisterFree(z, f, k, 2, 1, t)
  <2>1. 2 \in {1, 2} /\ k \in Nat  OBVIOUS
  <2>2. FlagsTop(f)  BY <1>10, Zenon DEF NoFlags, FlagsTop
  <2> HIDE DEF t
  <2> QED  BY <1>4, <1>10, <1>11, <1>13, <1>15, <2>1, <2>2, Zenon DEF RegisterFree
<1>17. w \in Loaded  BY ValuesIn, Zenon
<1>18. ASSUME z.stack[k + 1].mode # "cell", z.stack[k + 2].mode # "cell"
       PROVE  w = Computed(Denoted(z, z.stack[k + 1]), Denoted(z, z.stack[k + 2]))
  <2>1. k + 1 \in 1..Len(z.stack) /\ k + 2 \in 1..Len(z.stack)  BY <1>3
  <2>2. s.stack[k + 1].mode # "cell" /\ s.stack[k + 2].mode # "cell"
    BY <1>2, <1>18, <2>1, Zenon
  <2>3. e.stack[k + 1].mode # "cell" /\ e.stack[k + 2].mode # "cell"
    <3>1. \A j \in 1..(k + 2) : e.stack[j].mode = "cell" => e.stack[j] = s.stack[j]
      BY <1>6 DEF InReg
    <3> QED  BY <1>3, <2>2, <3>1, Zenon
  <2>4. g.stack[k + 2].mode # "cell"
    <3>1. \A j \in 1..(k + 2) : g.stack[j].mode = "cell" => g.stack[j] = e.stack[j]
      BY <1>8 DEF InReg
    <3> QED  BY <1>3, <2>3, <3>1, Zenon
  <2>5. f.scratch[1] = Denoted(e, e.stack[k + 1]) /\ f.scratch[2] = Denoted(g, g.stack[k + 2])
    <3>1. 1 # 2  OBVIOUS
    <3> QED  BY <1>4, <1>8, <1>10, <2>3, <2>4, <3>1, Zenon
  <2>6. Denoted(e, e.stack[k + 1]) = Denoted(z, z.stack[k + 1])
    BY <1>1, <1>3, <1>6, <2>1, Zenon DEF Same
  <2>7. Denoted(g, g.stack[k + 2]) = Denoted(z, z.stack[k + 2])
    <3>1. Same(s, g)  BY <1>6, <1>8, SameTrans, Zenon
    <3> QED  BY <1>1, <1>3, <2>1, <3>1, Zenon DEF Same
  <2> QED  BY <2>5, <2>6, <2>7, Zenon
<1> HIDE DEF w
<1>19. Leads(z, Push(Pop(WithReg(f, 1, w), 2), t, "reg", 1), k, t, w)
  BY <1>16, <1>17, RegisterResult, Zenon
<1> QED  BY <1>3, <1>10, <1>14, <1>18, <1>19, Zenon DEF s, e, g, f, w, t

Less01(x, y) == IF x \in Values /\ y \in Values THEN (IF x < y THEN 1 ELSE 0) ELSE Junk

LEMMA CompareIs ==
  ASSUME NEW z, Good(z), FlagsTop(z), NEW k \in Nat, Len(z.stack) = k + 2
  PROVE  LET s == Fetched(z)
             v == Less01(Denoted(s, s.stack[k + 1]), Denoted(s, s.stack[k + 2]))
         IN  /\ Len(s.stack) = k + 2
             /\ Leads(z, Push(Pop(Flagged(s, v), 2), "i32", "flag", 1), k, "i32", v)
             /\ v = Less01(Denoted(z, z.stack[k + 1]), Denoted(z, z.stack[k + 2]))
<1> DEFINE s == Fetched(z)
           v == Less01(Denoted(s, s.stack[k + 1]), Denoted(s, s.stack[k + 2]))
<1>1. /\ Good(s) /\ FlagsTop(s) /\ Len(s.stack) = Len(z.stack)
      /\ \A j \in 0..Len(z.stack) : Agrees(z, s, j)
      /\ \A i \in 1..Len(z.stack) : Denoted(s, s.stack[i]) = Denoted(z, z.stack[i])
  BY FetchedParts, Zenon
<1> HIDE DEF s
<1>2. /\ k \in 0..Len(z.stack) /\ k + 1 \in 1..Len(z.stack) /\ k + 2 \in 1..Len(z.stack)
      /\ 2 \in {1, 2}
  OBVIOUS
<1>3. v \in {0, 1, Junk}  BY DEF Less01
<1>4. v = Less01(Denoted(z, z.stack[k + 1]), Denoted(z, z.stack[k + 2]))
  BY <1>1, <1>2, Zenon
<1> HIDE DEF v
<1>5. Len(s.stack) = k + 2 /\ Agrees(z, s, k)  BY <1>1, <1>2, Zenon
<1>6. Leads(z, Push(Pop(Flagged(s, v), 2), "i32", "flag", 1), k, "i32", v)
  BY <1>1, <1>2, <1>3, <1>5, FlagResult, Zenon
<1> QED  BY <1>4, <1>5, <1>6, Zenon DEF s, v

(* What an operand in its own place is overwritten by.                     *)
Overwritten(s, i, v) == [s EXCEPT !.frame = Put(@, s.stack[i].at, s.stack[i].type, v)]

LEMMA OverwrittenIs ==
  ASSUME NEW s, Good(s), NEW i \in 1..Len(s.stack), s.stack[i].mode = "frame",
         s.stack[i].n = s.stack[i].at, NEW v \in Loaded
  PROVE  LET x == Overwritten(s, i, v)
         IN  /\ Good(x) /\ x.stack = s.stack /\ x.pages = s.pages
             /\ Denoted(x, x.stack[i]) = v
             /\ \A j \in 1..Len(s.stack) : j # i => Denoted(x, x.stack[j]) = Denoted(s, s.stack[j])
             /\ \A k \in DOMAIN LocalTypes : Denoted(x, Home(k)) = Denoted(s, Home(k))
<1> DEFINE a == s.stack[i].at
           t == s.stack[i].type
           g == Put(s.frame, a, t, v)
           x == Overwritten(s, i, v)
<1>1. /\ s \in Machines /\ s.frame \in Frames /\ a \in Nat /\ t \in Types
      /\ \A j \in 1..Len(s.stack) :
           /\ s.stack[j].n \in Nat /\ s.stack[j].type \in Types
           /\ s.stack[j].mode \in {"imm", "frame", "local", "reg", "cell", "flag"}
  BY Parts DEF Good
<1>2. a + Size(t) <= FrameWords  BY PlacesBeside
<1>3. x = [s EXCEPT !.frame = g]  BY Zenon DEF Overwritten
<1>4. g \in Frames
  <2> HIDE DEF a, t
  <2> QED  BY <1>1, PutTyped
<1>5. Get(g, a, t) = v
  <2> HIDE DEF a, t
  <2> QED  BY <1>1, <1>2, GetPut
<1>6. \A b \in Nat, u \in Types :
        b + Size(u) <= FrameWords /\ Beside(a, t, b, u) => Get(g, b, u) = Get(s.frame, b, u)
  <2> HIDE DEF a, t
  <2> QED  BY <1>1, GetBeside
<1> HIDE DEF g
<1>7. /\ x.stack = s.stack /\ x.scratch = s.scratch /\ x.flag = s.flag /\ x.local = s.local
      /\ x.pages = s.pages /\ x.frame = g /\ x \in Machines
  BY <1>1, <1>3, <1>4 DEF Machines
<1> HIDE DEF x
<1>8. Good(x)  BY <1>7 DEF Good
<1>9. Denoted(x, x.stack[i]) = v
  <2>1. Denoted(x, s.stack[i]) = Get(x.frame, s.stack[i].n, t)  BY DenotedIs
  <2> QED  BY <1>5, <1>7, <2>1, Zenon
<1>10. ASSUME NEW j \in 1..Len(s.stack), j # i
       PROVE  Denoted(x, x.stack[j]) = Denoted(s, s.stack[j])
  <2>1. s.stack[j].mode = "frame" =>
          /\ s.stack[j].n + Size(s.stack[j].type) <= FrameWords
          /\ Beside(a, t, s.stack[j].n, s.stack[j].type)
    BY <1>10, PlacesBeside
  <2>2. s.stack[j].mode = "frame" =>
          Get(x.frame, s.stack[j].n, s.stack[j].type) = Get(s.frame, s.stack[j].n, s.stack[j].type)
    <3> HIDE DEF a, t
    <3> QED  BY <1>1, <1>6, <1>7, <2>1, Zenon
  <2>3. Unmoved(s, x, s.stack[j])
    <3>1. s.stack[j].mode \in {"imm", "frame", "local", "reg", "cell", "flag"}  BY <1>1
    <3>2. /\ x.local[s.stack[j].n] = s.local[s.stack[j].n] /\ x.pages = s.pages
          /\ x.scratch[s.stack[j].n] = s.scratch[s.stack[j].n] /\ x.flag = s.flag
      BY <1>7, Zenon
    <3> QED  BY <2>2, <3>1, <3>2 DEF Unmoved
  <2>4. Denoted(x, s.stack[j]) = Denoted(s, s.stack[j])  BY <2>3, DenotedSame, ZenonT(60)
  <2> QED  BY <1>7, <2>4, Zenon
<1>11. ASSUME NEW k \in DOMAIN LocalTypes  PROVE Denoted(x, Home(k)) = Denoted(s, Home(k))
  <2>1. ASSUME Home(k).mode = "frame"
        PROVE  Get(x.frame, Home(k).n, Home(k).type) = Get(s.frame, Home(k).n, Home(k).type)
    <3>1. /\ k \in DOMAIN ParamTypes /\ Home(k).type = ParamTypes[k] /\ Home(k).n = LocalPlace(k).n
          /\ Home(k).n \in Nat /\ Home(k).type \in Types
      BY <2>1, HomeIs
    <3>2. Home(k).n + Size(Home(k).type) <= FrameWords
      <4>1. LocalPlace(k).n + Size(ParamTypes[k]) <= ParamsEnd /\ ParamsEnd <= FrameWords
            /\ ParamsEnd \in Nat /\ FrameWords \in Nat /\ ParamTypes[k] \in Types
        BY <3>1, Params
      <4>2. Size(ParamTypes[k]) \in Nat  BY <4>1, Sizes
      <4> QED  BY <3>1, <4>1, <4>2
    <3>3. Beside(a, t, Home(k).n, Home(k).type)  BY <3>1, PlacesBeside
    <3> HIDE DEF a, t
    <3> QED  BY <1>6, <1>7, <3>1, <3>2, <3>3, Zenon
  <2>2. Home(k).mode \in {"frame", "local"}  BY HomeIs
  <2>3. Home(k).mode \in {"imm", "frame", "local", "reg", "cell", "flag"}  BY <2>2
  <2>4. /\ x.local[Home(k).n] = s.local[Home(k).n] /\ x.pages = s.pages
        /\ x.scratch[Home(k).n] = s.scratch[Home(k).n] /\ x.flag = s.flag
    BY <1>7, Zenon
  <2>5. Unmoved(s, x, Home(k))  BY <2>1, <2>3, <2>4 DEF Unmoved
  <2> QED  BY <2>5, DenotedSame, Zenon
<1> QED  BY <1>7, <1>8, <1>9, <1>10, <1>11, Zenon DEF x

LEMMA SelectIs ==
  ASSUME NEW z, Good(z), FlagsTop(z), NEW k \in Nat, Len(z.stack) = k + 3,
         z.stack[k + 2].type = z.stack[k + 1].type
  PROVE  LET s1 == SaveStack(z, k + 1)
             s == IF s1.stack[k + 3].mode = "flag" THEN s1 ELSE LoadReg(s1, k + 3, k + 2)
             moved == Overwritten(s, k + 1, Denoted(s, s.stack[k + 2]))
         IN  /\ Len(s1.stack) = k + 3 /\ Len(s.stack) = k + 3
             /\ Leads(z, Pop(IF Denoted(s, s.stack[k + 3]) = 0 THEN moved ELSE s, 2), k,
                      z.stack[k + 1].type,
                      IF Denoted(z, z.stack[k + 3]) = 0 THEN Denoted(z, z.stack[k + 2])
                      ELSE Denoted(z, z.stack[k + 1]))
<1> DEFINE s1 == SaveStack(z, k + 1)
           l == LoadReg(s1, k + 3, k + 2)
           s == IF s1.stack[k + 3].mode = "flag" THEN s1 ELSE l
           u == Denoted(s, s.stack[k + 2])
           moved == Overwritten(s, k + 1, u)
           c == Denoted(z, z.stack[k + 3])
           y == IF Denoted(s, s.stack[k + 3]) = 0 THEN moved ELSE s
           x == Pop(y, 2)
           v == IF c = 0 THEN Denoted(z, z.stack[k + 2]) ELSE Denoted(z, z.stack[k + 1])
<1>1. /\ z \in Machines /\ k + 1 \in 1..Len(z.stack) /\ z.stack[k + 1] \in Operands
      /\ k + 3 \in Nat \ {0} /\ k + 2 \in {k + 3 - 1, k + 3} /\ k + 1 \in 1..(k + 3 - 1)
      /\ k + 1 \in 1..(k + 3) /\ k + 2 \in 1..(k + 3) /\ k + 3 \in 1..(k + 3)
      /\ k + 1 # k + 2 /\ k + 1 # k + 3
      /\ \A j \in 1..k : j \in 1..(k + 3) /\ j # k + 1
      /\ \A j \in 1..(k + 3) : j \in 1..(k + 3 - 1) \/ j = k + 3
  BY Parts DEF Good
<1>2. Saves(z, s1, {k + 1})  BY <1>1, SaveGood, Zenon
<1> HIDE DEF s1
<1>3. /\ Good(s1) /\ Same(z, s1) /\ Len(s1.stack) = k + 3 /\ FlagsTop(s1)
      /\ s1.stack[k + 1].mode = "frame" /\ s1.stack[k + 1].n = s1.stack[k + 1].at
  <2>1. Good(s1) /\ Same(z, s1)  BY <1>2, Zenon DEF Saves
  <2>2. Len(s1.stack) = k + 3 /\ FlagsTop(s1)  BY <1>1, <1>2, SavesFlags, Zenon
  <2>3. s1.stack[k + 1] = Saved(z.stack[k + 1])  BY <1>1, <1>2 DEF Saves
  <2> QED  BY <1>1, <2>1, <2>2, <2>3, SavedIs
<1>4. /\ Good(l) /\ Same(s1, l) /\ Len(l.stack) = k + 3 /\ l.stack[k + 3].mode \in {"reg", "local"}
      /\ \A j \in 1..(k + 3 - 1) : l.stack[j].mode = "flag" => s1.stack[j].mode = "flag"
  BY <1>1, <1>3, LoadRegIs
<1>5. l.stack[k + 1] = s1.stack[k + 1]
  <2>1. /\ InReg(l.stack[k + 1]) => l.stack[k + 1] = s1.stack[k + 1]
        /\ s1.stack[k + 1].mode = "frame" /\ s1.stack[k + 1].n = s1.stack[k + 1].at =>
             l.stack[k + 1] = s1.stack[k + 1]
    BY <1>1, <1>3, LoadRegBelow
  <2> QED  BY <1>3, <2>1, Zenon
<1> HIDE DEF l
<1>6. FlagsTop(l)
  <2>1. ASSUME NEW j \in 1..(k + 3), l.stack[j].mode = "flag"  PROVE FALSE
    <3>1. j # k + 3  BY <1>4, <2>1
    <3>2. j \in 1..(k + 3 - 1)  BY <1>1, <3>1, Zenon
    <3>3. s1.stack[j].mode = "flag"  BY <1>4, <2>1, <3>2, Zenon
    <3> QED  BY <1>3, <3>1, <3>3 DEF FlagsTop
  <2> QED  BY <1>4, <2>1, Zenon DEF FlagsTop
<1>7. /\ Good(s) /\ Same(s1, s) /\ Len(s.stack) = k + 3 /\ FlagsTop(s)
      /\ s.stack[k + 1] = s1.stack[k + 1]
  <2>1. Same(s1, s1)  BY SameSelf, Zenon
  <2>2. CASE s1.stack[k + 3].mode = "flag"  BY <1>3, <2>1, <2>2, Zenon
  <2>3. CASE s1.stack[k + 3].mode # "flag"  BY <1>4, <1>5, <1>6, <2>3, Zenon
  <2> QED  BY <2>2, <2>3
<1> HIDE DEF s
<1>8. /\ Same(z, s) /\ s.pages = z.pages
      /\ \A j \in 1..(k + 3) : /\ s.stack[j].type = z.stack[j].type /\ s.stack[j].at = z.stack[j].at
                               /\ Denoted(s, s.stack[j]) = Denoted(z, z.stack[j])
      /\ \A j \in DOMAIN LocalTypes : Denoted(s, Home(j)) = Denoted(z, Home(j))
  <2>1. Same(z, s)  BY <1>3, <1>7, SameTrans, Zenon
  <2> QED  BY <2>1, Zenon DEF Same
<1>9. s.stack[k + 1].mode = "frame" /\ s.stack[k + 1].n = s.stack[k + 1].at
  BY <1>3, <1>7, Zenon
<1>10. u \in Loaded /\ u = Denoted(z, z.stack[k + 2])
  <2>1. /\ s \in Machines /\ s.stack[k + 2] \in Operands
        /\ Readable(s.scratch, s.stack[k + 2])
    BY <1>1, <1>7, Parts DEF Good, Described
  <2>2. Denoted(s, s.stack[k + 2]) \in Loaded  BY <2>1, DenotedTyped, Zenon
  <2> QED  BY <1>1, <1>8, <2>2, Zenon
<1> HIDE DEF u
<1>11. /\ Good(moved) /\ moved.stack = s.stack /\ moved.pages = s.pages
       /\ Denoted(moved, moved.stack[k + 1]) = u
       /\ \A j \in 1..(k + 3) : j # k + 1 =>
            Denoted(moved, moved.stack[j]) = Denoted(s, s.stack[j])
       /\ \A j \in DOMAIN LocalTypes : Denoted(moved, Home(j)) = Denoted(s, Home(j))
  <2>1. k + 1 \in 1..Len(s.stack)  BY <1>1, <1>7, Zenon
  <2>2. /\ Good(moved) /\ moved.stack = s.stack /\ moved.pages = s.pages
        /\ Denoted(moved, moved.stack[k + 1]) = u
        /\ \A j \in 1..Len(s.stack) : j # k + 1 =>
             Denoted(moved, moved.stack[j]) = Denoted(s, s.stack[j])
        /\ \A j \in DOMAIN LocalTypes : Denoted(moved, Home(j)) = Denoted(s, Home(j))
    <3> HIDE DEF moved
    <3> QED  BY <1>7, <1>9, <1>10, <2>1, OverwrittenIs, Zenon DEF moved
  <2> HIDE DEF moved
  <2> QED  BY <1>7, <2>2, Zenon
<1> HIDE DEF moved
<1>12. c = Denoted(s, s.stack[k + 3])  BY <1>1, <1>8, Zenon
<1> HIDE DEF c
<1>13. /\ Good(y) /\ FlagsTop(y) /\ Len(y.stack) = k + 3 /\ Agrees(z, y, k)
       /\ y.stack[k + 1].type = z.stack[k + 1].type /\ Denoted(y, y.stack[k + 1]) = v
  <2>1. CASE c = 0
    <3>1. y = moved /\ v = Denoted(z, z.stack[k + 2])  BY <1>12, <2>1, Zenon
    <3>2. FlagsTop(moved)  BY <1>7, <1>11, Zenon DEF FlagsTop
    <3>3. Agrees(z, moved, k)  BY <1>1, <1>8, <1>11, Zenon DEF Agrees
    <3> HIDE DEF y, v
    <3> QED  BY <1>1, <1>7, <1>8, <1>10, <1>11, <3>1, <3>2, <3>3, Zenon
  <2>2. CASE c # 0
    <3>1. y = s /\ v = Denoted(z, z.stack[k + 1])  BY <1>12, <2>2, Zenon
    <3>2. Agrees(z, s, k)  BY <1>1, <1>8, Zenon DEF Agrees
    <3> HIDE DEF y, v
    <3> QED  BY <1>1, <1>7, <1>8, <3>1, <3>2, Zenon
  <2> QED  BY <2>1, <2>2
<1> HIDE DEF y, v
<1>14. /\ Good(x) /\ FlagsTop(x) /\ Len(x.stack) = k + 1 /\ Agrees(y, x, k + 1)
  <2>1. 2 \in 0..Len(y.stack) /\ Len(y.stack) - 2 = k + 1  BY <1>13
  <2> HIDE DEF x
  <2>2. Good(x) /\ Len(x.stack) = Len(y.stack) - 2 /\ Agrees(y, x, Len(y.stack) - 2) /\ FlagsTop(x)
    BY <1>13, <2>1, PopIs, Zenon DEF x
  <2> QED  BY <2>1, <2>2, Zenon
<1> HIDE DEF x
<1>15. /\ Agrees(y, x, k) /\ x.stack[k + 1].type = y.stack[k + 1].type
       /\ Denoted(x, x.stack[k + 1]) = Denoted(y, y.stack[k + 1])
  <2>1. k + 1 \in 1..(k + 1) /\ \A j \in 1..k : j \in 1..(k + 1)  OBVIOUS
  <2> QED  BY <1>14, <2>1, Zenon DEF Agrees
<1>16. Agrees(z, x, k)  BY <1>13, <1>15, AgreesTrans, Zenon
<1>17. Leads(z, x, k, z.stack[k + 1].type, v)
  BY <1>13, <1>14, <1>15, <1>16, Zenon DEF Leads
<1> QED  BY <1>3, <1>7, <1>17, Zenon DEF s1, l, s, u, moved, c, y, x, v

LEMMA MemorySizeIs ==
  ASSUME NEW z, Good(z), FlagsTop(z), NEW k \in Nat, Len(z.stack) = k, k < MaxStack
  PROVE  LET s == Fetched(z)
             r == FreeReg(s, k)
             f == Freed(s, k)
         IN  /\ Len(s.stack) = k
             /\ Leads(z, Push(WithReg(f, r, PagesAddress), "i32", "cell", r), k, "i32", z.pages)
<1> DEFINE s == Fetched(z)
           r == FreeReg(s, k)
           f == Freed(s, k)
           g == WithReg(f, r, PagesAddress)
           d == Fresh(g, "i32", "cell", r)
<1>1. /\ Good(s) /\ NoFlags(s) /\ s \in Machines /\ Len(s.stack) = k /\ s.pages = z.pages
      /\ Agrees(z, s, k)
  <2>1. k \in 0..Len(z.stack)  OBVIOUS
  <2> QED  BY <2>1, FetchedParts, Zenon
<1> HIDE DEF s
<1>2. k \in 0..Len(s.stack) /\ k \in 0..k  BY <1>1
<1>3. r \in Regs /\ Saves(s, f, Holders(s, r, k)) /\ Free(f.stack, r, k)
  BY <1>1, <1>2, FreedIs, Zenon
<1> HIDE DEF r, f
<1>4. Good(f) /\ Same(s, f) /\ NoFlags(f) /\ Len(f.stack) = k /\ f.pages = s.pages
  <2>1. Good(f) /\ Same(s, f) /\ f.pages = s.pages  BY <1>3, Zenon DEF Saves
  <2>2. NoFlags(f) /\ Len(f.stack) = Len(s.stack)  BY <1>1, <1>3, SavesFlags, Zenon
  <2> QED  BY <1>1, <2>1, <2>2, Zenon
<1>5. Agrees(z, f, k)
  <2>1. Len(s.stack) \in Nat  BY <1>1
  <2>2. Agrees(s, f, k)  BY <1>2, <1>4, <2>1, SameAgrees, Zenon
  <2> QED  BY <1>1, <2>2, AgreesTrans, Zenon
<1>6. /\ Good(g) /\ g.stack = f.stack /\ g.pages = f.pages /\ g.scratch[r] = PagesAddress
      /\ Agrees(f, g, k)
  <2>1. PagesAddress \in Loaded \cup {PagesAddress}  OBVIOUS
  <2>2. PagesAddress \in Loaded \/ Free(f.stack, r, Len(f.stack))  BY <1>3, <1>4, Zenon
  <2> HIDE DEF g
  <2>3. /\ Good(g) /\ g.stack = f.stack /\ g.frame = f.frame /\ g.flag = f.flag
        /\ g.local = f.local /\ g.pages = f.pages /\ g.scratch[r] = PagesAddress
        /\ \A q \in Regs : q # r => g.scratch[q] = f.scratch[q]
        /\ \A i \in 0..Len(f.stack) : Free(f.stack, r, i) => Agrees(f, g, i)
    BY <1>3, <1>4, <2>1, <2>2, WriteIs, Zenon DEF g
  <2> QED  BY <1>2, <1>3, <1>4, <2>3, Zenon
<1> HIDE DEF g
<1>7. NoFlags(g) /\ Len(g.stack) = k /\ Free(g.stack, r, k)
  BY <1>3, <1>4, <1>6, Zenon DEF NoFlags
<1>8. Agrees(z, g, k)  BY <1>5, <1>6, AgreesTrans, Zenon
<1>9. d.mode = "cell" /\ d.n = r  BY DEF Fresh
<1> HIDE DEF d
<1>10. Readable(g.scratch, d) /\ Homed(d)  BY <1>3, <1>9 DEF Readable, Homed
<1>11. Denoted(g, d) = z.pages  BY <1>1, <1>4, <1>6, <1>9, DenotedIs
<1>12. r \in Nat  BY <1>3, StackValuesAssumption DEF Regs
<1>13. Pushable(g, k, "i32", "cell", r)
  BY <1>6, <1>7, <1>10, <1>12 DEF Pushable, d, Types
<1>14. Leads(z, Push(g, "i32", "cell", r), k, "i32", z.pages)
  BY <1>7, <1>8, <1>11, <1>13, PushLeads, Zenon DEF d
<1> QED  BY <1>1, <1>14, Zenon DEF s, r, f, g

(* m operands of z are left in y, and the locals, with results on top.     *)
Answers(z, y, m, c, results, count) ==
  /\ Len(y.stack) = m + Len(c.results) /\ y.pages = count
  /\ \A k \in DOMAIN c.results :
       y.stack[m + k].type = c.results[k] /\ Denoted(y, y.stack[m + k]) = results[k]
Undisturbed(z, y, m) ==
  /\ \A i \in 1..m :
       y.stack[i].type = z.stack[i].type /\ Denoted(y, y.stack[i]) = Denoted(z, z.stack[i])
  /\ \A i \in DOMAIN LocalTypes : Denoted(y, Home(i)) = Denoted(z, Home(i))

(* What a call does, when the callee received these values.                *)
Called(z, y, m, c, results, count, received) ==
  /\ Good(y) /\ FlagsTop(y) /\ Answers(z, y, m, c, results, count)
  /\ Consecutive(z, c) =>
       /\ Undisturbed(z, y, m)
       /\ received = [k \in DOMAIN c.params |-> Denoted(z, z.stack[m + k])]

LEMMA CallIs ==
  ASSUME NEW z, Good(z), FlagsTop(z), NEW c \in Callees, NEW m, Taken(z, c.params, m),
         NEW results \in [DOMAIN c.results -> Values], m + Len(c.results) <= MaxStack,
         NEW count \in Values
  PROVE  LET s == Prepared(z)
             base == CalleeFrame(s, c, FALSE)
             p == Placed(s, c, FALSE)
             back == Returned(p, c, base, results)
         IN  Called(z, Settled([back EXCEPT !.pages = count]), m, c, results, count,
                    Received(p, c, base))
<1> DEFINE s == Prepared(z)
           base == CalleeFrame(s, c, FALSE)
           p == Placed(s, c, FALSE)
           b == Returned(p, c, base, results)
           g == [b EXCEPT !.pages = count]
           y == Settled(g)
<1>1. c.params \in Seq(Types) /\ c.results \in Seq(Types) /\ Len(c.results) \in Nat
      /\ DOMAIN c.results = 1..Len(c.results)
  BY StackValuesAssumption
<1>2. /\ m \in Nat /\ Len(z.stack) = m + Len(c.params) /\ Len(c.params) \in Nat
      /\ DOMAIN c.params = 1..Len(c.params)
      /\ \A k \in 1..Len(c.params) : z.stack[m + k].type = c.params[k]
  <2>1. c.params \in Seq(Types)  BY <1>1
  <2>2. Split(z, c.params, m)  BY <2>1, TakenIs, Zenon
  <2> QED  BY <2>2, Zenon DEF Split
<1>3. Ready(s, c, m) /\ Same(z, s) /\ (Consecutive(z, c) => Consecutive(s, c))
  BY <1>2, PreparedReady, Zenon
<1> HIDE DEF s
<1>4. /\ Good(b) /\ Stored(b.stack, Len(b.stack)) /\ Len(b.stack) = m + Len(c.results)
      /\ \A k \in DOMAIN c.results :
           /\ b.stack[m + k].type = c.results[k]
           /\ Denoted(b, b.stack[m + k]) = results[k]
      /\ Consecutive(s, c) =>
           /\ Agrees(s, b, m)
           /\ Received(p, c, base) = [k \in DOMAIN c.params |-> Denoted(s, s.stack[m + k])]
  <2>1. Ready(s, c, m)  BY <1>3
  <2>2. CameBack(s, c, m, results, Received(p, c, base), b)  BY <2>1, CalledIs, Zenon
  <2> HIDE DEF b, p, base
  <2> QED  BY <2>2, Zenon DEF CameBack
<1> HIDE DEF b, p, base
<1>5. /\ \A i \in 1..Len(b.stack) : b.stack[i].mode # "cell"
      /\ NoFlags(b)
  BY <1>4 DEF Stored, NoFlags
<1>6. /\ Good(g) /\ g.stack = b.stack /\ g.pages = count /\ NoFlags(g)
      /\ \A i \in 1..Len(b.stack) : Denoted(g, g.stack[i]) = Denoted(b, b.stack[i])
      /\ \A i \in DOMAIN LocalTypes : Denoted(g, Home(i)) = Denoted(b, Home(i))
  <2>1. /\ Good(g) /\ g.stack = b.stack /\ g.pages = count
        /\ NoFlags(b) => NoFlags(g)
        /\ \A i \in 1..Len(b.stack) : b.stack[i].mode # "cell" =>
             Denoted(g, g.stack[i]) = Denoted(b, b.stack[i])
        /\ \A i \in DOMAIN LocalTypes : Denoted(g, Home(i)) = Denoted(b, Home(i))
    BY <1>4, GrownIs, Zenon
  <2> HIDE DEF g
  <2> QED  BY <1>5, <2>1, Zenon
<1> HIDE DEF g
<1>7. FlagsTop(g)  BY <1>6, Zenon DEF NoFlags, FlagsTop
<1>8. Good(y) /\ FlagsTop(y) /\ Same(g, y) /\ y.stack = g.stack
  BY <1>6, <1>7, SettledIs, Zenon
<1> HIDE DEF y
<1>9. /\ y.stack = b.stack /\ y.pages = count
      /\ \A i \in 1..Len(b.stack) : Denoted(y, y.stack[i]) = Denoted(b, b.stack[i])
      /\ \A i \in DOMAIN LocalTypes : Denoted(y, Home(i)) = Denoted(b, Home(i))
  BY <1>6, <1>8, Zenon DEF Same
<1>10. Answers(z, y, m, c, results, count)
  <2>1. \A k \in DOMAIN c.results : m + k \in 1..Len(b.stack)
    <3> DEFINE nr == Len(c.results)
               nb == Len(b.stack)
    <3>1. DOMAIN c.results = 1..nr /\ nr \in Nat /\ nb = m + nr  BY <1>1, <1>4, Zenon
    <3>2. m \in Nat  BY <1>2
    <3> HIDE DEF nr, nb
    <3>3. \A k \in DOMAIN c.results : m + k \in 1..nb  BY <3>1, <3>2
    <3> QED  BY <3>3 DEF nb
  <2>2. \A k \in DOMAIN c.results :
          y.stack[m + k].type = c.results[k] /\ Denoted(y, y.stack[m + k]) = results[k]
    BY <1>4, <1>9, <2>1, Zenon
  <2>3. Len(y.stack) = m + Len(c.results)  BY <1>4, <1>9, Zenon
  <2> QED  BY <1>9, <2>2, <2>3, Zenon DEF Answers
<1>11. ASSUME Consecutive(z, c)
       PROVE  /\ Undisturbed(z, y, m)
              /\ Received(p, c, base) = [k \in DOMAIN c.params |-> Denoted(z, z.stack[m + k])]
  <2>1. /\ Agrees(s, b, m)
        /\ Received(p, c, base) = [k \in DOMAIN c.params |-> Denoted(s, s.stack[m + k])]
    BY <1>3, <1>4, <1>11, Zenon
  <2>2. /\ \A i \in 1..Len(z.stack) :
             s.stack[i].type = z.stack[i].type /\ Denoted(s, s.stack[i]) = Denoted(z, z.stack[i])
        /\ \A i \in DOMAIN LocalTypes : Denoted(s, Home(i)) = Denoted(z, Home(i))
    BY <1>3, Zenon DEF Same
  <2>3. /\ \A i \in 1..m : i \in 1..Len(z.stack) /\ i \in 1..Len(b.stack)
        /\ \A k \in DOMAIN c.params : m + k \in 1..Len(z.stack)
    <3> DEFINE np == Len(c.params)
               nz == Len(z.stack)
               nr == Len(c.results)
               nb == Len(b.stack)
    <3>1. DOMAIN c.params = 1..np /\ np \in Nat /\ nz = m + np /\ nr \in Nat /\ nb = m + nr
      BY <1>1, <1>2, <1>4, Zenon
    <3>2. m \in Nat  BY <1>2
    <3> HIDE DEF np, nz, nr, nb
    <3>3. /\ \A i \in 1..m : i \in 1..nz /\ i \in 1..nb
          /\ \A k \in DOMAIN c.params : m + k \in 1..nz
      BY <3>1, <3>2
    <3> QED  BY <3>3, Zenon DEF nz, nb
  <2>4. /\ \A i \in 1..m : y.stack[i].type = z.stack[i].type
                           /\ Denoted(y, y.stack[i]) = Denoted(z, z.stack[i])
        /\ \A i \in DOMAIN LocalTypes : Denoted(y, Home(i)) = Denoted(z, Home(i))
    BY <1>9, <2>1, <2>2, <2>3, Zenon DEF Agrees
  <2>5. \A k \in DOMAIN c.params : Denoted(s, s.stack[m + k]) = Denoted(z, z.stack[m + k])
    BY <2>2, <2>3, Zenon
  <2>6. [k \in DOMAIN c.params |-> Denoted(s, s.stack[m + k])]
          = [k \in DOMAIN c.params |-> Denoted(z, z.stack[m + k])]
    BY <2>5, Zenon
  <2> QED  BY <2>1, <2>4, <2>6, Zenon DEF Undisturbed
<1> QED  BY <1>8, <1>10, <1>11, Zenon DEF Called, s, base, p, b, g, y

-----------------------------------------------------------------------------
(* The steps.                                                              *)

(* What is true of every machine between two instructions.                 *)
WellKept == Good(st) /\ FlagsTop(st)

LEMMA ConstStep ==
  ASSUME WellKept, NEW t \in Types, NEW v \in Values, Const(t, v)
  PROVE  Leads(st, st', Len(st.stack), t, v)
<1> DEFINE k == Len(st.stack)
<1>1. Good(st) /\ FlagsTop(st) /\ k \in Nat  BY Parts DEF WellKept, Good
<1>2. k < MaxStack /\ st' = Settled(Push(Fetched(st), t, "imm", v))
  BY Zenon DEF Const, Room, Emits, Depth
<1>3. Leads(st, Push(Fetched(st), t, "imm", v), k, t, v)  BY <1>1, <1>2, ConstIs, Zenon
<1>4. Leads(st, Settled(Push(Fetched(st), t, "imm", v)), k, t, v)
  BY <1>1, <1>3, LeadsSettled, Zenon
<1> QED  BY <1>2, <1>4

LEMMA LocalGetStep ==
  ASSUME WellKept, NEW i \in DOMAIN LocalTypes, LocalGet(i)
  PROVE  Leads(st, st', Len(st.stack), LocalTypes[i], Denoted(st, Home(i)))
<1> DEFINE k == Len(st.stack)
           y == Push(Fetched(st), LocalTypes[i], LocalPlace(i).mode, LocalPlace(i).n)
<1>1. Good(st) /\ FlagsTop(st) /\ k \in Nat  BY Parts DEF WellKept, Good
<1>2. k < MaxStack /\ st' = Settled(y)  BY Zenon DEF LocalGet, Room, Emits, Depth
<1>3. Leads(st, y, k, LocalTypes[i], Denoted(st, Home(i)))  BY <1>1, <1>2, LocalGetIs, Zenon
<1> HIDE DEF y
<1>4. Leads(st, Settled(y), k, LocalTypes[i], Denoted(st, Home(i)))
  BY <1>1, <1>3, LeadsSettled, Zenon
<1> QED  BY <1>2, <1>4

LEMMA LocalTeeStep ==
  ASSUME WellKept, NEW i \in DOMAIN LocalTypes, LocalTee(i)
  PROVE  LET k == Len(st.stack)
         IN  /\ k \in Nat \ {0} /\ st.stack[k].type = LocalTypes[i]
             /\ Sets(st, st', k, i, Denoted(st, st.stack[k]))
<1> DEFINE k == Len(st.stack)
           y == Written(Kept(Fetched(st), i), i)
           v == Denoted(st, st.stack[k])
<1>1. Good(st) /\ FlagsTop(st) /\ k \in Nat  BY Parts DEF WellKept, Good
<1>2. k >= 1 /\ st.stack[k].type = LocalTypes[i] /\ st' = Settled(y)
  BY Zenon DEF LocalTee, Emits, Depth, Top
<1>3. k \in Nat \ {0}  BY <1>1, <1>2
<1>4. Sets(st, y, k, i, v)  BY <1>1, <1>2, <1>3, LocalTeeIs, Zenon
<1> HIDE DEF y, v
<1>5. Sets(st, Settled(y), k, i, v)  BY <1>1, <1>4, SetsSettled, Zenon
<1> QED  BY <1>2, <1>3, <1>5, Zenon DEF v

LEMMA LocalSetStep ==
  ASSUME WellKept, NEW i \in DOMAIN LocalTypes, LocalSet(i)
  PROVE  LET k == Len(st.stack) - 1
         IN  /\ k \in Nat /\ st.stack[k + 1].type = LocalTypes[i] /\ Len(st.stack) = k + 1
             /\ Sets(st, st', k, i, Denoted(st, st.stack[k + 1]))
<1> DEFINE n == Len(st.stack)
           k == n - 1
           y == Pop(Written(Kept(Fetched(st), i), i), 1)
           v == Denoted(st, st.stack[k + 1])
<1>1. Good(st) /\ FlagsTop(st) /\ n \in Nat  BY Parts DEF WellKept, Good
<1>2. n >= 1 /\ st.stack[n].type = LocalTypes[i] /\ st' = Settled(y)
  BY Zenon DEF LocalSet, Emits, Depth, Top
<1>3. k \in Nat /\ n = k + 1  BY <1>1, <1>2
<1> HIDE DEF k
<1>4. st.stack[k + 1].type = LocalTypes[i] /\ Len(st.stack) = k + 1  BY <1>2, <1>3, Zenon
<1>5. Sets(st, y, k, i, v)  BY <1>1, <1>3, <1>4, LocalSetIs, Zenon
<1> HIDE DEF y, v
<1>6. Sets(st, Settled(y), k, i, v)  BY <1>3, <1>5, SetsSettled, Zenon
<1> QED  BY <1>2, <1>3, <1>4, <1>6, Zenon DEF v, k

LEMMA DropStep ==
  ASSUME WellKept, Drop
  PROVE  LET k == Len(st.stack) - 1
         IN  k \in Nat /\ Len(st.stack) = k + 1 /\ Keeps(st, st', k)
<1> DEFINE n == Len(st.stack)
           k == n - 1
           y == Pop(Fetched(st), 1)
<1>1. Good(st) /\ FlagsTop(st) /\ n \in Nat  BY Parts DEF WellKept, Good
<1>2. n >= 1 /\ st' = Settled(y)  BY Zenon DEF Drop, Emits, Depth
<1>3. k \in Nat /\ n = k + 1  BY <1>1, <1>2
<1> HIDE DEF k
<1>4. Keeps(st, y, k)  BY <1>1, <1>3, DropIs, Zenon
<1> HIDE DEF y
<1>5. Keeps(st, Settled(y), k)  BY <1>3, <1>4, KeepsSettled, Zenon
<1> QED  BY <1>2, <1>3, <1>5, Zenon DEF k

LEMMA ArithmeticStep ==
  ASSUME WellKept, Arithmetic
  PROVE  LET k == Len(st.stack) - 2
         IN  /\ k \in Nat /\ Len(st.stack) = k + 2
             /\ Leads(st, st', k, st.stack[k + 2].type,
                      Computed(Denoted(st, st.stack[k + 1]), Denoted(st, st.stack[k + 2])))
<1> DEFINE n == Len(st.stack)
           s == Fetched(st)
           k == Depth(s) - 2
           r == FreeReg(s, k)
           f == Freed(s, k)
           v == Computed(Denoted(f, f.stack[k + 1]), Denoted(f, f.stack[k + 2]))
           y == Push(Pop(WithReg(f, r, v), 2), f.stack[k + 2].type, "reg", r)
           t == st.stack[k + 2].type
           w == Computed(Denoted(st, st.stack[k + 1]), Denoted(st, st.stack[k + 2]))
<1>1. Good(st) /\ FlagsTop(st) /\ n \in Nat  BY Parts DEF WellKept, Good
<1>2. n >= 2  BY Zenon DEF Arithmetic, Alike, Depth
<1>3. Depth(s) = n
  <2>1. Len(s.stack) = Len(st.stack)  BY <1>1, FetchedParts, Zenon
  <2> QED  BY <2>1, Zenon DEF Depth
<1>4. st' = Settled(Push(Pop([f EXCEPT !.scratch[r] = Computed(Denoted(f, Under(f)), Denoted(f, Top(f)))],
                             2), Top(f).type, "reg", r))
  BY Zenon DEF Arithmetic, Emits
<1> HIDE DEF s, k
<1>5. k \in Nat /\ n = k + 2 /\ k = n - 2  BY <1>1, <1>2, <1>3 DEF k
<1>6. Len(f.stack) = k + 2 /\ Leads(st, y, k, t, w)
  BY <1>1, <1>5, ArithmeticIs, Zenon DEF s
<1> HIDE DEF f, r, w, t
<1>7. Under(f) = f.stack[k + 1] /\ Top(f) = f.stack[k + 2]
  <2>1. Depth(f) = k + 2  BY <1>6, Zenon DEF Depth
  <2>2. Depth(f) - 1 = k + 1  BY <1>5, <2>1
  <2> QED  BY <2>1, <2>2, Zenon DEF Under, Top
<1>8. st' = Settled(y)  BY <1>4, <1>7, Zenon DEF WithReg
<1> HIDE DEF y
<1>9. Leads(st, Settled(y), k, t, w)  BY <1>5, <1>6, LeadsSettled, Zenon
<1> QED  BY <1>5, <1>8, <1>9, Zenon DEF t, w

LEMMA DivideStep ==
  ASSUME WellKept, Divide
  PROVE  LET k == Len(st.stack) - 2
         IN  /\ k \in Nat /\ Len(st.stack) = k + 2
             /\ \E w : /\ Leads(st, st', k, st.stack[k + 2].type, w)
                       /\ Shapes = {} =>
                            w = Computed(Denoted(st, st.stack[k + 1]), Denoted(st, st.stack[k + 2]))
<1> DEFINE n == Len(st.stack)
           s == Fetched(st)
           k == n - 2
           f == IntoReg(IntoReg(Freed(s, k), k + 1, 1), k + 2, 2)
           w == Computed(f.scratch[1], f.scratch[2])
           y == Push(Pop(WithReg(f, 1, w), 2), f.stack[k + 2].type, "reg", 1)
           t == st.stack[k + 2].type
           u == Computed(Denoted(st, st.stack[k + 1]), Denoted(st, st.stack[k + 2]))
<1>1. Good(st) /\ FlagsTop(st) /\ n \in Nat  BY Parts DEF WellKept, Good
<1>2. n >= 2  BY Zenon DEF Divide, Alike, Depth
<1>3. Depth(s) = n
  <2>1. Len(s.stack) = Len(st.stack)  BY <1>1, FetchedParts, Zenon
  <2> QED  BY <2>1, Zenon DEF Depth
<1>4. LET g == IntoReg(IntoReg(Freed(s, Depth(s) - 2), Depth(s) - 1, 1), Depth(s), 2)
      IN  st' = Settled(Push(Pop([g EXCEPT !.scratch[1] = Computed(@, g.scratch[2])], 2),
                             Top(g).type, "reg", 1))
  BY Zenon DEF Divide, Emits
<1>5. k \in Nat /\ n = k + 2 /\ n - 1 = k + 1  BY <1>1, <1>2
<1> HIDE DEF s
<1>6. st' = Settled(Push(Pop([f EXCEPT !.scratch[1] = Computed(@, f.scratch[2])], 2),
                         Top(f).type, "reg", 1))
  <2>1. Depth(s) - 2 = k /\ Depth(s) - 1 = k + 1 /\ Depth(s) = k + 2  BY <1>3, <1>5
  <2> HIDE DEF k
  <2> QED  BY <1>4, <2>1, Zenon
<1> HIDE DEF k
<1>7. /\ Len(f.stack) = k + 2 /\ Leads(st, y, k, t, w)
      /\ st.stack[k + 1].mode # "cell" /\ st.stack[k + 2].mode # "cell" => w = u
  BY <1>1, <1>5, DivideIs, Zenon DEF s
<1> HIDE DEF f, t, u
<1>8. Top(f) = f.stack[k + 2]  BY <1>7, Zenon DEF Top, Depth
<1>9. [f EXCEPT !.scratch[1] = Computed(@, f.scratch[2])] = WithReg(f, 1, w)
  BY Zenon DEF WithReg
<1>10. st' = Settled(y)  BY <1>6, <1>8, <1>9, Zenon
<1> HIDE DEF y, w
<1>11. Leads(st, st', k, t, w)  BY <1>5, <1>7, <1>10, LeadsSettled, Zenon
<1>12. Shapes = {} => w = u
  <2>1. Depth(st) = k + 2 /\ Depth(st) - 1 = k + 1  BY <1>5 DEF Depth
  <2>2. Top(st) = st.stack[k + 2] /\ Under(st) = st.stack[k + 1]
    BY <2>1, Zenon DEF Top, Under
  <2>3. Shapes = {} => ~("cell" \in {Top(st).mode, Under(st).mode})  BY Zenon DEF Divide
  <2> QED  BY <1>7, <2>2, <2>3, Zenon
<1> QED  BY <1>5, <1>11, <1>12, Zenon DEF t, u, k

LEMMA CompareStep ==
  ASSUME WellKept, Compare
  PROVE  LET k == Len(st.stack) - 2
         IN  /\ k \in Nat /\ Len(st.stack) = k + 2
             /\ Leads(st, st', k, "i32",
                      Less01(Denoted(st, st.stack[k + 1]), Denoted(st, st.stack[k + 2])))
<1> DEFINE n == Len(st.stack)
           s == Fetched(st)
           k == n - 2
           v == Less01(Denoted(s, s.stack[k + 1]), Denoted(s, s.stack[k + 2]))
           w == Less01(Denoted(st, st.stack[k + 1]), Denoted(st, st.stack[k + 2]))
           y == Push(Pop(Flagged(s, v), 2), "i32", "flag", 1)
<1>1. Good(st) /\ FlagsTop(st) /\ n \in Nat  BY Parts DEF WellKept, Good
<1>2. n >= 2  BY Zenon DEF Compare, Alike, Depth
<1>3. st' = Settled(Push(Pop(Flagged(s, Less01(Denoted(s, Under(s)), Denoted(s, Top(s)))), 2),
                         "i32", "flag", 1))
  BY Zenon DEF Compare, Emits, Flagged, Less01
<1>4. k \in Nat /\ n = k + 2  BY <1>1, <1>2
<1> HIDE DEF k
<1>5. Len(s.stack) = k + 2 /\ Leads(st, y, k, "i32", v) /\ v = w
  BY <1>1, <1>4, CompareIs, Zenon
<1> HIDE DEF s, w
<1>6. Under(s) = s.stack[k + 1] /\ Top(s) = s.stack[k + 2]
  <2>1. Depth(s) = k + 2  BY <1>5, Zenon DEF Depth
  <2>2. Depth(s) - 1 = k + 1  BY <1>4, <2>1
  <2> QED  BY <2>1, <2>2, Zenon DEF Under, Top
<1>7. st' = Settled(y)  BY <1>3, <1>6, Zenon
<1> HIDE DEF y, v
<1>8. Leads(st, Settled(y), k, "i32", v)  BY <1>4, <1>5, LeadsSettled, Zenon
<1>9. Leads(st, st', k, "i32", w)  BY <1>5, <1>7, <1>8
<1> QED  BY <1>4, <1>9, Zenon DEF w, k

LEMMA EqzStep ==
  ASSUME WellKept, Eqz
  PROVE  LET k == Len(st.stack) - 1
         IN  /\ k \in Nat /\ Len(st.stack) = k + 1
             /\ Leads(st, st', k, "i32", Zero01(Denoted(st, st.stack[k + 1])))
<1> DEFINE n == Len(st.stack)
           k == n - 1
           v == Zero01(Denoted(st, st.stack[k + 1]))
           y == IF st.stack[k + 1].mode = "flag" THEN [st EXCEPT !.stack[k + 1].n = 1 - @]
                ELSE Push(Pop(Flagged(st, v), 1), "i32", "flag", 1)
<1>1. Good(st) /\ FlagsTop(st) /\ n \in Nat  BY Parts DEF WellKept, Good
<1>2. n >= 1  BY Zenon DEF Eqz, Depth
<1>3. st' = Settled(IF Top(st).mode = "flag" THEN [st EXCEPT !.stack[Depth(st)].n = 1 - @]
                    ELSE Push(Pop(Flagged(st, Zero01(Denoted(st, Top(st)))), 1), "i32", "flag", 1))
  BY Zenon DEF Eqz, Emits, Flagged, Zero01
<1>4. k \in Nat /\ n = k + 1  BY <1>1, <1>2
<1> HIDE DEF k
<1>5. Depth(st) = k + 1 /\ Top(st) = st.stack[k + 1]
  <2>1. Depth(st) = k + 1  BY <1>4 DEF Depth
  <2> QED  BY <2>1, Zenon DEF Top
<1>6. st' = Settled(y)  BY <1>3, <1>5, Zenon
<1>7. Leads(st, y, k, "i32", v)  BY <1>1, <1>4, EqzIs, Zenon
<1> HIDE DEF y, v
<1>8. Leads(st, Settled(y), k, "i32", v)  BY <1>4, <1>7, LeadsSettled, Zenon
<1> QED  BY <1>4, <1>6, <1>8, Zenon DEF v, k

Conditioned(s, i, k) == IF Top(s).mode = "flag" THEN s ELSE LoadReg(s, i, k)
Picked(s, i) ==
  Pop(IF Denoted(s, Top(s)) = 0 THEN Overwritten(s, i, Denoted(s, Under(s))) ELSE s, 2)

LEMMA SelectStep ==
  ASSUME WellKept, Select
  PROVE  LET k == Len(st.stack) - 3
         IN  /\ k \in Nat /\ Len(st.stack) = k + 3
             /\ Leads(st, st', k, st.stack[k + 1].type,
                      IF Denoted(st, st.stack[k + 3]) = 0 THEN Denoted(st, st.stack[k + 2])
                      ELSE Denoted(st, st.stack[k + 1]))
<1> DEFINE n == Len(st.stack)
           k == n - 3
           s1 == SaveStack(st, k + 1)
           s == IF s1.stack[k + 3].mode = "flag" THEN s1 ELSE LoadReg(s1, k + 3, k + 2)
           moved == Overwritten(s, k + 1, Denoted(s, s.stack[k + 2]))
           y == Pop(IF Denoted(s, s.stack[k + 3]) = 0 THEN moved ELSE s, 2)
           t == st.stack[k + 1].type
           v == IF Denoted(st, st.stack[k + 3]) = 0 THEN Denoted(st, st.stack[k + 2])
                ELSE Denoted(st, st.stack[k + 1])
<1>1. Good(st) /\ FlagsTop(st) /\ n \in Nat  BY Parts DEF WellKept, Good
<1>2. n >= 3 /\ Under(st).type = st.stack[Depth(st) - 2].type
  BY Zenon DEF Select, Depth
<1>3. k \in Nat /\ n = k + 3  BY <1>1, <1>2
<1> HIDE DEF k
<1>4. /\ Depth(st) = k + 3 /\ Depth(st) - 1 = k + 2 /\ Depth(st) - 2 = k + 1
  <2>1. Depth(st) = n  BY Zenon DEF Depth
  <2> QED  BY <1>3, <2>1
<1>5. st.stack[k + 2].type = st.stack[k + 1].type
  BY <1>2, <1>4, Zenon DEF Under
<1>6. /\ Len(s1.stack) = k + 3 /\ Len(s.stack) = k + 3 /\ Leads(st, y, k, t, v)
  BY <1>1, <1>3, <1>5, SelectIs, Zenon
<1>7. st' = Settled(Picked(Conditioned(SaveStack(st, Depth(st) - 2), Depth(st), Depth(st) - 1),
                           Depth(st) - 2))
  BY Zenon DEF Select, Emits, Picked, Conditioned, Overwritten
<1> HIDE DEF t, v
<1>8. Top(s1) = s1.stack[k + 3]  BY <1>6, Zenon DEF Top, Depth
<1>9. st' = Settled(Picked(s, k + 1))
  <2>1. st' = Settled(Picked(Conditioned(s1, k + 3, k + 2), k + 1))  BY <1>4, <1>7, Zenon
  <2>2. Conditioned(s1, k + 3, k + 2) = s
    <3> HIDE DEF s1
    <3> QED  BY <1>8, Zenon DEF Conditioned
  <2> HIDE DEF s
  <2> QED  BY <2>1, <2>2, Zenon
<1> HIDE DEF s
<1>10. Top(s) = s.stack[k + 3] /\ Under(s) = s.stack[k + 2]
  <2>1. Depth(s) = k + 3  BY <1>6, Zenon DEF Depth
  <2>2. Depth(s) - 1 = k + 2  BY <1>3, <2>1
  <2> QED  BY <2>1, <2>2, Zenon DEF Under, Top
<1>11. st' = Settled(y)  BY <1>9, <1>10, Zenon DEF Picked
<1> HIDE DEF y
<1>12. Leads(st, Settled(y), k, t, v)  BY <1>3, <1>6, LeadsSettled, Zenon
<1> QED  BY <1>3, <1>11, <1>12, Zenon DEF t, v, k

LEMMA MemorySizeStep ==
  ASSUME WellKept, MemorySize
  PROVE  Leads(st, st', Len(st.stack), "i32", st.pages)
<1> DEFINE k == Len(st.stack)
           s == Fetched(st)
           r == FreeReg(s, k)
           y == Push(WithReg(Freed(s, k), r, PagesAddress), "i32", "cell", r)
<1>1. Good(st) /\ FlagsTop(st) /\ k \in Nat  BY Parts DEF WellKept, Good
<1>2. k < MaxStack  BY Zenon DEF MemorySize, Room, Depth
<1>3. LET q == FreeReg(s, Depth(s))
      IN  st' = Settled(Push([Freed(s, Depth(s)) EXCEPT !.scratch[q] = PagesAddress], "i32", "cell", q))
  BY Zenon DEF MemorySize, Emits
<1> HIDE DEF k
<1>4. Len(s.stack) = k /\ Leads(st, y, k, "i32", st.pages)
  BY <1>1, <1>2, MemorySizeIs, Zenon DEF k
<1>5. Depth(s) = k  BY <1>4, Zenon DEF Depth
<1> HIDE DEF s
<1>6. st' = Settled(y)  BY <1>3, <1>5, Zenon DEF WithReg
<1> HIDE DEF y
<1>7. Leads(st, Settled(y), k, "i32", st.pages)  BY <1>1, <1>4, LeadsSettled, Zenon
<1> QED  BY <1>6, <1>7, Zenon DEF k

LEMMA CallStep ==
  ASSUME WellKept, NEW c \in Callees, NEW results \in [DOMAIN c.results -> Values],
         Call(c, results)
  PROVE  LET m == Len(st.stack) - Len(c.params)
             s == Prepared(st)
             base == CalleeFrame(s, c, FALSE)
             received == Received(Placed(s, c, FALSE), c, base)
         IN  /\ Called(st, st', m, c, results, st'.pages, received) /\ st'.pages \in Values
             /\ Taken(st, c.params, m) /\ out' = <<"call", received>>
<1> DEFINE m == Len(st.stack) - Len(c.params)
           s == Prepared(st)
           base == CalleeFrame(s, c, FALSE)
           p == Placed(s, c, FALSE)
           back == Returned(p, c, base, results)
           y(count) == Settled([back EXCEPT !.pages = count])
           received == Received(p, c, base)
<1>1. Good(st) /\ FlagsTop(st)  BY Zenon DEF WellKept
<1>2. Taken(st, c.params, m)  BY Zenon DEF Call, Takes, Taken, Depth
<1>3. m + Len(c.results) <= MaxStack  BY Zenon DEF Call, Depth
<1>4. out' = <<"call", received>>  BY Zenon DEF Call
<1>5. PICK count \in Values : st' = y(count)  BY Zenon DEF Call
<1> HIDE DEF m
<1>6. Called(st, y(count), m, c, results, count, received)
  BY <1>1, <1>2, <1>3, CallIs, Zenon
<1> HIDE DEF received, y
<1>7. y(count).pages = count  BY <1>6, Zenon DEF Called, Answers
<1>8. st'.pages = count  BY <1>5, <1>7, Zenon
<1> QED  BY <1>2, <1>4, <1>5, <1>6, <1>8, Zenon DEF m, received

LEMMA LeaveStep ==
  ASSUME WellKept, (\E c \in Callees : ReturnCall(c)) \/ Return
  PROVE  Keeps(st, st', 0)
<1>1. Good(st)  BY Zenon DEF WellKept
<1>2. st' = Settled([st EXCEPT !.stack = <<>>])  BY Zenon DEF ReturnCall, Return
<1> QED  BY <1>1, <1>2, LeftIs, Zenon

LEMMA InitWellKept == Init => WellKept
<1> SUFFICES ASSUME Init PROVE WellKept  OBVIOUS
<1>1. PICK args \in [DOMAIN ParamTypes -> Values], count \in Values : st = Entered(args, count)
  BY Zenon DEF Init
<1> DEFINE x == Entered(args, count)
<1>2. Good(x) /\ FlagsTop(x) /\ x.stack = <<>> /\ x.pages = count
      /\ \A i \in DOMAIN LocalTypes : Denoted(x, Home(i)) \in Values
  BY EnteredIs, Zenon
<1> HIDE DEF x
<1>3. st = x  BY <1>1, Zenon DEF x
<1> QED  BY <1>2, <1>3, Zenon DEF WellKept

LEMMA NextWellKept == WellKept /\ [Next]_vars => WellKept'
<1> SUFFICES ASSUME WellKept, [Next]_vars PROVE WellKept'  OBVIOUS
<1>0. \A y, k, t, v : Leads(st, y, k, t, v) => Good(y) /\ FlagsTop(y)  BY Zenon DEF Leads
<1>1. ASSUME NEW t \in Types, NEW v \in Values, Const(t, v)  PROVE WellKept'
  BY <1>0, <1>1, ConstStep, Zenon DEF WellKept
<1>2. ASSUME NEW i \in DOMAIN LocalTypes, LocalGet(i)  PROVE WellKept'
  BY <1>0, <1>2, LocalGetStep, Zenon DEF WellKept
<1>3. ASSUME NEW i \in DOMAIN LocalTypes, LocalSet(i)  PROVE WellKept'
  BY <1>3, LocalSetStep, Zenon DEF WellKept, Sets
<1>4. ASSUME NEW i \in DOMAIN LocalTypes, LocalTee(i)  PROVE WellKept'
  BY <1>4, LocalTeeStep, Zenon DEF WellKept, Sets
<1>5. CASE Drop  BY <1>5, DropStep, Zenon DEF WellKept, Keeps
<1>6. CASE Arithmetic  BY <1>0, <1>6, ArithmeticStep, Zenon DEF WellKept
<1>7. CASE Divide  BY <1>0, <1>7, DivideStep, Zenon DEF WellKept
<1>8. CASE Compare  BY <1>0, <1>8, CompareStep, Zenon DEF WellKept
<1>9. CASE Eqz  BY <1>0, <1>9, EqzStep, Zenon DEF WellKept
<1>10. CASE Select  BY <1>0, <1>10, SelectStep, Zenon DEF WellKept
<1>11. CASE MemorySize  BY <1>0, <1>11, MemorySizeStep, Zenon DEF WellKept
<1>12. ASSUME NEW c \in Callees, NEW results \in [DOMAIN c.results -> Values], Call(c, results)
       PROVE  WellKept'
  BY <1>12, CallStep, Zenon DEF WellKept, Called
<1>13. CASE (\E c \in Callees : ReturnCall(c)) \/ Return
  BY <1>13, LeaveStep, Zenon DEF WellKept, Keeps
<1>14. CASE UNCHANGED vars
  <2>1. st' = st  BY <1>14 DEF vars
  <2> QED  BY <2>1, Zenon DEF WellKept
<1> QED
  BY <1>1, <1>2, <1>3, <1>4, <1>5, <1>6, <1>7, <1>8, <1>9, <1>10, <1>11, <1>12, <1>13, <1>14,
     Zenon DEF Next

(* Between any two instructions every operand is described by something    *)
(* that can be read: a place of the frame that nothing else overlaps, the  *)
(* place of a local, a register of its own, a constant or, on top of the   *)
(* stack, the flags.                                                       *)
THEOREM AlwaysWellKept == Spec => []WellKept
<1>1. Init => WellKept  BY InitWellKept
<1>2. WellKept /\ [Next]_vars => WellKept'  BY NextWellKept
<1> QED  BY <1>1, <1>2, PTL DEF Spec

(* The descriptions, and what the frame, the registers, the locals and the *)
(* flags hold, keep their types; no description leaves the frame.          *)
THEOREM OperandsAlwaysTyped == Spec => []TypeOK
<1>1. ASSUME WellKept  PROVE TypeOK
  <2>1. /\ Good(st) /\ st \in Machines /\ Len(st.stack) <= MaxStack
        /\ Described(st.stack, st.scratch)
    BY <1>1, Zenon DEF WellKept, Good
  <2>2. /\ st.stack \in Seq(Operands) /\ DOMAIN st.stack = 1..Len(st.stack)
        /\ st.flag \in {0, 1, Junk} /\ st.pages \in Values /\ st.frame \in Frames
        /\ st.scratch \in [Regs -> Loaded \cup {PagesAddress}]
        /\ st.local \in [DOMAIN VarTypes -> Loaded]
    BY <2>1, Parts, Zenon
  <2>3. \A i \in DOMAIN st.stack :
          /\ st.stack[i].mode \in {"reg", "cell"} => st.stack[i].n \in Regs
          /\ st.stack[i].at + Size(st.stack[i].type) <= FrameWords
    <3> TAKE i \in DOMAIN st.stack
    <3>1. i \in 1..Len(st.stack)  BY <2>2
    <3>2. st.stack[i].at + Size(st.stack[i].type) <= FrameWords  BY <2>1, <3>1, PlacesBeside
    <3>3. Readable(st.scratch, st.stack[i])  BY <2>1, <3>1, Zenon DEF Described
    <3> QED  BY <3>2, <3>3, Zenon DEF Readable
  <2>4. Loaded \cup {PagesAddress} = Values \cup {Junk, PagesAddress}  BY DEF Loaded
  <2>5. /\ st.frame \in [Words -> [value : Values \cup {Junk}, part : {"whole", "low", "high"}]]
        /\ st.scratch \in [Regs -> Values \cup {Junk, PagesAddress}]
        /\ st.local \in [DOMAIN VarTypes -> Values \cup {Junk}]
    BY <2>2, <2>4, Zenon DEF Frames, Cells, Loaded
  <2> QED  BY <2>1, <2>2, <2>3, <2>5, Zenon DEF TypeOK
<1> QED  BY <1>1, AlwaysWellKept, PTL

(* No scratch register is handed out while an operand is still in it:      *)
(* stackvalue_GetFreeReg and what it saves.                                *)
THEOREM RegistersHeldOnce == Spec => []OneHolder
<1>1. ASSUME WellKept  PROVE OneHolder
  <2> SUFFICES ASSUME NEW r \in Regs
      PROVE  Cardinality(Holders(st, r, Depth(st))) <= 1
    BY DEF OneHolder
  <2> DEFINE h == Holders(st, r, Depth(st))
  <2>1. st \in Machines /\ Apart(st.stack)  BY <1>1, Zenon DEF WellKept, Good
  <2>2. Depth(st) \in Nat /\ Depth(st) = Len(st.stack)  BY <2>1, Parts DEF Depth
  <2>3. \A i : i \in h <=> (i \in 1..Depth(st) /\ InReg(st.stack[i]) /\ st.stack[i].n = r)
    BY <2>2, HoldersAre, Zenon
  <2>4. \A i, j \in h : i = j
    <3> TAKE i, j \in h
    <3> HIDE DEF h
    <3>1. /\ i \in 1..Len(st.stack) /\ InReg(st.stack[i]) /\ st.stack[i].n = r
          /\ j \in 1..Len(st.stack) /\ InReg(st.stack[j]) /\ st.stack[j].n = r
      BY <2>2, <2>3, Zenon
    <3>2. i # j /\ InReg(st.stack[i]) /\ InReg(st.stack[j]) => st.stack[i].n # st.stack[j].n
      BY <2>1, <3>1, Zenon DEF Apart
    <3> QED  BY <3>1, <3>2
  <2> HIDE DEF h
  <2>5. CASE h = {}
    <3>1. Cardinality({}) = 0  BY FS_EmptySet, Zenon
    <3> QED  BY <2>5, <3>1 DEF h
  <2>6. CASE h # {}
    <3>1. PICK i \in h : TRUE  BY <2>6
    <3>2. h = {i}  BY <2>4, <3>1
    <3>3. Cardinality({i}) = 1  BY FS_Singleton, Zenon
    <3> QED  BY <3>2, <3>3 DEF h
  <2> QED  BY <2>5, <2>6
<1> QED  BY <1>1, AlwaysWellKept, PTL

(* Only the operand on top of the stack is ever left in the flags, which   *)
(* the instructions that follow overwrite.                                 *)
THEOREM FlagsAlwaysOnTop == Spec => []FlagsOnTop
<1>1. ASSUME WellKept  PROVE FlagsOnTop
  <2>1. DOMAIN st.stack = 1..Len(st.stack)  BY <1>1, Parts, Zenon DEF WellKept, Good
  <2> QED  BY <1>1, <2>1, Zenon DEF WellKept, FlagsTop, FlagsOnTop, Depth
<1> QED  BY <1>1, AlwaysWellKept, PTL

(* The places that are kept in the frame for operands lie above the        *)
(* parameters and one above the other, after any calls, with arguments     *)
(* moved up to a multiple of 8 bytes or not and results of any types; and  *)
(* what is said to be in the frame is there or among the parameters.       *)
THEOREM PlacesAlwaysApart == Spec => []PlacesApart
<1>1. ASSUME WellKept  PROVE PlacesApart
  <2>1. /\ Good(st) /\ st \in Machines /\ Apart(st.stack) /\ Described(st.stack, st.scratch)
    BY <1>1, Zenon DEF WellKept, Good
  <2>2. DOMAIN st.stack = 1..Len(st.stack) /\ Len(st.stack) \in Nat  BY <2>1, Parts
  <2> SUFFICES ASSUME NEW i \in DOMAIN st.stack
      PROVE  /\ st.stack[i].at >= EndOf(ParamTypes)
             /\ \A j \in i + 1..Depth(st) :
                  st.stack[i].at + Size(st.stack[i].type) <= st.stack[j].at
             /\ st.stack[i].mode = "frame" =>
                  \/ st.stack[i].n = st.stack[i].at
                  \/ \E p \in DOMAIN ParamTypes : st.stack[i].n = LocalPlace(p).n
    BY DEF PlacesApart
  <2>3. i \in 1..Len(st.stack)  BY <2>2
  <2>4. st.stack[i].at \in Nat /\ ParamsEnd <= st.stack[i].at  BY <2>1, <2>3, PlacesBeside
  <2>5. st.stack[i].at >= EndOf(ParamTypes)
    <3>1. ParamsEnd \in Nat  BY Params
    <3>2. st.stack[i].at >= ParamsEnd  BY <2>4, <3>1
    <3> QED  BY <3>2 DEF ParamsEnd
  <2>6. ASSUME NEW j \in i + 1..Depth(st)
        PROVE  st.stack[i].at + Size(st.stack[i].type) <= st.stack[j].at
    <3>1. j \in 1..Len(st.stack) /\ i < j  BY <2>2, <2>3 DEF Depth
    <3> QED  BY <2>1, <2>3, <3>1, Zenon DEF Apart
  <2>7. Homed(st.stack[i])  BY <2>1, <2>3, Zenon DEF Described
  <2> QED  BY <2>5, <2>6, <2>7, Zenon DEF Homed
<1> QED  BY <1>1, AlwaysWellKept, PTL

Entry(t, v) == [type |-> t, value |-> v]
Items(s) == [i \in DOMAIN s.stack |-> Entry(s.stack[i].type, Denoted(s, s.stack[i]))]
Entries == [type : Types, value : Loaded]

(* No operand, and no local, is something that may have been overwritten.  *)
Sound(s) ==
  /\ \A i \in 1..Len(s.stack) : Denoted(s, s.stack[i]) \in Values
  /\ \A i \in DOMAIN LocalTypes : Denoted(s, Home(i)) \in Values

LEMMA ItemsAre ==
  ASSUME NEW s, Good(s)
  PROVE  /\ Items(s) \in Seq(Entries) /\ Len(Items(s)) = Len(s.stack) /\ Len(s.stack) \in Nat
         /\ DOMAIN Items(s) = 1..Len(s.stack)
         /\ \A i \in 1..Len(s.stack) :
              /\ Items(s)[i] = Entry(s.stack[i].type, Denoted(s, s.stack[i]))
              /\ Items(s)[i].type = s.stack[i].type
              /\ Items(s)[i].value = Denoted(s, s.stack[i])
<1>1. /\ s \in Machines
      /\ \A i \in 1..Len(s.stack) : Readable(s.scratch, s.stack[i])
  BY Zenon DEF Good, Described
<1>2. /\ Len(s.stack) \in Nat /\ DOMAIN s.stack = 1..Len(s.stack)
      /\ \A i \in 1..Len(s.stack) : s.stack[i] \in Operands /\ s.stack[i].type \in Types
  BY <1>1, Parts
<1>3. \A i \in 1..Len(s.stack) : Denoted(s, s.stack[i]) \in Loaded
  BY <1>1, <1>2, DenotedTyped
<1>4. ASSUME NEW i \in 1..Len(s.stack)
      PROVE  Entry(s.stack[i].type, Denoted(s, s.stack[i])) \in Entries
  BY <1>2, <1>3 DEF Entry, Entries
<1>5. Items(s) \in [1..Len(s.stack) -> Entries]  BY <1>2, <1>4, Zenon DEF Items
<1>6. Items(s) \in Seq(Entries) /\ Len(Items(s)) = Len(s.stack)  BY <1>2, <1>5
<1>7. \A i \in 1..Len(s.stack) : Items(s)[i] = Entry(s.stack[i].type, Denoted(s, s.stack[i]))
  BY <1>2 DEF Items
<1>8. \A t, v : Entry(t, v).type = t /\ Entry(t, v).value = v  BY DEF Entry
<1>9. DOMAIN Items(s) = 1..Len(s.stack)  BY <1>5
<1>10. ASSUME NEW i \in 1..Len(s.stack)
       PROVE  /\ Items(s)[i].type = s.stack[i].type
              /\ Items(s)[i].value = Denoted(s, s.stack[i])
  <2>1. Items(s)[i] = Entry(s.stack[i].type, Denoted(s, s.stack[i]))  BY <1>7, Zenon
  <2> QED  BY <1>8, <2>1
<1> QED  BY <1>2, <1>6, <1>7, <1>9, <1>10, Zenon

(* The changes of the descriptions as WebAssembly sees them.               *)
Replaces(z, y, k, new) ==
  /\ Items(y) = SubSeq(Items(z), 1, k) \o new /\ y.pages = z.pages /\ Sound(y)

LEMMA LeadsItems ==
  ASSUME NEW z, Good(z), Sound(z), NEW k \in 0..Len(z.stack), NEW y, NEW t, NEW v \in Values,
         Leads(z, y, k, t, v)
  PROVE  Replaces(z, y, k, <<Entry(t, v)>>) /\ Homes(y) = Homes(z)
<1> DEFINE new == <<Entry(t, v)>>
<1>1. /\ Good(y) /\ Len(y.stack) = k + 1 /\ Agrees(z, y, k)
      /\ y.stack[k + 1].type = t /\ Denoted(y, y.stack[k + 1]) = v
  BY Zenon DEF Leads
<1>2. /\ y.pages = z.pages
      /\ \A i \in 1..k : y.stack[i].type = z.stack[i].type
                         /\ Denoted(y, y.stack[i]) = Denoted(z, z.stack[i])
      /\ \A i \in DOMAIN LocalTypes : Denoted(y, Home(i)) = Denoted(z, Home(i))
  BY <1>1, Zenon DEF Agrees
<1>3. /\ Items(z) \in Seq(Entries) /\ Len(Items(z)) = Len(z.stack) /\ Len(z.stack) \in Nat
      /\ \A i \in 1..Len(z.stack) : Items(z)[i] = Entry(z.stack[i].type, Denoted(z, z.stack[i]))
  BY ItemsAre
<1>4. /\ Items(y) \in Seq(Entries) /\ Len(Items(y)) = Len(y.stack)
      /\ \A i \in 1..Len(y.stack) : Items(y)[i] = Entry(y.stack[i].type, Denoted(y, y.stack[i]))
  BY <1>1, ItemsAre
<1>5. Items(y)[k + 1] = Entry(t, v)
  <2>1. k + 1 \in 1..Len(y.stack)  BY <1>1
  <2> QED  BY <1>1, <1>4, <2>1, Zenon
<1>6. Entry(t, v) \in Entries
  <2>1. k + 1 \in 1..Len(Items(y))  BY <1>1, <1>4
  <2>2. Items(y)[k + 1] \in Entries  BY <1>4, <2>1
  <2> QED  BY <1>5, <2>2, Zenon
<1>7. new \in Seq(Entries) /\ Len(new) = 1 /\ new[1] = Entry(t, v)  BY <1>6
<1> HIDE DEF new
<1>8. \A i \in 1..k : Items(y)[i] = Items(z)[i]
  <2> TAKE i \in 1..k
  <2>1. i \in 1..Len(y.stack) /\ i \in 1..Len(z.stack)  BY <1>1, <1>3
  <2> QED  BY <1>2, <1>3, <1>4, <2>1, Zenon
<1>9. Ends(Items(z), k, new, Items(y))
  <2>1. Len(Items(y)) = k + Len(new)  BY <1>1, <1>4, <1>7, Zenon
  <2>2. ASSUME NEW j \in 1..Len(new)  PROVE Items(y)[k + j] = new[j]
    <3>1. j = 1  BY <1>7
    <3> QED  BY <1>5, <1>7, <3>1, Zenon
  <2> QED  BY <1>8, <2>1, <2>2, Zenon DEF Ends
<1>10. Items(y) = SubSeq(Items(z), 1, k) \o new
  <2>1. k \in 0..Len(Items(z))  BY <1>3
  <2> QED  BY <1>3, <1>4, <1>7, <1>9, <2>1, EndsIs
<1>11. Sound(y)
  <2>1. ASSUME NEW i \in 1..Len(y.stack)  PROVE Denoted(y, y.stack[i]) \in Values
    <3>1. CASE i = k + 1  BY <1>1, <3>1, Zenon
    <3>2. CASE i # k + 1
      <4>1. i \in 1..k /\ i \in 1..Len(z.stack)  BY <1>1, <1>3, <3>2
      <4> QED  BY <1>2, <4>1, Zenon DEF Sound
    <3> QED  BY <3>1, <3>2
  <2>2. ASSUME NEW i \in DOMAIN LocalTypes  PROVE Denoted(y, Home(i)) \in Values
    BY <1>2, Zenon DEF Sound
  <2> QED  BY <2>1, <2>2, Zenon DEF Sound
<1>12. Homes(y) = Homes(z)  BY <1>2, HomesSame
<1> QED  BY <1>2, <1>10, <1>11, <1>12, Zenon DEF Replaces, new

LEMMA KeepsItems ==
  ASSUME NEW z, Good(z), Sound(z), NEW k \in 0..Len(z.stack), NEW y, Keeps(z, y, k)
  PROVE  Replaces(z, y, k, <<>>) /\ Homes(y) = Homes(z)
<1>1. /\ Good(y) /\ Len(y.stack) = k /\ Agrees(z, y, k)
  BY Zenon DEF Keeps
<1>2. /\ y.pages = z.pages
      /\ \A i \in 1..k : y.stack[i].type = z.stack[i].type
                         /\ Denoted(y, y.stack[i]) = Denoted(z, z.stack[i])
      /\ \A i \in DOMAIN LocalTypes : Denoted(y, Home(i)) = Denoted(z, Home(i))
  BY <1>1, Zenon DEF Agrees
<1>3. /\ Items(z) \in Seq(Entries) /\ Len(Items(z)) = Len(z.stack) /\ Len(z.stack) \in Nat
      /\ \A i \in 1..Len(z.stack) : Items(z)[i] = Entry(z.stack[i].type, Denoted(z, z.stack[i]))
  BY ItemsAre
<1>4. /\ Items(y) \in Seq(Entries) /\ Len(Items(y)) = Len(y.stack)
      /\ \A i \in 1..Len(y.stack) : Items(y)[i] = Entry(y.stack[i].type, Denoted(y, y.stack[i]))
  BY <1>1, ItemsAre
<1>5. \A i \in 1..k : i \in 1..Len(z.stack)  BY <1>3
<1>6. \A i \in 1..k : Items(y)[i] = Items(z)[i]
  BY <1>1, <1>2, <1>3, <1>4, <1>5, Zenon
<1>7. Ends(Items(z), k, <<>>, Items(y))
  <2>1. Len(Items(y)) = k + Len(<<>>)  BY <1>1, <1>4
  <2>2. \A j \in 1..Len(<<>>) : Items(y)[k + j] = <<>>[j]  OBVIOUS
  <2> QED  BY <1>6, <2>1, <2>2, Zenon DEF Ends
<1>8. Items(y) = SubSeq(Items(z), 1, k) \o <<>>
  <2>1. k \in 0..Len(Items(z)) /\ <<>> \in Seq(Entries)  BY <1>3
  <2> QED  BY <1>3, <1>4, <1>7, <2>1, EndsIs
<1>9. Sound(y)  BY <1>1, <1>2, <1>5, Zenon DEF Sound
<1>10. Homes(y) = Homes(z)  BY <1>2, HomesSame
<1> QED  BY <1>2, <1>8, <1>9, <1>10, Zenon DEF Replaces

WithHome(homes, i, v) == [homes EXCEPT ![i] = v]

LEMMA SetsItems ==
  ASSUME NEW z, Good(z), Sound(z), NEW k \in 0..Len(z.stack), NEW y,
         NEW i \in DOMAIN LocalTypes, NEW v \in Values, Sets(z, y, k, i, v)
  PROVE  Replaces(z, y, k, <<>>) /\ Homes(y) = WithHome(Homes(z), i, v)
<1>1. /\ Good(y) /\ Len(y.stack) = k /\ y.pages = z.pages
      /\ \A j \in 1..k : y.stack[j].type = z.stack[j].type
                         /\ Denoted(y, y.stack[j]) = Denoted(z, z.stack[j])
      /\ Denoted(y, Home(i)) = v
      /\ \A j \in DOMAIN LocalTypes : j # i => Denoted(y, Home(j)) = Denoted(z, Home(j))
  BY Zenon DEF Sets
<1>3. /\ Items(z) \in Seq(Entries) /\ Len(Items(z)) = Len(z.stack) /\ Len(z.stack) \in Nat
      /\ \A j \in 1..Len(z.stack) : Items(z)[j] = Entry(z.stack[j].type, Denoted(z, z.stack[j]))
  BY ItemsAre
<1>4. /\ Items(y) \in Seq(Entries) /\ Len(Items(y)) = Len(y.stack)
      /\ \A j \in 1..Len(y.stack) : Items(y)[j] = Entry(y.stack[j].type, Denoted(y, y.stack[j]))
  BY <1>1, ItemsAre
<1>5. \A j \in 1..k : j \in 1..Len(z.stack)  BY <1>3
<1>6. \A j \in 1..k : Items(y)[j] = Items(z)[j]
  BY <1>1, <1>3, <1>4, <1>5, Zenon
<1>7. Ends(Items(z), k, <<>>, Items(y))
  <2>1. Len(Items(y)) = k + Len(<<>>)  BY <1>1, <1>4
  <2>2. \A j \in 1..Len(<<>>) : Items(y)[k + j] = <<>>[j]  OBVIOUS
  <2> QED  BY <1>6, <2>1, <2>2, Zenon DEF Ends
<1>8. Items(y) = SubSeq(Items(z), 1, k) \o <<>>
  <2>1. k \in 0..Len(Items(z)) /\ <<>> \in Seq(Entries)  BY <1>3
  <2> QED  BY <1>3, <1>4, <1>7, <2>1, EndsIs
<1>9. Sound(y)
  <2>1. \A j \in DOMAIN LocalTypes : Denoted(y, Home(j)) \in Values  BY <1>1, Zenon DEF Sound
  <2>2. \A j \in 1..Len(y.stack) : Denoted(y, y.stack[j]) \in Values
    BY <1>1, <1>5, Zenon DEF Sound
  <2> QED  BY <2>1, <2>2, Zenon DEF Sound
<1>10. Homes(y) = WithHome(Homes(z), i, v)
  <2>1. ASSUME NEW j \in DOMAIN LocalTypes
        PROVE  Denoted(y, Home(j)) = IF j = i THEN v ELSE Denoted(z, Home(j))
    BY <1>1, Zenon
  <2> QED  BY <2>1 DEF Homes, WithHome
<1> QED  BY <1>1, <1>8, <1>9, <1>10, Zenon DEF Replaces

Matched == WellKept /\ Sound(st)
Quiet == Running /\ out' = <<"none", <<>>>>

(* n operands have been replaced by those in new.                          *)
Stacked(z, y, n, new) ==
  /\ Len(Items(z)) >= n /\ Items(y) = SubSeq(Items(z), 1, Len(Items(z)) - n) \o new
  /\ y.pages = z.pages

LEMMA StackedIs ==
  ASSUME Matched, NEW n \in 0..Len(st.stack), NEW new, NEW y,
         Replaces(st, y, Len(st.stack) - n, new)
  PROVE  Stacked(st, y, n, new) /\ Sound(y)
<1>1. Len(Items(st)) = Len(st.stack) /\ Len(st.stack) \in Nat  BY ItemsAre DEF Matched, WellKept
<1>2. /\ Items(y) = SubSeq(Items(st), 1, Len(Items(st)) - n) \o new
      /\ y.pages = st.pages /\ Sound(y)
  BY <1>1, Zenon DEF Replaces
<1>3. Len(Items(st)) >= n  BY <1>1
<1> QED  BY <1>2, <1>3, Zenon DEF Stacked

LEMMA WasmTop ==
  ASSUME Matched
  PROVE  /\ Len(st.stack) # 0 => Wasm!Top = Entry(st.stack[Len(st.stack)].type,
                                                  Denoted(st, st.stack[Len(st.stack)]))
         /\ Len(st.stack) > 1 => Wasm!Under = Entry(st.stack[Len(st.stack) - 1].type,
                                                    Denoted(st, st.stack[Len(st.stack) - 1]))
<1>1. /\ Len(Items(st)) = Len(st.stack) /\ Len(st.stack) \in Nat
      /\ \A i \in 1..Len(st.stack) : Items(st)[i] = Entry(st.stack[i].type, Denoted(st, st.stack[i]))
  BY ItemsAre DEF Matched, WellKept
<1>2. Wasm!Top = Items(st)[Len(Items(st))]  BY Zenon DEF Wasm!Top, Items, Entry
<1>3. Wasm!Under = Items(st)[Len(Items(st)) - 1]  BY Zenon DEF Wasm!Under, Items, Entry
<1>4. CASE Len(st.stack) # 0
  <2>1. Len(st.stack) \in 1..Len(st.stack)  BY <1>1, <1>4
  <2>2. Len(st.stack) > 1 => Len(st.stack) - 1 \in 1..Len(st.stack)  BY <1>1
  <2> QED  BY <1>1, <1>2, <1>3, <2>1, <2>2, Zenon
<1>5. CASE Len(st.stack) = 0  BY <1>5
<1> QED  BY <1>4, <1>5

LEMMA HomesUnchanged ==
  ASSUME Homes(st') = Homes(st)
  PROVE  [i \in DOMAIN LocalTypes |->
            Denoted(st', [type |-> LocalTypes[i], mode |-> LocalPlace(i).mode, n |-> LocalPlace(i).n])]
         = [i \in DOMAIN LocalTypes |->
            Denoted(st, [type |-> LocalTypes[i], mode |-> LocalPlace(i).mode, n |-> LocalPlace(i).n])]
BY Zenon DEF Homes, Home

LEMMA Pushes ==
  ASSUME Matched, NEW n \in 0..Len(st.stack), NEW t, NEW v \in Values, NEW y,
         Leads(st, y, Len(st.stack) - n, t, v)
  PROVE  Sound(y) /\ Homes(y) = Homes(st) /\ Stacked(st, y, n, <<Entry(t, v)>>)
<1>1. Good(st) /\ Sound(st) /\ Len(st.stack) \in Nat  BY ItemsAre, Zenon DEF Matched, WellKept
<1>2. Len(st.stack) - n \in 0..Len(st.stack)  BY <1>1
<1>3. Replaces(st, y, Len(st.stack) - n, <<Entry(t, v)>>) /\ Homes(y) = Homes(st)
  BY <1>1, <1>2, LeadsItems, Zenon
<1> QED  BY <1>3, StackedIs, Zenon

LEMMA ConstMaps ==
  ASSUME Matched, NEW t \in Types, NEW v \in Values, Const(t, v)
  PROVE  Sound(st') /\ Wasm!Const(t, v)
<1>1. Len(st.stack) \in Nat  BY ItemsAre, Zenon DEF Matched, WellKept
<1>2. Leads(st, st', Len(st.stack), t, v)  BY ConstStep, Zenon DEF Matched
<1>3. Quiet  BY DEF Const, Emits, Quiet
<1>4. 0 \in 0..Len(st.stack) /\ Len(st.stack) - 0 = Len(st.stack)  BY <1>1
<1>5. Sound(st') /\ Homes(st') = Homes(st) /\ Stacked(st, st', 0, <<Entry(t, v)>>)
  BY <1>2, <1>4, Pushes, Zenon
<1>6. Wasm!Const(t, v)
  BY <1>3, <1>5, HomesUnchanged, Zenon
  DEF Wasm!Const, Wasm!Replace, Wasm!Without, Wasm!Running, Wasm!Item, Quiet, Running, Stacked,
      Items, Entry
<1> QED  BY <1>5, <1>6

LEMMA LocalGetMaps ==
  ASSUME Matched, NEW i \in DOMAIN LocalTypes, LocalGet(i)
  PROVE  Sound(st') /\ Wasm!LocalGet(i)
<1> DEFINE v == Denoted(st, Home(i))
           was == [j \in DOMAIN LocalTypes |-> Denoted(st, [type |-> LocalTypes[j],
                     mode |-> LocalPlace(j).mode, n |-> LocalPlace(j).n])]
<1>1. Len(st.stack) \in Nat  BY ItemsAre, Zenon DEF Matched, WellKept
<1>2. Leads(st, st', Len(st.stack), LocalTypes[i], v)  BY LocalGetStep, Zenon DEF Matched
<1>3. Quiet  BY DEF LocalGet, Emits, Quiet
<1>4. 0 \in 0..Len(st.stack) /\ Len(st.stack) - 0 = Len(st.stack)  BY <1>1
<1>5. v \in Values  BY Zenon DEF Matched, Sound
<1>6. was[i] = v  BY DEF Home
<1> HIDE DEF v
<1>7. /\ Sound(st') /\ Homes(st') = Homes(st)
      /\ Stacked(st, st', 0, <<Entry(LocalTypes[i], v)>>)
  BY <1>2, <1>4, <1>5, Pushes, Zenon
<1>8. UNCHANGED was  BY <1>7, HomesUnchanged, Zenon
<1>9. Stacked(st, st', 0, <<Entry(LocalTypes[i], was[i])>>)
  <2> HIDE DEF was
  <2> QED  BY <1>6, <1>7, Zenon
<1>10. Wasm!LocalGet(i)
  BY <1>3, <1>8, <1>9, Zenon
  DEF Wasm!LocalGet, Wasm!Replace, Wasm!Without, Wasm!Running, Wasm!Item, Quiet, Running, Stacked,
      Items, Entry
<1> QED  BY <1>7, <1>10

LEMMA LocalTeeMaps ==
  ASSUME Matched, NEW i \in DOMAIN LocalTypes, LocalTee(i)
  PROVE  Sound(st') /\ Wasm!LocalTee(i)
<1> DEFINE k == Len(st.stack)
           v == Denoted(st, st.stack[k])
<1>1. /\ Good(st) /\ Sound(st) /\ k \in Nat /\ Len(Items(st)) = k
      /\ DOMAIN Items(st) = 1..k
  BY ItemsAre, Zenon DEF Matched, WellKept
<1>2. k \in Nat \ {0} /\ Sets(st, st', k, i, v)  BY LocalTeeStep, Zenon DEF Matched
<1>3. Quiet  BY DEF LocalTee, Emits, Quiet
<1>4. 0 \in 0..k /\ k - 0 = k /\ k \in 0..k /\ k \in 1..k /\ k # 0  BY <1>2
<1>5. v \in Values  BY <1>1, <1>4, Zenon DEF Sound
<1>6. Wasm!Top = Entry(st.stack[k].type, v)  BY <1>4, WasmTop
<1>7. Wasm!Top.value = v  BY <1>6 DEF Entry
<1>8. Replaces(st, st', k, <<>>) /\ Homes(st') = WithHome(Homes(st), i, v)
  <2>1. Sets(st, st', k, i, v) /\ k \in 0..k  BY <1>2, <1>4, Zenon
  <2> HIDE DEF v
  <2> QED  BY <1>1, <1>5, <2>1, SetsItems, Zenon
<1>9. Stacked(st, st', 0, <<>>) /\ Sound(st')
  BY <1>4, <1>8, StackedIs, Zenon
<1>10. Items(st) # <<>>  BY <1>1, <1>4
<1>11. Homes(st') = WithHome(Homes(st), i, Wasm!Top.value)
  <2> HIDE DEF v
  <2> QED  BY <1>7, <1>8, Zenon
<1>12. Wasm!LocalTee(i)
  BY <1>3, <1>9, <1>10, <1>11, Zenon
  DEF Wasm!LocalTee, Wasm!Replace, Wasm!Without, Wasm!Running, Quiet, Running, Stacked,
      Items, Entry, Homes, Home, WithHome
<1> QED  BY <1>9, <1>12

LEMMA LocalSetMaps ==
  ASSUME Matched, NEW i \in DOMAIN LocalTypes, LocalSet(i)
  PROVE  Sound(st') /\ Wasm!LocalSet(i)
<1> DEFINE n == Len(st.stack)
           v == Denoted(st, st.stack[n])
<1>1. Good(st) /\ Sound(st) /\ n \in Nat
  BY ItemsAre, Zenon DEF Matched, WellKept
<1>2. /\ n - 1 \in Nat /\ n = (n - 1) + 1
      /\ Sets(st, st', n - 1, i, Denoted(st, st.stack[(n - 1) + 1]))
  BY LocalSetStep, Zenon DEF Matched
<1>3. Quiet  BY DEF LocalSet, Emits, Quiet
<1>4. 1 \in 0..n /\ n - 1 \in 0..n /\ n \in 1..n /\ n # 0  BY <1>1, <1>2
<1>5. v \in Values  BY <1>1, <1>4, Zenon DEF Sound
<1>6. Wasm!Top = Entry(st.stack[n].type, v)  BY <1>4, WasmTop
<1>7. Wasm!Top.value = v  BY <1>6 DEF Entry
<1>8. Sets(st, st', n - 1, i, v)  BY <1>2, Zenon
<1>9. Replaces(st, st', n - 1, <<>>) /\ Homes(st') = WithHome(Homes(st), i, v)
  <2> HIDE DEF v
  <2> QED  BY <1>1, <1>4, <1>5, <1>8, SetsItems, ZenonT(60)
<1>10. Stacked(st, st', 1, <<>>) /\ Sound(st')
  BY <1>4, <1>9, StackedIs, Zenon
<1>11. Homes(st') = WithHome(Homes(st), i, Wasm!Top.value)
  <2> HIDE DEF v
  <2> QED  BY <1>7, <1>9, Zenon
<1>12. Wasm!LocalSet(i)
  BY <1>3, <1>10, <1>11, Zenon
  DEF Wasm!LocalSet, Wasm!Replace, Wasm!Without, Wasm!Running, Quiet, Running, Stacked,
      Items, Entry, Homes, Home, WithHome
<1> QED  BY <1>10, <1>12

LEMMA DropMaps ==
  ASSUME Matched, Drop
  PROVE  Sound(st') /\ Wasm!Drop
<1> DEFINE n == Len(st.stack)
<1>1. Good(st) /\ Sound(st) /\ n \in Nat  BY ItemsAre, Zenon DEF Matched, WellKept
<1>2. n - 1 \in Nat /\ n = (n - 1) + 1 /\ Keeps(st, st', n - 1)  BY DropStep, Zenon DEF Matched
<1>3. Quiet  BY DEF Drop, Emits, Quiet
<1>4. 1 \in 0..n /\ n - 1 \in 0..n  BY <1>1, <1>2
<1>5. Replaces(st, st', n - 1, <<>>) /\ Homes(st') = Homes(st)
  BY <1>1, <1>2, <1>4, KeepsItems, Zenon
<1>6. Stacked(st, st', 1, <<>>) /\ Sound(st')  BY <1>4, <1>5, StackedIs, Zenon
<1>7. Wasm!Drop
  BY <1>3, <1>5, <1>6, HomesUnchanged, Zenon
  DEF Wasm!Drop, Wasm!Replace, Wasm!Without, Wasm!Running, Quiet, Running, Stacked, Items, Entry
<1> QED  BY <1>6, <1>7

(* The two topmost operands, and what is computed from them.               *)
LEMMA TopTwo ==
  ASSUME Matched, NEW k \in Nat, Len(st.stack) = k + 2
  PROVE  LET x == Denoted(st, st.stack[k + 1])
             y == Denoted(st, st.stack[k + 2])
         IN  /\ x \in Values /\ y \in Values
             /\ Wasm!Under.value = x /\ Wasm!Top.value = y /\ Wasm!Top.type = st.stack[k + 2].type
             /\ 2 \in 0..Len(st.stack) /\ Len(st.stack) - 2 = k
             /\ Computed(x, y) = Binop[x, y] /\ Binop[x, y] \in Values
             /\ Less01(x, y) = (IF x < y THEN 1 ELSE 0) /\ Less01(x, y) \in Values
<1> DEFINE x == Denoted(st, st.stack[k + 1])
           y == Denoted(st, st.stack[k + 2])
<1>1. /\ k + 1 \in 1..Len(st.stack) /\ k + 2 \in 1..Len(st.stack)
      /\ Len(st.stack) # 0 /\ Len(st.stack) > 1 /\ Len(st.stack) - 1 = k + 1
      /\ 2 \in 0..Len(st.stack) /\ Len(st.stack) - 2 = k
  OBVIOUS
<1>2. x \in Values /\ y \in Values  BY <1>1, Zenon DEF Matched, Sound
<1>3. Wasm!Top = Entry(st.stack[k + 2].type, y) /\ Wasm!Under = Entry(st.stack[k + 1].type, x)
  BY <1>1, WasmTop, Zenon
<1> HIDE DEF x, y
<1>4. Wasm!Under.value = x /\ Wasm!Top.value = y /\ Wasm!Top.type = st.stack[k + 2].type
  BY <1>3 DEF Entry
<1>5. Computed(x, y) = Binop[x, y]  BY <1>2, Zenon DEF Computed
<1>6. Binop[x, y] \in Values  BY <1>2, OperandStackAssumption
<1>7. Less01(x, y) = IF x < y THEN 1 ELSE 0  BY <1>2, Zenon DEF Less01
<1>8. Less01(x, y) \in Values  BY <1>7, StackValuesAssumption
<1> QED  BY <1>1, <1>2, <1>4, <1>5, <1>6, <1>7, <1>8, Zenon DEF x, y

LEMMA BinaryMaps ==
  ASSUME Matched, Quiet, NEW k \in Nat, Len(st.stack) = k + 2,
         Leads(st, st', k, st.stack[k + 2].type,
               Computed(Denoted(st, st.stack[k + 1]), Denoted(st, st.stack[k + 2])))
  PROVE  Sound(st') /\ Wasm!Binary
<1> DEFINE x == Denoted(st, st.stack[k + 1])
           y == Denoted(st, st.stack[k + 2])
           t == st.stack[k + 2].type
<1>1. Leads(st, st', k, t, Computed(x, y))  OBVIOUS
<1>2. /\ 2 \in 0..Len(st.stack) /\ Len(st.stack) - 2 = k
      /\ Computed(x, y) = Binop[x, y] /\ Binop[x, y] \in Values
      /\ Wasm!Under.value = x /\ Wasm!Top.value = y /\ Wasm!Top.type = t
  BY TopTwo
<1> HIDE DEF x, y, t
<1>3. Leads(st, st', Len(st.stack) - 2, t, Binop[x, y])  BY <1>1, <1>2, Zenon
<1>4. Sound(st') /\ Homes(st') = Homes(st) /\ Stacked(st, st', 2, <<Entry(t, Binop[x, y])>>)
  BY <1>2, <1>3, Pushes, Zenon
<1>5. Stacked(st, st', 2, <<Entry(Wasm!Top.type, Binop[Wasm!Under.value, Wasm!Top.value])>>)
  BY <1>2, <1>4, Zenon
<1>6. Wasm!Binary
  BY <1>4, <1>5, HomesUnchanged, Zenon
  DEF Wasm!Binary, Wasm!Replace, Wasm!Without, Wasm!Running, Wasm!Item, Quiet, Running, Stacked,
      Items, Entry
<1> QED  BY <1>4, <1>6

LEMMA ArithmeticMaps ==
  ASSUME Matched, Arithmetic
  PROVE  Sound(st') /\ Wasm!Binary
<1> DEFINE k == Len(st.stack) - 2
<1>1. /\ k \in Nat /\ Len(st.stack) = k + 2
      /\ Leads(st, st', k, st.stack[k + 2].type,
               Computed(Denoted(st, st.stack[k + 1]), Denoted(st, st.stack[k + 2])))
  BY ArithmeticStep, Zenon DEF Matched
<1>2. Quiet  BY Zenon DEF Arithmetic, Emits, Quiet
<1> HIDE DEF k
<1> QED  BY <1>1, <1>2, BinaryMaps, Zenon

LEMMA DivideMaps ==
  ASSUME Matched, Shapes = {}, Divide
  PROVE  Sound(st') /\ Wasm!Binary
<1> DEFINE k == Len(st.stack) - 2
           v == Computed(Denoted(st, st.stack[k + 1]), Denoted(st, st.stack[k + 2]))
<1>1. /\ k \in Nat /\ Len(st.stack) = k + 2
      /\ \E w : Leads(st, st', k, st.stack[k + 2].type, w) /\ (Shapes = {} => w = v)
  BY DivideStep, Zenon DEF Matched
<1>2. Leads(st, st', k, st.stack[k + 2].type, v)  BY <1>1, Zenon
<1>3. Quiet  BY Zenon DEF Divide, Emits, Quiet
<1> HIDE DEF k
<1> QED  BY <1>1, <1>2, <1>3, BinaryMaps, Zenon

LEMMA CompareMaps ==
  ASSUME Matched, Compare
  PROVE  Sound(st') /\ Wasm!Compare
<1> DEFINE k == Len(st.stack) - 2
           x == Denoted(st, st.stack[k + 1])
           y == Denoted(st, st.stack[k + 2])
           v == IF x < y THEN 1 ELSE 0
<1>1. k \in Nat /\ Len(st.stack) = k + 2 /\ Leads(st, st', k, "i32", Less01(x, y))
  BY CompareStep, Zenon DEF Matched
<1>2. Quiet  BY Zenon DEF Compare, Emits, Quiet
<1> HIDE DEF k
<1>3. /\ 2 \in 0..Len(st.stack) /\ Len(st.stack) - 2 = k
      /\ Less01(x, y) = v /\ Less01(x, y) \in Values
      /\ Wasm!Under.value = x /\ Wasm!Top.value = y
  BY <1>1, TopTwo
<1>4. v = IF Wasm!Under.value < Wasm!Top.value THEN 1 ELSE 0
  <2> HIDE DEF x, y
  <2> QED  BY <1>3, Zenon
<1> HIDE DEF x, y, v
<1>5. Leads(st, st', Len(st.stack) - 2, "i32", v) /\ v \in Values  BY <1>1, <1>3, Zenon
<1>6. Sound(st') /\ Homes(st') = Homes(st) /\ Stacked(st, st', 2, <<Entry("i32", v)>>)
  BY <1>3, <1>5, Pushes, Zenon
<1>7. Stacked(st, st', 2,
              <<Entry("i32", IF Wasm!Under.value < Wasm!Top.value THEN 1 ELSE 0)>>)
  BY <1>4, <1>6, Zenon
<1>8. Wasm!Compare
  BY <1>2, <1>6, <1>7, HomesUnchanged, Zenon
  DEF Wasm!Compare, Wasm!Truth, Wasm!Replace, Wasm!Without, Wasm!Running, Wasm!Item, Quiet,
      Running, Stacked, Items, Entry
<1> QED  BY <1>6, <1>8

LEMMA EqzMaps ==
  ASSUME Matched, Eqz
  PROVE  Sound(st') /\ Wasm!Eqz
<1> DEFINE n == Len(st.stack)
           x == Denoted(st, st.stack[n])
           v == IF x = 0 THEN 1 ELSE 0
<1>1. n - 1 \in Nat /\ n = (n - 1) + 1 /\ Leads(st, st', n - 1, "i32", Zero01(x))
  <2>1. /\ n - 1 \in Nat /\ n = (n - 1) + 1
        /\ Leads(st, st', n - 1, "i32", Zero01(Denoted(st, st.stack[(n - 1) + 1])))
    BY EqzStep, Zenon DEF Matched
  <2> QED  BY <2>1, Zenon
<1>2. Quiet  BY Zenon DEF Eqz, Emits, Quiet
<1>3. 1 \in 0..n /\ n \in 1..n /\ n # 0
  <2>1. n \in Nat  BY ItemsAre, Zenon DEF Matched, WellKept
  <2> QED  BY <1>1, <2>1
<1>4. x \in Values /\ Wasm!Top = Entry(st.stack[n].type, x)
  BY <1>3, WasmTop, Zenon DEF Matched, Sound
<1>5. Wasm!Top.value = x  BY <1>4 DEF Entry
<1>6. Zero01(x) = v /\ v \in Values
  <2>1. x # Junk  BY <1>4, StackValuesAssumption DEF Junk
  <2> QED  BY <2>1, StackValuesAssumption DEF Zero01
<1>7. v = IF Wasm!Top.value = 0 THEN 1 ELSE 0
  <2> HIDE DEF x
  <2> QED  BY <1>5, Zenon
<1> HIDE DEF x, v
<1>8. Leads(st, st', n - 1, "i32", v)  BY <1>1, <1>6, Zenon
<1>9. Sound(st') /\ Homes(st') = Homes(st) /\ Stacked(st, st', 1, <<Entry("i32", v)>>)
  BY <1>3, <1>6, <1>8, Pushes, Zenon
<1>10. Stacked(st, st', 1, <<Entry("i32", IF Wasm!Top.value = 0 THEN 1 ELSE 0)>>)
  BY <1>7, <1>9, Zenon
<1>11. Wasm!Eqz
  BY <1>2, <1>9, <1>10, HomesUnchanged, Zenon
  DEF Wasm!Eqz, Wasm!Truth, Wasm!Replace, Wasm!Without, Wasm!Running, Wasm!Item, Quiet,
      Running, Stacked, Items, Entry
<1> QED  BY <1>9, <1>11

LEMMA SelectMaps ==
  ASSUME Matched, Select
  PROVE  Sound(st') /\ Wasm!Select
<1> DEFINE k == Len(st.stack) - 3
           t == st.stack[k + 1].type
           x == Denoted(st, st.stack[k + 1])
           y == Denoted(st, st.stack[k + 2])
           z == Denoted(st, st.stack[k + 3])
           v == IF z = 0 THEN y ELSE x
           item == IF z # 0 THEN Items(st)[k + 1] ELSE Items(st)[k + 2]
<1>1. k \in Nat /\ Len(st.stack) = k + 3 /\ Leads(st, st', k, t, v)
  BY SelectStep, Zenon DEF Matched
<1>2. Quiet  BY Zenon DEF Select, Emits, Quiet
<1>3. Under(st).type = st.stack[Len(st.stack) - 2].type  BY Zenon DEF Select, Depth
<1> HIDE DEF k
<1>4. /\ 3 \in 0..Len(st.stack) /\ Len(st.stack) - 3 = k /\ Len(st.stack) - 1 = k + 2
      /\ Len(st.stack) - 2 = k + 1 /\ Len(st.stack) # 0 /\ Len(st.stack) > 1
      /\ k + 1 \in 1..Len(st.stack) /\ k + 2 \in 1..Len(st.stack) /\ k + 3 \in 1..Len(st.stack)
  BY <1>1
<1>5. /\ Len(Items(st)) = Len(st.stack)
      /\ \A i \in 1..Len(st.stack) : Items(st)[i] = Entry(st.stack[i].type, Denoted(st, st.stack[i]))
  BY ItemsAre, Zenon DEF Matched, WellKept
<1>6. st.stack[k + 2].type = t  BY <1>3, <1>4, Zenon DEF Under, Depth
<1>7. x \in Values /\ y \in Values  BY <1>4, Zenon DEF Matched, Sound
<1>8. /\ Items(st)[k + 1] = Entry(t, x) /\ Items(st)[k + 2] = Entry(t, y)
      /\ Wasm!Top = Entry(st.stack[k + 3].type, z) /\ Wasm!Under = Items(st)[k + 2]
  <2>1. Items(st)[k + 1] = Entry(t, x)  BY <1>4, <1>5, Zenon
  <2>2. Items(st)[k + 2] = Entry(t, y)  BY <1>4, <1>5, <1>6, Zenon
  <2>3. Wasm!Top = Entry(st.stack[k + 3].type, z)  BY <1>1, <1>4, WasmTop, Zenon
  <2>4. Wasm!Under = Items(st)[k + 2]  BY <1>4, <1>5, WasmTop, Zenon
  <2> QED  BY <2>1, <2>2, <2>3, <2>4, Zenon
<1>9. Wasm!Top.value = z  BY <1>8 DEF Entry
<1>10. Entry(t, v) = item /\ v \in Values
  <2> HIDE DEF x, y, z, t
  <2> QED  BY <1>7, <1>8, Zenon
<1>11. Leads(st, st', Len(st.stack) - 3, t, v)  BY <1>1, <1>4, Zenon
<1>12. Sound(st') /\ Homes(st') = Homes(st) /\ Stacked(st, st', 3, <<item>>)
  <2>1. Sound(st') /\ Homes(st') = Homes(st) /\ Stacked(st, st', 3, <<Entry(t, v)>>)
    <3> HIDE DEF v, t
    <3> QED  BY <1>4, <1>10, <1>11, Pushes, Zenon
  <2> HIDE DEF item, v, t
  <2> QED  BY <1>10, <2>1, Zenon
<1>13. item = IF Wasm!Top.value # 0 THEN Items(st)[Len(Items(st)) - 2] ELSE Wasm!Under
  <2> HIDE DEF z
  <2> QED  BY <1>4, <1>5, <1>8, <1>9, Zenon
<1>14. Stacked(st, st', 3,
               <<IF Wasm!Top.value # 0 THEN Items(st)[Len(Items(st)) - 2] ELSE Wasm!Under>>)
  <2> HIDE DEF item
  <2> QED  BY <1>12, <1>13, Zenon
<1>15. Wasm!Select
  BY <1>2, <1>12, <1>14, HomesUnchanged, Zenon
  DEF Wasm!Select, Wasm!Replace, Wasm!Without, Wasm!Running, Quiet, Running, Stacked,
      Items, Entry
<1> QED  BY <1>12, <1>15

LEMMA MemorySizeMaps ==
  ASSUME Matched, MemorySize
  PROVE  Sound(st') /\ Wasm!MemorySize
<1>1. Good(st) /\ Len(st.stack) \in Nat  BY ItemsAre, Zenon DEF Matched, WellKept
<1>2. Leads(st, st', Len(st.stack), "i32", st.pages)  BY MemorySizeStep, Zenon DEF Matched
<1>3. Quiet  BY Zenon DEF MemorySize, Emits, Quiet
<1>4. 0 \in 0..Len(st.stack) /\ Len(st.stack) - 0 = Len(st.stack)  BY <1>1
<1>5. st.pages \in Values  BY <1>1, Parts, Zenon DEF Good
<1>6. Leads(st, st', Len(st.stack) - 0, "i32", st.pages)  BY <1>2, <1>4, Zenon
<1>7. Sound(st') /\ Homes(st') = Homes(st) /\ Stacked(st, st', 0, <<Entry("i32", st.pages)>>)
  BY <1>1, <1>5, <1>6, <1>4, Pushes, Zenon
<1>8. Wasm!MemorySize
  BY <1>3, <1>7, HomesUnchanged, Zenon
  DEF Wasm!MemorySize, Wasm!Replace, Wasm!Without, Wasm!Running, Wasm!Item, Quiet,
      Running, Stacked, Items, Entry
<1> QED  BY <1>7, <1>8

(* The n topmost operands.                                                 *)
Upper(q, n) == SubSeq(q, Len(q) - n + 1, Len(q))

LEMMA UpperIs ==
  ASSUME NEW S, NEW q \in Seq(S), NEW n \in Nat, NEW m \in Nat, Len(q) = m + n
  PROVE  DOMAIN Upper(q, n) = 1..n /\ \A i \in 1..n : Upper(q, n)[i] = q[m + i]
<1>1. Len(q) - n + 1 = m + 1  OBVIOUS
<1>2. Upper(q, n) = SubSeq(q, m + 1, m + n)  BY <1>1, Zenon DEF Upper
<1>3. DOMAIN SubSeq(q, m + 1, m + n) = 1..n  OBVIOUS
<1>4. ASSUME NEW i \in 1..n  PROVE SubSeq(q, m + 1, m + n)[i] = q[m + i]
  <2>1. SubSeq(q, m + 1, m + n)[i] = q[i + (m + 1) - 1]  OBVIOUS
  <2>2. i + (m + 1) - 1 = m + i  OBVIOUS
  <2> QED  BY <2>1, <2>2, Zenon
<1> QED  BY <1>2, <1>3, <1>4, Zenon

Handed(s, types, m) == [k \in DOMAIN types |-> Denoted(s, s.stack[m + k])]

LEMMA UpperItems ==
  ASSUME Matched, NEW types \in Seq(Types), NEW m, Taken(st, types, m)
  PROVE  LET above == Upper(Items(st), Len(types))
         IN  /\ m \in 0..Len(Items(st)) /\ Len(types) \in 0..Len(Items(st))
             /\ Len(Items(st)) - Len(types) = m
             /\ [i \in DOMAIN above |-> above[i].type] = types
             /\ [i \in DOMAIN above |-> above[i].value] = Handed(st, types, m)
<1> DEFINE n == Len(types)
           above == Upper(Items(st), n)
<1>1. Good(st)  BY Zenon DEF Matched, WellKept
<1>2. /\ m \in Nat /\ Len(st.stack) = m + n /\ n \in Nat /\ DOMAIN types = 1..n
      /\ \A k \in 1..n : st.stack[m + k].type = types[k]
  <2>1. Split(st, types, m)  BY <1>1, TakenIs
  <2> QED  BY <2>1, Zenon DEF Split
<1>3. /\ Items(st) \in Seq(Entries) /\ Len(Items(st)) = Len(st.stack)
      /\ \A i \in 1..Len(st.stack) : /\ Items(st)[i].type = st.stack[i].type
                                     /\ Items(st)[i].value = Denoted(st, st.stack[i])
  BY <1>1, ItemsAre, Zenon
<1> HIDE DEF n
<1>4. DOMAIN above = 1..n /\ \A i \in 1..n : above[i] = Items(st)[m + i]
  <2>1. Len(Items(st)) = m + n  BY <1>2, <1>3, Zenon
  <2> QED  BY <1>2, <1>3, <2>1, UpperIs, Zenon
<1>5. ASSUME NEW i \in 1..n
      PROVE  above[i].type = types[i] /\ above[i].value = Denoted(st, st.stack[m + i])
  <2>1. m + i \in 1..Len(st.stack)  BY <1>2
  <2> QED  BY <1>2, <1>3, <1>4, <2>1, Zenon
<1> HIDE DEF above
<1>6. [i \in DOMAIN above |-> above[i].type] = types
  <2>1. types = [i \in DOMAIN types |-> types[i]]  OBVIOUS
  <2>2. [i \in DOMAIN above |-> above[i].type] = [i \in DOMAIN types |-> types[i]]
    BY <1>2, <1>4, <1>5, Zenon
  <2> QED  BY <2>1, <2>2, Zenon
<1>7. [i \in DOMAIN above |-> above[i].value] = Handed(st, types, m)
  BY <1>2, <1>4, <1>5, Zenon DEF Handed
<1>8. m \in 0..Len(Items(st)) /\ n \in 0..Len(Items(st)) /\ Len(Items(st)) - n = m
  BY <1>2, <1>3
<1> QED  BY <1>6, <1>7, <1>8, Zenon DEF above, n

Back(c, results) == [i \in DOMAIN results |-> Entry(c.results[i], results[i])]

LEMMA CallItems ==
  ASSUME Matched, NEW y, NEW c \in Callees, NEW m, Taken(st, c.params, m),
         NEW results \in [DOMAIN c.results -> Values], NEW count, NEW received,
         Called(st, y, m, c, results, count, received), Consecutive(st, c)
  PROVE  /\ Items(y) = SubSeq(Items(st), 1, m) \o Back(c, results)
         /\ Sound(y) /\ Homes(y) = Homes(st) /\ received = Handed(st, c.params, m)
<1> DEFINE z == st
           new == Back(c, results)
           n == Len(c.results)
<1>1. Good(z) /\ Sound(z)  BY Zenon DEF Matched, WellKept
<1>2. /\ Good(y) /\ Len(y.stack) = m + n
      /\ \A k \in DOMAIN c.results :
           y.stack[m + k].type = c.results[k] /\ Denoted(y, y.stack[m + k]) = results[k]
      /\ \A i \in 1..m :
           y.stack[i].type = z.stack[i].type /\ Denoted(y, y.stack[i]) = Denoted(z, z.stack[i])
      /\ \A i \in DOMAIN LocalTypes : Denoted(y, Home(i)) = Denoted(z, Home(i))
      /\ received = [k \in DOMAIN c.params |-> Denoted(z, z.stack[m + k])]
  BY Zenon DEF Called, Answers, Undisturbed
<1>3. c.results \in Seq(Types) /\ c.params \in Seq(Types)  BY StackValuesAssumption
<1>4. n \in Nat /\ DOMAIN c.results = 1..n /\ \A k \in 1..n : c.results[k] \in Types  BY <1>3
<1>5. m \in 0..Len(Items(z))  BY <1>3, UpperItems
<1>6. /\ Items(z) \in Seq(Entries) /\ Len(Items(z)) = Len(z.stack) /\ Len(z.stack) \in Nat
      /\ \A i \in 1..Len(z.stack) : Items(z)[i] = Entry(z.stack[i].type, Denoted(z, z.stack[i]))
  BY <1>1, ItemsAre
<1>7. /\ Items(y) \in Seq(Entries) /\ Len(Items(y)) = Len(y.stack)
      /\ \A i \in 1..Len(y.stack) : Items(y)[i] = Entry(y.stack[i].type, Denoted(y, y.stack[i]))
  BY <1>2, ItemsAre
<1>8. DOMAIN results = 1..n /\ \A k \in 1..n : results[k] \in Values  BY <1>4
<1>9. /\ new \in Seq(Entries) /\ Len(new) = n
      /\ \A k \in 1..n : new[k] = Entry(c.results[k], results[k])
  <2>1. ASSUME NEW k \in 1..n  PROVE Entry(c.results[k], results[k]) \in Entries
    BY <1>4, <1>8, ValuesIn DEF Entry, Entries
  <2>2. new = [k \in 1..n |-> Entry(c.results[k], results[k])]  BY <1>8, Zenon DEF Back
  <2> HIDE DEF n, new
  <2>3. new \in [1..n -> Entries]  BY <2>1, <2>2, Zenon
  <2> QED  BY <1>4, <2>2, <2>3
<1> HIDE DEF n, new, z
<1>10. Ends(Items(z), m, new, Items(y))
  <2>1. ASSUME NEW i \in 1..m  PROVE Items(y)[i] = Items(z)[i]
    <3>1. i \in 1..Len(y.stack) /\ i \in 1..Len(z.stack)  BY <1>2, <1>4, <1>5, <1>6
    <3> QED  BY <1>2, <1>6, <1>7, <3>1, Zenon
  <2>2. ASSUME NEW k \in 1..n  PROVE Items(y)[m + k] = new[k]
    <3>1. m + k \in 1..Len(y.stack)  BY <1>2, <1>4, <1>5
    <3>2. Items(y)[m + k] = Entry(c.results[k], results[k])  BY <1>2, <1>4, <1>7, <3>1, Zenon
    <3> QED  BY <1>9, <3>2, Zenon
  <2> QED  BY <1>2, <1>7, <1>9, <2>1, <2>2, Zenon DEF Ends
<1>11. Items(y) = SubSeq(Items(z), 1, m) \o new  BY <1>5, <1>6, <1>7, <1>9, <1>10, EndsIs, Zenon
<1>12. Sound(y)
  <2>1. ASSUME NEW i \in 1..Len(y.stack)  PROVE Denoted(y, y.stack[i]) \in Values
    <3>1. CASE i \in 1..m
      <4>1. i \in 1..Len(z.stack)  BY <1>5, <1>6, <3>1
      <4> QED  BY <1>1, <1>2, <3>1, <4>1, Zenon DEF Sound
    <3>2. CASE i \notin 1..m
      <4>1. i - m \in 1..n /\ m + (i - m) = i  BY <1>2, <1>4, <1>5, <3>2
      <4>2. Denoted(y, y.stack[m + (i - m)]) = results[i - m]  BY <1>2, <1>4, <4>1, Zenon
      <4> QED  BY <1>8, <4>1, <4>2, Zenon
    <3> QED  BY <3>1, <3>2
  <2> QED  BY <1>1, <1>2, <2>1, Zenon DEF Sound
<1>13. Homes(y) = Homes(z)  BY <1>2, HomesSame
<1>14. received = Handed(z, c.params, m)  BY <1>2, Zenon DEF Handed
<1> QED  BY <1>11, <1>12, <1>13, <1>14, Zenon DEF new, z

LEMMA CallMaps ==
  ASSUME Matched, Shapes = {}, NEW c \in Callees, NEW results \in [DOMAIN c.results -> Values],
         Call(c, results)
  PROVE  Sound(st') /\ Wasm!Call(c, results)
<1> DEFINE m == Len(st.stack) - Len(c.params)
           received == Received(Placed(Prepared(st), c, FALSE), c, CalleeFrame(Prepared(st), c, FALSE))
           above == Upper(Items(st), Len(c.params))
<1>1. /\ Called(st, st', m, c, results, st'.pages, received) /\ st'.pages \in Values
      /\ Taken(st, c.params, m) /\ out' = <<"call", received>>
  BY CallStep, Zenon DEF Matched
<1>2. Consecutive(st, c) /\ Running  BY Zenon DEF Call
<1>3. c.params \in Seq(Types)  BY StackValuesAssumption
<1> HIDE DEF received, m
<1>4. /\ Items(st') = SubSeq(Items(st), 1, m) \o Back(c, results)
      /\ Sound(st') /\ Homes(st') = Homes(st) /\ received = Handed(st, c.params, m)
  BY <1>1, <1>2, CallItems, Zenon
<1>5. /\ m \in 0..Len(Items(st)) /\ Len(c.params) \in 0..Len(Items(st))
      /\ Len(Items(st)) - Len(c.params) = m
      /\ [i \in DOMAIN above |-> above[i].type] = c.params
      /\ [i \in DOMAIN above |-> above[i].value] = Handed(st, c.params, m)
  BY <1>1, <1>3, UpperItems
<1>6. Len(Items(st)) >= Len(c.params)  BY <1>5
<1>7. Items(st') = SubSeq(Items(st), 1, Len(Items(st)) - Len(c.params)) \o Back(c, results)
  BY <1>4, <1>5, Zenon
<1>8. out' = <<"call", [i \in DOMAIN above |-> above[i].value]>>  BY <1>1, <1>4, <1>5, Zenon
<1>9. Wasm!Takes(c)
  BY <1>2, <1>5, <1>6, Zenon
  DEF Wasm!Takes, Wasm!Running, Wasm!TypesOf, Wasm!Above, Running, Items, Entry, Upper
<1>10. Wasm!Call(c, results)
  BY <1>1, <1>4, <1>7, <1>8, <1>9, HomesUnchanged, Zenon
  DEF Wasm!Call, Wasm!Without, Wasm!ValuesOf, Wasm!Above, Wasm!Item, Items, Entry, Upper, Back
<1> QED  BY <1>4, <1>10

(* The loop over the operands when only the topmost one may be saved.      *)
LEMMA SaveTop ==
  ASSUME NEW s, NEW n \in Nat, Len(s.stack) = n, NEW P, \A j \in 1..n : j \in P => j = n
  PROVE  SaveUpwards(s, P) = IF n # 0 /\ n \in P THEN SaveStack(s, n) ELSE s
<1> DEFINE E(k, x) == IF k \in P THEN SaveStack(x, k) ELSE x
           H(k) == IF k = n /\ n # 0 /\ n \in P THEN SaveStack(s, n) ELSE s
           h == [k \in 0..n |-> H(k)]
           F == CHOOSE q : q = [k \in 0..n |-> IF k = 0 THEN s ELSE E(k, q[k - 1])]
<1>1. ASSUME NEW k \in 1..n  PROVE H(k) = E(k, H(k - 1)) /\ H(k - 1) = s
  <2>1. H(k - 1) = s  OBVIOUS
  <2>2. CASE k \in P
    <3>1. k = n /\ n # 0  BY <2>2
    <3> QED  BY <2>1, <2>2, <3>1, Zenon
  <2>3. CASE k \notin P
    <3>1. H(k) = s  BY <2>3, Zenon
    <3> HIDE DEF H
    <3> QED  BY <2>1, <2>3, <3>1, Zenon
  <2> QED  BY <2>2, <2>3
<1>2. H(0) = s  OBVIOUS
<1> HIDE DEF E, H
<1>3. h = [k \in 0..n |-> IF k = 0 THEN s ELSE E(k, h[k - 1])]
  <2>1. ASSUME NEW k \in 0..n  PROVE H(k) = IF k = 0 THEN s ELSE E(k, h[k - 1])
    <3>1. CASE k = 0  BY <1>2, <3>1, Zenon
    <3>2. CASE k # 0
      <4>1. k \in 1..n /\ k - 1 \in 0..n  BY <3>2
      <4>2. h[k - 1] = H(k - 1)  BY <4>1
      <4> QED  BY <1>1, <3>2, <4>1, <4>2, Zenon
    <3> QED  BY <3>1, <3>2
  <2>2. h = [k \in 0..n |-> H(k)]  OBVIOUS
  <2> HIDE DEF h
  <2> QED  BY <2>1, <2>2, Zenon
<1>4. F = [k \in 0..n |-> IF k = 0 THEN s ELSE E(k, F[k - 1])]
  <2> HIDE DEF h
  <2> QED  BY <1>3, Zenon
<1>5. SaveUpwards(s, P) = F[n]
  <2>1. \A q : [k \in 0..Depth(s) |-> IF k = 0 THEN s ELSE IF k \in P THEN SaveStack(q[k - 1], k)
                                                    ELSE q[k - 1]]
             = [k \in 0..n |-> IF k = 0 THEN s ELSE E(k, q[k - 1])]
    BY Zenon DEF E, Depth
  <2> QED  BY <2>1, Zenon DEF SaveUpwards, E, Depth
<1> HIDE DEF F
<1>6. \A k \in 0..n : F[k] \in {H(k)}
  <2> DEFINE S == [k \in 0..n |-> {H(k)}]
  <2>1. F[0] \in S[0]  BY <1>2, <1>4
  <2>2. ASSUME NEW k \in 1..n, F[k - 1] \in S[k - 1]  PROVE F[k] \in S[k]
    <3>1. F[k - 1] = H(k - 1) /\ k - 1 \in 0..n  BY <2>2
    <3>2. F[k] = E(k, F[k - 1])  BY <1>4
    <3>3. F[k] = H(k)  BY <1>1, <3>1, <3>2, Zenon
    <3> QED  BY <3>3
  <2>3. \A k \in 0..n : F[k] \in S[k]
    <3> HIDE DEF S
    <3> QED  BY <2>1, <2>2, StepByStep
  <2> QED  BY <2>3
<1>7. F[n] = H(n)  BY <1>6
<1> QED  BY <1>5, <1>7, Zenon DEF H

LEMMA EmptyItems ==
  ASSUME Matched, NEW y, Keeps(st, y, 0)
  PROVE  Items(y) = <<>> /\ Sound(y) /\ Homes(y) = Homes(st) /\ y.pages = st.pages
<1>1. Good(st) /\ Sound(st) /\ Len(st.stack) \in Nat  BY ItemsAre, Zenon DEF Matched, WellKept
<1>2. 0 \in 0..Len(st.stack)  BY <1>1
<1>3. Replaces(st, y, 0, <<>>) /\ Homes(y) = Homes(st)  BY <1>1, <1>2, KeepsItems, Zenon
<1>4. Sound(y) /\ y.pages = st.pages  BY <1>3, Zenon DEF Replaces
<1>5. Good(y) /\ Len(y.stack) = 0  BY Zenon DEF Keeps
<1>6. Items(y) \in Seq(Entries) /\ Len(Items(y)) = 0  BY <1>5, ItemsAre
<1>7. Items(y) = <<>>  BY <1>6
<1> QED  BY <1>3, <1>4, <1>7

LEMMA LeaveMaps ==
  ASSUME Matched, Keeps(st, st', 0), NEW how, NEW types \in Seq(Types), NEW m,
         Taken(st, types, m), out' = <<how, Handed(st, types, m)>>
  PROVE  Sound(st') /\ Wasm!Leave(how, Len(types))
<1> DEFINE above == Upper(Items(st), Len(types))
<1>1. Items(st') = <<>> /\ Sound(st') /\ Homes(st') = Homes(st) /\ st'.pages = st.pages
  BY EmptyItems
<1>2. [i \in DOMAIN above |-> above[i].value] = Handed(st, types, m)  BY UpperItems
<1>3. out' = <<how, [i \in DOMAIN above |-> above[i].value]>>  BY <1>2, Zenon
<1>4. Wasm!Leave(how, Len(types))
  BY <1>1, <1>3, HomesUnchanged, Zenon
  DEF Wasm!Leave, Wasm!ValuesOf, Wasm!Above, Items, Entry, Upper
<1> QED  BY <1>1, <1>4

LEMMA TopmostIn ==
  ASSUME NEW l \in Nat, NEW k \in Nat, k # 0, k <= l
  PROVE  l - k + 1 \in 1..l
OBVIOUS

LEMMA SlotSame ==
  ASSUME NEW z \in Machines, NEW s \in Machines, Same(z, s),
         NEW c, c.params \in Seq(Types), Len(c.params) <= Len(z.stack)
  PROVE  FirstPlace(s, c) = FirstPlace(z, c)
<1>0. Len(c.params) \in Nat /\ (c.params = <<>> <=> Len(c.params) = 0)  OBVIOUS
<1>1. /\ Len(s.stack) = Len(z.stack)
      /\ \A i \in 1..Len(z.stack) :
           s.stack[i].type = z.stack[i].type /\ s.stack[i].at = z.stack[i].at
  BY Zenon DEF Same
<1>2. /\ Len(z.stack) \in Nat /\ s.stack \in Seq(Operands) /\ z.stack \in Seq(Operands)
  BY Parts
<1>3. (s.stack = <<>> <=> Len(z.stack) = 0) /\ (z.stack = <<>> <=> Len(z.stack) = 0)
  BY <1>1, <1>2
<1>4. CASE c.params = <<>>
  <2>1. CASE Len(z.stack) = 0
    <3>1. s.stack = <<>> /\ z.stack = <<>>  BY <1>3, <2>1, Zenon
    <3> QED  BY <1>4, <3>1, Zenon DEF FirstPlace, NextSlot
  <2>2. CASE Len(z.stack) # 0
    <3>1. s.stack # <<>> /\ z.stack # <<>> /\ Len(z.stack) \in 1..Len(z.stack)
      BY <1>2, <1>3, <2>2
    <3>2. Last(s.stack).at = Last(z.stack).at /\ Last(s.stack).type = Last(z.stack).type
      BY <1>1, <3>1, Zenon DEF Last
    <3> QED  BY <1>4, <3>1, <3>2, Zenon DEF FirstPlace, NextSlot
  <2> QED  BY <2>1, <2>2
<1>5. CASE c.params # <<>>
  <2>1. FirstArg(s, c) = FirstArg(z, c)  BY <1>1, Zenon DEF FirstArg, Depth
  <2>2. FirstArg(s, c) \in 1..Len(z.stack)
    <3>1. Len(c.params) # 0  BY <1>0, <1>5, Zenon
    <3>2. FirstArg(s, c) = Len(z.stack) - Len(c.params) + 1  BY <1>1 DEF FirstArg, Depth
    <3>3. Len(z.stack) \in Nat  BY <1>2, Zenon
    <3>4. Len(c.params) \in Nat  BY <1>0, Zenon
    <3> QED  BY <3>1, <3>2, <3>3, <3>4, TopmostIn, Zenon
  <2> QED  BY <1>1, <1>5, <2>1, <2>2, Zenon DEF FirstPlace
<1> QED  BY <1>4, <1>5

(* The one argument of a tail call, at the bottom of the frame.            *)
LEMMA AtBottom ==
  ASSUME NEW s, NEW c, NEW m, Ready(s, c, m), Len(c.params) = 1
  PROVE  LET p == SaveUpwards(Replaced(s, c, 0), Args(s, c))
         IN  Layout(0, c.params)[1] = 0
             /\ Get(p.frame, 0, c.params[1]) = Denoted(s, s.stack[m + 1])
<1> DEFINE n == m + 1
           t == c.params[1]
           o == s.stack[n]
           d == [o EXCEPT !.at = 0]
           q == [i \in DOMAIN s.stack |->
                   IF i \in Args(s, c) THEN [s.stack[i] EXCEPT !.at = Layout(0, c.params)[i - FirstArg(s, c) + 1]]
                   ELSE s.stack[i]]
           x == Replaced(s, c, 0)
           p == SaveUpwards(x, Args(s, c))
<1>1. /\ Good(s) /\ s \in Machines /\ m \in Nat /\ c.params \in Seq(Types)
      /\ DOMAIN c.params = 1..Len(c.params)
      /\ Len(s.stack) = m + Len(c.params) /\ FirstArg(s, c) = m + 1
      /\ Args(s, c) = (m + 1)..(m + Len(c.params))
      /\ \A k \in 1..Len(c.params) : c.params[k] \in Types /\ m + k \in 1..Len(s.stack)
      /\ \A k \in 1..Len(c.params) : s.stack[m + k].type = c.params[k]
      /\ \A i \in 1..Len(s.stack) : Readable(s.scratch, s.stack[i])
  <2>1. \A i \in 1..Len(s.stack) : Readable(s.scratch, s.stack[i])  BY ReadyIs, Zenon
  <2>2. /\ Good(s) /\ s \in Machines /\ m \in Nat /\ c.params \in Seq(Types)
        /\ DOMAIN c.params = 1..Len(c.params) /\ Len(s.stack) = m + Len(c.params)
    BY ReadyIs, Zenon
  <2>3. FirstArg(s, c) = m + 1 /\ Args(s, c) = (m + 1)..(m + Len(c.params))  BY ReadyIs, ZenonT(60)
  <2>4. \A k \in 1..Len(c.params) : c.params[k] \in Types /\ m + k \in 1..Len(s.stack)
    BY ReadyIs, Zenon
  <2>5. \A k \in 1..Len(c.params) : s.stack[m + k].type = c.params[k]
    BY Zenon DEF Ready
  <2> QED  BY <2>1, <2>2, <2>3, <2>4, <2>5, Zenon
<1>2. /\ n \in Nat \ {0} /\ n \in 1..n /\ Len(s.stack) = n /\ Args(s, c) = n..n /\ FirstArg(s, c) = n
      /\ t \in Types /\ o.type = t /\ Readable(s.scratch, o)
  <2>1. 1 \in 1..Len(c.params)  OBVIOUS
  <2>2. t \in Types /\ o.type = t /\ n \in 1..Len(s.stack)  BY <1>1, <2>1, Zenon
  <2>3. Readable(s.scratch, o)  BY <1>1, <2>2, Zenon
  <2> QED  BY <1>1, <2>2, <2>3
<1>3. /\ s.stack \in Seq(Operands) /\ DOMAIN s.stack = 1..n
      /\ \A i \in 1..n : s.stack[i] \in Operands
  BY <1>1, <1>2, Parts
<1>4. Layout(0, c.params)[1] = 0
  <2>1. 1 \in DOMAIN c.params  BY <1>1
  <2> QED  BY <1>1, <2>1, LayoutStart, Zenon
<1>5. q[n] = d /\ \A i \in 1..n : i # n => q[i] = s.stack[i]
  <2>1. n - FirstArg(s, c) + 1 = 1  BY <1>2
  <2>2. q[n] = [o EXCEPT !.at = Layout(0, c.params)[n - FirstArg(s, c) + 1]]
    BY <1>2, <1>3
  <2>3. q[n] = d  BY <1>4, <2>1, <2>2, Zenon
  <2>4. ASSUME NEW i \in 1..n, i # n  PROVE q[i] = s.stack[i]
    <3>1. i \notin Args(s, c) /\ i \in DOMAIN s.stack  BY <1>2, <1>3, <2>4
    <3> QED  BY <3>1, Zenon
  <2> QED  BY <2>3, <2>4
<1>6. /\ d \in Operands /\ d.at = 0 /\ d.type = t /\ d.mode = o.mode /\ d.n = o.n
  <2>1. o \in Operands  BY <1>2, <1>3
  <2> HIDE DEF o
  <2> QED  BY <1>2, <2>1 DEF Operands
<1>7. q \in Seq(Operands) /\ Len(q) = n
  <2>1. \A i \in 1..n : q[i] \in Operands  BY <1>3, <1>5, <1>6, Zenon
  <2>2. q = [i \in 1..n |-> q[i]]  BY <1>3
  <2> HIDE DEF q, n
  <2> QED  BY <1>2, <2>1, <2>2
<1>8. x = [s EXCEPT !.stack = q]  BY Zenon DEF Replaced
<1> HIDE DEF q, x
<1>9. /\ x \in Machines /\ x.stack = q /\ x.frame = s.frame /\ x.scratch = s.scratch
      /\ x.flag = s.flag /\ x.local = s.local /\ x.pages = s.pages
  BY <1>1, <1>7, <1>8 DEF Machines
<1>10. x.stack[n] = d /\ Len(x.stack) = n  BY <1>5, <1>7, <1>9, Zenon
<1>11. p = SaveStack(x, n)
  <2>1. \A j \in 1..n : j \in Args(s, c) => j = n  BY <1>2
  <2>2. n # 0 /\ n \in Args(s, c)  BY <1>2
  <2> HIDE DEF n
  <2> QED  BY <1>2, <1>10, <2>1, <2>2, SaveTop
<1>12. Readable(x.scratch, d)
  <2> HIDE DEF o, d
  <2> QED  BY <1>2, <1>6, <1>9 DEF Readable
<1>13. Denoted(x, d) = Denoted(s, o)
  <2> HIDE DEF o, d
  <2>1. d.mode \in {"imm", "frame", "local", "reg", "cell", "flag"}  BY <1>6 DEF Operands
  <2> QED  BY <1>2, <1>6, <1>9, <2>1 DEF Denoted
<1>14. p.frame = IF d.mode = "frame" /\ d.n = d.at THEN x.frame
                 ELSE Put(x.frame, d.at, d.type, Denoted(x, d))
  <2> HIDE DEF d, n, p
  <2>1. n \in 1..Len(x.stack) /\ Readable(x.scratch, x.stack[n])  BY <1>2, <1>10, <1>12, Zenon
  <2>2. SaveStack(x, n).frame
          = IF x.stack[n].mode = "frame" /\ x.stack[n].n = x.stack[n].at THEN x.frame
            ELSE Put(x.frame, x.stack[n].at, x.stack[n].type, Denoted(x, x.stack[n]))
    BY <1>9, <2>1, SaveStackIs
  <2> QED  BY <1>10, <1>11, <2>2, Zenon
<1>15. Get(p.frame, 0, t) = Denoted(s, o)
  <2>1. CASE d.mode = "frame" /\ d.n = d.at
    <3>1. p.frame = x.frame /\ d.n = 0  BY <1>6, <1>14, <2>1, Zenon
    <3>2. Denoted(x, d) = Get(x.frame, d.n, d.type)  BY <2>1, DenotedIs
    <3> QED  BY <1>6, <1>13, <3>1, <3>2, Zenon
  <2>2. CASE ~(d.mode = "frame" /\ d.n = d.at)
    <3>1. p.frame = Put(x.frame, 0, t, Denoted(x, d))  BY <1>6, <1>14, <2>2, Zenon
    <3>2. x.frame \in Frames  BY <1>9, Parts
    <3>3. 0 \in Nat /\ 0 + Size(t) <= FrameWords
      <4>1. o.at + Size(t) <= FrameWords /\ o.at \in Nat
        BY <1>1, <1>2, PlacesBeside, Zenon
      <4>2. Size(t) \in Nat /\ FrameWords \in Nat  BY <1>2, Sizes, Params
      <4> HIDE DEF o, t
      <4> QED  BY <4>1, <4>2
    <3>4. Get(Put(x.frame, 0, t, Denoted(x, d)), 0, t) = Denoted(x, d)
      BY <1>2, <3>2, <3>3, GetPut, Zenon
    <3> QED  BY <1>13, <3>1, <3>4, Zenon
  <2> QED  BY <2>1, <2>2
<1> QED  BY <1>4, <1>15, Zenon DEF x

LEMMA OnlyOne ==
  ASSUME NEW l \in Nat, NEW k \in 1..l, l <= 1
  PROVE  k = 1 /\ l = 1
OBVIOUS

(* A tail call hands its arguments over where the parameters are.          *)
LEMMA TailIs ==
  ASSUME NEW z, Good(z), FlagsTop(z), NEW c \in Callees, NEW m, Taken(z, c.params, m),
         Len(c.params) <= 1, FirstPlace(Fetched(z), c) % 2 # 1
  PROVE  LET s == Prepared(z)
         IN  /\ CalleeFrame(s, c, TRUE) = 0
             /\ Received(Placed(s, c, TRUE), c, 0) = Handed(z, c.params, m)
<1> DEFINE s == Prepared(z)
           x == Fetched(z)
           p == SaveUpwards(Replaced(s, c, 0), Args(s, c))
           received(k) == Get(p.frame, Layout(0, c.params)[k], c.params[k])
<1>1. c.params \in Seq(Types)  BY StackValuesAssumption
<1>2. /\ m \in Nat /\ Len(z.stack) = m + Len(c.params) /\ Len(c.params) \in Nat
      /\ DOMAIN c.params = 1..Len(c.params)
      /\ \A k \in 1..Len(c.params) : z.stack[m + k].type = c.params[k]
  <2>1. Split(z, c.params, m)  BY <1>1, TakenIs, Zenon
  <2> QED  BY <2>1, Zenon DEF Split
<1>4. Ready(s, c, m) /\ Same(z, s)  BY <1>2, PreparedReady, Zenon
<1>5. Same(z, x) /\ x \in Machines /\ z \in Machines  BY FetchedIs, Zenon DEF Good
<1>6. s \in Machines  BY <1>4, Zenon DEF Ready, Good
<1>7. Len(c.params) <= Len(z.stack)   BY <1>2
<1> HIDE DEF s, x
<1>8. FirstPlace(s, c) = FirstPlace(z, c)  BY <1>1, <1>4, <1>5, <1>6, <1>7, SlotSame, Zenon
<1>15. FirstPlace(x, c) = FirstPlace(z, c)  BY <1>1, <1>5, <1>7, SlotSame, Zenon
<1>9. FirstPlace(s, c) % 2 # 1  BY <1>8, <1>15, Zenon DEF x
<1>10. CalleeFrame(s, c, TRUE) = 0  BY <1>9, Zenon DEF CalleeFrame
<1>11. Placed(s, c, TRUE) = p  BY <1>9, <1>10, Zenon DEF Placed
<1>12. ASSUME NEW k \in DOMAIN c.params  PROVE received(k) = Denoted(z, z.stack[m + k])
  <2>1. k = 1 /\ Len(c.params) = 1 /\ m + 1 \in 1..Len(z.stack)
    <3>1. k \in 1..Len(c.params) /\ Len(c.params) \in Nat  BY <1>2, Zenon
    <3>2. k = 1 /\ Len(c.params) = 1  BY <3>1, OnlyOne, Zenon
    <3> QED  BY <1>2, <3>2
  <2>2. Layout(0, c.params)[1] = 0 /\ Get(p.frame, 0, c.params[1]) = Denoted(s, s.stack[m + 1])
    BY <1>4, <2>1, AtBottom, Zenon
  <2>3. Denoted(s, s.stack[m + 1]) = Denoted(z, z.stack[m + 1])  BY <1>4, <2>1, Zenon DEF Same
  <2> HIDE DEF p
  <2>4. received(k) = Get(p.frame, 0, c.params[1])  BY <2>1, <2>2, Zenon
  <2> HIDE DEF received
  <2> QED  BY <2>1, <2>2, <2>3, <2>4, Zenon
<1> HIDE DEF p
<1>13. Received(p, c, 0) = [k \in DOMAIN c.params |-> received(k)]  BY Zenon DEF Received
<1> HIDE DEF received
<1>14. Received(p, c, 0) = Handed(z, c.params, m)  BY <1>12, <1>13, Zenon DEF Handed
<1> QED  BY <1>10, <1>11, <1>14, Zenon DEF s

LEMMA ReturnCallMaps ==
  ASSUME Matched, Shapes = {}, NEW c \in Callees, ReturnCall(c)
  PROVE  Sound(st') /\ Wasm!ReturnCall(c)
<1> DEFINE m == Len(st.stack) - Len(c.params)
           s == Prepared(st)
           base == CalleeFrame(s, c, TRUE)
           above == Upper(Items(st), Len(c.params))
<1>1. Good(st) /\ FlagsTop(st) /\ WellKept  BY Zenon DEF Matched, WellKept
<1>2. Taken(st, c.params, m) /\ Running  BY Zenon DEF ReturnCall, Takes, Taken, Depth
<1>3. ~(Len(c.params) > 1) /\ FirstPlace(Fetched(st), c) % 2 # 1  BY Zenon DEF ReturnCall
<1>4. c.params \in Seq(Types)  BY StackValuesAssumption
<1>5. Len(c.params) <= 1
  <2>1. Len(c.params) \in Nat  BY <1>4
  <2> QED  BY <1>3, <2>1
<1>6. out' = <<IF base = 0 THEN "return_call" ELSE "misplaced",
               Received(Placed(s, c, TRUE), c, base)>>
  BY Zenon DEF ReturnCall
<1>7. base = 0 /\ Received(Placed(s, c, TRUE), c, 0) = Handed(st, c.params, m)
  <2> HIDE DEF m
  <2> QED  BY <1>1, <1>2, <1>3, <1>5, TailIs, Zenon
<1> HIDE DEF base, s
<1>8. out' = <<"return_call", Handed(st, c.params, m)>>  BY <1>6, <1>7, Zenon
<1>9. Keeps(st, st', 0)  BY <1>1, LeaveStep, Zenon
<1> HIDE DEF m
<1>10. Sound(st') /\ Wasm!Leave("return_call", Len(c.params))
  BY <1>2, <1>4, <1>8, <1>9, LeaveMaps, Zenon
<1>11. /\ Len(c.params) \in 0..Len(Items(st))
       /\ [i \in DOMAIN above |-> above[i].type] = c.params
  BY <1>2, <1>4, UpperItems
<1>12. Len(Items(st)) >= Len(c.params)  BY <1>11
<1>13. Wasm!Takes(c)
  BY <1>2, <1>11, <1>12, Zenon
  DEF Wasm!Takes, Wasm!Running, Wasm!TypesOf, Wasm!Above, Running, Items, Entry, Upper
<1> QED  BY <1>10, <1>13, Zenon DEF Wasm!ReturnCall

(* The one result of a return, at the bottom of the frame.                 *)
LEMMA ReturnIs ==
  ASSUME Matched, Len(ResultTypes) = 1, NEW m, Taken(st, ResultTypes, m)
  PROVE  LET s == Fetched(st)
             t == ResultTypes[1]
             v == Denoted(s, s.stack[Depth(s) - Len(ResultTypes) + 1])
         IN  /\ Layout(0, ResultTypes)[1] = 0 /\ [s EXCEPT !.frame = s.frame] = s
             /\ Get(Put(s.frame, 0, t, v), 0, t) = v /\ v = Denoted(st, st.stack[m + 1])
<1> DEFINE s == Fetched(st)
           t == ResultTypes[1]
           o == s.stack[m + 1]
           v == Denoted(s, s.stack[Depth(s) - Len(ResultTypes) + 1])
<1>1. ResultTypes \in Seq(Types) /\ Good(st) /\ FlagsTop(st)
  BY OperandStackAssumption, Zenon DEF Matched, WellKept
<1>2. Split(st, ResultTypes, m)  BY <1>1, TakenIs, Zenon
<1>3. /\ m \in Nat /\ Len(st.stack) = m + Len(ResultTypes)
      /\ DOMAIN ResultTypes = 1..Len(ResultTypes)
      /\ \A k \in 1..Len(ResultTypes) : st.stack[m + k].type = ResultTypes[k]
  BY <1>2, Zenon DEF Split
<1>4. 1 \in DOMAIN ResultTypes /\ t \in Types /\ m + 1 \in 1..Len(st.stack) /\ st.stack[m + 1].type = t
  <2>1. 1 \in 1..Len(ResultTypes)  OBVIOUS
  <2>2. m + 1 \in 1..Len(st.stack)  BY <1>3
  <2>3. 1 \in DOMAIN ResultTypes /\ st.stack[m + 1].type = t  BY <1>3, <2>1
  <2>4. ResultTypes[1] \in Types
    <3>1. ResultTypes \in Seq(Types)  BY <1>1, Zenon
    <3> QED  BY <2>1, <3>1
  <2> QED  BY <2>2, <2>3, <2>4, Zenon
<1>5. /\ Good(s) /\ s \in Machines /\ Len(s.stack) = Len(st.stack)
      /\ \A i \in 1..Len(st.stack) :
           s.stack[i].type = st.stack[i].type /\ Denoted(s, s.stack[i]) = Denoted(st, st.stack[i])
  BY <1>1, FetchedParts, Zenon
<1> HIDE DEF s
<1>6. v = Denoted(s, o)
  <2>1. Depth(s) - Len(ResultTypes) + 1 = m + 1  BY <1>3, <1>5 DEF Depth
  <2> QED  BY <2>1, Zenon
<1>7. Denoted(s, o) = Denoted(st, st.stack[m + 1]) /\ o.type = t  BY <1>4, <1>5, Zenon
<1>8. Layout(0, ResultTypes)[1] = 0  BY <1>1, <1>4, LayoutStart, Zenon
<1>9. [s EXCEPT !.frame = s.frame] = s  BY <1>5 DEF Machines
<1>10. s.frame \in Frames  BY <1>5, Parts
<1>11. 0 \in Nat /\ 0 + Size(t) <= FrameWords
  <2>1. m + 1 \in 1..Len(s.stack)  BY <1>4, <1>5, Zenon
  <2>2. o.at \in Nat /\ o.at + Size(o.type) <= FrameWords  BY <1>5, <2>1, PlacesBeside, Zenon
  <2>3. Size(t) \in Nat /\ FrameWords \in Nat  BY <1>4, Sizes, Params
  <2>4. o.at \in Nat /\ o.at + Size(t) <= FrameWords  BY <1>7, <2>2, Zenon
  <2> HIDE DEF o, t
  <2> QED  BY <2>3, <2>4
<1>12. \A u : Get(Put(s.frame, 0, t, u), 0, t) = u  BY <1>4, <1>10, <1>11, GetPut
<1> QED  BY <1>6, <1>7, <1>8, <1>9, <1>12, Zenon DEF s, t

LEMMA ReturnMaps ==
  ASSUME Matched, Shapes = {}, Return
  PROVE  /\ Sound(st') /\ Len(ResultTypes) \in 0..Len(Items(st))
         /\ Wasm!Return(Len(ResultTypes))
<1> DEFINE s == Fetched(st)
           n == Len(ResultTypes)
           m == Len(st.stack) - n
           at == Layout(0, ResultTypes)
           d(k) == s.stack[Depth(s) - Len(ResultTypes) + k]
           E(k, f) == Put(f, at[k], ResultTypes[k], Denoted([s EXCEPT !.frame = f], d(k)))
           F == CHOOSE q : q = [k \in 0..Len(ResultTypes) |-> IF k = 0 THEN s.frame ELSE E(k, q[k - 1])]
           given(k) == Get(F[Len(ResultTypes)], at[k], ResultTypes[k])
<1>1. out' = <<"return", [k \in DOMAIN ResultTypes |-> given(k)]>>  BY Zenon DEF Return
<1>2. Taken(st, ResultTypes, m) /\ Running  BY Zenon DEF Return, Taken, Depth
<1>3. ~(Len(ResultTypes) > 1)  BY Zenon DEF Return
<1>4. WellKept  BY Zenon DEF Matched
<1>5. Keeps(st, st', 0)  BY <1>4, LeaveStep, Zenon
<1>6. ResultTypes \in Seq(Types)  BY OperandStackAssumption
<1>7. n \in {0, 1} /\ DOMAIN ResultTypes = 1..n
  <2>1. n \in Nat /\ DOMAIN ResultTypes = 1..n  BY <1>6
  <2> QED  BY <1>3, <2>1
<1> HIDE DEF m
<1>8. ASSUME NEW k \in DOMAIN ResultTypes  PROVE given(k) = Denoted(st, st.stack[m + k])
  <2>1. k = 1 /\ n = 1  BY <1>7
  <2> DEFINE v == Denoted(s, d(1))
             t == ResultTypes[1]
  <2>2. /\ at[1] = 0 /\ [s EXCEPT !.frame = s.frame] = s
        /\ Get(Put(s.frame, 0, t, v), 0, t) = v /\ v = Denoted(st, st.stack[m + 1])
    BY <1>2, <2>1, ReturnIs, Zenon
  <2>3. E(1, s.frame) = Put(s.frame, 0, t, v)  BY <2>2, Zenon
  <2> HIDE DEF E, at, v, t
  <2> DEFINE h == [k1 \in 0..n |-> IF k1 = 0 THEN s.frame ELSE E(1, s.frame)]
  <2>4. h = [k1 \in 0..n |-> IF k1 = 0 THEN s.frame ELSE E(k1, h[k1 - 1])]
    <3>1. ASSUME NEW k1 \in 0..n, k1 # 0  PROVE k1 = 1 /\ h[k1 - 1] = s.frame
      <4> HIDE DEF s
      <4> QED  BY <2>1, <3>1
    <3> QED  BY <3>1, Zenon
  <2>5. F = [k1 \in 0..n |-> IF k1 = 0 THEN s.frame ELSE E(k1, F[k1 - 1])]
    <3> HIDE DEF h
    <3> QED  BY <2>4, Zenon
  <2> HIDE DEF F, s, n
  <2>6. 0 \in 0..n /\ 1 \in 0..n /\ 1 - 1 = 0  BY <2>1
  <2>7. F[0] = s.frame /\ F[1] = E(1, F[0])  BY <2>5, <2>6
  <2>8. F[Len(ResultTypes)] = Put(s.frame, 0, t, v)  BY <2>1, <2>3, <2>7, Zenon DEF n
  <2> QED  BY <2>1, <2>2, <2>8, Zenon DEF t
<1> HIDE DEF given
<1>9. [k \in DOMAIN ResultTypes |-> given(k)] = Handed(st, ResultTypes, m)
  BY <1>8, Zenon DEF Handed
<1>10. out' = <<"return", Handed(st, ResultTypes, m)>>  BY <1>1, <1>9, Zenon
<1> HIDE DEF n
<1>11. Sound(st') /\ Wasm!Leave("return", Len(ResultTypes))
  BY <1>2, <1>5, <1>6, <1>10, LeaveMaps, Zenon
<1>12. Len(ResultTypes) \in 0..Len(Items(st)) /\ Len(Items(st)) >= Len(ResultTypes)
  <2>1. Len(ResultTypes) \in 0..Len(Items(st))  BY <1>2, <1>6, UpperItems
  <2> QED  BY <2>1
<1>13. Wasm!Return(Len(ResultTypes))
  BY <1>2, <1>11, <1>12, Zenon DEF Wasm!Return, Wasm!Running, Running, Items, Entry
<1> QED  BY <1>11, <1>12, <1>13

LEMMA InitMaps == Init => Matched /\ Wasm!Init
<1> SUFFICES ASSUME Init PROVE Matched /\ Wasm!Init  OBVIOUS
<1>1. PICK args \in [DOMAIN ParamTypes -> Values], count \in Values : st = Entered(args, count)
  BY Zenon DEF Init
<1> DEFINE x == Entered(args, count)
<1>2. /\ x.stack = <<>> /\ x.pages = count
      /\ \A i \in DOMAIN LocalTypes : Denoted(x, Home(i)) \in Values
  BY EnteredIs, Zenon
<1> HIDE DEF x
<1>3. st = x  BY <1>1, Zenon DEF x
<1>4. st.stack = <<>> /\ st.pages \in Values  BY <1>2, <1>3, Zenon
<1>5. \A i \in 1..Len(st.stack) : Denoted(st, st.stack[i]) \in Values  BY <1>4
<1>6. \A i \in DOMAIN LocalTypes : Denoted(st, Home(i)) \in Values  BY <1>2, <1>3, Zenon
<1>7. Matched  BY <1>5, <1>6, InitWellKept, Zenon DEF Matched, Sound
<1>8. Items(st) = <<>>
  <2>1. Items(st) \in Seq(Entries) /\ Len(Items(st)) = Len(st.stack)
    BY <1>7, ItemsAre DEF Matched, WellKept
  <2>2. Len(st.stack) = 0  BY <1>4
  <2> QED  BY <2>1, <2>2
<1>9. Homes(st) \in [DOMAIN LocalTypes -> Values]  BY <1>6, Zenon DEF Homes
<1>10. out = <<"none", <<>>>>  BY Zenon DEF Init
<1>11. Wasm!Init
  BY <1>4, <1>8, <1>9, <1>10, Zenon DEF Wasm!Init, Items, Entry, Homes, Home
<1> QED  BY <1>7, <1>11

LEMMA NextMaps ==
  Matched /\ Shapes = {} /\ [Next]_vars => Matched' /\ [Wasm!Next]_(Wasm!vars)
<1> SUFFICES ASSUME Matched, Shapes = {}, [Next]_vars
             PROVE  Matched' /\ [Wasm!Next]_(Wasm!vars)
  OBVIOUS
<1>1. WellKept'  BY NextWellKept, Zenon DEF Matched
<1> SUFFICES Sound(st') /\ [Wasm!Next]_(Wasm!vars)  BY <1>1, Zenon DEF Matched
<1>2. ASSUME NEW t \in Types, NEW v \in Values, Const(t, v)
      PROVE  Sound(st') /\ Wasm!Next
  <2>1. t \in {"i32", "i64"}  BY DEF Types
  <2> QED  BY <1>2, <2>1, ConstMaps, Zenon DEF Wasm!Next
<1>3. ASSUME NEW i \in DOMAIN LocalTypes, LocalGet(i) \/ LocalSet(i) \/ LocalTee(i)
      PROVE  Sound(st') /\ Wasm!Next
  BY <1>3, LocalGetMaps, LocalSetMaps, LocalTeeMaps, Zenon DEF Wasm!Next
<1>4. CASE Drop  BY <1>4, DropMaps, Zenon DEF Wasm!Next
<1>5. CASE Arithmetic  BY <1>5, ArithmeticMaps, Zenon DEF Wasm!Next
<1>6. CASE Divide  BY <1>6, DivideMaps, Zenon DEF Wasm!Next
<1>7. CASE Compare  BY <1>7, CompareMaps, Zenon DEF Wasm!Next
<1>8. CASE Eqz  BY <1>8, EqzMaps, Zenon DEF Wasm!Next
<1>9. CASE Select  BY <1>9, SelectMaps, Zenon DEF Wasm!Next
<1>10. CASE MemorySize  BY <1>10, MemorySizeMaps, Zenon DEF Wasm!Next
<1>11. ASSUME NEW c \in Callees, NEW results \in [DOMAIN c.results -> Values], Call(c, results)
       PROVE  Sound(st') /\ Wasm!Next
  BY <1>11, CallMaps, Zenon DEF Wasm!Next
<1>12. ASSUME NEW c \in Callees, ReturnCall(c)  PROVE Sound(st') /\ Wasm!Next
  BY <1>12, ReturnCallMaps, Zenon DEF Wasm!Next
<1>13. CASE Return
  <2>1. /\ Sound(st') /\ Len(ResultTypes) \in 0..Len(Items(st))
        /\ Wasm!Return(Len(ResultTypes))
    BY <1>13, ReturnMaps, Zenon
  <2> QED  BY <2>1, Zenon DEF Wasm!Next, Items, Entry
<1>14. CASE UNCHANGED vars
  <2>1. st' = st /\ out' = out  BY <1>14 DEF vars
  <2>2. UNCHANGED Wasm!vars  BY <2>1, Zenon DEF Wasm!vars
  <2> QED  BY <2>1, <2>2, Zenon DEF Matched
<1> QED
  BY <1>2, <1>3, <1>4, <1>5, <1>6, <1>7, <1>8, <1>9, <1>10, <1>11, <1>12, <1>13, <1>14,
     Zenon DEF Next

(* The code emitted for a body computes, instruction by instruction, what  *)
(* WebAssembly says of its operands and locals, and hands each callee and  *)
(* the caller the operands WebAssembly says, whatever the number of        *)
(* registers, the locals, the callees and the body, as long as the body    *)
(* has none of the shapes of code that Shapes names.                       *)
THEOREM StackImplementsWasm ==
  ASSUME Shapes = {}
  PROVE  Spec => ImplementsWasmStack
<1>1. Init => Matched /\ Wasm!Init  BY InitMaps
<1>2. Matched /\ [Next]_vars => Matched' /\ [Wasm!Next]_(Wasm!vars)  BY NextMaps
<1> QED  BY <1>1, <1>2, PTL DEF Spec, ImplementsWasmStack, Wasm!Spec
=============================================================================
