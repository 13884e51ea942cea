------------------------- MODULE ControlFlowProofs --------------------------
(***************************************************************************)
(* Proofs about ControlFlow, for any types, registers, callees, values and *)
(* nesting.  Ordered is what is true of every body, with whatever Shapes;  *)
(* Followed is what is true of those that have none.                       *)
(***************************************************************************)
EXTENDS ControlFlow, StackValuesProofs

-----------------------------------------------------------------------------
(* The invariants.                                                         *)

AtHome(d) == d.mode = "frame" /\ d.n = d.at
Plain(s) == s.scratch \in [Regs -> Loaded]
Fit(s) == Good(s) /\ FlagsTop(s) /\ Plain(s)

Blocks == [kind : {"block", "loop", "if", "else"}, type : Types \cup {"none"},
           saved : 0 .. MaxStack]

(* An inner block begins above the operands of those around it.            *)
Nested(bs) ==
  /\ bs \in Seq(Blocks) /\ Len(bs) <= MaxBlocks
  /\ \A d, e \in 1..Len(bs) : d <= e => bs[d].saved <= bs[e].saved

(* The operands under every block are in their own places.                 *)
Sheltered(bs, stack) ==
  \A d \in 1..Len(bs) :
    bs[d].saved <= Len(stack) /\ \A i \in 1..bs[d].saved : AtHome(stack[i])

(* The path is here, is over, or is on its way to the label of a block     *)
(* that has one.                                                           *)
Goes(p, r, bs) ==
  \/ p = Here /\ r = "live"
  \/ p \in {Over("returned"), Over("astray")}
  \/ \E d \in 1..Len(bs) : bs[d].kind # "loop" /\ p = ToEnd(d)
  \/ \E d \in 1..Len(bs) : bs[d].kind = "if" /\ p = ToElse(d)

(* WebAssembly has the operands there are, or those a label asks for.      *)
Prescribes(w, p, depth, bs) ==
  /\ w \in [stack : Seq(Values), local : [DOMAIN LocalTypes -> Values]]
  /\ p = Here => Len(w.stack) = depth
  /\ \A d \in 1..Len(bs) :
       /\ p = ToEnd(d) => Len(w.stack) = bs[d].saved + Arity(bs[d])
       /\ p = ToElse(d) => Len(w.stack) = bs[d].saved

Ordered ==
  /\ Fit(st) /\ Nested(blocks) /\ Sheltered(blocks, st.stack)
  /\ reach \in {"live", "branch", "return"} /\ Goes(path, reach, blocks)
  /\ Prescribes(wasm, path, Len(st.stack), blocks)

(* The k lowest operands have the values WebAssembly gives.                *)
Carries(w, s, k) == \A i \in 1..k : w.stack[i] = Denoted(s, s.stack[i])

(* On the way to a label the operands under the block wait in their places *)
(* and the result waits in the first place above them.                     *)
Waits(w, p, s, bs) ==
  \A d \in 1..Len(bs) :
    /\ p \in {ToEnd(d), ToElse(d)} => Carries(w, s, bs[d].saved)
    /\ p = ToEnd(d) /\ Arity(bs[d]) = 1 =>
         w.stack[bs[d].saved + 1] = Get(s.frame, ResultPlace(s, bs[d]), bs[d].type)

Followed ==
  /\ path # Over("astray") /\ wasm.local = Homes(st)
  /\ Running => Carries(wasm, st, Len(st.stack))
  /\ Waits(wasm, path, st, blocks)
  /\ reach = "return" => \A d \in 1..Len(blocks) : Arity(blocks[d]) = 0

Right == Ordered /\ (Shapes = {} => Followed)

-----------------------------------------------------------------------------
(* Operators leave operands that are in their own places alone, and never  *)
(* leave the address of a number of pages in a register.                   *)

Rests(z, y, k) ==
  /\ \A i \in 1..k : AtHome(z.stack[i]) => y.stack[i] = z.stack[i]
  /\ Plain(z) => Plain(y)

LEMMA RestsSelf == ASSUME NEW z, NEW k PROVE Rests(z, z, k)
BY Zenon DEF Rests

LEMMA RestsTrans ==
  ASSUME NEW z, NEW x, NEW y, NEW k, Rests(z, x, k), Rests(x, y, k)
  PROVE  Rests(z, y, k)
<1>1. ASSUME NEW i \in 1..k, AtHome(z.stack[i])  PROVE y.stack[i] = z.stack[i]
  <2>1. x.stack[i] = z.stack[i]  BY <1>1, Zenon DEF Rests
  <2> QED  BY <1>1, <2>1, Zenon DEF Rests
<1> QED  BY <1>1, Zenon DEF Rests

LEMMA RestsLess ==
  ASSUME NEW z, NEW y, NEW n \in Nat, Rests(z, y, n), NEW k \in 0..n
  PROVE  Rests(z, y, k)
<1>1. \A i \in 1..k : i \in 1..n  OBVIOUS
<1> QED  BY <1>1, Zenon DEF Rests

LEMMA RestsSaves ==
  ASSUME NEW s, s \in Machines, NEW x, NEW P, Saves(s, x, P)
  PROVE  Rests(s, x, Len(s.stack))
<1>1. \A j \in 1..Len(s.stack) :
        s.stack[j].mode = "frame" /\ s.stack[j].n = s.stack[j].at => x.stack[j] = s.stack[j]
  BY SavesInReg, Zenon
<1>2. x.scratch = s.scratch  BY Zenon DEF Saves
<1> QED  BY <1>1, <1>2, Zenon DEF Rests, AtHome, Plain

LEMMA RestsLoad ==
  ASSUME NEW s, Good(s), NEW n \in Nat \ {0}, Len(s.stack) = n
  PROVE  LET x == LoadReg(s, n, n)
         IN  /\ Rests(s, x, n - 1)
             /\ ~AtHome(s.stack[n]) => Rests(s, x, n)
<1> DEFINE r == FreeReg(s, n)
           f == Freed(s, n)
           v == Denoted(f, f.stack[n])
           x == LoadReg(s, n, n)
<1>1. s \in Machines /\ n \in 0..Len(s.stack) /\ n \in 1..n  BY DEF Good
<1>2. \A j \in 1..(n - 1) : AtHome(s.stack[j]) => x.stack[j] = s.stack[j]
  BY LoadRegBelow DEF AtHome
<1>3. Plain(s) => Plain(x)
  <2>1. CASE InRegister(s.stack[n])
    <3>1. x = s  BY <2>1, Zenon DEF LoadReg
    <3> QED  BY <3>1
  <2>2. CASE ~InRegister(s.stack[n])
    <3>1. x = [f EXCEPT !.scratch[r] = v, !.stack[n] = Moved(@, "reg", r)]
      BY <2>2, Zenon DEF LoadReg
    <3>2. r \in Regs /\ Saves(s, f, Holders(s, r, n))  BY <1>1, FreedIs
    <3>3. Good(f) /\ f \in Machines /\ Len(f.stack) = n /\ f.scratch = s.scratch
      BY <1>1, <3>2, SavesFlags DEF Saves
    <3> HIDE DEF f, r
    <3>4. f.stack[n] \in Operands /\ Readable(f.scratch, f.stack[n])
      BY <1>1, <3>3, Parts DEF Good, Described
    <3>5. v \in Loaded  BY <3>3, <3>4, DenotedTyped
    <3> HIDE DEF v, x
    <3>6. x.scratch = [f.scratch EXCEPT ![r] = v]  BY <3>1, <3>3 DEF Machines
    <3> QED  BY <3>2, <3>3, <3>5, <3>6 DEF Plain
  <2> QED  BY <2>1, <2>2
<1> HIDE DEF x
<1>4. Rests(s, x, n - 1)  BY <1>2, <1>3, Zenon DEF Rests
<1>5. ~AtHome(s.stack[n]) => Rests(s, x, n)
  <2>1. \A j \in 1..n : j \in 1..(n - 1) \/ j = n  OBVIOUS
  <2> QED  BY <1>2, <1>3, <2>1, Zenon DEF Rests
<1> QED  BY <1>4, <1>5 DEF x

LEMMA RestsFetched ==
  ASSUME NEW z, Good(z), FlagsTop(z)
  PROVE  Rests(z, Fetched(z), Len(z.stack))
<1> DEFINE n == Len(z.stack)
<1>1. z \in Machines /\ n \in Nat /\ z.stack \in Seq(Operands)  BY Parts DEF Good
<1>2. Last(z.stack) = z.stack[n]  BY DEF Last
<1>3. CASE z.stack # <<>> /\ Last(z.stack).mode = "flag"
  <2>1. Fetched(z) = LoadReg(z, n, n)  BY <1>3, Zenon DEF Fetched, Depth
  <2>2. n \in Nat \ {0}  BY <1>1, <1>3
  <2>3. ~AtHome(z.stack[n])  BY <1>2, <1>3 DEF AtHome
  <2> HIDE DEF n
  <2>4. Rests(z, LoadReg(z, n, n), n)  BY <2>2, <2>3, RestsLoad, Zenon DEF n
  <2> QED  BY <2>1, <2>4, Zenon DEF n
<1>4. CASE ~(z.stack # <<>> /\ Last(z.stack).mode = "flag")
  <2>1. Fetched(z) = z  BY <1>4, Zenon DEF Fetched
  <2> QED  BY <2>1, RestsSelf, Zenon
<1> QED  BY <1>3, <1>4

LEMMA RestsFreed ==
  ASSUME NEW s, Good(s), NEW k \in 0..Len(s.stack)
  PROVE  Rests(s, Freed(s, k), Len(s.stack))
<1>1. s \in Machines  BY DEF Good
<1>2. Saves(s, Freed(s, k), Holders(s, FreeReg(s, k), k))  BY FreedIs, Zenon
<1> QED  BY <1>1, <1>2, RestsSaves, Zenon

LEMMA RestsPop ==
  ASSUME NEW s, Good(s), NEW k \in 0..Len(s.stack)
  PROVE  Rests(s, Pop(s, k), Len(s.stack) - k)
<1> DEFINE x == Pop(s, k)
<1>1. /\ x.scratch = s.scratch
      /\ \A i \in 1..(Len(s.stack) - k) : x.stack[i] = s.stack[i]
  BY PopIs, Zenon
<1> HIDE DEF x
<1>2. Rests(s, x, Len(s.stack) - k)  BY <1>1, Zenon DEF Rests, Plain
<1> QED  BY <1>2 DEF x

LEMMA RestsPush ==
  ASSUME NEW s, s \in Machines, NEW t, NEW mode, NEW n
  PROVE  Rests(s, Push(s, t, mode, n), Len(s.stack))
<1> DEFINE d == [type |-> t, mode |-> mode, n |-> n, at |-> NextSlot(s, t)]
           x == Push(s, t, mode, n)
<1>1. s.stack \in Seq(Operands)  BY Parts
<1>2. x = [s EXCEPT !.stack = Append(@, d)]  BY Zenon DEF Push
<1> HIDE DEF d, x
<1>3. x.stack = Append(s.stack, d) /\ x.scratch = s.scratch  BY <1>2 DEF Machines
<1>4. \A i \in 1..Len(s.stack) : Append(s.stack, d)[i] = s.stack[i]  BY <1>1
<1>5. Rests(s, x, Len(s.stack))  BY <1>3, <1>4, Zenon DEF Rests, Plain
<1> QED  BY <1>5 DEF x

LEMMA RestsSettled ==
  ASSUME NEW y, Good(y), FlagsTop(y), NEW k
  PROVE  Rests(y, Settled(y), k)
<1> DEFINE x == Settled(y)
           regs == [r \in Regs |-> IF Holders(y, r, Depth(y)) = {} THEN Junk ELSE y.scratch[r]]
<1>1. x.stack = y.stack  BY SettledIs, Zenon
<1>2. Plain(y) => Plain(x)
  <2>1. x.scratch = regs
    <3>1. y \in Machines  BY DEF Good
    <3> HIDE DEF regs
    <3> QED  BY <3>1 DEF Settled, Machines, regs
  <2>2. Junk \in Loaded  BY DEF Loaded
  <2> HIDE DEF x
  <2> QED  BY <2>1, <2>2 DEF Plain
<1> HIDE DEF x
<1>3. Rests(y, x, k)  BY <1>1, <1>2, Zenon DEF Rests
<1> QED  BY <1>3 DEF x

LEMMA RestsSaveUpwards ==
  ASSUME NEW s, Good(s), NEW P
  PROVE  Rests(s, SaveUpwards(s, P), Len(s.stack))
<1>1. s \in Machines  BY DEF Good
<1>2. Saves(s, SaveUpwards(s, P), P)  BY SaveUpwardsIs, Zenon
<1> QED  BY <1>1, <1>2, RestsSaves, Zenon

LEMMA RestsWritten ==
  ASSUME NEW s, s \in Machines, NEW i, NEW k
  PROVE  Rests(s, Written(s, i), k)
<1> DEFINE x == Written(s, i)
<1>1. \/ x = [s EXCEPT !.frame = Put(@, LocalPlace(i).n, LocalTypes[i], Denoted(s, Top(s)))]
      \/ x = [s EXCEPT !.local[LocalPlace(i).n] = Denoted(s, Top(s))]
  BY Zenon DEF Written
<1> HIDE DEF x
<1>2. x.stack = s.stack /\ x.scratch = s.scratch  BY <1>1 DEF Machines
<1>3. Rests(s, x, k)  BY <1>2, Zenon DEF Rests, Plain
<1> QED  BY <1>3 DEF x

LEMMA RestsLocalSet ==
  ASSUME NEW z, Good(z), FlagsTop(z), NEW k \in Nat, Len(z.stack) = k + 1,
         NEW i \in DOMAIN LocalTypes, z.stack[k + 1].type = LocalTypes[i]
  PROVE  Rests(z, Pop(Written(Kept(Fetched(z), i), i), 1), k)
<1> DEFINE f == Fetched(z)
           g == Kept(f, i)
           w == Written(g, i)
<1>1. /\ Good(f) /\ NoFlags(f) /\ Len(f.stack) = k + 1 /\ f.stack[k + 1].type = LocalTypes[i]
  <2>1. k + 1 \in 1..Len(z.stack)  OBVIOUS
  <2> QED  BY <2>1, FetchedParts
<1>2. Rests(z, f, k + 1)  BY RestsFetched, Zenon
<1> HIDE DEF f
<1>3. Rests(f, g, k + 1)
  <2>1. \E P : g = SaveUpwards(f, P)  BY Zenon DEF Kept
  <2> HIDE DEF g
  <2> QED  BY <1>1, <2>1, RestsSaveUpwards, Zenon
<1>4. /\ Good(g) /\ Len(g.stack) = k + 1 /\ g.stack[k + 1].type = LocalTypes[i]
      /\ \A j \in 1..k : ~(g.stack[j].mode = LocalPlace(i).mode /\ g.stack[j].n = LocalPlace(i).n)
  <2>1. /\ Good(g) /\ Same(f, g) /\ Len(g.stack) = Len(f.stack)
        /\ \A j \in 1..(Len(f.stack) - 1) :
             ~(g.stack[j].mode = LocalPlace(i).mode /\ g.stack[j].n = LocalPlace(i).n)
    BY <1>1, KeptIs, Zenon
  <2> HIDE DEF g
  <2>2. k + 1 \in 1..Len(f.stack) /\ Len(f.stack) - 1 = k  BY <1>1
  <2>3. g.stack[k + 1].type = f.stack[k + 1].type  BY <2>1, <2>2, Zenon DEF Same
  <2> QED  BY <1>1, <2>1, <2>2, <2>3
<1> HIDE DEF g
<1>5. Good(w) /\ w.stack = g.stack
  <2>1. k + 1 \in Nat \ {0} /\ (k + 1) - 1 = k  OBVIOUS
  <2> HIDE DEF w
  <2> QED  BY <1>4, <2>1, WrittenIs DEF w
<1>6. Rests(g, w, k + 1)
  <2>1. g \in Machines  BY <1>4 DEF Good
  <2> QED  BY <2>1, RestsWritten, Zenon
<1> HIDE DEF w
<1>7. Rests(w, Pop(w, 1), k)
  <2>1. 1 \in 0..Len(w.stack) /\ Len(w.stack) - 1 = k  BY <1>4, <1>5
  <2>2. Rests(w, Pop(w, 1), Len(w.stack) - 1)  BY <1>5, <2>1, RestsPop, Zenon
  <2> QED  BY <2>1, <2>2, Zenon
<1>8. Rests(z, w, k + 1)  BY <1>2, <1>3, <1>6, RestsTrans, Zenon
<1>9. Rests(z, w, k)
  <2>1. k + 1 \in Nat /\ k \in 0..(k + 1)  OBVIOUS
  <2> QED  BY <1>8, <2>1, RestsLess, Zenon
<1>10. Rests(z, Pop(w, 1), k)  BY <1>7, <1>9, RestsTrans, Zenon
<1> QED  BY <1>10 DEF w, g, f

LEMMA RestsEqz ==
  ASSUME NEW z, Good(z), FlagsTop(z), NEW k \in Nat, Len(z.stack) = k + 1, NEW v
  PROVE  Rests(z, IF z.stack[k + 1].mode = "flag" THEN [z EXCEPT !.stack[k + 1].n = 1 - @]
                  ELSE Push(Pop(Flagged(z, v), 1), "i32", "flag", 1), k)
<1>1. z \in Machines /\ z.stack \in Seq(Operands)  BY Parts DEF Good
<1>2. CASE z.stack[k + 1].mode = "flag"
  <2> DEFINE x == [z EXCEPT !.stack[k + 1].n = 1 - @]
             q == [z.stack EXCEPT ![k + 1].n = 1 - @]
  <2>1. x.stack = q /\ x.scratch = z.scratch  BY <1>1 DEF Machines
  <2>2. \A i \in 1..k : q[i] = z.stack[i]
    <3>1. \A i \in 1..k : i \in DOMAIN z.stack /\ i # k + 1  BY <1>1
    <3> QED  BY <3>1
  <2> HIDE DEF x, q
  <2>3. Rests(z, x, k)  BY <2>1, <2>2, Zenon DEF Rests, Plain
  <2> QED  BY <1>2, <2>3, Zenon DEF x
<1>3. CASE z.stack[k + 1].mode # "flag"
  <2> DEFINE f == Flagged(z, v)
             p == Pop(f, 1)
             q == SubSeq(z.stack, 1, k)
  <2>1. f.stack = z.stack /\ f.scratch = z.scratch /\ f = [z EXCEPT !.flag = v]
    BY <1>1 DEF Machines, Flagged
  <2>2. p = [f EXCEPT !.stack = q]
    <3>1. Len(z.stack) - 1 = k  OBVIOUS
    <3>2. p = [f EXCEPT !.stack = SubSeq(@, 1, Len(@) - 1)]  BY Zenon DEF Pop
    <3> HIDE DEF p, f
    <3> QED  BY <1>1, <2>1, <3>1, <3>2 DEF Machines
  <2>3. q \in Seq(Operands) /\ Len(q) = k /\ \A i \in 1..k : q[i] = z.stack[i]
    <3>1. k \in 0..Len(z.stack)  OBVIOUS
    <3> QED  BY <1>1, <3>1, PrefixIs
  <2> DEFINE d == [type |-> "i32", mode |-> "flag", n |-> 1, at |-> NextSlot(p, "i32")]
             x == Push(p, "i32", "flag", 1)
  <2>4. x = [p EXCEPT !.stack = Append(@, d)]  BY Zenon DEF Push
  <2> HIDE DEF q, d, x
  <2>5. x.stack = Append(q, d) /\ x.scratch = z.scratch
    <3> HIDE DEF p, f
    <3> QED  BY <1>1, <2>1, <2>2, <2>4 DEF Machines
  <2>6. \A i \in 1..k : Append(q, d)[i] = q[i]  BY <2>3
  <2>7. Rests(z, x, k)  BY <2>3, <2>5, <2>6, Zenon DEF Rests, Plain
  <2> QED  BY <1>3, <2>7, Zenon DEF x, p, f
<1> QED  BY <1>2, <1>3

LEMMA RestsPrepared ==
  ASSUME NEW z, Good(z), FlagsTop(z)
  PROVE  Rests(z, Prepared(z), Len(z.stack))
<1> DEFINE n == Len(z.stack)
           f == Fetched(z)
           g == Freed(f, n)
           P == {i \in DOMAIN g.stack :
                   g.stack[i].mode \in {"reg", "cell"} /\ g.stack[i].n < FirstSaved}
<1>1. Good(f) /\ Len(f.stack) = n /\ n \in Nat  BY FetchedParts
<1>2. Rests(z, f, n)  BY RestsFetched, Zenon
<1>3. Prepared(z) = SaveUpwards(g, P)
  <2>1. Depth(f) = n  BY <1>1, Zenon DEF Depth
  <2> HIDE DEF f
  <2> QED  BY <2>1, Zenon DEF Prepared, Unloaded, f
<1> HIDE DEF f, P
<1>4. n \in 0..Len(f.stack)  BY <1>1
<1> HIDE DEF n
<1>5. Good(g) /\ Len(g.stack) = n /\ Rests(f, g, n)
  <2>1. Saves(f, g, Holders(f, FreeReg(f, n), n))  BY <1>1, <1>4, FreedIs, Zenon
  <2>2. f \in Machines  BY <1>1, Zenon DEF Good
  <2>3. Rests(f, g, Len(f.stack))  BY <2>1, <2>2, RestsSaves, Zenon
  <2>4. Len(g.stack) = Len(f.stack)  BY <2>1, Zenon DEF Saves, Same
  <2> QED  BY <1>1, <2>1, <2>3, <2>4, Zenon DEF Saves
<1> HIDE DEF g
<1>6. Rests(g, SaveUpwards(g, P), n)  BY <1>5, RestsSaveUpwards, Zenon
<1>7. Rests(z, SaveUpwards(g, P), n)  BY <1>2, <1>5, <1>6, RestsTrans, Zenon
<1> QED  BY <1>3, <1>7, Zenon DEF n

LEMMA RestsReturned ==
  ASSUME NEW p, p \in Machines, NEW c, c \in Callees, NEW base \in Nat, NEW results,
         NEW m \in Nat, Len(p.stack) = m + Len(c.params)
  PROVE  LET y == Returned(p, c, base, results)
         IN  Plain(y) /\ \A i \in 1..m : y.stack[i] = p.stack[i]
<1> DEFINE at == Layout(base, c.results)
           q == SubSeq(p.stack, 1, m)
           r == [k \in DOMAIN c.results |->
                   [type |-> c.results[k], mode |-> "frame", n |-> at[k], at |-> at[k]]]
           low == [w \in Words |-> IF w < base THEN p.frame[w] ELSE Spoilt]
           regs == [k \in Regs |-> Junk]
           frame == Puts(low, at, c.results, results)
           y == Returned(p, c, base, results)
<1>1. /\ c.results \in Seq(Types) /\ Len(c.params) \in Nat /\ DOMAIN c.results = 1..Len(c.results)
      /\ p.stack \in Seq(Operands)
  BY Parts, StackValuesAssumption
<1>2. q \in Seq(Operands) /\ Len(q) = m /\ \A i \in 1..m : q[i] = p.stack[i]
  <2>1. m \in 0..Len(p.stack)  BY <1>1
  <2> QED  BY <1>1, <2>1, PrefixIs
<1>3. r \in Seq(Operands)
  <2>1. at \in [DOMAIN c.results -> Nat]  BY <1>1, LayoutIs
  <2> HIDE DEF at
  <2>2. r \in [1..Len(c.results) -> Operands]
    <3>1. ASSUME NEW k \in DOMAIN c.results
          PROVE  [type |-> c.results[k], mode |-> "frame", n |-> at[k], at |-> at[k]] \in Operands
      <4>1. c.results[k] \in Types /\ at[k] \in Nat  BY <1>1, <2>1
      <4> QED  BY <4>1 DEF Operands
    <3> QED  BY <1>1, <3>1
  <2>3. Len(c.results) \in Nat  BY <1>1
  <2> HIDE DEF r
  <2> QED  BY <2>2, <2>3
<1>4. y.stack = q \o r /\ y.scratch = regs
  <2> HIDE DEF r, regs, frame
  <2>1. y = [Pop(p, Len(c.params)) EXCEPT !.stack = @ \o r, !.frame = frame, !.scratch = regs,
                                          !.flag = Junk]
    BY Zenon DEF Returned, r, regs, frame
  <2>2. Pop(p, Len(c.params)) = [p EXCEPT !.stack = q]
    <3>1. Len(p.stack) - Len(c.params) = m  BY <1>1
    <3>2. Pop(p, Len(c.params)) = [p EXCEPT !.stack = SubSeq(@, 1, Len(@) - Len(c.params))]
      BY Zenon DEF Pop
    <3> HIDE DEF q
    <3>3. q = SubSeq(p.stack, 1, Len(p.stack) - Len(c.params))  BY <3>1, Zenon DEF q
    <3> QED  BY <3>2, <3>3 DEF Machines
  <2> HIDE DEF q, y
  <2> QED  BY <2>1, <2>2 DEF Machines
<1> HIDE DEF q, r, y
<1>5. \A i \in 1..m : (q \o r)[i] = q[i]  BY <1>2, <1>3, ConcatIs
<1>6. Plain(y)
  <2>1. Junk \in Loaded  BY DEF Loaded
  <2> QED  BY <1>4, <2>1 DEF Plain
<1>7. \A i \in 1..m : y.stack[i] = p.stack[i]  BY <1>2, <1>4, <1>5, Zenon
<1> QED  BY <1>6, <1>7 DEF y

LEMMA RestsCall ==
  ASSUME NEW z, Good(z), FlagsTop(z), NEW c, c \in Callees, NEW m, m \in Nat,
         Len(z.stack) = m + Len(c.params),
         \A k \in 1..Len(c.params) : z.stack[m + k].type = c.params[k], NEW results
  PROVE  LET s == Prepared(z)
         IN  Rests(z, Returned(Placed(s, c, FALSE), c, CalleeFrame(s, c, FALSE), results), m)
<1> DEFINE s == Prepared(z)
           base == CalleeFrame(s, c, FALSE)
           p == Placed(s, c, FALSE)
           y == Returned(p, c, base, results)
<1>1. Ready(s, c, m)  BY PreparedReady
<1>2. Rests(z, s, Len(z.stack))  BY RestsPrepared, Zenon
<1> HIDE DEF s
<1>3. base \in Nat  BY <1>1, CalleeFrameIs
<1>4. Delivered(s, c, m, p)  BY <1>1, PlacedIs, Zenon
<1>5. Len(s.stack) = m + Len(c.params) /\ Len(c.params) \in Nat  BY <1>1, ReadyIs
<1> HIDE DEF base, p
<1>6. p \in Machines /\ Len(p.stack) = m + Len(c.params)
      /\ \A i \in 1..m : p.stack[i] = s.stack[i]
  BY <1>4, <1>5, Zenon DEF Delivered
<1>7. Plain(y) /\ \A i \in 1..m : y.stack[i] = p.stack[i]  BY <1>3, <1>6, RestsReturned
<1> HIDE DEF y
<1>8. Rests(s, y, m)  BY <1>6, <1>7, Zenon DEF Rests
<1>9. Rests(z, s, m)
  <2>1. m + Len(c.params) \in Nat /\ m \in 0..(m + Len(c.params))  BY <1>5
  <2> QED  BY <1>2, <2>1, RestsLess, Zenon
<1>10. Rests(z, y, m)  BY <1>8, <1>9, RestsTrans, Zenon
<1> QED  BY <1>10 DEF y, p, base, s

-----------------------------------------------------------------------------
(* What the machine is once the code that leaves y has been translated,    *)
(* and run when the path is here.                                          *)

LEMMA Ways ==
  /\ \A d, e : ToEnd(d) = ToEnd(e) => d = e
  /\ \A d, e : ToElse(d) = ToElse(e) => d = e
  /\ \A d, e : ToEnd(d) # ToElse(e)
  /\ \A d : ToEnd(d) # Here /\ ToElse(d) # Here
  /\ \A how \in {"returned", "astray"} :
       Over(how) # Here /\ \A d : Over(how) # ToEnd(d) /\ Over(how) # ToElse(d)
  /\ Over("returned") # Over("astray")
<1>1. \A d : ToEnd(d).doing = "to end" /\ ToEnd(d).of = d  BY DEF ToEnd
<1>2. \A d : ToElse(d).doing = "to else" /\ ToElse(d).of = d  BY DEF ToElse
<1>3. Here.doing = "here" /\ \A how : Over(how).doing = how  BY DEF Here, Over
<1>4. ASSUME NEW d, NEW e, ToEnd(d) = ToEnd(e)  PROVE d = e
  <2>1. ToEnd(d).of = ToEnd(e).of  BY <1>4
  <2>2. ToEnd(d).of = d /\ ToEnd(e).of = e  BY <1>1, Zenon
  <2> QED  BY <2>1, <2>2, Zenon
<1>5. ASSUME NEW d, NEW e, ToElse(d) = ToElse(e)  PROVE d = e
  <2>1. ToElse(d).of = ToElse(e).of  BY <1>5
  <2>2. ToElse(d).of = d /\ ToElse(e).of = e  BY <1>2, Zenon
  <2> QED  BY <2>1, <2>2, Zenon
<1>6. \A d, e : ToEnd(d) # ToElse(e)
  <2>1. "to end" # "to else"  OBVIOUS
  <2> QED  BY <1>1, <1>2, <2>1, Zenon
<1>7. \A d : ToEnd(d) # Here /\ ToElse(d) # Here
  <2>1. "to end" # "here" /\ "to else" # "here"  OBVIOUS
  <2> QED  BY <1>1, <1>2, <1>3, <2>1, Zenon
<1>8. \A how \in {"returned", "astray"} :
        Over(how) # Here /\ \A d : Over(how) # ToEnd(d) /\ Over(how) # ToElse(d)
  <2>1. \A how \in {"returned", "astray"} :
          how # "here" /\ how # "to end" /\ how # "to else"
    OBVIOUS
  <2> QED  BY <1>1, <1>2, <1>3, <2>1, Zenon
<1>9. Over("returned") # Over("astray")
  <2>1. "returned" # "astray"  OBVIOUS
  <2> QED  BY <1>3, <2>1, Zenon
<1> QED  BY <1>4, <1>5, <1>6, <1>7, <1>8, <1>9, Zenon

LEMMA Arities ==
  \A b : /\ Arity(b) \in {0, 1} /\ LabelArity(b) \in {0, 1}
         /\ Arity(b) # 1 => Arity(b) = 0
         /\ b.kind = "loop" => LabelArity(b) = 0
         /\ b.kind # "loop" => LabelArity(b) = Arity(b)
<1> TAKE b
<1>1. Arity(b) = 0 \/ Arity(b) = 1  BY Zenon DEF Arity
<1>2. /\ b.kind = "loop" => LabelArity(b) = 0
      /\ b.kind # "loop" => LabelArity(b) = Arity(b)
  BY Zenon DEF LabelArity
<1> QED  BY <1>1, <1>2

LEMMA BlockIs ==
  ASSUME NEW b \in Blocks
  PROVE  /\ b.kind \in {"block", "loop", "if", "else"} /\ b.type \in Types \cup {"none"}
         /\ b.saved \in Nat /\ b.saved <= MaxStack
<1>1. MaxStack \in Nat  BY StackValuesAssumption
<1> QED  BY <1>1 DEF Blocks

LEMMA OrderedParts ==
  ASSUME Ordered
  PROVE  /\ Good(st) /\ FlagsTop(st) /\ Plain(st) /\ st \in Machines
         /\ Len(st.stack) \in Nat /\ Len(st.stack) <= MaxStack
         /\ st.stack \in Seq(Operands) /\ DOMAIN st.stack = 1..Len(st.stack)
         /\ Floor \in Nat /\ Floor <= Len(st.stack)
         /\ blocks \in Seq(Blocks) /\ Len(blocks) \in Nat /\ DOMAIN blocks = 1..Len(blocks)
         /\ \A d \in 1..Len(blocks) :
              /\ blocks[d] \in Blocks /\ blocks[d].saved \in Nat /\ blocks[d].saved <= Floor
              /\ blocks[d].type \in Types \cup {"none"} /\ Arity(blocks[d]) \in {0, 1}
              /\ \A i \in 1..blocks[d].saved : AtHome(st.stack[i])
         /\ blocks # <<>> => Len(blocks) \in 1..Len(blocks) /\ Floor = blocks[Len(blocks)].saved
                             /\ Last(blocks) = blocks[Len(blocks)]
         /\ wasm \in [stack : Seq(Values), local : [DOMAIN LocalTypes -> Values]]
         /\ Running => Len(wasm.stack) = Len(st.stack) /\ reach = "live"
<1>1. Fit(st) /\ Nested(blocks) /\ Sheltered(blocks, st.stack)  BY DEF Ordered
<1>2. /\ Good(st) /\ FlagsTop(st) /\ Plain(st) /\ st \in Machines
      /\ Len(st.stack) \in Nat /\ Len(st.stack) <= MaxStack
      /\ st.stack \in Seq(Operands) /\ DOMAIN st.stack = 1..Len(st.stack)
  BY <1>1, Parts DEF Fit, Good
<1>3. blocks \in Seq(Blocks) /\ Len(blocks) \in Nat /\ DOMAIN blocks = 1..Len(blocks)
  BY <1>1 DEF Nested
<1>4. \A d \in 1..Len(blocks) :
        /\ blocks[d] \in Blocks /\ blocks[d].saved \in Nat
        /\ blocks[d].type \in Types \cup {"none"}
  BY <1>3, BlockIs
<1>5. \A d \in 1..Len(blocks) : Arity(blocks[d]) \in {0, 1}
  <2> TAKE d \in 1..Len(blocks)
  <2> DEFINE b == blocks[d]
  <2> HIDE DEF b
  <2>1. Arity(b) \in {0, 1}  BY Arities, Zenon
  <2> QED  BY <2>1 DEF b
<1>6. \A d \in 1..Len(blocks) : \A i \in 1..blocks[d].saved : AtHome(st.stack[i])
  BY <1>1, Zenon DEF Sheltered
<1>7. /\ Floor \in Nat /\ Floor <= Len(st.stack)
      /\ \A d \in 1..Len(blocks) : blocks[d].saved <= Floor
      /\ blocks # <<>> => Len(blocks) \in 1..Len(blocks) /\ Floor = blocks[Len(blocks)].saved
                          /\ Last(blocks) = blocks[Len(blocks)]
  <2>1. CASE blocks = <<>>
    <3>1. Floor = 0 /\ Len(blocks) = 0  BY <2>1 DEF Floor
    <3> QED  BY <1>2, <2>1, <3>1
  <2>2. CASE blocks # <<>>
    <3>1. Last(blocks) = blocks[Len(blocks)]  BY DEF Last
    <3>2. Floor = blocks[Len(blocks)].saved  BY <2>2, <3>1, Zenon DEF Floor
    <3>3. Len(blocks) \in 1..Len(blocks)  BY <1>3, <2>2
    <3>4. \A d, e \in 1..Len(blocks) : d <= e => blocks[d].saved <= blocks[e].saved
      BY <1>1 DEF Nested
    <3>5. blocks[Len(blocks)].saved <= Len(st.stack)  BY <1>1, <3>3, Zenon DEF Sheltered
    <3>6. \A d \in 1..Len(blocks) : d <= Len(blocks)  OBVIOUS
    <3>7. \A d \in 1..Len(blocks) : blocks[d].saved <= Floor  BY <3>2, <3>3, <3>4, <3>6, Zenon
    <3> QED  BY <1>4, <3>1, <3>2, <3>3, <3>5, <3>7, Zenon
  <2> QED  BY <2>1, <2>2
<1>8. /\ wasm \in [stack : Seq(Values), local : [DOMAIN LocalTypes -> Values]]
      /\ Running => Len(wasm.stack) = Len(st.stack)
  BY Zenon DEF Ordered, Prescribes, Running
<1>9. Running => reach = "live"
  <2>1. Goes(path, reach, blocks)  BY DEF Ordered
  <2> QED  BY <2>1, Ways, Zenon DEF Goes, Running
<1> QED  BY <1>2, <1>3, <1>4, <1>5, <1>6, <1>7, <1>8, <1>9, Zenon

LEMMA StackIn ==
  ASSUME NEW z, z \in Machines, Plain(z), NEW y, Good(y), FlagsTop(y)
  PROVE  LET x == [z EXCEPT !.stack = y.stack]
         IN  /\ Fit(x) /\ x.stack = y.stack /\ x.frame = z.frame /\ x.local = z.local
<1> DEFINE x == [z EXCEPT !.stack = y.stack]
<1>1. /\ z \in Machines /\ y \in Machines /\ y.stack \in Seq(Operands)
      /\ Plain(z) /\ Described(y.stack, y.scratch) /\ Apart(y.stack) /\ Len(y.stack) <= MaxStack
  BY Parts DEF Good
<1>2. /\ x \in Machines /\ x.stack = y.stack /\ x.scratch = z.scratch /\ x.frame = z.frame
      /\ x.local = z.local
  BY <1>1 DEF Machines
<1> HIDE DEF x
<1>3. Described(y.stack, z.scratch)
  <2>1. ASSUME NEW i \in 1..Len(y.stack)  PROVE Readable(z.scratch, y.stack[i])
    <3>1. Readable(y.scratch, y.stack[i])  BY <1>1 DEF Described
    <3>2. \A r \in Regs : z.scratch[r] \in Loaded  BY <1>1 DEF Plain
    <3> QED  BY <3>1, <3>2 DEF Readable
  <2> QED  BY <1>1, <2>1, Zenon DEF Described
<1>4. Good(x)  BY <1>1, <1>2, <1>3, Zenon DEF Good
<1>5. FlagsTop(x) /\ Plain(x)  BY <1>1, <1>2, Zenon DEF FlagsTop, Plain
<1> QED  BY <1>2, <1>4, <1>5 DEF Fit, x

(* Enters(y, k): y is what code leaves that has let the k lowest rest.     *)
Enters(y, k) ==
  /\ Good(y) /\ FlagsTop(y) /\ Rests(st, y, k)
  /\ k \in Nat /\ Floor <= k /\ k <= Len(y.stack)

LEMMA SettledFit ==
  ASSUME NEW y, Good(y), FlagsTop(y), Plain(y)
  PROVE  Fit(Settled(y)) /\ Settled(y).stack = y.stack /\ Same(y, Settled(y))
<1>1. Good(Settled(y)) /\ FlagsTop(Settled(y)) /\ Same(y, Settled(y)) /\ Settled(y).stack = y.stack
  BY SettledIs
<1>2. Plain(Settled(y))  BY RestsSettled, Zenon DEF Rests
<1> QED  BY <1>1, <1>2, Zenon DEF Fit

LEMMA MachineIs ==
  ASSUME Ordered, NEW y, NEW k, Enters(y, k)
  PROVE  /\ Fit(Machine(y)) /\ Machine(y).stack = y.stack /\ Sheltered(blocks, y.stack)
         /\ Running => Machine(y) = Settled(y) /\ Same(y, Machine(y))
         /\ ~Running => /\ Machine(y) = [st EXCEPT !.stack = y.stack]
                        /\ Machine(y).frame = st.frame /\ Machine(y).local = st.local
<1>1. Plain(st) /\ st \in Machines  BY OrderedParts
<1>2. Good(y) /\ FlagsTop(y) /\ Plain(y)  BY <1>1, Zenon DEF Enters, Rests
<1> DEFINE x == Machine(y)
<1>3. ASSUME Running
      PROVE  Fit(x) /\ x.stack = y.stack /\ x = Settled(y) /\ Same(y, x)
  <2>1. x = Settled(y)  BY <1>3, Zenon DEF Machine
  <2> HIDE DEF x
  <2> QED  BY <1>2, <2>1, SettledFit
<1>4. ASSUME ~Running
      PROVE  /\ Fit(x) /\ x.stack = y.stack /\ x = [st EXCEPT !.stack = y.stack]
             /\ x.frame = st.frame /\ x.local = st.local
  <2>1. x = [st EXCEPT !.stack = y.stack]  BY <1>4, Zenon DEF Machine
  <2> HIDE DEF x
  <2> QED  BY <1>1, <1>2, <2>1, StackIn
<1>5. Sheltered(blocks, y.stack)
  <2>1. ASSUME NEW d \in 1..Len(blocks)
        PROVE  blocks[d].saved <= Len(y.stack) /\ \A i \in 1..blocks[d].saved : AtHome(y.stack[i])
    <3>1. /\ blocks[d].saved \in Nat /\ blocks[d].saved <= Floor /\ Floor \in Nat
          /\ \A i \in 1..blocks[d].saved : AtHome(st.stack[i])
      BY OrderedParts
    <3>2. k \in Nat /\ Floor <= k /\ k <= Len(y.stack) /\ Rests(st, y, k) /\ Len(y.stack) \in Nat
      BY Parts DEF Enters, Good
    <3>3. \A i \in 1..k : AtHome(st.stack[i]) => y.stack[i] = st.stack[i]
      BY <3>2, Zenon DEF Rests
    <3>4. blocks[d].saved <= Len(y.stack) /\ \A i \in 1..blocks[d].saved : i \in 1..k
      BY <3>1, <3>2
    <3> QED  BY <3>1, <3>3, <3>4, Zenon
  <2> QED  BY <2>1, Zenon DEF Sheltered
<1> QED  BY <1>3, <1>4, <1>5, Zenon

-----------------------------------------------------------------------------
(* An instruction that is no branch.                                       *)

LEMMA PlaceSame ==
  ASSUME NEW z, z \in Machines, NEW x, x \in Machines, NEW b, NEW c, c.type = b.type,
         c.saved = b.saved, b.saved \in 0..Len(z.stack), b.saved \in 0..Len(x.stack),
         \A i \in 1..b.saved : x.stack[i] = z.stack[i]
  PROVE  ResultPlace(x, c) = ResultPlace(z, b)
<1> DEFINE k == b.saved
           q == SubSeq(z.stack, 1, k)
           r == SubSeq(x.stack, 1, k)
<1>1. z.stack \in Seq(Operands) /\ x.stack \in Seq(Operands)  BY Parts
<1>2. q = r
  <2>1. /\ q \in Seq(Operands) /\ Len(q) = k /\ \A i \in 1..k : q[i] = z.stack[i]
        /\ r \in Seq(Operands) /\ Len(r) = k /\ \A i \in 1..k : r[i] = x.stack[i]
    BY <1>1, PrefixIs
  <2> HIDE DEF k, q, r
  <2>2. \A i \in 1..Len(q) : q[i] = r[i]  BY <2>1, Zenon DEF k
  <2>3. Len(q) = Len(r)  BY <2>1, Zenon
  <2> QED  BY <2>1, <2>2, <2>3, SequencesEqual
<1> DEFINE u == [z EXCEPT !.stack = q]
           v == [x EXCEPT !.stack = r]
<1>3. u.stack = q /\ v.stack = r  BY DEF Machines
<1>4. ResultPlace(z, b) = NextSlot(u, b.type) /\ ResultPlace(x, c) = NextSlot(v, b.type)
  <2>1. u = [z EXCEPT !.stack = SubSeq(@, 1, b.saved)]  BY DEF Machines
  <2>2. v = [x EXCEPT !.stack = SubSeq(@, 1, c.saved)]  BY DEF Machines
  <2> HIDE DEF u, v
  <2> QED  BY <2>1, <2>2, Zenon DEF ResultPlace
<1> HIDE DEF q, r, u, v
<1>5. u.stack = v.stack  BY <1>2, <1>3, Zenon
<1>6. NextSlot(u, b.type) = NextSlot(v, b.type)  BY <1>5 DEF NextSlot
<1> QED  BY <1>4, <1>6, Zenon

(* What waits for a label is left alone: the frame is as it was, and the   *)
(* operands that wait are in it.                                           *)
Remain(z, x, n) ==
  /\ n \in 0..Len(z.stack) /\ n \in 0..Len(x.stack)
  /\ \A i \in 1..n : AtHome(z.stack[i]) /\ x.stack[i] = z.stack[i]

LEMMA WaitsOn ==
  ASSUME NEW z, z \in Machines, NEW x, x \in Machines, x.frame = z.frame, NEW w, NEW p, NEW bs,
         NEW cs, Waits(w, p, z, bs),
         \A d \in 1..Len(cs) : p \in {ToEnd(d), ToElse(d)} =>
           /\ d \in 1..Len(bs) /\ cs[d].saved = bs[d].saved /\ cs[d].type = bs[d].type
           /\ Remain(z, x, bs[d].saved)
  PROVE  Waits(w, p, x, cs)
<1>1. ASSUME NEW d \in 1..Len(cs), p \in {ToEnd(d), ToElse(d)}
      PROVE  /\ Carries(w, x, cs[d].saved)
             /\ p = ToEnd(d) /\ Arity(cs[d]) = 1 =>
                  w.stack[cs[d].saved + 1] = Get(x.frame, ResultPlace(x, cs[d]), cs[d].type)
  <2> DEFINE k == bs[d].saved
  <2>1. d \in 1..Len(bs) /\ cs[d].saved = k /\ cs[d].type = bs[d].type /\ Remain(z, x, k)
    BY <1>1, Zenon
  <2>2. /\ Carries(w, z, k)
        /\ p = ToEnd(d) /\ Arity(bs[d]) = 1 =>
             w.stack[k + 1] = Get(z.frame, ResultPlace(z, bs[d]), bs[d].type)
    BY <1>1, <2>1, Zenon DEF Waits
  <2>3. ResultPlace(x, cs[d]) = ResultPlace(z, bs[d])
    <3>1. /\ bs[d].saved \in 0..Len(z.stack) /\ bs[d].saved \in 0..Len(x.stack)
          /\ \A i \in 1..bs[d].saved : x.stack[i] = z.stack[i]
      BY <2>1, Zenon DEF Remain
    <3> DEFINE b == bs[d]
               c == cs[d]
    <3> HIDE DEF b, c
    <3>2. c.type = b.type /\ c.saved = b.saved /\ b.saved \in 0..Len(z.stack)
          /\ b.saved \in 0..Len(x.stack) /\ \A i \in 1..b.saved : x.stack[i] = z.stack[i]
      BY <2>1, <3>1, Zenon DEF b, c
    <3>3. ResultPlace(x, c) = ResultPlace(z, b)  BY <3>2, PlaceSame
    <3> QED  BY <3>3 DEF b, c
  <2>4. Arity(cs[d]) = Arity(bs[d])  BY <2>1, Zenon DEF Arity
  <2>5. ASSUME NEW i \in 1..k  PROVE w.stack[i] = Denoted(x, x.stack[i])
    <3>1. z.stack[i].mode = "frame" /\ x.stack[i] = z.stack[i]  BY <2>1, Zenon DEF Remain, AtHome
    <3>2. w.stack[i] = Denoted(z, z.stack[i])  BY <2>2, Zenon DEF Carries
    <3> DEFINE d1 == z.stack[i]
    <3> HIDE DEF d1
    <3>3. Denoted(z, d1) = Get(z.frame, d1.n, d1.type) /\ Denoted(x, d1) = Get(x.frame, d1.n, d1.type)
      BY <3>1, DenotedIs, ZenonT(60) DEF d1
    <3>4. Denoted(x, d1) = Denoted(z, d1)  BY <3>3
    <3> QED  BY <3>1, <3>2, <3>4, Zenon DEF d1
  <2> HIDE DEF k
  <2>6. Carries(w, x, cs[d].saved)  BY <2>1, <2>5, Zenon DEF Carries
  <2>7. p = ToEnd(d) /\ Arity(cs[d]) = 1 =>
          w.stack[cs[d].saved + 1] = Get(x.frame, ResultPlace(x, cs[d]), cs[d].type)
    <3>1. x.frame = z.frame  OBVIOUS
    <3> QED  BY <2>1, <2>2, <2>3, <2>4, <3>1
  <2> QED  BY <2>6, <2>7
<1> QED  BY <1>1, Zenon DEF Waits

LEMMA WaitsNot ==
  ASSUME NEW w, NEW p, p = Here \/ \E how \in {"returned", "astray"} : p = Over(how),
         NEW x, NEW cs
  PROVE  Waits(w, p, x, cs)
<1>1. \A d : p # ToEnd(d) /\ p # ToElse(d)  BY Ways, Zenon
<1> QED  BY <1>1, Zenon DEF Waits

LEMMA SameValues ==
  ASSUME NEW y, NEW x, Same(y, x), NEW w, NEW k, k <= Len(y.stack), k \in Nat, Len(y.stack) \in Nat,
         Carries(w, y, k), w.local = Homes(y)
  PROVE  Carries(w, x, k) /\ w.local = Homes(x)
<1>1. \A i \in 1..k : i \in 1..Len(y.stack)  OBVIOUS
<1>2. \A i \in 1..k : Denoted(x, x.stack[i]) = Denoted(y, y.stack[i])  BY <1>1, Zenon DEF Same
<1>3. Carries(w, x, k)
  <2>1. ASSUME NEW i \in 1..k  PROVE w.stack[i] = Denoted(x, x.stack[i])
    <3>1. w.stack[i] = Denoted(y, y.stack[i])  BY Zenon DEF Carries
    <3> QED  BY <1>2, <3>1, Zenon
  <2> QED  BY <2>1, Zenon DEF Carries
<1>4. Homes(x) = Homes(y)  BY HomesSame, Zenon DEF Same
<1> QED  BY <1>3, <1>4, Zenon

LEMMA HomesKept ==
  ASSUME NEW y, NEW x, x.frame = y.frame, x.local = y.local
  PROVE  Homes(x) = Homes(y)
<1>1. ASSUME NEW i \in DOMAIN LocalTypes  PROVE Denoted(x, Home(i)) = Denoted(y, Home(i))
  <2> DEFINE h == Home(i)
  <2>1. h.mode = "frame" \/ h.mode = "local"  BY HomeIs, Zenon
  <2> HIDE DEF h
  <2>2. CASE h.mode = "frame"
    <3>1. Denoted(x, h) = Get(x.frame, h.n, h.type) /\ Denoted(y, h) = Get(y.frame, h.n, h.type)
      BY <2>2, DenotedIs, Zenon
    <3> QED  BY <3>1 DEF h
  <2>3. CASE h.mode = "local"
    <3>1. Denoted(x, h) = x.local[h.n] /\ Denoted(y, h) = y.local[h.n]
      BY <2>3, DenotedIs, Zenon
    <3> QED  BY <3>1 DEF h
  <2> QED  BY <2>1, <2>2, <2>3
<1> QED  BY <1>1, HomesSame, Zenon

(* w carries what y has.                                                   *)
Agreed(w, y) ==
  /\ w \in [stack : Seq(Values), local : [DOMAIN LocalTypes -> Values]]
  /\ Len(w.stack) = Len(y.stack)
  /\ Shapes = {} => Carries(w, y, Len(y.stack)) /\ w.local = Homes(y)

(* Code is translated, and run when the path is here.                      *)
LEMMA CodeStep ==
  ASSUME Right, NEW y, NEW k, Enters(y, k), st' = Machine(y), UNCHANGED <<blocks, path>>,
         reach' \in {"live", "branch", "return"},
         Running => reach' = reach /\ Agreed(wasm', y), ~Running => wasm' = wasm,
         Shapes = {} /\ reach' = "return" => \A d \in 1..Len(blocks) : Arity(blocks[d]) = 0
  PROVE  Right'
<1>1. Ordered /\ (Shapes = {} => Followed)  BY DEF Right
<1>2. /\ Fit(Machine(y)) /\ Machine(y).stack = y.stack /\ Sheltered(blocks, y.stack)
      /\ Running => Same(y, Machine(y))
      /\ ~Running => Machine(y).frame = st.frame /\ Machine(y).local = st.local
  BY <1>1, MachineIs
<1>3. /\ Fit(st') /\ st'.stack = y.stack /\ Sheltered(blocks, y.stack)
      /\ Running => Same(y, st')
      /\ ~Running => st'.frame = st.frame /\ st'.local = st.local
  <2> DEFINE x == Machine(y)
  <2> HIDE DEF x
  <2>1. st' = x  BY DEF x
  <2> QED  BY <1>2, <2>1 DEF x
<1>4. blocks' = blocks /\ path' = path /\ (Running => reach' = reach)  OBVIOUS
<1>5. /\ wasm \in [stack : Seq(Values), local : [DOMAIN LocalTypes -> Values]]
      /\ Nested(blocks) /\ Goes(path, reach, blocks)
      /\ Prescribes(wasm, path, Len(st.stack), blocks)
  BY <1>1, OrderedParts, Zenon DEF Ordered
<1>10. Goes(path, reach', blocks)
  <2> DEFINE r == reach'
  <2> HIDE DEF r
  <2>1. path = Here => r = reach  BY <1>4 DEF Running, r
  <2>2. Goes(path, r, blocks)  BY <1>5, <2>1, Zenon DEF Goes
  <2> QED  BY <2>2 DEF r
<1>6. Prescribes(wasm', path, Len(y.stack), blocks)
  <2>1. CASE Running
    <3>1. \A d : path # ToEnd(d) /\ path # ToElse(d)  BY <2>1, Ways, Zenon DEF Running
    <3> QED  BY <2>1, <3>1, Zenon DEF Prescribes, Agreed
  <2>2. CASE ~Running
    <3>1. wasm' = wasm /\ path # Here  BY <2>2, Zenon DEF Running
    <3> QED  BY <1>5, <3>1, Zenon DEF Prescribes
  <2> QED  BY <2>1, <2>2
<1>7. Ordered'
  <2>1. Sheltered(blocks', st'.stack) /\ Prescribes(wasm', path', Len(st'.stack), blocks')
    BY <1>3, <1>4, <1>6, Zenon
  <2>2. Nested(blocks') /\ Goes(path', reach', blocks') /\ Fit(st')  BY <1>3, <1>4, <1>5, <1>10
  <2> QED  BY <2>1, <2>2, Zenon DEF Ordered
<1>8. ASSUME Shapes = {}  PROVE Followed'
  <2>1. Followed  BY <1>1, <1>8
  <2>2. y \in Machines /\ Len(y.stack) \in Nat /\ st' \in Machines /\ Good(y)
    BY <1>3, Parts, Zenon DEF Enters, Fit, Good
  <2>3. wasm'.local = Homes(st') /\ (Running => Carries(wasm', st', Len(st'.stack)))
    <3>1. CASE Running
      <4>1. Carries(wasm', y, Len(y.stack)) /\ wasm'.local = Homes(y)  BY <1>8, <3>1, Zenon DEF Agreed
      <4>2. Same(y, st')  BY <1>3, <3>1, Zenon
      <4>3. Len(y.stack) <= Len(y.stack)  BY <2>2
      <4>4. Carries(wasm', st', Len(y.stack)) /\ wasm'.local = Homes(st')
        BY <2>2, <4>1, <4>2, <4>3, SameValues, Zenon
      <4> QED  BY <1>3, <4>4, Zenon
    <3>2. CASE ~Running
      <4>1. Homes(st') = Homes(st)  BY <1>3, <3>2, HomesKept, Zenon
      <4>2. wasm' = wasm /\ wasm.local = Homes(st)  BY <2>1, <3>2, Zenon DEF Followed
      <4> QED  BY <3>2, <4>1, <4>2
    <3> QED  BY <3>1, <3>2
  <2>4. Waits(wasm', path', st', blocks')
    <3>1. CASE Running
      <4>1. path' = Here  BY <1>4, <3>1, Zenon DEF Running
      <4> QED  BY <4>1, WaitsNot, Zenon
    <3>2. CASE ~Running
      <4>1. Waits(wasm, path, st, blocks)  BY <2>1, Zenon DEF Followed
      <4>2. ASSUME NEW d \in 1..Len(blocks)  PROVE Remain(st, st', blocks[d].saved)
        <5>1. /\ blocks[d].saved \in Nat /\ blocks[d].saved <= Floor /\ Floor \in Nat
              /\ \A i \in 1..blocks[d].saved : AtHome(st.stack[i])
              /\ Floor <= Len(st.stack) /\ Len(st.stack) \in Nat
          BY <1>1, OrderedParts
        <5>2. k \in Nat /\ Floor <= k /\ k <= Len(y.stack) /\ Rests(st, y, k)  BY Zenon DEF Enters
        <5>3. \A i \in 1..blocks[d].saved : i \in 1..k  BY <5>1, <5>2
        <5>4. \A i \in 1..blocks[d].saved : y.stack[i] = st.stack[i]
          BY <5>1, <5>2, <5>3, Zenon DEF Rests
        <5>5. blocks[d].saved \in 0..Len(st.stack) /\ blocks[d].saved \in 0..Len(y.stack)
          BY <2>2, <5>1, <5>2
        <5> QED  BY <1>3, <5>1, <5>4, <5>5, Zenon DEF Remain
      <4>3. st \in Machines /\ st'.frame = st.frame  BY <1>1, <1>3, <3>2, OrderedParts
      <4>4. Waits(wasm, path, st', blocks)  BY <2>2, <4>1, <4>2, <4>3, WaitsOn, Zenon
      <4>5. wasm' = wasm  BY <3>2
      <4> QED  BY <1>4, <4>4, <4>5, Zenon
    <3> QED  BY <3>1, <3>2
  <2>5. path' # Over("astray") /\ (reach' = "return" => \A d \in 1..Len(blocks') : Arity(blocks'[d]) = 0)
    <3>1. path # Over("astray")  BY <2>1, Zenon DEF Followed
    <3> QED  BY <1>4, <1>8, <3>1
  <2>6. Running' => Running  BY <1>4, Zenon DEF Running
  <2> QED  BY <2>3, <2>4, <2>5, <2>6, Zenon DEF Followed
<1> QED  BY <1>7, <1>8, Zenon DEF Right

LEMMA StepIs ==
  ASSUME Right, NEW y, NEW k, Enters(y, k), st' = Machine(y), UNCHANGED <<blocks, reach, path>>,
         Running => Agreed(wasm', y), ~Running => wasm' = wasm
  PROVE  Right'
<1>1. reach \in {"live", "branch", "return"}  BY Zenon DEF Right, Ordered
<1>2. Shapes = {} /\ reach = "return" => \A d \in 1..Len(blocks) : Arity(blocks[d]) = 0
  BY Zenon DEF Right, Followed
<1>3. blocks' = blocks /\ reach' = reach /\ path' = path  OBVIOUS
<1>4. /\ reach' \in {"live", "branch", "return"}
      /\ Shapes = {} /\ reach' = "return" => \A d \in 1..Len(blocks) : Arity(blocks[d]) = 0
  BY <1>1, <1>2, <1>3
<1> QED  BY <1>3, <1>4, CodeStep, Zenon

LEMMA EmitsStep ==
  ASSUME Right, NEW y, NEW k, Enters(y, k), NEW stack, Emits(y, stack),
         Running => stack \in Seq(Values) /\ Len(stack) = Len(y.stack),
         Running /\ Shapes = {} =>
           /\ \A i \in 1..Len(y.stack) : stack[i] = Denoted(y, y.stack[i])
           /\ Homes(y) = Homes(st)
  PROVE  Right'
<1>1. /\ st' = Machine(y) /\ UNCHANGED <<blocks, reach, path>>
      /\ wasm' = IF Running THEN [wasm EXCEPT !.stack = stack] ELSE wasm
  BY Zenon DEF Emits, Alongside
<1>2. Ordered /\ (Shapes = {} => Followed)  BY DEF Right
<1>3. wasm \in [stack : Seq(Values), local : [DOMAIN LocalTypes -> Values]]
  BY <1>2, OrderedParts
<1>4. ASSUME Running  PROVE Agreed(wasm', y)
  <2>1. wasm' = [wasm EXCEPT !.stack = stack]  BY <1>1, <1>4
  <2>2. stack \in Seq(Values) /\ Len(stack) = Len(y.stack)  BY <1>4
  <2>3. /\ wasm' \in [stack : Seq(Values), local : [DOMAIN LocalTypes -> Values]]
        /\ wasm'.stack = stack /\ wasm'.local = wasm.local
    BY <1>3, <2>1, <2>2
  <2>4. ASSUME Shapes = {}  PROVE Carries(wasm', y, Len(y.stack)) /\ wasm'.local = Homes(y)
    <3>1. wasm.local = Homes(st)  BY <1>2, <2>4, Zenon DEF Followed
    <3>2. /\ \A i \in 1..Len(y.stack) : stack[i] = Denoted(y, y.stack[i])
          /\ Homes(y) = Homes(st)
      BY <1>4, <2>4
    <3> QED  BY <2>3, <3>1, <3>2, Zenon DEF Carries
  <2> QED  BY <2>2, <2>3, <2>4, Zenon DEF Agreed
<1>5. ~Running => wasm' = wasm  BY <1>1
<1> QED  BY <1>1, <1>4, <1>5, StepIs, Zenon

LEMMA WasmIs ==
  ASSUME Right, Running, NEW k \in 0..Len(st.stack)
  PROVE  /\ W = Len(st.stack) /\ SubSeq(wasm.stack, 1, k) \in Seq(Values)
         /\ Len(SubSeq(wasm.stack, 1, k)) = k
         /\ \A i \in 1..k : SubSeq(wasm.stack, 1, k)[i] = wasm.stack[i]
         /\ \A i \in 1..Len(st.stack) : wasm.stack[i] \in Values
         /\ Shapes = {} =>
              /\ \A i \in 1..Len(st.stack) : wasm.stack[i] = Denoted(st, st.stack[i])
              /\ \A i \in 1..k : SubSeq(wasm.stack, 1, k)[i] = Denoted(st, st.stack[i])
<1>1. Ordered /\ (Shapes = {} => Followed)  BY DEF Right
<1>2. /\ wasm \in [stack : Seq(Values), local : [DOMAIN LocalTypes -> Values]]
      /\ Len(wasm.stack) = Len(st.stack) /\ Len(st.stack) \in Nat
  BY <1>1, OrderedParts
<1>3. wasm.stack \in Seq(Values) /\ W = Len(st.stack)  BY <1>2 DEF W
<1>4. k \in 0..Len(wasm.stack)  BY <1>2
<1> DEFINE q == SubSeq(wasm.stack, 1, k)
<1>5. q \in Seq(Values) /\ Len(q) = k /\ \A i \in 1..k : q[i] = wasm.stack[i]
  BY <1>3, <1>4, PrefixIs
<1>6. \A i \in 1..Len(st.stack) : wasm.stack[i] \in Values  BY <1>2
<1>7. Shapes = {} => \A i \in 1..Len(st.stack) : wasm.stack[i] = Denoted(st, st.stack[i])
  BY <1>1, Zenon DEF Followed, Carries
<1> HIDE DEF q
<1>8. Shapes = {} => \A i \in 1..k : q[i] = Denoted(st, st.stack[i])
  <2>1. \A i \in 1..k : i \in 1..Len(st.stack)  BY <1>2
  <2> QED  BY <1>5, <1>7, <2>1, Zenon
<1> QED  BY <1>3, <1>5, <1>6, <1>7, <1>8 DEF q

(* The operands under a result, and the result.                            *)
LEMMA LeadsStep ==
  ASSUME Right, NEW k \in Nat, Floor <= k, k <= Len(st.stack), NEW y, NEW t, NEW v,
         Leads(st, y, k, t, v), Rests(st, y, k), NEW q, NEW u, Emits(y, Append(q, u)),
         Running => q = SubSeq(wasm.stack, 1, k) /\ u \in Values /\ (Shapes = {} => u = v)
  PROVE  Right'
<1>1. /\ Good(y) /\ FlagsTop(y) /\ Len(y.stack) = k + 1 /\ Agrees(st, y, k)
      /\ Denoted(y, y.stack[k + 1]) = v
  BY Zenon DEF Leads
<1>2. Enters(y, k)
  <2>1. k <= k + 1  OBVIOUS
  <2> QED  BY <1>1, <2>1, Zenon DEF Enters
<1>3. k \in 0..Len(st.stack)
  <2>1. Len(st.stack) \in Nat  BY OrderedParts DEF Right
  <2> QED  BY <2>1
<1> DEFINE stack == Append(q, u)
<1>4. ASSUME Running
      PROVE  /\ stack \in Seq(Values) /\ Len(stack) = k + 1
             /\ Shapes = {} => \A i \in 1..(k + 1) : stack[i] = Denoted(y, y.stack[i])
  <2>1. /\ q \in Seq(Values) /\ Len(q) = k /\ u \in Values
        /\ Shapes = {} => u = v /\ \A i \in 1..k : q[i] = Denoted(st, st.stack[i])
    BY <1>3, <1>4, WasmIs
  <2>2. stack \in Seq(Values) /\ Len(stack) = k + 1 /\ stack[k + 1] = u
        /\ \A i \in 1..k : stack[i] = q[i]
    BY <2>1
  <2> HIDE DEF stack
  <2>3. ASSUME Shapes = {}, NEW i \in 1..(k + 1)  PROVE stack[i] = Denoted(y, y.stack[i])
    <3>1. CASE i = k + 1
      <4>1. stack[k + 1] = Denoted(y, y.stack[k + 1])  BY <1>1, <2>1, <2>2, <2>3
      <4> QED  BY <3>1, <4>1
    <3>2. CASE i \in 1..k
      <4>1. Denoted(y, y.stack[i]) = Denoted(st, st.stack[i])  BY <1>1, <3>2, Zenon DEF Agrees
      <4> QED  BY <2>1, <2>2, <2>3, <3>2, <4>1
    <3>3. i = k + 1 \/ i \in 1..k  OBVIOUS
    <3> QED  BY <3>1, <3>2, <3>3
  <2> QED  BY <2>2, <2>3
<1>5. Homes(y) = Homes(st)  BY <1>1, HomesSame, Zenon DEF Agrees
<1> HIDE DEF stack
<1>6. Emits(y, stack)  BY DEF stack
<1> QED  BY <1>1, <1>2, <1>4, <1>5, <1>6, EmitsStep, Zenon

LEMMA KeepsStep ==
  ASSUME Right, NEW k \in Nat, Floor <= k, k <= Len(st.stack), NEW y, Keeps(st, y, k),
         Rests(st, y, k), NEW q, Emits(y, q), Running => q = SubSeq(wasm.stack, 1, k)
  PROVE  Right'
<1>1. Good(y) /\ FlagsTop(y) /\ Len(y.stack) = k /\ Agrees(st, y, k)  BY Zenon DEF Keeps
<1>2. Enters(y, k)
  <2>1. k <= k  OBVIOUS
  <2> QED  BY <1>1, <2>1, Zenon DEF Enters
<1>3. k \in 0..Len(st.stack)
  <2>1. Len(st.stack) \in Nat  BY OrderedParts DEF Right
  <2> QED  BY <2>1
<1>4. ASSUME Running
      PROVE  /\ q \in Seq(Values) /\ Len(q) = k
             /\ Shapes = {} => \A i \in 1..k : q[i] = Denoted(y, y.stack[i])
  <2>1. /\ q \in Seq(Values) /\ Len(q) = k
        /\ Shapes = {} => \A i \in 1..k : q[i] = Denoted(st, st.stack[i])
    BY <1>3, <1>4, WasmIs
  <2>2. \A i \in 1..k : Denoted(y, y.stack[i]) = Denoted(st, st.stack[i])
    BY <1>1, Zenon DEF Agrees
  <2> QED  BY <2>1, <2>2, Zenon
<1>5. Homes(y) = Homes(st)  BY <1>1, HomesSame, Zenon DEF Agrees
<1> QED  BY <1>1, <1>2, <1>4, <1>5, EmitsStep, Zenon

LEMMA HasIs ==
  ASSUME Ordered, NEW n \in Nat, Has(n)
  PROVE  /\ n <= Len(st.stack) /\ Len(st.stack) - n \in Nat /\ Floor <= Len(st.stack) - n
         /\ Len(st.stack) - n <= Len(st.stack) /\ Len(st.stack) = (Len(st.stack) - n) + n
<1>1. Len(st.stack) \in Nat /\ Floor \in Nat /\ Len(st.stack) >= Floor + n
  BY OrderedParts DEF Has, Depth
<1> QED  BY <1>1

LEMMA ConstStep ==
  ASSUME Right, NEW t \in Types, NEW v \in Values, Const(t, v)
  PROVE  Right'
<1> DEFINE k == Len(st.stack)
           f == Fetched(st)
           y == Push(f, t, "imm", v)
<1>1. Ordered  BY DEF Right
<1>2. /\ Good(st) /\ FlagsTop(st) /\ k \in Nat /\ Floor <= k /\ k <= k
      /\ Running => Len(wasm.stack) = k /\ wasm.stack \in Seq(Values)
  BY <1>1, OrderedParts
<1>3. Depth(st) < MaxStack /\ Emits(y, Append(wasm.stack, v))  BY Zenon DEF Const, Room
<1>4. k < MaxStack  BY <1>3, Zenon DEF Depth
<1>5. Leads(st, y, k, t, v)  BY <1>2, <1>4, ConstIs, Zenon
<1>6. Rests(st, y, k)
  <2>1. f \in Machines /\ Len(f.stack) = k  BY <1>2, FetchedParts
  <2>2. Rests(st, f, k)  BY <1>2, RestsFetched, Zenon
  <2>3. Rests(f, y, k)
    <3> HIDE DEF f
    <3> QED  BY <2>1, RestsPush, Zenon
  <2> QED  BY <2>2, <2>3, RestsTrans, Zenon
<1>7. Running => wasm.stack = SubSeq(wasm.stack, 1, k)  BY <1>2
<1> HIDE DEF k, y
<1> QED  BY <1>2, <1>3, <1>5, <1>6, <1>7, LeadsStep, Zenon DEF k

LEMMA LocalGetStep ==
  ASSUME Right, NEW i \in DOMAIN LocalTypes, LocalGet(i)
  PROVE  Right'
<1> DEFINE k == Len(st.stack)
           f == Fetched(st)
           y == Push(f, LocalTypes[i], LocalPlace(i).mode, LocalPlace(i).n)
           v == Denoted(st, Home(i))
<1>1. Ordered /\ (Shapes = {} => Followed)  BY DEF Right
<1>2. /\ Good(st) /\ FlagsTop(st) /\ k \in Nat /\ Floor <= k /\ k <= k
      /\ Running => Len(wasm.stack) = k /\ wasm.stack \in Seq(Values)
      /\ wasm \in [stack : Seq(Values), local : [DOMAIN LocalTypes -> Values]]
  BY <1>1, OrderedParts
<1>3. Depth(st) < MaxStack /\ Emits(y, Append(wasm.stack, wasm.local[i]))
  BY Zenon DEF LocalGet, Room
<1>4. k < MaxStack  BY <1>3, Zenon DEF Depth
<1>5. Leads(st, y, k, LocalTypes[i], v)  BY <1>2, <1>4, LocalGetIs, Zenon
<1>6. Rests(st, y, k)
  <2>1. f \in Machines /\ Len(f.stack) = k  BY <1>2, FetchedParts
  <2>2. Rests(st, f, k)  BY <1>2, RestsFetched, Zenon
  <2>3. Rests(f, y, k)
    <3> HIDE DEF f
    <3> QED  BY <2>1, RestsPush, Zenon
  <2> QED  BY <2>2, <2>3, RestsTrans, Zenon
<1>7. Running => wasm.stack = SubSeq(wasm.stack, 1, k)  BY <1>2
<1>8. wasm.local[i] \in Values /\ (Shapes = {} => wasm.local[i] = v)
  <2>1. wasm.local[i] \in Values  BY <1>2
  <2>2. Shapes = {} => wasm.local = Homes(st)  BY <1>1, Zenon DEF Followed
  <2>3. Homes(st)[i] = v  BY DEF Homes
  <2> QED  BY <2>1, <2>2, <2>3
<1> HIDE DEF k, y, v
<1> QED  BY <1>2, <1>3, <1>5, <1>6, <1>7, <1>8, LeadsStep, Zenon DEF k

LEMMA DropStep ==
  ASSUME Right, Drop
  PROVE  Right'
<1> DEFINE k == Len(st.stack) - 1
           f == Fetched(st)
           y == Pop(f, 1)
<1>1. Ordered  BY DEF Right
<1>2. Good(st) /\ FlagsTop(st)  BY <1>1, OrderedParts
<1>3. Has(1) /\ Emits(y, WPop(1))  BY Zenon DEF Drop
<1>4. k \in Nat /\ Floor <= k /\ k <= Len(st.stack) /\ Len(st.stack) = k + 1
  BY <1>1, <1>3, HasIs
<1> HIDE DEF k
<1>5. Keeps(st, y, k)  BY <1>2, <1>4, DropIs, Zenon
<1>6. Rests(st, y, k)
  <2>1. Good(f) /\ Len(f.stack) = k + 1  BY <1>2, <1>4, FetchedParts
  <2>2. Rests(st, f, k + 1)  BY <1>2, <1>4, RestsFetched
  <2>3. Rests(st, f, k)
    <3>1. k + 1 \in Nat /\ k \in 0..(k + 1)  BY <1>4
    <3> QED  BY <2>2, <3>1, RestsLess, Zenon
  <2> HIDE DEF f
  <2>4. Rests(f, y, k)
    <3>1. 1 \in 0..Len(f.stack) /\ Len(f.stack) - 1 = k  BY <1>4, <2>1
    <3>2. Rests(f, y, Len(f.stack) - 1)  BY <2>1, <3>1, RestsPop, Zenon
    <3> QED  BY <3>1, <3>2, Zenon
  <2> QED  BY <2>3, <2>4, RestsTrans, Zenon
<1>7. Running => WPop(1) = SubSeq(wasm.stack, 1, k)
  <2>1. ASSUME Running  PROVE W - 1 = k
    <3>1. Len(wasm.stack) = Len(st.stack)  BY <1>1, <2>1, OrderedParts
    <3> QED  BY <1>4, <3>1 DEF W
  <2> QED  BY <2>1, Zenon DEF WPop
<1> HIDE DEF y
<1> QED  BY <1>3, <1>4, <1>5, <1>6, <1>7, KeepsStep, Zenon

LEMMA WPopIs ==
  ASSUME Right, Running, NEW n \in Nat, NEW k \in Nat, Len(st.stack) = k + n
  PROVE  WPop(n) = SubSeq(wasm.stack, 1, k)
<1>1. Len(wasm.stack) = Len(st.stack)  BY OrderedParts DEF Right
<1>2. W - n = k  BY <1>1 DEF W
<1> QED  BY <1>2, Zenon DEF WPop

LEMMA WTopIs ==
  ASSUME Right, Running, NEW k \in Nat, Len(st.stack) = k + 1
  PROVE  /\ WTop \in Values /\ WTop = wasm.stack[k + 1]
         /\ Shapes = {} => WTop = Denoted(st, st.stack[k + 1])
<1>1. k + 1 \in 1..Len(st.stack) /\ k \in 0..Len(st.stack)  OBVIOUS
<1>2. /\ W = Len(st.stack) /\ wasm.stack[k + 1] \in Values
      /\ Shapes = {} => wasm.stack[k + 1] = Denoted(st, st.stack[k + 1])
  BY <1>1, WasmIs
<1>3. WTop = wasm.stack[k + 1]
  <2>1. W = k + 1  BY <1>2
  <2> QED  BY <2>1, Zenon DEF WTop
<1> QED  BY <1>2, <1>3

LEMMA EqzStep ==
  ASSUME Right, Eqz
  PROVE  Right'
<1> DEFINE k == Len(st.stack) - 1
           d == st.stack[k + 1]
           u == Denoted(st, d)
           v == Zero01(u)
           y == IF d.mode = "flag" THEN [st EXCEPT !.stack[k + 1].n = 1 - @]
                ELSE Push(Pop(Flagged(st, v), 1), "i32", "flag", 1)
           one == IF WTop = 0 THEN 1 ELSE 0
<1>1. Ordered  BY DEF Right
<1>2. Good(st) /\ FlagsTop(st)  BY <1>1, OrderedParts
<1>3. Has(1)  BY Zenon DEF Eqz
<1>4. k \in Nat /\ Floor <= k /\ k <= Len(st.stack) /\ Len(st.stack) = k + 1
  BY <1>1, <1>3, HasIs
<1>5. Emits(y, Append(WPop(1), one))
  <2> HIDE DEF k
  <2>1. Depth(st) = k + 1 /\ Top(st) = d  BY <1>4, Zenon DEF Depth, Top
  <2> QED  BY <2>1, Zenon DEF Eqz, Zero01, Flagged
<1> HIDE DEF k
<1>6. Leads(st, y, k, "i32", v)  BY <1>2, <1>4, EqzIs, Zenon
<1>7. Rests(st, y, k)  BY <1>2, <1>4, RestsEqz, Zenon
<1>8. ASSUME Running
      PROVE  WPop(1) = SubSeq(wasm.stack, 1, k) /\ one \in Values /\ (Shapes = {} => one = v)
  <2>1. WPop(1) = SubSeq(wasm.stack, 1, k)
    <3>1. 1 \in Nat  OBVIOUS
    <3> QED  BY <1>4, <1>8, <3>1, WPopIs, Zenon
  <2>2. WTop \in Values /\ (Shapes = {} => WTop = u)
    <3> HIDE DEF d
    <3> QED  BY <1>4, <1>8, WTopIs, Zenon DEF d
  <2>3. one \in Values  BY StackValuesAssumption
  <2>4. Shapes = {} => one = v
    <3>1. Junk \notin Values  BY StackValuesAssumption DEF Junk
    <3> QED  BY <2>2, <3>1, Zenon DEF Zero01
  <2> QED  BY <2>1, <2>3, <2>4
<1> HIDE DEF y, v, one
<1> QED  BY <1>4, <1>5, <1>6, <1>7, <1>8, LeadsStep, Zenon

LEMMA LocalSetStep ==
  ASSUME Right, NEW i \in DOMAIN LocalTypes, LocalSet(i)
  PROVE  Right'
<1> DEFINE k == Len(st.stack) - 1
           d == st.stack[k + 1]
           v == Denoted(st, d)
           y == Pop(Written(Kept(Fetched(st), i), i), 1)
<1>1. Ordered /\ (Shapes = {} => Followed)  BY DEF Right
<1>2. /\ Good(st) /\ FlagsTop(st)
      /\ wasm \in [stack : Seq(Values), local : [DOMAIN LocalTypes -> Values]]
  BY <1>1, OrderedParts
<1>3. /\ Has(1) /\ Top(st).type = LocalTypes[i] /\ st' = Machine(y)
      /\ UNCHANGED <<blocks, reach, path>>
      /\ wasm' = IF Running THEN [stack |-> WPop(1), local |-> [wasm.local EXCEPT ![i] = WTop]]
                 ELSE wasm
  BY Zenon DEF LocalSet
<1>4. k \in Nat /\ Floor <= k /\ k <= Len(st.stack) /\ Len(st.stack) = k + 1
  BY <1>1, <1>3, HasIs
<1> HIDE DEF k
<1>5. d.type = LocalTypes[i]  BY <1>3, <1>4, Zenon DEF Depth, Top
<1>6. Sets(st, y, k, i, v)  BY <1>2, <1>4, <1>5, LocalSetIs, Zenon
<1>7. Rests(st, y, k)  BY <1>2, <1>4, <1>5, RestsLocalSet, Zenon
<1>8. /\ Good(y) /\ FlagsTop(y) /\ Len(y.stack) = k
      /\ \A j \in 1..k : Denoted(y, y.stack[j]) = Denoted(st, st.stack[j])
      /\ Denoted(y, Home(i)) = v
      /\ \A j \in DOMAIN LocalTypes : j # i => Denoted(y, Home(j)) = Denoted(st, Home(j))
  BY <1>6, Zenon DEF Sets
<1> HIDE DEF y
<1>9. Enters(y, k)
  <2>1. k <= k  BY <1>4
  <2> QED  BY <1>4, <1>7, <1>8, <2>1, Zenon DEF Enters
<1>10. ASSUME Running  PROVE Agreed(wasm', y)
  <2>1. WPop(1) = SubSeq(wasm.stack, 1, k)
    <3>1. 1 \in Nat  OBVIOUS
    <3> QED  BY <1>4, <1>10, <3>1, WPopIs, Zenon
  <2>2. WTop \in Values /\ (Shapes = {} => WTop = v)
    <3> HIDE DEF d
    <3> QED  BY <1>4, <1>10, WTopIs, Zenon DEF d
  <2>3. k \in 0..Len(st.stack)  BY <1>4
  <2>4. /\ WPop(1) \in Seq(Values) /\ Len(WPop(1)) = k
        /\ Shapes = {} => \A j \in 1..k : WPop(1)[j] = Denoted(st, st.stack[j])
    BY <1>10, <2>1, <2>3, WasmIs
  <2> DEFINE q == WPop(1)
             local == [wasm.local EXCEPT ![i] = WTop]
  <2>5. wasm' = [stack |-> q, local |-> local]  BY <1>3, <1>10
  <2>6. local \in [DOMAIN LocalTypes -> Values]  BY <1>2, <2>2
  <2>7. ASSUME Shapes = {}  PROVE local = Homes(y)
    <3>1. wasm.local = Homes(st)  BY <1>1, <2>7, Zenon DEF Followed
    <3>2. \A j \in DOMAIN LocalTypes : wasm.local[j] = Denoted(st, Home(j))
      BY <3>1, Zenon DEF Homes
    <3>3. \A j \in DOMAIN LocalTypes : local[j] = Denoted(y, Home(j))
      <4>1. WTop = v  BY <2>2, <2>7
      <4> TAKE j \in DOMAIN LocalTypes
      <4>2. local[j] = IF j = i THEN WTop ELSE wasm.local[j]  BY <1>2
      <4> HIDE DEF local, v
      <4>3. CASE j = i  BY <1>8, <4>1, <4>2, <4>3, Zenon
      <4>4. CASE j # i  BY <1>8, <3>2, <4>2, <4>4, Zenon
      <4> QED  BY <4>3, <4>4
    <3> HIDE DEF local
    <3> QED  BY <2>6, <3>3 DEF Homes
  <2> HIDE DEF q, local
  <2>8. wasm'.stack = q /\ wasm'.local = local  BY <2>5
  <2>9. wasm' \in [stack : Seq(Values), local : [DOMAIN LocalTypes -> Values]]
    BY <2>4, <2>5, <2>6 DEF q
  <2>10. Len(q) = k /\ (Shapes = {} => \A j \in 1..k : q[j] = Denoted(y, y.stack[j]))
    BY <1>8, <2>4, Zenon DEF q
  <2>11. Shapes = {} => Carries(wasm', y, Len(y.stack))  BY <1>8, <2>8, <2>10, Zenon DEF Carries
  <2>12. Len(wasm'.stack) = Len(y.stack)  BY <1>8, <2>8, <2>10, Zenon
  <2>13. Shapes = {} => wasm'.local = Homes(y)  BY <2>7, <2>8
  <2> QED  BY <2>9, <2>11, <2>12, <2>13, Zenon DEF Agreed
<1>11. ~Running => wasm' = wasm  BY <1>3
<1> QED  BY <1>3, <1>9, <1>10, <1>11, StepIs, Zenon

LEMMA CallStep ==
  ASSUME Right, NEW c \in Callees, NEW results \in [DOMAIN c.results -> Values], Call(c, results)
  PROVE  Right'
<1> DEFINE n == Len(c.params)
           m == Len(st.stack) - n
           s == Prepared(st)
           base == CalleeFrame(s, c, FALSE)
           p == Placed(s, c, FALSE)
           y == Returned(p, c, base, results)
           stack == WPop(n) \o results
<1>1. Ordered /\ (Shapes = {} => Followed)  BY DEF Right
<1>2. Good(st) /\ FlagsTop(st)  BY <1>1, OrderedParts
<1>3. /\ Has(n) /\ TopTypes(st, n) = c.params /\ Depth(st) - n + Len(c.results) <= MaxStack
      /\ (~Consecutive(st, c) => "scattered" \in Shapes) /\ Emits(y, stack)
  BY Zenon DEF Call
<1>4. c.params \in Seq(Types) /\ n \in Nat /\ c.results \in Seq(Types) /\ Len(c.results) \in Nat
      /\ DOMAIN c.results = 1..Len(c.results)
  BY StackValuesAssumption
<1> HIDE DEF n
<1>5. m \in Nat /\ Floor <= m /\ m <= Len(st.stack) /\ Len(st.stack) = m + n
  BY <1>1, <1>3, <1>4, HasIs
<1>6. Split(st, c.params, m)
  <2>1. Taken(st, c.params, m)
    <3>1. Len(st.stack) >= Len(c.params)  BY <1>3, <1>4, <1>5 DEF n
    <3> QED  BY <1>3, <3>1, Zenon DEF Taken, n
  <2> HIDE DEF m
  <2> QED  BY <1>2, <1>4, <2>1, TakenIs, Zenon
<1>7. m + Len(c.results) <= MaxStack  BY <1>3 DEF Depth
<1> HIDE DEF m
<1>8. /\ Len(st.stack) = m + Len(c.params)
      /\ \A k \in 1..Len(c.params) : st.stack[m + k].type = c.params[k]
  BY <1>6, Zenon DEF Split
<1>9. Ready(s, c, m) /\ Same(st, s) /\ (Consecutive(st, c) => Consecutive(s, c))
  BY <1>2, <1>5, <1>8, PreparedReady
<1>10. CameBack(s, c, m, results, Received(p, c, base), y)
  <2> HIDE DEF s
  <2> QED  BY <1>7, <1>9, CalledIs, Zenon
<1>11. Rests(st, y, m)  BY <1>2, <1>5, <1>8, RestsCall, Zenon
<1> HIDE DEF y, p, base
<1>12. /\ Good(y) /\ Stored(y.stack, Len(y.stack)) /\ Len(y.stack) = m + Len(c.results)
       /\ \A k \in DOMAIN c.results : Denoted(y, y.stack[m + k]) = results[k]
       /\ Consecutive(s, c) => Agrees(s, y, m)
  BY <1>10, Zenon DEF CameBack
<1>13. FlagsTop(y)
  <2>1. ASSUME NEW i \in 1..Len(y.stack)  PROVE y.stack[i].mode # "flag"
    <3>1. y.stack[i].mode \in {"imm", "frame", "local"}  BY <1>12, Zenon DEF Stored
    <3> QED  BY <3>1
  <2> QED  BY <2>1, Zenon DEF FlagsTop
<1>14. Enters(y, m)
  <2>1. m <= m + Len(c.results)  BY <1>4, <1>5
  <2> QED  BY <1>5, <1>11, <1>12, <1>13, <2>1, Zenon DEF Enters
<1>15. Shapes = {} => Agrees(st, y, m)
  <2>1. Shapes = {} => Consecutive(st, c)  BY <1>3
  <2>2. m \in 0..Len(st.stack) /\ Len(st.stack) \in Nat  BY <1>4, <1>5
  <2>3. Agrees(st, s, m)  BY <1>9, <2>2, SameAgrees, Zenon
  <2> QED  BY <1>9, <1>12, <2>1, <2>3, AgreesTrans, Zenon
<1>16. ASSUME Running
       PROVE  /\ stack \in Seq(Values) /\ Len(stack) = m + Len(c.results)
              /\ Shapes = {} => \A i \in 1..(m + Len(c.results)) : stack[i] = Denoted(y, y.stack[i])
  <2> DEFINE q == SubSeq(wasm.stack, 1, m)
  <2>1. WPop(n) = q  BY <1>4, <1>5, <1>16, WPopIs
  <2>2. m \in 0..Len(st.stack)  BY <1>4, <1>5
  <2>3. /\ q \in Seq(Values) /\ Len(q) = m
        /\ Shapes = {} => \A i \in 1..m : q[i] = Denoted(st, st.stack[i])
    BY <1>16, <2>2, WasmIs
  <2>4. results \in Seq(Values) /\ Len(results) = Len(c.results)  BY <1>4
  <2> HIDE DEF q
  <2>5. stack = q \o results  BY <2>1
  <2> HIDE DEF stack
  <2>6. /\ stack \in Seq(Values) /\ Len(stack) = m + Len(c.results)
        /\ \A i \in 1..m : stack[i] = q[i]
        /\ \A i \in 1..(m + Len(c.results)) :
             i \in 1..m \/ (i - m \in 1..Len(c.results) /\ stack[i] = results[i - m])
    <3> DEFINE l == Len(c.results)
               b == results
               r == q \o b
    <3>1. q \in Seq(Values) /\ b \in Seq(Values) /\ Len(q) = m /\ Len(b) = l
      BY <2>3, <2>4
    <3> HIDE DEF l, b
    <3>2. /\ r \in Seq(Values) /\ Len(r) = Len(q) + Len(b) /\ \A i \in 1..Len(q) : r[i] = q[i]
          /\ \A i \in 1..(Len(q) + Len(b)) :
               i \in 1..Len(q) \/ (i - Len(q) \in 1..Len(b) /\ r[i] = b[i - Len(q)])
      BY <3>1, ConcatIs, ZenonT(60)
    <3> HIDE DEF r
    <3>3. /\ r \in Seq(Values) /\ Len(r) = m + l /\ \A i \in 1..m : r[i] = q[i]
          /\ \A i \in 1..(m + l) : i \in 1..m \/ (i - m \in 1..l /\ r[i] = b[i - m])
      BY <3>1, <3>2
    <3> QED  BY <2>5, <3>3 DEF l, r, b
  <2>7. ASSUME Shapes = {}, NEW i \in 1..(m + Len(c.results))  PROVE stack[i] = Denoted(y, y.stack[i])
    <3>1. CASE i \in 1..m
      <4>1. Denoted(y, y.stack[i]) = Denoted(st, st.stack[i])
        BY <1>15, <2>7, <3>1, Zenon DEF Agrees
      <4> QED  BY <2>3, <2>6, <2>7, <3>1, <4>1
    <3>2. CASE i - m \in 1..Len(c.results) /\ stack[i] = results[i - m]
      <4>1. m + (i - m) = i  BY <1>5
      <4>2. Denoted(y, y.stack[m + (i - m)]) = results[i - m]  BY <1>4, <1>12, <3>2
      <4> QED  BY <3>2, <4>1, <4>2
    <3> QED  BY <2>6, <3>1, <3>2, Zenon
  <2> QED  BY <2>6, <2>7
<1>17. Shapes = {} => Homes(y) = Homes(st)  BY <1>15, HomesSame, Zenon DEF Agrees
<1> HIDE DEF stack
<1> QED  BY <1>3, <1>12, <1>14, <1>16, <1>17, EmitsStep, Zenon

-----------------------------------------------------------------------------
(* Operands saved: before a block, and under the condition of a branch.    *)

Lowered(y, k) ==
  /\ Keeps(st, y, k) /\ Rests(st, y, k) /\ k \in Nat /\ Floor <= k /\ k <= Len(st.stack)
  /\ \A j \in 1..k : AtHome(y.stack[j])

Topped(z, s, k) ==
  /\ Good(s) /\ FlagsTop(s) /\ Len(s.stack) = k + 1 /\ Same(z, s) /\ Rests(z, s, k)
  /\ \A j \in 1..k : AtHome(s.stack[j])

LEMMA SavesHome ==
  ASSUME NEW z, Good(z), NEW s, NEW P, Saves(z, s, P), NEW j \in 1..Len(z.stack), j \in P
  PROVE  AtHome(s.stack[j])
<1>1. z.stack[j] \in Operands  BY Parts DEF Good
<1>2. s.stack[j] = Saved(z.stack[j])  BY Zenon DEF Saves
<1> DEFINE d == z.stack[j]
<1> HIDE DEF d
<1>3. Saved(d).mode = "frame" /\ Saved(d).n = d.at /\ Saved(d).at = d.at
  BY <1>1, SavedIs, Zenon DEF d
<1> QED  BY <1>2, <1>3 DEF AtHome, d

LEMMA SaveAllIs ==
  ASSUME Ordered
  PROVE  LET s == SaveAll(Fetched(st))
         IN  Lowered(s, Len(st.stack)) /\ Same(st, s) /\ Depth(s) = Len(st.stack)
<1> DEFINE n == Len(st.stack)
           f == Fetched(st)
           s == SaveAll(f)
<1>1. Good(st) /\ FlagsTop(st) /\ n \in Nat /\ Floor <= n  BY OrderedParts
<1>2. /\ Good(f) /\ FlagsTop(f) /\ f \in Machines /\ Len(f.stack) = n
      /\ Same(st, f)
  BY <1>1, FetchedParts, FetchedIs
<1>3. Rests(st, f, n)  BY <1>1, RestsFetched, Zenon
<1> HIDE DEF f, n
<1>4. s = SaveUpwards(f, 1..n)  BY <1>2, Zenon DEF SaveAll, Depth
<1>5. Saves(f, s, 1..n)  BY <1>2, <1>4, SaveUpwardsIs, Zenon
<1> HIDE DEF s
<1>6. Good(s) /\ Same(f, s)  BY <1>5, Zenon DEF Saves
<1>7. Len(s.stack) = n /\ FlagsTop(s)  BY <1>2, <1>5, SavesFlags, Zenon
<1>8. Rests(st, s, n)
  <2>1. Rests(f, s, n)  BY <1>2, <1>5, RestsSaves, Zenon
  <2> QED  BY <1>3, <2>1, RestsTrans, Zenon
<1>9. Same(st, s)  BY <1>2, <1>6, SameTrans, Zenon
<1>10. Keeps(st, s, n)
  <2>1. n \in 0..n  BY <1>1
  <2>2. Agrees(st, s, n)  BY <1>1, <1>9, <2>1, SameAgrees, Zenon DEF n
  <2> QED  BY <1>6, <1>7, <2>2, Zenon DEF Keeps
<1>11. \A j \in 1..n : AtHome(s.stack[j])  BY <1>2, <1>5, SavesHome, Zenon
<1>12. n <= Len(st.stack)  BY <1>1 DEF n
<1>13. Lowered(s, n)  BY <1>1, <1>8, <1>10, <1>11, <1>12, Zenon DEF Lowered
<1>14. Depth(s) = n  BY <1>7, Zenon DEF Depth
<1> QED  BY <1>9, <1>13, <1>14, Zenon DEF s, f, n

LEMMA SaveUnderIs ==
  ASSUME NEW z, Good(z), FlagsTop(z), NEW k \in Nat, Len(z.stack) = k + 1
  PROVE  Topped(z, SaveUnder(z), k) /\ SaveUnder(z).stack[k + 1].mode = z.stack[k + 1].mode
<1> DEFINE u == SaveUnder(z)
<1>1. z \in Machines  BY DEF Good
<1>2. u = SaveUpwards(z, 1..k)
  <2>1. Depth(z) - 1 = k  BY DEF Depth
  <2> QED  BY <2>1, Zenon DEF SaveUnder
<1>3. Saves(z, u, 1..k)  BY <1>2, SaveUpwardsIs, Zenon
<1> HIDE DEF u
<1>4. Good(u) /\ Same(z, u)  BY <1>3, Zenon DEF Saves
<1>5. Len(u.stack) = k + 1 /\ FlagsTop(u)  BY <1>1, <1>3, SavesFlags, Zenon
<1>6. Rests(z, u, k)
  <2>1. Rests(z, u, k + 1)  BY <1>1, <1>3, RestsSaves, Zenon
  <2>2. k + 1 \in Nat /\ k \in 0..(k + 1)  OBVIOUS
  <2> QED  BY <2>1, <2>2, RestsLess, Zenon
<1>7. \A j \in 1..k : AtHome(u.stack[j])
  <2>1. \A j \in 1..k : j \in 1..Len(z.stack)  OBVIOUS
  <2> QED  BY <1>3, <2>1, SavesHome, Zenon
<1>8. u.stack[k + 1] = z.stack[k + 1]
  <2>1. k + 1 \in 1..Len(z.stack) /\ k + 1 \notin 1..k  OBVIOUS
  <2> QED  BY <1>3, <2>1, Zenon DEF Saves
<1> QED  BY <1>4, <1>5, <1>6, <1>7, <1>8, Zenon DEF Topped, u

LEMMA ToppedLoaded ==
  ASSUME NEW z, NEW u, NEW k \in Nat, Topped(z, u, k)
  PROVE  LET s == LoadReg(u, k + 1, k + 1)
         IN  /\ Topped(z, s, k) /\ s.stack[k + 1].mode \in {"reg", "local"}
<1> DEFINE s == LoadReg(u, k + 1, k + 1)
<1>1. /\ Good(u) /\ FlagsTop(u) /\ Len(u.stack) = k + 1 /\ Same(z, u) /\ Rests(z, u, k)
      /\ \A j \in 1..k : AtHome(u.stack[j])
  BY Zenon DEF Topped
<1>2. k + 1 \in Nat \ {0} /\ (k + 1) - 1 = k  OBVIOUS
<1>3. Loads(u, s, k + 1)  BY <1>1, <1>2, LoadTop, Zenon
<1>4. Rests(u, s, k)
  <2>1. Rests(u, s, (k + 1) - 1)  BY <1>1, <1>2, RestsLoad, Zenon
  <2> QED  BY <1>2, <2>1
<1> HIDE DEF s
<1>5. /\ Good(s) /\ Same(u, s) /\ Len(s.stack) = k + 1 /\ s.stack[k + 1].mode \in {"reg", "local"}
  BY <1>3, Zenon DEF Loads
<1>6. \A j \in 1..k : s.stack[j] = u.stack[j] /\ AtHome(s.stack[j])
  BY <1>1, <1>4, Zenon DEF Rests
<1>7. FlagsTop(s)
  <2>1. ASSUME NEW i \in 1..Len(s.stack), s.stack[i].mode = "flag"
        PROVE  i = Len(s.stack) /\ s.stack[i].type = "i32"
    <3>1. i \in 1..k \/ i = k + 1  BY <1>5
    <3>2. CASE i \in 1..k
      <4>1. s.stack[i].mode = "frame"  BY <1>6, <3>2, Zenon DEF AtHome
      <4> QED  BY <2>1, <4>1
    <3>3. CASE i = k + 1  BY <1>5, <2>1, <3>3
    <3> QED  BY <3>1, <3>2, <3>3
  <2> QED  BY <2>1, Zenon DEF FlagsTop
<1>8. Same(z, s)  BY <1>1, <1>5, SameTrans, Zenon
<1>9. Rests(z, s, k)  BY <1>1, <1>4, RestsTrans, Zenon
<1> QED  BY <1>5, <1>6, <1>7, <1>8, <1>9, Zenon DEF Topped, s

LEMMA ConditionIs ==
  ASSUME NEW z, Good(z), FlagsTop(z), NEW k \in Nat, Len(z.stack) = k + 1
  PROVE  Topped(z, Condition(z), k)
<1> DEFINE u == SaveUnder(z)
<1>1. Topped(z, u, k)  BY SaveUnderIs, Zenon
<1>2. Depth(u) = k + 1  BY <1>1, Zenon DEF Topped, Depth
<1> HIDE DEF u
<1>3. Condition(z) = IF Top(u).mode = "flag" THEN u ELSE LoadReg(u, k + 1, k + 1)
  BY <1>2, Zenon DEF Condition, u
<1>4. Topped(z, LoadReg(u, k + 1, k + 1), k)  BY <1>1, ToppedLoaded, Zenon
<1> QED  BY <1>1, <1>3, <1>4

LEMMA ToppedIs ==
  ASSUME Ordered, NEW s, NEW k \in Nat, Len(st.stack) = k + 1, Floor <= k, Topped(st, s, k)
  PROVE  /\ Lowered(Pop(s, 1), k) /\ Depth(s) = k + 1 /\ Top(s) = s.stack[k + 1]
         /\ Denoted(s, Top(s)) = Denoted(st, st.stack[k + 1])
         /\ Top(s).type = st.stack[k + 1].type
<1> DEFINE y == Pop(s, 1)
<1>1. /\ Good(s) /\ FlagsTop(s) /\ Len(s.stack) = k + 1 /\ Same(st, s) /\ Rests(st, s, k)
      /\ \A j \in 1..k : AtHome(s.stack[j])
  BY Zenon DEF Topped
<1>2. Depth(s) = k + 1 /\ Top(s) = s.stack[k + 1]  BY <1>1, Zenon DEF Depth, Top
<1>3. /\ Denoted(s, s.stack[k + 1]) = Denoted(st, st.stack[k + 1])
      /\ s.stack[k + 1].type = st.stack[k + 1].type
  <2>1. k + 1 \in 1..Len(st.stack)  OBVIOUS
  <2> QED  BY <1>1, <2>1, Zenon DEF Same
<1>4. /\ Good(y) /\ FlagsTop(y) /\ Len(y.stack) = k /\ Agrees(s, y, k)
      /\ \A i \in 1..k : y.stack[i] = s.stack[i]
  <2>1. 1 \in 0..Len(s.stack) /\ Len(s.stack) - 1 = k  BY <1>1
  <2> QED  BY <1>1, <2>1, PopIs
<1>5. Rests(s, y, k)
  <2>1. 1 \in 0..Len(s.stack) /\ Len(s.stack) - 1 = k  BY <1>1
  <2>2. Rests(s, y, Len(s.stack) - 1)  BY <1>1, <2>1, RestsPop, Zenon
  <2> QED  BY <2>1, <2>2, Zenon
<1> HIDE DEF y
<1>6. Agrees(st, y, k)
  <2>1. k \in 0..Len(st.stack) /\ Len(st.stack) \in Nat  OBVIOUS
  <2>2. Agrees(st, s, k)  BY <1>1, <2>1, SameAgrees, Zenon
  <2> QED  BY <1>4, <2>2, AgreesTrans, Zenon
<1>7. Rests(st, y, k)  BY <1>1, <1>5, RestsTrans, Zenon
<1>8. \A j \in 1..k : AtHome(y.stack[j])  BY <1>1, <1>4, Zenon
<1>9. k <= Len(st.stack)  OBVIOUS
<1>10. Lowered(y, k)  BY <1>4, <1>6, <1>7, <1>8, <1>9, Zenon DEF Lowered, Keeps
<1> QED  BY <1>2, <1>3, <1>10, Zenon DEF y

LEMMA LoweredIs ==
  ASSUME NEW y, NEW k, Lowered(y, k)
  PROVE  /\ Enters(y, k) /\ Keeps(st, y, k) /\ Len(y.stack) = k /\ k \in Nat
         /\ Floor <= k /\ k <= Len(st.stack) /\ y \in Machines /\ Good(y) /\ FlagsTop(y)
         /\ Rests(st, y, k) /\ \A j \in 1..k : AtHome(y.stack[j])
<1>1. /\ Good(y) /\ FlagsTop(y) /\ Len(y.stack) = k /\ Rests(st, y, k) /\ k \in Nat /\ Floor <= k
      /\ k <= Len(st.stack) /\ Keeps(st, y, k) /\ \A j \in 1..k : AtHome(y.stack[j])
  BY Zenon DEF Lowered, Keeps
<1>2. k <= Len(y.stack)  BY <1>1
<1>3. y \in Machines  BY <1>1, Zenon DEF Good
<1> QED  BY <1>1, <1>2, <1>3, Zenon DEF Enters

(* What the machine leaves agrees with WebAssembly as it did before.       *)
LEMMA LoweredAgreed ==
  ASSUME Right, Running, NEW y, NEW k, Lowered(y, k), wasm' = [wasm EXCEPT !.stack = SubSeq(@, 1, k)]
  PROVE  Agreed(wasm', y)
<1>1. Ordered /\ (Shapes = {} => Followed)  BY DEF Right
<1>2. /\ Keeps(st, y, k) /\ Len(y.stack) = k /\ k \in 0..Len(st.stack)
  <2>1. Len(st.stack) \in Nat  BY <1>1, OrderedParts
  <2> QED  BY <2>1, LoweredIs
<1>3. wasm \in [stack : Seq(Values), local : [DOMAIN LocalTypes -> Values]]  BY <1>1, OrderedParts
<1> DEFINE q == SubSeq(wasm.stack, 1, k)
<1>4. /\ q \in Seq(Values) /\ Len(q) = k
      /\ Shapes = {} => \A i \in 1..k : q[i] = Denoted(st, st.stack[i])
  BY <1>2, WasmIs
<1>5. wasm' = [wasm EXCEPT !.stack = q]  BY <1>3
<1> HIDE DEF q
<1>6. /\ wasm' \in [stack : Seq(Values), local : [DOMAIN LocalTypes -> Values]]
      /\ wasm'.stack = q /\ wasm'.local = wasm.local
  BY <1>3, <1>4, <1>5
<1>7. ASSUME Shapes = {}  PROVE Carries(wasm', y, k) /\ wasm'.local = Homes(y)
  <2>1. Agrees(st, y, k)  BY <1>2, Zenon DEF Keeps
  <2>2. wasm.local = Homes(st)  BY <1>1, <1>7, Zenon DEF Followed
  <2>3. Homes(y) = Homes(st)  BY <2>1, HomesSame, Zenon DEF Agrees
  <2>4. \A i \in 1..k : q[i] = Denoted(st, st.stack[i])  BY <1>4, <1>7
  <2>5. Carries(wasm', y, k)  BY <1>6, <2>1, <2>4, Zenon DEF Carries, Agrees
  <2> QED  BY <1>6, <2>2, <2>3, <2>5
<1> QED  BY <1>2, <1>4, <1>6, <1>7, Zenon DEF Agreed

-----------------------------------------------------------------------------
(* A block begins.                                                         *)

LEMMA AppendIs ==
  ASSUME NEW S, NEW q \in Seq(S), NEW e \in S
  PROVE  /\ Append(q, e) \in Seq(S) /\ Len(Append(q, e)) = Len(q) + 1
         /\ \A i \in 1..Len(q) : Append(q, e)[i] = q[i]
         /\ Append(q, e)[Len(q) + 1] = e
OBVIOUS

LEMMA OpenedIs ==
  ASSUME Ordered, NEW k \in Nat, Floor <= k, k <= Len(st.stack),
         NEW kind \in {"block", "loop", "if"}, NEW type \in BlockTypes[kind], Len(blocks) < MaxBlocks
  PROVE  LET n == Len(blocks)
             bs == Append(blocks, Block(kind, type, k))
         IN  /\ Nested(bs) /\ Len(bs) = n + 1 /\ n \in Nat /\ \A d \in 1..n : bs[d] = blocks[d]
             /\ bs[n + 1].kind = kind /\ bs[n + 1].saved = k
             /\ \A d \in 1..(n + 1) : d \in 1..n \/ d = n + 1
             /\ \A d \in 1..(n + 1) : bs[d].saved <= k
<1> DEFINE n == Len(blocks)
           b == Block(kind, type, k)
           bs == Append(blocks, b)
<1>1. /\ blocks \in Seq(Blocks) /\ n \in Nat /\ Len(st.stack) <= MaxStack /\ Floor \in Nat
      /\ \A d \in 1..n : blocks[d].saved \in Nat /\ blocks[d].saved <= Floor
      /\ \A d, e \in 1..n : d <= e => blocks[d].saved <= blocks[e].saved
      /\ Len(st.stack) \in Nat
  BY OrderedParts DEF Ordered, Nested
<1>2. b \in Blocks /\ b.kind = kind /\ b.saved = k
  <2>1. type \in Types \cup {"none"}  BY ControlFlowAssumption
  <2>2. k \in 0..MaxStack  BY <1>1, StackValuesAssumption
  <2> QED  BY <2>1, <2>2 DEF Block, Blocks
<1> HIDE DEF b
<1>3. /\ bs \in Seq(Blocks) /\ Len(bs) = n + 1 /\ \A d \in 1..n : bs[d] = blocks[d]
      /\ bs[n + 1] = b
  BY <1>1, <1>2, AppendIs
<1> HIDE DEF bs
<1>4. n + 1 <= MaxBlocks  BY <1>1, ControlFlowAssumption
<1> HIDE DEF n
<1>5. \A d \in 1..(n + 1) : d \in 1..n \/ d = n + 1  BY <1>1
<1>6. \A d \in 1..(n + 1) : bs[d].saved <= k
  <2> TAKE d \in 1..(n + 1)
  <2>1. CASE d \in 1..n  BY <1>1, <1>3, <2>1
  <2>2. CASE d = n + 1  BY <1>2, <1>3, <2>2
  <2> QED  BY <1>5, <2>1, <2>2
<1>7. ASSUME NEW d \in 1..(n + 1), NEW e \in 1..(n + 1), d <= e  PROVE bs[d].saved <= bs[e].saved
  <2>1. CASE e = n + 1
    <3>1. bs[e].saved = k  BY <1>2, <1>3, <2>1
    <3> QED  BY <1>6, <3>1
  <2>2. CASE e \in 1..n
    <3>1. d \in 1..n  BY <1>1, <1>7, <2>2
    <3> QED  BY <1>1, <1>3, <1>7, <2>2, <3>1
  <2> QED  BY <1>5, <2>1, <2>2
<1>8. Nested(bs)
  <2>1. \A d, e \in 1..Len(bs) : d <= e => bs[d].saved <= bs[e].saved  BY <1>3, <1>7, Zenon
  <2> QED  BY <1>3, <1>4, <2>1, Zenon DEF Nested
<1> QED  BY <1>1, <1>2, <1>3, <1>5, <1>6, <1>8, Zenon DEF bs, b, n

LEMMA OpenStep ==
  ASSUME Right, reach = "live", NEW k, NEW y, Lowered(y, k), st' = Machine(y),
         NEW kind \in {"block", "loop", "if"}, NEW type \in BlockTypes[kind],
         Len(blocks) < MaxBlocks, blocks' = Append(blocks, Block(kind, type, k)), reach' = reach,
         ~Running => wasm' = wasm /\ path' = path,
         Running => /\ Agreed(wasm', y)
                    /\ \/ path' = Here
                       \/ kind = "if" /\ path' = ToElse(Len(blocks) + 1)
                       \/ path' = Over("astray") /\ Shapes # {}
  PROVE  Right'
<1> DEFINE n == Len(blocks)
           bs == Append(blocks, Block(kind, type, k))
<1>1. Ordered /\ (Shapes = {} => Followed)  BY DEF Right
<1>2. /\ Enters(y, k) /\ Len(y.stack) = k /\ k \in Nat /\ Floor <= k /\ k <= Len(st.stack)
      /\ y \in Machines /\ \A j \in 1..k : AtHome(y.stack[j])
  BY LoweredIs
<1>3. /\ Nested(bs) /\ Len(bs) = n + 1 /\ n \in Nat /\ \A d \in 1..n : bs[d] = blocks[d]
      /\ bs[n + 1].kind = kind /\ bs[n + 1].saved = k
      /\ \A d \in 1..(n + 1) : d \in 1..n \/ d = n + 1
      /\ \A d \in 1..(n + 1) : bs[d].saved <= k
  BY <1>1, <1>2, OpenedIs
<1>4. /\ Fit(st') /\ st'.stack = y.stack /\ st' \in Machines
      /\ Running => Same(y, st')
      /\ ~Running => st'.frame = st.frame /\ st'.local = st.local
  <2> DEFINE x == Machine(y)
  <2>1. /\ Fit(x) /\ x.stack = y.stack /\ (Running => Same(y, x))
        /\ ~Running => x.frame = st.frame /\ x.local = st.local
    BY <1>1, <1>2, MachineIs
  <2> HIDE DEF x
  <2>2. st' = x  BY DEF x
  <2> QED  BY <2>1, <2>2 DEF Fit, Good
<1> HIDE DEF n, bs
<1>5. n + 1 \in 1..(n + 1) /\ \A d \in 1..n : d \in 1..(n + 1)  BY <1>3
<1>6. Sheltered(bs, y.stack)
  <2>1. ASSUME NEW d \in 1..(n + 1), NEW i \in 1..bs[d].saved  PROVE AtHome(y.stack[i])
    <3>1. bs[d].saved <= k /\ bs[d].saved \in Nat
      <4>1. bs \in Seq(Blocks)  BY <1>3 DEF Nested
      <4>2. bs[d] \in Blocks  BY <1>3, <4>1
      <4> QED  BY <1>3, <4>2, BlockIs
    <3>2. i \in 1..k  BY <1>2, <3>1
    <3> QED  BY <1>2, <3>2
  <2> QED  BY <1>2, <1>3, <2>1, Zenon DEF Sheltered
<1>7. Goes(path, reach, blocks) /\ Prescribes(wasm, path, Len(st.stack), blocks)
  BY <1>1, Zenon DEF Ordered
<1>8. \A d : /\ path = ToEnd(d) \/ path = ToElse(d) => d \in 1..n
             /\ path = ToElse(d) => blocks[d].kind = "if"
             /\ path = ToEnd(d) => blocks[d].kind # "loop"
  BY <1>7, Ways, Zenon DEF Goes, n
<1>9. Goes(path', reach', bs)
  <2>1. CASE ~Running
    <3>1. path' = path /\ reach' = reach  BY <2>1
    <3>2. Goes(path, reach, bs)  BY <1>3, <1>5, <1>7, Zenon DEF Goes, n
    <3> QED  BY <3>1, <3>2
  <2>2. CASE Running
    <3>1. CASE path' = Here
      <4>1. reach' = "live"  OBVIOUS
      <4> QED  BY <3>1, <4>1, Zenon DEF Goes
    <3>2. CASE kind = "if" /\ path' = ToElse(Len(blocks) + 1)
      <4>1. bs[n + 1].kind = "if" /\ path' = ToElse(n + 1)  BY <1>3, <3>2 DEF n
      <4> QED  BY <1>3, <1>5, <4>1, Zenon DEF Goes
    <3>3. CASE path' = Over("astray")  BY <3>3, Zenon DEF Goes
    <3> QED  BY <2>2, <3>1, <3>2, <3>3
  <2> QED  BY <2>1, <2>2
<1>10. Prescribes(wasm', path', k, bs)
  <2>1. CASE ~Running
    <3>1. path' = path /\ wasm' = wasm /\ path # Here  BY <2>1 DEF Running
    <3>2. ASSUME NEW d \in 1..(n + 1), path = ToEnd(d) \/ path = ToElse(d)
          PROVE  d \in 1..n /\ bs[d] = blocks[d]
      BY <1>3, <1>8, <3>2, Zenon
    <3>3. ASSUME NEW d \in 1..(n + 1)
          PROVE  /\ path = ToEnd(d) => Len(wasm.stack) = bs[d].saved + Arity(bs[d])
                 /\ path = ToElse(d) => Len(wasm.stack) = bs[d].saved
      <4>1. CASE path = ToEnd(d) \/ path = ToElse(d)
        <5>1. d \in 1..n /\ bs[d] = blocks[d]  BY <3>2, <4>1
        <5>2. /\ path = ToEnd(d) => Len(wasm.stack) = blocks[d].saved + Arity(blocks[d])
              /\ path = ToElse(d) => Len(wasm.stack) = blocks[d].saved
          BY <1>7, <5>1, Zenon DEF Prescribes, n
        <5> QED  BY <5>1, <5>2
      <4> QED  BY <4>1
    <3> QED  BY <1>3, <1>7, <3>1, <3>3, Zenon DEF Prescribes
  <2>2. CASE Running
    <3>1. /\ wasm' \in [stack : Seq(Values), local : [DOMAIN LocalTypes -> Values]]
          /\ Len(wasm'.stack) = k
      BY <1>2, <2>2, Zenon DEF Agreed
    <3>2. \A d : path' # ToEnd(d) /\ (path' = ToElse(d) => d = n + 1)
      <4>1. path' = Here \/ path' = ToElse(n + 1) \/ path' = Over("astray")
        BY <2>2, Zenon DEF n
      <4> QED  BY <4>1, Ways, Zenon
    <3>3. \A d : path' = ToElse(d) => bs[d].saved = k  BY <1>3, <3>2
    <3> QED  BY <3>1, <3>2, <3>3, Zenon DEF Prescribes
  <2> QED  BY <2>1, <2>2
<1>11. Ordered'
  <2>1. /\ Nested(blocks') /\ Sheltered(blocks', st'.stack) /\ Goes(path', reach', blocks')
        /\ Prescribes(wasm', path', Len(st'.stack), blocks')
    <3>1. blocks' = bs  BY DEF bs
    <3> QED  BY <1>2, <1>3, <1>4, <1>6, <1>9, <1>10, <3>1, Zenon
  <2>2. reach' \in {"live", "branch", "return"}  OBVIOUS
  <2> QED  BY <1>4, <2>1, <2>2, Zenon DEF Ordered
<1>12. ASSUME Shapes = {}  PROVE Followed'
  <2>1. Followed  BY <1>1, <1>12
  <2>2. blocks' = bs /\ reach' = "live"  BY DEF bs
  <2>3. wasm'.local = Homes(st') /\ (Running => Carries(wasm', st', k))
    <3>1. CASE Running
      <4>1. Carries(wasm', y, k) /\ wasm'.local = Homes(y)  BY <1>2, <1>12, <3>1, Zenon DEF Agreed
      <4>2. Same(y, st')  BY <1>4, <3>1, Zenon
      <4>3. k <= Len(y.stack) /\ Len(y.stack) \in Nat  BY <1>2
      <4> QED  BY <1>2, <4>1, <4>2, <4>3, SameValues, Zenon
    <3>2. CASE ~Running
      <4>1. Homes(st') = Homes(st)  BY <1>4, <3>2, HomesKept, Zenon
      <4>2. wasm' = wasm /\ wasm.local = Homes(st)  BY <2>1, <3>2, Zenon DEF Followed
      <4> QED  BY <3>2, <4>1, <4>2
    <3> QED  BY <3>1, <3>2
  <2>4. Waits(wasm', path', st', bs)
    <3>1. CASE Running
      <4>1. \A d : path' # ToEnd(d) /\ (path' = ToElse(d) => d = n + 1)
        <5>1. path' = Here \/ path' = ToElse(n + 1)  BY <1>12, <3>1 DEF n
        <5> QED  BY <5>1, Ways, Zenon
      <4>2. \A d : path' = ToElse(d) => bs[d].saved = k  BY <1>3, <4>1
      <4> QED  BY <2>3, <3>1, <4>1, <4>2, Zenon DEF Waits
    <3>2. CASE ~Running
      <4>1. Waits(wasm, path, st, blocks)  BY <2>1, Zenon DEF Followed
      <4>2. ASSUME NEW d \in 1..Len(bs), path \in {ToEnd(d), ToElse(d)}
            PROVE  /\ d \in 1..Len(blocks) /\ bs[d].saved = blocks[d].saved
                   /\ bs[d].type = blocks[d].type /\ Remain(st, st', blocks[d].saved)
        <5>1. d \in 1..n /\ bs[d] = blocks[d]  BY <1>3, <1>8, <4>2, Zenon
        <5>2. /\ blocks[d].saved \in Nat /\ blocks[d].saved <= Floor /\ Floor \in Nat
              /\ \A i \in 1..blocks[d].saved : AtHome(st.stack[i])
          BY <1>1, <5>1, OrderedParts DEF n
        <5>3. \A i \in 1..blocks[d].saved : i \in 1..k  BY <1>2, <5>2
        <5>4. Rests(st, y, k)  BY <1>2, Zenon DEF Enters
        <5>5. \A i \in 1..blocks[d].saved : y.stack[i] = st.stack[i]
          BY <5>2, <5>3, <5>4, Zenon DEF Rests
        <5>6. blocks[d].saved \in 0..Len(st.stack) /\ blocks[d].saved \in 0..Len(y.stack)
          <6>1. Len(st.stack) \in Nat  BY <1>1, OrderedParts
          <6> QED  BY <1>2, <5>2, <6>1
        <5>7. Remain(st, st', blocks[d].saved)  BY <1>4, <5>2, <5>5, <5>6, Zenon DEF Remain
        <5> QED  BY <5>1, <5>7, Zenon DEF n
      <4>3. st \in Machines /\ st'.frame = st.frame  BY <1>1, <1>4, <3>2, OrderedParts
      <4>4. Waits(wasm, path, st', bs)  BY <1>4, <4>1, <4>2, <4>3, WaitsOn, Zenon
      <4> QED  BY <3>2, <4>4
    <3> QED  BY <3>1, <3>2
  <2>5. path' # Over("astray")
    <3>1. CASE Running
      <4>1. path' = Here \/ path' = ToElse(n + 1)  BY <1>12, <3>1 DEF n
      <4> QED  BY <4>1, Ways, Zenon
    <3>2. CASE ~Running  BY <2>1, <3>2, Zenon DEF Followed
    <3> QED  BY <3>1, <3>2
  <2>6. Running' => Running
    <3>1. CASE ~Running
      <4>1. path' = path  BY <3>1
      <4> QED  BY <3>1, <4>1, Zenon DEF Running
    <3> QED  BY <3>1
  <2>7. Len(st'.stack) = k /\ "live" # "return"  BY <1>2, <1>4
  <2> QED  BY <2>2, <2>3, <2>4, <2>5, <2>6, <2>7, Zenon DEF Followed
<1> QED  BY <1>11, <1>12, Zenon DEF Right

LEMMA BeginBlockStep ==
  ASSUME Right, NEW kind \in {"block", "loop"}, NEW t \in BlockTypes[kind], BeginBlock(kind, t)
  PROVE  Right'
<1> DEFINE k == Len(st.stack)
           y == SaveAll(Fetched(st))
<1>1. Ordered  BY DEF Right
<1>2. Lowered(y, k) /\ Depth(y) = k  BY <1>1, SaveAllIs
<1>3. /\ reach = "live" /\ Len(blocks) < MaxBlocks /\ st' = Machine(y)
      /\ blocks' = Append(blocks, Block(kind, t, Depth(y))) /\ reach' = reach
      /\ path' = path /\ wasm' = wasm
  BY Zenon DEF BeginBlock, Live
<1> HIDE DEF y
<1>4. blocks' = Append(blocks, Block(kind, t, k))  BY <1>2, <1>3, Zenon
<1>5. Running => Agreed(wasm', y) /\ path' = Here
  <2>1. ASSUME Running  PROVE wasm' = [wasm EXCEPT !.stack = SubSeq(@, 1, k)]
    <3>1. /\ wasm \in [stack : Seq(Values), local : [DOMAIN LocalTypes -> Values]]
          /\ Len(wasm.stack) = k
      BY <1>1, <2>1, OrderedParts
    <3>2. SubSeq(wasm.stack, 1, k) = wasm.stack  BY <3>1
    <3> HIDE DEF k
    <3>3. [wasm EXCEPT !.stack = SubSeq(@, 1, k)] = wasm  BY <3>1, <3>2
    <3> QED  BY <1>3, <3>3
  <2> HIDE DEF k
  <2>2. Running => Agreed(wasm', y)  BY <1>2, <2>1, LoweredAgreed, Zenon
  <2> QED  BY <1>3, <2>2, Zenon DEF Running
<1> HIDE DEF k
<1>6. kind \in {"block", "loop", "if"}  OBVIOUS
<1> QED  BY <1>2, <1>3, <1>4, <1>5, <1>6, OpenStep, Zenon

LEMMA IfStep ==
  ASSUME Right, NEW t \in BlockTypes["if"], If(t)
  PROVE  Right'
<1> DEFINE k == Len(st.stack) - 1
           s == Condition(st)
           y == Pop(s, 1)
           holds == Denoted(s, Top(s)) # 0
<1>1. Ordered  BY DEF Right
<1>2. /\ reach = "live" /\ Len(blocks) < MaxBlocks /\ Has(1) /\ st' = Machine(y)
      /\ blocks' = Append(blocks, Block("if", t, Depth(s) - 1)) /\ reach' = reach
      /\ Decided(holds, WTop # 0, IF holds THEN Here ELSE ToElse(Len(blocks) + 1))
      /\ Alongside(WPop(1))
  BY Zenon DEF If, Live
<1>3. k \in Nat /\ Floor <= k /\ k <= Len(st.stack) /\ Len(st.stack) = k + 1
  BY <1>1, <1>2, HasIs
<1>4. Good(st) /\ FlagsTop(st)  BY <1>1, OrderedParts
<1> HIDE DEF k
<1>5. Topped(st, s, k)  BY <1>3, <1>4, ConditionIs, Zenon
<1> HIDE DEF s
<1>6. /\ Lowered(y, k) /\ Depth(s) = k + 1
      /\ Denoted(s, Top(s)) = Denoted(st, st.stack[k + 1])
  BY <1>1, <1>3, <1>5, ToppedIs
<1>7. blocks' = Append(blocks, Block("if", t, k))
  <2>1. Depth(s) - 1 = k  BY <1>3, <1>6
  <2> QED  BY <1>2, <2>1, Zenon
<1> HIDE DEF y
<1>8. ASSUME Running
      PROVE  /\ Agreed(wasm', y)
             /\ \/ path' = Here
                \/ "if" = "if" /\ path' = ToElse(Len(blocks) + 1)
                \/ path' = Over("astray") /\ Shapes # {}
  <2>1. WPop(1) = SubSeq(wasm.stack, 1, k)  BY <1>3, <1>8, WPopIs
  <2>2. wasm' = [wasm EXCEPT !.stack = SubSeq(@, 1, k)]
    <3>1. wasm' = [wasm EXCEPT !.stack = WPop(1)]  BY <1>2, <1>8, Zenon DEF Alongside
    <3>2. wasm \in [stack : Seq(Values), local : [DOMAIN LocalTypes -> Values]]
      BY <1>1, OrderedParts
    <3> QED  BY <2>1, <3>1, <3>2
  <2>3. Agreed(wasm', y)  BY <1>6, <1>8, <2>2, LoweredAgreed, Zenon
  <2>4. Shapes = {} => Denoted(s, Top(s)) = WTop
    <3>1. Shapes = {} => WTop = Denoted(st, st.stack[k + 1])  BY <1>3, <1>8, WTopIs
    <3> QED  BY <1>6, <3>1
  <2>5. path' = IF holds = (WTop # 0) THEN (IF holds THEN Here ELSE ToElse(Len(blocks) + 1))
                ELSE Over("astray")
    BY <1>2, <1>8, Zenon DEF Decided
  <2>6. Shapes = {} => holds = (WTop # 0)
    <3> DEFINE a == Denoted(s, Top(s))
               b == WTop
    <3> HIDE DEF a, b
    <3>1. Shapes = {} => ((a # 0) = (b # 0))  BY <2>4 DEF a, b
    <3> QED  BY <3>1, Zenon DEF a, b
  <2> HIDE DEF holds
  <2>7. CASE holds = (WTop # 0)
    <3>1. path' = IF holds THEN Here ELSE ToElse(Len(blocks) + 1)  BY <2>5, <2>7, Zenon
    <3>2. path' = Here \/ path' = ToElse(Len(blocks) + 1)  BY <3>1, Zenon
    <3> QED  BY <2>3, <3>2, Zenon
  <2>8. CASE ~(holds = (WTop # 0))
    <3>1. path' = Over("astray") /\ Shapes # {}  BY <2>5, <2>6, <2>8, Zenon
    <3> QED  BY <2>3, <3>1, Zenon
  <2> QED  BY <2>7, <2>8
<1>9. ~Running => wasm' = wasm /\ path' = path  BY <1>2, Zenon DEF Alongside, Decided
<1>10. "if" \in {"block", "loop", "if"}  OBVIOUS
<1> HIDE DEF holds
<1> QED  BY <1>2, <1>6, <1>7, <1>8, <1>9, <1>10, OpenStep, Zenon

-----------------------------------------------------------------------------
(* A block ends, or the first part of an if.                               *)

LEMMA GoesIs ==
  ASSUME NEW p, NEW r, NEW bs, Goes(p, r, bs)
  PROVE  /\ \A d : p = ToEnd(d) => d \in 1..Len(bs) /\ bs[d].kind # "loop"
         /\ \A d : p = ToElse(d) => d \in 1..Len(bs) /\ bs[d].kind = "if"
         /\ p = Here => r = "live"
<1>1. ASSUME NEW d, p = ToEnd(d)  PROVE d \in 1..Len(bs) /\ bs[d].kind # "loop"
  BY <1>1, Ways, Zenon DEF Goes
<1>2. ASSUME NEW d, p = ToElse(d)  PROVE d \in 1..Len(bs) /\ bs[d].kind = "if"
  BY <1>2, Ways, Zenon DEF Goes
<1>3. p = Here => r = "live"  BY Ways, Zenon DEF Goes
<1> QED  BY <1>1, <1>2, <1>3, Zenon

LEMMA FitPrefix ==
  ASSUME NEW x, Fit(x), NEW k \in 0..Len(x.stack), NEW v, v = [x EXCEPT !.stack = SubSeq(@, 1, k)]
  PROVE  /\ Fit(v) /\ v \in Machines /\ Len(v.stack) = k /\ Agrees(x, v, k)
         /\ v.frame = x.frame /\ v.local = x.local
         /\ \A i \in 1..k : v.stack[i] = x.stack[i]
<1> DEFINE j == Len(x.stack) - k
           y == Pop(x, j)
<1>1. Good(x) /\ FlagsTop(x) /\ Plain(x) /\ x \in Machines /\ Len(x.stack) \in Nat
  BY Parts DEF Fit, Good
<1>2. j \in 0..Len(x.stack) /\ Len(x.stack) - j = k  BY <1>1
<1>3. y = v
  <2>1. y = [x EXCEPT !.stack = SubSeq(@, 1, Len(@) - j)]  BY Zenon DEF Pop
  <2> HIDE DEF y, j
  <2> QED  BY <1>1, <1>2, <2>1 DEF Machines
<1> HIDE DEF j
<1>4. /\ Good(y) /\ Len(y.stack) = Len(x.stack) - j /\ Agrees(x, y, Len(x.stack) - j)
      /\ y.frame = x.frame /\ y.scratch = x.scratch /\ y.local = x.local
      /\ \A i \in 1..(Len(x.stack) - j) : y.stack[i] = x.stack[i]
      /\ FlagsTop(y)
  BY <1>1, <1>2, PopIs, Zenon
<1> HIDE DEF y
<1>5. Good(v) /\ FlagsTop(v) /\ Plain(v)  BY <1>1, <1>3, <1>4, Zenon DEF Plain
<1>6. v \in Machines  BY <1>5, Zenon DEF Good
<1>7. /\ Len(v.stack) = k /\ Agrees(x, v, k) /\ v.frame = x.frame /\ v.local = x.local
      /\ \A i \in 1..k : v.stack[i] = x.stack[i]
  BY <1>2, <1>3, <1>4
<1> QED  BY <1>5, <1>6, <1>7, Zenon DEF Fit

LEMMA EndedIs ==
  ASSUME Ordered, NEW z, z = SavedAtEnd \/ z = Fetched(st)
  PROVE  /\ Enters(z, Len(st.stack)) /\ Len(z.stack) = Len(st.stack) /\ Same(st, z)
         /\ z \in Machines
<1> DEFINE n == Len(st.stack)
           f == Fetched(st)
           s == SaveAll(f)
<1>1. Good(st) /\ FlagsTop(st) /\ n \in Nat /\ Floor <= n /\ st \in Machines  BY OrderedParts
<1>2. n <= n  BY <1>1
<1>3. CASE z = st
  <2>1. Same(st, st) /\ Rests(st, st, n)  BY SameSelf, RestsSelf, Zenon
  <2> QED  BY <1>1, <1>2, <1>3, <2>1, Zenon DEF Enters
<1>4. CASE z = f
  <2>1. Good(f) /\ FlagsTop(f) /\ Len(f.stack) = n /\ Same(st, f) /\ f \in Machines
    BY <1>1, FetchedParts, FetchedIs
  <2>2. Rests(st, f, n)  BY <1>1, RestsFetched, Zenon
  <2> HIDE DEF f
  <2>3. Enters(f, n)  BY <1>1, <1>2, <2>1, <2>2, Zenon DEF Enters
  <2> QED  BY <1>4, <2>1, <2>3, Zenon
<1>5. CASE z = s
  <2>1. Lowered(s, n) /\ Same(st, s)  BY SaveAllIs
  <2> HIDE DEF s, n
  <2>2. Enters(s, n) /\ Len(s.stack) = n /\ s \in Machines  BY <2>1, LoweredIs
  <2> QED  BY <1>5, <2>1, <2>2, Zenon DEF n
<1>6. z = st \/ z = f \/ z = s  BY Zenon DEF SavedAtEnd
<1> QED  BY <1>3, <1>4, <1>5, <1>6

LEMMA EndedHome ==
  ASSUME Ordered, reach # "return"
  PROVE  \A j \in 1..Len(st.stack) : AtHome(SavedAtEnd.stack[j])
<1>1. SavedAtEnd = SaveAll(Fetched(st))  BY Zenon DEF SavedAtEnd
<1>2. Lowered(SaveAll(Fetched(st)), Len(st.stack))  BY SaveAllIs
<1>3. Lowered(SavedAtEnd, Len(st.stack))  BY <1>1, <1>2, Zenon
<1> QED  BY <1>3, Zenon DEF Lowered

LEMMA CompleteIs ==
  ASSUME Ordered, blocks # <<>>, NEW b, b = Last(blocks), Complete(b)
  PROVE  LET n == Len(st.stack)
             k == b.saved
         IN  /\ Len(blocks) \in Nat \ {0} /\ b = blocks[Len(blocks)] /\ b \in Blocks
             /\ k \in 0..n /\ k + Arity(b) \in 0..n /\ Arity(b) \in {0, 1} /\ n \in Nat
             /\ Floor = k /\ \A i \in 1..k : AtHome(st.stack[i])
             /\ reach = "live" => n = k + Arity(b)
             /\ Arity(b) = 1 => k + 1 \in 1..n /\ st.stack[k + 1].type = b.type
             /\ Arity(b) = 1 /\ b.kind # "loop" /\ Shapes = {} =>
                  st.stack[k + 1].at = ResultPlace(st, b)
<1> DEFINE n == Len(st.stack)
           k == b.saved
<1>1. /\ Len(blocks) \in 1..Len(blocks) /\ Floor = b.saved /\ b = blocks[Len(blocks)]
      /\ Len(blocks) \in Nat /\ n \in Nat /\ Floor \in Nat /\ Floor <= n
  BY OrderedParts
<1>2. b \in Blocks /\ \A i \in 1..k : AtHome(st.stack[i])
  <2>1. /\ blocks[Len(blocks)] \in Blocks
        /\ \A i \in 1..blocks[Len(blocks)].saved : AtHome(st.stack[i])
    BY <1>1, OrderedParts, Zenon
  <2> QED  BY <1>1, <2>1, Zenon
<1>3. Arity(b) \in {0, 1}  BY Arities, Zenon
<1>4. /\ reach = "live" => n = k + Arity(b)
      /\ Arity(b) = 1 => n > k /\ st.stack[k + 1].type = b.type
      /\ Arity(b) = 1 => (b.kind # "loop" /\ ~InPlace(b, k + 1) => "apart" \in Shapes)
  BY Zenon DEF Complete, Depth
<1>5. Arity(b) = 1 /\ b.kind # "loop" /\ Shapes = {} => st.stack[k + 1].at = ResultPlace(st, b)
  <2>1. Arity(b) = 1 /\ b.kind # "loop" /\ Shapes = {} => InPlace(b, k + 1)  BY <1>4
  <2> QED  BY <2>1, Zenon DEF InPlace
<1> DEFINE a == Arity(b)
<1> HIDE DEF a, k, n
<1>6. k \in 0..n /\ (a = 1 => k + 1 \in 1..n) /\ k + a \in 0..n
  <2>1. k \in Nat /\ k <= n /\ n \in Nat  BY <1>1, Zenon DEF k
  <2>2. a \in {0, 1} /\ (a = 1 => n > k)  BY <1>3, <1>4, Zenon DEF a
  <2> QED  BY <2>1, <2>2
<1>7. Len(blocks) \in Nat \ {0}  BY <1>1
<1> QED  BY <1>1, <1>2, <1>3, <1>4, <1>5, <1>6, <1>7, Zenon DEF a, k, n

(* The operands under a block are the same before it ends and after.       *)
LEMMA EndRemains ==
  ASSUME Ordered, NEW z, Enters(z, Len(st.stack)), NEW m \in 0..Len(st.stack), NEW v,
         Len(v.stack) = m, \A i \in 1..m : v.stack[i] = z.stack[i], NEW d \in 1..Len(blocks),
         blocks[d].saved <= m
  PROVE  Remain(st, v, blocks[d].saved)
<1>1. /\ blocks[d].saved \in Nat /\ Len(st.stack) \in Nat
      /\ \A i \in 1..blocks[d].saved : AtHome(st.stack[i])
  BY OrderedParts
<1>2. Rests(st, z, Len(st.stack))  BY Zenon DEF Enters
<1>3. \A i \in 1..blocks[d].saved : i \in 1..m /\ i \in 1..Len(st.stack)  BY <1>1
<1>4. \A i \in 1..blocks[d].saved : v.stack[i] = st.stack[i]
  BY <1>1, <1>2, <1>3, Zenon DEF Rests
<1>5. blocks[d].saved \in 0..Len(st.stack) /\ blocks[d].saved \in 0..Len(v.stack)  BY <1>1
<1> QED  BY <1>1, <1>4, <1>5, Zenon DEF Remain

(* The values of the operands are those WebAssembly has, when the code     *)
(* that leaves them has been run.                                          *)
LEMMA AgreesCarries ==
  ASSUME NEW z, NEW x, NEW k, Agrees(z, x, k), NEW w, Carries(w, z, k), w.local = Homes(z)
  PROVE  Carries(w, x, k) /\ w.local = Homes(x)
<1>1. ASSUME NEW i \in 1..k  PROVE w.stack[i] = Denoted(x, x.stack[i])
  <2>1. Denoted(x, x.stack[i]) = Denoted(z, z.stack[i])  BY Zenon DEF Agrees
  <2>2. w.stack[i] = Denoted(z, z.stack[i])  BY Zenon DEF Carries
  <2> QED  BY <2>1, <2>2
<1>2. Homes(x) = Homes(z)  BY HomesSame, Zenon DEF Agrees
<1> QED  BY <1>1, <1>2, Zenon DEF Carries

LEMMA CarriesLess ==
  ASSUME NEW w, NEW s, NEW n \in Nat, Carries(w, s, n), NEW k \in 0..n
  PROVE  Carries(w, s, k)
<1>1. \A i \in 1..k : i \in 1..n  OBVIOUS
<1> QED  BY <1>1, Zenon DEF Carries

LEMMA FrameDenoted ==
  ASSUME NEW s, NEW d, d.mode = "frame"
  PROVE  Denoted(s, d) = Get(s.frame, d.n, d.type)
BY DenotedIs

LEMMA ResultWaits ==
  ASSUME Ordered, blocks # <<>>, NEW b, b = Last(blocks), Complete(b), Arity(b) = 1,
         b.kind # "loop", Shapes = {}, reach # "return", NEW x, NEW v,
         \A i \in 1..(b.saved + 1) : v.stack[i] = SavedAtEnd.stack[i],
         Len(v.stack) = b.saved + 1, v \in Machines, x = v.stack[b.saved + 1]
  PROVE  /\ Denoted(v, x) = Get(v.frame, ResultPlace(st, b), b.type)
         /\ ResultPlace(v, b) = ResultPlace(st, b)
<1> DEFINE k == b.saved
           z == SavedAtEnd
           n == Len(st.stack)
<1>1. /\ Len(blocks) \in Nat \ {0} /\ b = blocks[Len(blocks)] /\ k \in 0..n /\ n \in Nat
      /\ k + 1 \in 1..n /\ st.stack[k + 1].type = b.type
      /\ st.stack[k + 1].at = ResultPlace(st, b)
  BY CompleteIs
<1>2. Enters(z, n) /\ Same(st, z)  BY EndedIs
<1>3. AtHome(z.stack[k + 1])  BY <1>1, EndedHome
<1> HIDE DEF z, k, n
<1>4. z.stack[k + 1].type = b.type /\ z.stack[k + 1].at = ResultPlace(st, b)
  BY <1>1, <1>2, Zenon DEF Same, n
<1>5. x = z.stack[k + 1]
  <2>1. k + 1 \in 1..(k + 1)  BY <1>1
  <2> QED  BY <2>1, Zenon DEF k, z
<1>6. x.mode = "frame" /\ x.n = ResultPlace(st, b) /\ x.type = b.type
  BY <1>3, <1>4, <1>5, Zenon DEF AtHome
<1>7. Denoted(v, x) = Get(v.frame, x.n, x.type)  BY <1>6, FrameDenoted
<1>8. ResultPlace(v, b) = ResultPlace(st, b)
  <2>1. st \in Machines  BY OrderedParts
  <2>2. \A i \in 1..k : AtHome(st.stack[i]) /\ i \in 1..(k + 1) /\ i \in 1..n
    <3>1. \A i \in 1..k : AtHome(st.stack[i])
      BY CompleteIs DEF k
    <3> QED  BY <1>1, <3>1
  <2>3. \A i \in 1..k : v.stack[i] = st.stack[i]
    BY <1>2, <2>2, Zenon DEF Enters, Rests, k, z
  <2>4. b.saved \in 0..Len(st.stack) /\ b.saved \in 0..Len(v.stack)  BY <1>1 DEF k, n
  <2>5. \A i \in 1..b.saved : v.stack[i] = st.stack[i]  BY <2>3, Zenon DEF k
  <2> QED  BY <2>1, <2>4, <2>5, PlaceSame
<1> QED  BY <1>6, <1>7, <1>8

LEMMA ElseStep ==
  ASSUME Right, Else
  PROVE  Right'
<1> DEFINE d == Len(blocks)
           b == blocks[d]
           k == b.saved
           n == Len(st.stack)
           z == SavedAtEnd
           x == Machine(z)
           bs == [blocks EXCEPT ![d].kind = "else"]
<1>1. Ordered /\ (Shapes = {} => Followed)  BY DEF Right
<1>2. /\ blocks # <<>> /\ Last(blocks).kind = "if" /\ Complete(Last(blocks))
      /\ st' = [x EXCEPT !.stack = SubSeq(@, 1, k)] /\ blocks' = bs
      /\ path' = IF Running THEN ToEnd(d) ELSE IF path = ToElse(d) THEN Here ELSE path
      /\ reach' = "live" /\ wasm' = wasm
  BY Zenon DEF Else
<1>3. Last(blocks) = b /\ d \in 1..d /\ blocks \in Seq(Blocks) /\ d \in Nat
      /\ DOMAIN blocks = 1..d
  BY <1>1, <1>2, OrderedParts
<1>4. b.kind = "if" /\ Complete(b)  BY <1>2, <1>3, Zenon
<1>5. /\ b \in Blocks /\ k \in 0..n /\ n \in Nat /\ k + Arity(b) \in 0..n /\ Arity(b) \in {0, 1}
      /\ Floor = k /\ (reach = "live" => n = k + Arity(b))
  BY <1>1, <1>2, <1>3, <1>4, CompleteIs
<1>6. Enters(z, n) /\ Len(z.stack) = n /\ Same(st, z) /\ z \in Machines  BY <1>1, EndedIs
<1>7. /\ Fit(x) /\ x.stack = z.stack /\ (Running => Same(z, x))
      /\ ~Running => x.frame = st.frame /\ x.local = st.local
  BY <1>1, <1>6, MachineIs
<1> HIDE DEF x, z
<1>8. /\ Fit(st') /\ st' \in Machines /\ Len(st'.stack) = k /\ Agrees(x, st', k)
      /\ st'.frame = x.frame /\ st'.local = x.local
      /\ \A i \in 1..k : st'.stack[i] = z.stack[i]
  <2>1. k \in 0..Len(x.stack)  BY <1>5, <1>6, <1>7
  <2> DEFINE v == st'
  <2> HIDE DEF v
  <2>2. v = [x EXCEPT !.stack = SubSeq(@, 1, k)]  BY <1>2, Zenon DEF v
  <2>3. /\ Fit(v) /\ v \in Machines /\ Len(v.stack) = k /\ Agrees(x, v, k)
        /\ v.frame = x.frame /\ v.local = x.local
        /\ \A i \in 1..k : v.stack[i] = x.stack[i]
    <3>1. Fit(x)  BY <1>7
    <3> QED  BY <2>1, <2>2, <3>1, FitPrefix
  <2> QED  BY <1>7, <2>3, Zenon DEF v
<1>9. /\ bs \in Seq(Blocks) /\ Len(bs) = d /\ bs[d].kind = "else"
      /\ \A e \in 1..d : /\ bs[e].saved = blocks[e].saved /\ bs[e].type = blocks[e].type
                         /\ e # d => bs[e] = blocks[e]
  <2> DEFINE c == [b EXCEPT !.kind = "else"]
  <2>1. c \in Blocks /\ c.kind = "else" /\ c.saved = b.saved /\ c.type = b.type
    BY <1>5 DEF Blocks
  <2>2. bs = [blocks EXCEPT ![d] = c]  OBVIOUS
  <2> HIDE DEF c, bs
  <2>3. bs \in Seq(Blocks) /\ Len(bs) = d /\ bs[d] = c /\ \A e \in 1..d : e # d => bs[e] = blocks[e]
    BY <1>3, <2>1, <2>2
  <2> QED  BY <2>1, <2>3
<1> HIDE DEF bs
<1>10. \A e : Arity(bs[e]) = IF bs[e].type = "none" THEN 0 ELSE 1  BY Zenon DEF Arity
<1>11. \A e \in 1..d : Arity(bs[e]) = Arity(blocks[e])  BY <1>9, <1>10, Zenon DEF Arity
<1>12. /\ Goes(path, reach, blocks) /\ Prescribes(wasm, path, n, blocks) /\ Nested(blocks)
  BY <1>1, Zenon DEF Ordered
<1>13. /\ \A e : path = ToEnd(e) => e \in 1..d /\ blocks[e].kind # "loop"
       /\ \A e : path = ToElse(e) => e \in 1..d /\ blocks[e].kind = "if"
       /\ path = Here => reach = "live"
  BY <1>12, GoesIs, Zenon
<1>14. Nested(bs)
  <2>1. \A e, g \in 1..d : e <= g => bs[e].saved <= bs[g].saved
    BY <1>9, <1>12, Zenon DEF Nested
  <2> QED  BY <1>9, <1>12, <2>1, Zenon DEF Nested
<1>15. \A e \in 1..d : blocks[e].saved \in Nat /\ blocks[e].saved <= k
  BY <1>1, <1>5, OrderedParts
<1>16. \A e \in 1..d : Remain(st, st', blocks[e].saved)
  BY <1>1, <1>5, <1>6, <1>8, <1>15, EndRemains, Zenon
<1>17. Sheltered(bs, st'.stack)
  <2>1. \A e \in 1..d : \A i \in 1..blocks[e].saved : AtHome(st'.stack[i])
    BY <1>16, Zenon DEF Remain
  <2> QED  BY <1>8, <1>9, <1>15, <2>1, Zenon DEF Sheltered
<1>18. /\ Running => path' = ToEnd(d)
       /\ ~Running /\ path = ToElse(d) => path' = Here
       /\ ~Running /\ path # ToElse(d) => path' = path
  BY <1>2, Zenon
<1>19. Goes(path', reach', bs)
  <2>1. CASE Running
    <3>1. "else" # "loop"  OBVIOUS
    <3> QED  BY <1>3, <1>9, <1>18, <2>1, <3>1, Zenon DEF Goes
  <2>2. CASE ~Running /\ path = ToElse(d)  BY <1>2, <1>18, <2>2, Zenon DEF Goes
  <2>3. CASE ~Running /\ path # ToElse(d)
    <3>1. path' = path  BY <1>18, <2>3
    <3>2. path \in {Over("returned"), Over("astray")}
          \/ (\E e \in 1..d : path = ToEnd(e)) \/ (\E e \in 1..d : path = ToElse(e))
      BY <1>12, <2>3, Zenon DEF Goes, Running
    <3>3. CASE path \in {Over("returned"), Over("astray")}
      BY <3>1, <3>3, Zenon DEF Goes
    <3>4. ASSUME NEW e \in 1..d, path = ToEnd(e)  PROVE Goes(path, reach', bs)
      <4>1. bs[e].kind # "loop"
        <5>1. CASE e = d
          <6>1. "else" # "loop"  OBVIOUS
          <6> QED  BY <1>9, <5>1, <6>1
        <5>2. CASE e # d  BY <1>9, <1>13, <3>4, <5>2
        <5> QED  BY <5>1, <5>2
      <4> QED  BY <1>9, <3>4, <4>1, Zenon DEF Goes
    <3>5. ASSUME NEW e \in 1..d, path = ToElse(e)  PROVE Goes(path, reach', bs)
      <4>1. e # d  BY <2>3, <3>5
      <4>2. bs[e].kind = "if"  BY <1>9, <1>13, <3>5, <4>1
      <4> QED  BY <1>9, <3>5, <4>2, Zenon DEF Goes
    <3>6. Goes(path, reach', bs)  BY <3>1, <3>2, <3>3, <3>4, <3>5, Zenon
    <3> QED  BY <3>1, <3>6
  <2> QED  BY <2>1, <2>2, <2>3
<1>20. Prescribes(wasm, path', k, bs)
  <2>1. CASE Running
    <3>1. Len(wasm.stack) = k + Arity(b)  BY <1>1, <1>5, <2>1, OrderedParts
    <3>2. \A e : path' = ToEnd(e) => e = d  BY <1>18, <2>1, Ways, Zenon
    <3>3. \A e : path' # ToElse(e) /\ path' # Here  BY <1>18, <2>1, Ways, ZenonT(60)
    <3>4. bs[d].saved = k /\ Arity(bs[d]) = Arity(b)  BY <1>3, <1>9, <1>11
    <3>5. \A e : path' = ToEnd(e) => Len(wasm.stack) = bs[e].saved + Arity(bs[e])
      BY <3>1, <3>2, <3>4, Zenon
    <3> QED  BY <1>12, <3>3, <3>5, Zenon DEF Prescribes
  <2>2. CASE ~Running /\ path = ToElse(d)
    <3>1. Len(wasm.stack) = k  BY <1>3, <1>12, <2>2, Zenon DEF Prescribes
    <3>2. \A e : path' # ToEnd(e) /\ path' # ToElse(e)  BY <1>18, <2>2, Ways, Zenon
    <3> QED  BY <1>12, <3>1, <3>2, Zenon DEF Prescribes
  <2>3. CASE ~Running /\ path # ToElse(d)
    <3>1. path' = path /\ path # Here  BY <1>18, <2>3 DEF Running
    <3>2. \A e \in 1..d : bs[e].saved = blocks[e].saved /\ Arity(bs[e]) = Arity(blocks[e])
      BY <1>9, <1>11
    <3> QED  BY <1>9, <1>12, <3>1, <3>2, Zenon DEF Prescribes
  <2> QED  BY <2>1, <2>2, <2>3
<1>21. Ordered'
  <2>1. /\ Nested(blocks') /\ Sheltered(blocks', st'.stack) /\ Goes(path', reach', blocks')
        /\ Prescribes(wasm', path', Len(st'.stack), blocks')
    BY <1>2, <1>8, <1>14, <1>17, <1>19, <1>20
  <2>2. reach' \in {"live", "branch", "return"}  BY <1>2
  <2> QED  BY <1>8, <2>1, <2>2, Zenon DEF Ordered
<1>22. ASSUME Shapes = {}  PROVE Followed'
  <2>1. Followed  BY <1>1, <1>22
  <2>2. ASSUME ~Running
        PROVE  /\ Waits(wasm, path, st', bs) /\ wasm.local = Homes(st')
               /\ path = ToElse(d) => Carries(wasm, st', k)
    <3>1. Waits(wasm, path, st, blocks)  BY <2>1, Zenon DEF Followed
    <3>2. st \in Machines /\ st'.frame = st.frame /\ st'.local = st.local
      BY <1>1, <1>7, <1>8, <2>2, OrderedParts
    <3>3. \A e \in 1..Len(bs) : path \in {ToEnd(e), ToElse(e)} =>
            /\ e \in 1..Len(blocks) /\ bs[e].saved = blocks[e].saved
            /\ bs[e].type = blocks[e].type /\ Remain(st, st', blocks[e].saved)
      BY <1>9, <1>16, Zenon
    <3>4. Waits(wasm, path, st', bs)  BY <1>8, <3>1, <3>2, <3>3, WaitsOn, Zenon
    <3>5. wasm.local = Homes(st')
      <4>1. Homes(st') = Homes(st)  BY <3>2, HomesKept, Zenon
      <4> QED  BY <2>1, <4>1, Zenon DEF Followed
    <3>6. path = ToElse(d) => Carries(wasm, st', k)
      <4>1. path = ToElse(d) => Carries(wasm, st', bs[d].saved)
        BY <1>3, <1>9, <3>4, ZenonT(60) DEF Waits
      <4>2. bs[d].saved = k  BY <1>3, <1>9
      <4> QED  BY <4>1, <4>2, Zenon
    <3> QED  BY <3>4, <3>5, <3>6
  <2>3. ASSUME Running
        PROVE  /\ Carries(wasm, x, n) /\ Carries(wasm, st', k) /\ wasm.local = Homes(st')
    <3>1. Carries(wasm, st, n) /\ wasm.local = Homes(st)  BY <2>1, <2>3, Zenon DEF Followed
    <3>2. n <= n  BY <1>5
    <3>3. Carries(wasm, z, n) /\ wasm.local = Homes(z)
      BY <1>5, <1>6, <3>1, <3>2, SameValues, Zenon
    <3>4. Carries(wasm, x, n) /\ wasm.local = Homes(x)
      BY <1>5, <1>6, <1>7, <2>3, <3>2, <3>3, SameValues, Zenon
    <3>5. Carries(wasm, x, k)  BY <1>5, <3>4, CarriesLess, Zenon
    <3>6. Carries(wasm, st', k) /\ wasm.local = Homes(st')
      <4> DEFINE v == st'
      <4>1. Agrees(x, v, k)  BY <1>8
      <4> HIDE DEF v, k
      <4>2. Carries(wasm, v, k) /\ wasm.local = Homes(v)
        BY <3>4, <3>5, <4>1, AgreesCarries, Zenon
      <4> QED  BY <4>2 DEF v
    <3> QED  BY <3>4, <3>6
  <2>4. ASSUME Running  PROVE Waits(wasm, path', st', bs)
    <3>1. path' = ToEnd(d) /\ reach = "live" /\ n = k + Arity(b)
      BY <1>5, <1>13, <1>18, <2>4 DEF Running
    <3>2. \A e : (path' = ToEnd(e) => e = d) /\ path' # ToElse(e)  BY <3>1, Ways, ZenonT(60)
    <3>3. bs[d].saved = k /\ bs[d].type = b.type /\ Arity(bs[d]) = Arity(b)  BY <1>3, <1>9, <1>11
    <3>4. Carries(wasm, st', bs[d].saved)  BY <2>3, <2>4, <3>3
    <3>5. Arity(b) = 1 => wasm.stack[k + 1] = Get(st'.frame, ResultPlace(st', bs[d]), bs[d].type)
      <4> SUFFICES ASSUME Arity(b) = 1
                   PROVE  wasm.stack[k + 1] = Get(st'.frame, ResultPlace(st', bs[d]), bs[d].type)
        OBVIOUS
      <4>1. n = k + 1 /\ k \in Nat  BY <1>5, <3>1
      <4> DEFINE o == x.stack[k + 1]
      <4>2. wasm.stack[k + 1] = Denoted(x, o)
        <5>1. k + 1 \in 1..n  BY <4>1
        <5> QED  BY <2>3, <2>4, <5>1, Zenon DEF Carries
      <4>3. /\ Denoted(x, o) = Get(x.frame, ResultPlace(st, b), b.type)
            /\ ResultPlace(x, b) = ResultPlace(st, b)
        <5>1. reach # "return" /\ b.kind # "loop" /\ x \in Machines
          BY <1>4, <1>7, <3>1 DEF Fit, Good
        <5>2. b = Last(blocks) /\ Len(x.stack) = b.saved + 1 /\ Shapes = {}
          BY <1>3, <1>6, <1>7, <1>22, <4>1
        <5>3. \A i \in 1..(b.saved + 1) : x.stack[i] = SavedAtEnd.stack[i]  BY <1>7 DEF z
        <5>4. o = x.stack[b.saved + 1]  OBVIOUS
        <5> HIDE DEF o, b, k, n
        <5> QED  BY <1>1, <1>2, <1>4, <5>1, <5>2, <5>3, <5>4, ResultWaits, Zenon
      <4>4. ResultPlace(st', bs[d]) = ResultPlace(x, b)
        <5>1. x \in Machines /\ k \in 0..Len(x.stack) /\ k \in 0..Len(st'.stack)
          BY <1>5, <1>6, <1>7, <1>8 DEF Fit, Good
        <5>2. \A i \in 1..k : st'.stack[i] = x.stack[i]  BY <1>7, <1>8
        <5> DEFINE c == bs[d]
                   y == st'
        <5>3. c.type = b.type /\ c.saved = b.saved /\ y \in Machines /\ b.saved \in 0..Len(x.stack)
              /\ b.saved \in 0..Len(y.stack) /\ \A i \in 1..b.saved : y.stack[i] = x.stack[i]
          BY <1>8, <3>3, <5>1, <5>2
        <5> HIDE DEF b, c, y
        <5>4. ResultPlace(y, c) = ResultPlace(x, b)  BY <5>1, <5>3, PlaceSame
        <5> QED  BY <5>4 DEF c, y
      <4> HIDE DEF o
      <4>5. st'.frame = x.frame /\ bs[d].type = b.type  BY <1>8, <3>3
      <4> QED  BY <4>2, <4>3, <4>4, <4>5
    <3>6. \A e : path' = ToEnd(e) /\ Arity(bs[e]) = 1 =>
            wasm.stack[bs[e].saved + 1] = Get(st'.frame, ResultPlace(st', bs[e]), bs[e].type)
      BY <3>2, <3>3, <3>5, Zenon
    <3>7. \A e : path' \in {ToEnd(e), ToElse(e)} => Carries(wasm, st', bs[e].saved)
      BY <3>2, <3>4, Zenon
    <3> DEFINE v == st'
               p == path'
    <3>8. /\ \A e : p = ToEnd(e) /\ Arity(bs[e]) = 1 =>
               wasm.stack[bs[e].saved + 1] = Get(v.frame, ResultPlace(v, bs[e]), bs[e].type)
          /\ \A e : p \in {ToEnd(e), ToElse(e)} => Carries(wasm, v, bs[e].saved)
      BY <3>6, <3>7
    <3> HIDE DEF v, p
    <3>9. Waits(wasm, p, v, bs)
      <4>1. ASSUME NEW e \in 1..Len(bs)
            PROVE  /\ p \in {ToEnd(e), ToElse(e)} => Carries(wasm, v, bs[e].saved)
                   /\ p = ToEnd(e) /\ Arity(bs[e]) = 1 =>
                        wasm.stack[bs[e].saved + 1] = Get(v.frame, ResultPlace(v, bs[e]), bs[e].type)
        BY <3>8
      <4> QED  BY <4>1 DEF Waits
    <3> QED  BY <3>9 DEF v, p
  <2>5. wasm.local = Homes(st')  BY <2>2, <2>3
  <2>6. (path' = Here => Carries(wasm, st', k)) /\ Waits(wasm, path', st', bs)
    <3>1. CASE Running
      <4>1. path' # Here  BY <1>18, <3>1, Ways, Zenon
      <4> QED  BY <2>4, <3>1, <4>1
    <3>2. CASE ~Running /\ path = ToElse(d)
      <4>1. path' = Here  BY <1>18, <3>2
      <4>2. Waits(wasm, path', st', bs)  BY <4>1, WaitsNot, Zenon
      <4> QED  BY <2>2, <3>2, <4>2
    <3>3. CASE ~Running /\ path # ToElse(d)
      <4>1. path' = path /\ path # Here  BY <1>18, <3>3 DEF Running
      <4> QED  BY <2>2, <3>3, <4>1
    <3> QED  BY <3>1, <3>2, <3>3
  <2>7. path' # Over("astray")
    <3>1. path # Over("astray")  BY <2>1, Zenon DEF Followed
    <3>2. path' = ToEnd(d) \/ path' = Here \/ path' = path  BY <1>18
    <3> QED  BY <3>1, <3>2, Ways, Zenon
  <2>8. reach' # "return"  BY <1>2
  <2> QED  BY <1>2, <1>8, <2>5, <2>6, <2>7, <2>8, Zenon DEF Followed, Running
<1> QED  BY <1>21, <1>22, Zenon DEF Right

LEMMA FrontIs ==
  ASSUME NEW S, NEW q \in Seq(S), q # <<>>
  PROVE  /\ Front(q) \in Seq(S) /\ Len(Front(q)) = Len(q) - 1 /\ Len(q) - 1 \in Nat
         /\ \A i \in 1..(Len(q) - 1) : Front(q)[i] = q[i]
<1>1. Front(q) = SubSeq(q, 1, Len(q) - 1)  BY DEF Front
<1>2. Len(q) - 1 \in 0..Len(q) /\ Len(q) - 1 \in Nat  OBVIOUS
<1> DEFINE k == Len(q) - 1
<1> HIDE DEF k
<1>3. /\ SubSeq(q, 1, k) \in Seq(S) /\ Len(SubSeq(q, 1, k)) = k
      /\ \A i \in 1..k : SubSeq(q, 1, k)[i] = q[i]
  BY <1>2, PrefixIs DEF k
<1> QED  BY <1>1, <1>2, <1>3 DEF k

LEMMA NestedPrefix ==
  ASSUME NEW bs, Nested(bs), NEW n \in 0..Len(bs), NEW cs, cs \in Seq(Blocks), Len(cs) = n,
         \A i \in 1..n : cs[i] = bs[i]
  PROVE  Nested(cs)
<1>1. /\ Len(bs) \in Nat /\ Len(bs) <= MaxBlocks /\ MaxBlocks \in Nat
      /\ \A d, e \in 1..Len(bs) : d <= e => bs[d].saved <= bs[e].saved
  BY ControlFlowAssumption DEF Nested
<1>2. n <= MaxBlocks /\ \A d \in 1..n : d \in 1..Len(bs)  BY <1>1
<1>3. \A d, e \in 1..n : d <= e => cs[d].saved <= cs[e].saved  BY <1>1, <1>2, Zenon
<1> QED  BY <1>2, <1>3, Zenon DEF Nested

LEMMA EndStep ==
  ASSUME Right, End
  PROVE  Right'
<1> DEFINE d == Len(blocks)
           b == blocks[d]
           k == b.saved
           a == Arity(b)
           n == Len(st.stack)
           s == IF b.kind = "loop" THEN Fetched(st) ELSE SavedAtEnd
           w == IF Running THEN s ELSE [st EXCEPT !.stack = s.stack]
           e == Exposed(w, b)
           cs == Front(blocks)
           x == st'
           m == k + a
<1>1. Ordered /\ (Shapes = {} => Followed)  BY DEF Right
<1>2. /\ blocks # <<>> /\ Complete(b) /\ (b.kind = "if" => b.type = "none")
      /\ path' = (IF path \in Arrives(d) THEN Here ELSE path)
      /\ x = (IF path' = Here THEN Settled(e) ELSE e) /\ blocks' = cs
      /\ reach' = "live" /\ wasm' = wasm
  BY Zenon DEF End
<1>3. /\ Last(blocks) = b /\ d \in 1..d /\ blocks \in Seq(Blocks) /\ d \in Nat
      /\ st \in Machines /\ Plain(st)
  BY <1>1, <1>2, OrderedParts
<1>4. /\ b \in Blocks /\ k \in 0..n /\ n \in Nat /\ m \in 0..n /\ a \in {0, 1}
      /\ Floor = k /\ (reach = "live" => n = m) /\ k \in Nat
      /\ a = 1 => k + 1 \in 1..n
  <2>1. b = Last(blocks)  BY <1>3
  <2> HIDE DEF b
  <2>2. /\ b \in Blocks /\ k \in 0..n /\ n \in Nat /\ k + Arity(b) \in 0..n /\ Arity(b) \in {0, 1}
        /\ Floor = k /\ (reach = "live" => n = k + Arity(b))
        /\ Arity(b) = 1 => k + 1 \in 1..n
    BY <1>1, <1>2, <2>1, CompleteIs
  <2> QED  BY <2>2
<1>5. Enters(s, n) /\ Len(s.stack) = n /\ Same(st, s) /\ s \in Machines
  <2>1. s = SavedAtEnd \/ s = Fetched(st)  BY Zenon
  <2> HIDE DEF s
  <2> QED  BY <1>1, <2>1, EndedIs
<1>6. b.kind # "loop" => s = SavedAtEnd  BY Zenon
<1> HIDE DEF s
<1>7. Fit(s)
  <2>1. Good(s) /\ FlagsTop(s) /\ Rests(st, s, n)  BY <1>5, Zenon DEF Enters
  <2>2. Plain(s)  BY <1>3, <2>1, Zenon DEF Rests
  <2> QED  BY <2>1, <2>2, Zenon DEF Fit
<1>8. /\ Fit(w) /\ w.stack = s.stack /\ (Running => w = s)
      /\ ~Running => w.frame = st.frame /\ w.local = st.local
  <2>1. CASE Running  BY <1>7, <2>1
  <2>2. CASE ~Running
    <3>1. w = [st EXCEPT !.stack = s.stack]  BY <2>2, Zenon
    <3>2. Good(s) /\ FlagsTop(s)  BY <1>7, Zenon DEF Fit
    <3> HIDE DEF w
    <3> QED  BY <1>3, <2>2, <3>1, <3>2, StackIn
  <2> QED  BY <2>1, <2>2
<1> HIDE DEF w, m
<1>9. /\ Fit(e) /\ e \in Machines /\ Len(e.stack) = m /\ Agrees(w, e, m)
      /\ e.frame = w.frame /\ e.local = w.local
      /\ \A i \in 1..m : e.stack[i] = s.stack[i]
  <2>1. e = [w EXCEPT !.stack = SubSeq(@, 1, m)]  BY Zenon DEF Exposed, m
  <2>2. m \in 0..Len(w.stack)  BY <1>4, <1>5, <1>8
  <2> HIDE DEF e
  <2>3. Fit(w)  BY <1>8
  <2>4. /\ Fit(e) /\ e \in Machines /\ Len(e.stack) = m /\ Agrees(w, e, m)
        /\ e.frame = w.frame /\ e.local = w.local
        /\ \A i \in 1..m : e.stack[i] = w.stack[i]
    BY <2>1, <2>2, <2>3, FitPrefix
  <2> QED  BY <1>8, <2>4
<1> HIDE DEF e
<1>10. /\ Fit(x) /\ x \in Machines /\ x.stack = e.stack
       /\ path' = Here => Same(e, x)
       /\ path' # Here => x = e
  <2>1. CASE path' = Here
    <3>1. x = Settled(e) /\ Good(e) /\ FlagsTop(e) /\ Plain(e)  BY <1>2, <1>9, <2>1 DEF Fit
    <3> HIDE DEF x
    <3>2. Fit(x) /\ x.stack = e.stack /\ Same(e, x)  BY <3>1, SettledFit
    <3> QED  BY <2>1, <3>2 DEF Fit, Good
  <2>2. CASE path' # Here
    <3>1. x = e  BY <1>2, <2>2
    <3> QED  BY <1>9, <2>2, <3>1
  <2> QED  BY <2>1, <2>2
<1>11. /\ cs \in Seq(Blocks) /\ Len(cs) = d - 1 /\ d - 1 \in Nat
       /\ \A i \in 1..(d - 1) : cs[i] = blocks[i]
  BY <1>2, <1>3, FrontIs
<1> HIDE DEF x, cs
<1>12. \A i \in 1..(d - 1) : i \in 1..d /\ i # d  BY <1>3
<1>13. /\ Goes(path, reach, blocks) /\ Prescribes(wasm, path, n, blocks) /\ Nested(blocks)
  BY <1>1, Zenon DEF Ordered
<1>14. Nested(cs)
  <2>1. d - 1 \in 0..d  BY <1>3, <1>11
  <2> QED  BY <1>11, <1>13, <2>1, NestedPrefix
<1>15. \A i \in 1..d : blocks[i].saved \in Nat /\ blocks[i].saved <= k /\ blocks[i].saved <= m
  <2>1. \A i \in 1..d : blocks[i].saved \in Nat /\ blocks[i].saved <= Floor  BY <1>1, OrderedParts
  <2>2. k <= m  BY <1>4 DEF m
  <2>3. k \in Nat /\ m \in Nat  BY <1>4
  <2> QED  BY <1>4, <2>1, <2>2, <2>3
<1>16. \A i \in 1..d : Remain(st, e, blocks[i].saved)
  <2> TAKE i \in 1..d
  <2>1. m \in 0..Len(st.stack) /\ blocks[i].saved <= m /\ Enters(s, Len(st.stack))
    BY <1>4, <1>5, <1>15
  <2> QED  BY <1>1, <1>9, <2>1, EndRemains, Zenon
<1>17. Sheltered(cs, x.stack)
  <2>1. ASSUME NEW i \in 1..(d - 1)
        PROVE  cs[i].saved <= Len(x.stack) /\ \A j \in 1..cs[i].saved : AtHome(x.stack[j])
    <3>1. cs[i] = blocks[i] /\ i \in 1..d  BY <1>11, <1>12
    <3>2. Remain(st, e, blocks[i].saved) /\ blocks[i].saved <= m  BY <1>15, <1>16, <3>1
    <3>3. \A j \in 1..blocks[i].saved : AtHome(e.stack[j])  BY <3>2, Zenon DEF Remain
    <3> QED  BY <1>9, <1>10, <3>1, <3>2, <3>3
  <2> QED  BY <1>11, <2>1, Zenon DEF Sheltered
<1>18. /\ path \in {ToEnd(d), ToElse(d)} => path' = Here
       /\ Running => path' = Here /\ path = Here
       /\ path \notin {ToEnd(d), ToElse(d)} /\ ~Running => path' = path /\ path' # Here
       /\ path = ToEnd(d) \/ path = ToElse(d) => ~Running
  BY <1>2, Ways, Zenon DEF Arrives, Running
<1>19. /\ path = ToEnd(d) => b.kind # "loop"
       /\ path = ToElse(d) => a = 0
       /\ Running => reach = "live"
  <2>0. /\ \A i : path = ToEnd(i) => i \in 1..d /\ blocks[i].kind # "loop"
        /\ \A i : path = ToElse(i) => i \in 1..d /\ blocks[i].kind = "if"
        /\ path = Here => reach = "live"
    BY <1>13, GoesIs, Zenon
  <2>1. path = ToEnd(d) => b.kind # "loop"
    <3>1. path = ToEnd(d) => blocks[d].kind # "loop"  BY <2>0, Zenon
    <3> QED  BY <3>1
  <2>2. path = ToElse(d) => b.kind = "if"  BY <2>0
  <2>3. b.type = "none" => a = 0  BY Zenon DEF Arity
  <2>4. Running => reach = "live"  BY <2>0, Zenon DEF Running
  <2> QED  BY <1>2, <2>1, <2>2, <2>3, <2>4
<1>20. Goes(path', reach', cs)
  <2>1. CASE path' = Here  BY <1>2, <2>1, Zenon DEF Goes
  <2>2. CASE path' # Here
    <3>1. path' = path /\ path \notin {ToEnd(d), ToElse(d)} /\ path # Here
      BY <1>18, <2>2, Zenon DEF Running
    <3>2. \A i \in 1..d : i # d => i \in 1..(d - 1)  BY <1>3
    <3>3. \A i \in 1..d : path = ToEnd(i) \/ path = ToElse(i) => i \in 1..(d - 1)
      BY <3>1, <3>2, Zenon
    <3>4. path \in {Over("returned"), Over("astray")}
          \/ (\E i \in 1..d : blocks[i].kind # "loop" /\ path = ToEnd(i))
          \/ (\E i \in 1..d : blocks[i].kind = "if" /\ path = ToElse(i))
      BY <1>13, <3>1, Zenon DEF Goes
    <3>5. CASE path \in {Over("returned"), Over("astray")}
      BY <3>1, <3>5, Zenon DEF Goes
    <3>6. ASSUME NEW i \in 1..d, blocks[i].kind # "loop", path = ToEnd(i)
          PROVE  Goes(path', reach', cs)
      <4>1. i \in 1..Len(cs) /\ cs[i].kind # "loop"  BY <1>11, <3>3, <3>6
      <4> QED  BY <3>1, <3>6, <4>1, Zenon DEF Goes
    <3>7. ASSUME NEW i \in 1..d, blocks[i].kind = "if", path = ToElse(i)
          PROVE  Goes(path', reach', cs)
      <4>1. i \in 1..Len(cs) /\ cs[i].kind = "if"  BY <1>11, <3>3, <3>7
      <4> QED  BY <3>1, <3>7, <4>1, Zenon DEF Goes
    <3> QED  BY <3>4, <3>5, <3>6, <3>7
  <2> QED  BY <2>1, <2>2
<1>21. Prescribes(wasm, path', m, cs)
  <2>1. CASE path' = Here
    <3>1. Len(wasm.stack) = m
      <4>1. CASE Running
        <5>1. Len(wasm.stack) = n  BY <1>13, <4>1, Zenon DEF Prescribes, Running
        <5> QED  BY <1>4, <1>19, <4>1, <5>1
      <4>2. CASE path = ToEnd(d)
        <5>1. Len(wasm.stack) = k + a  BY <1>3, <1>13, <4>2, Zenon DEF Prescribes
        <5> QED  BY <5>1 DEF m
      <4>3. CASE path = ToElse(d)
        <5>1. Len(wasm.stack) = k  BY <1>3, <1>13, <4>3, Zenon DEF Prescribes
        <5>2. k + a = k  BY <1>4, <1>19, <4>3
        <5> QED  BY <5>1, <5>2 DEF m
      <4> QED  BY <1>18, <2>1, <4>1, <4>2, <4>3
    <3>2. \A i : path' # ToEnd(i) /\ path' # ToElse(i)  BY <2>1, Ways, Zenon
    <3> QED  BY <1>13, <3>1, <3>2, Zenon DEF Prescribes
  <2>2. CASE path' # Here
    <3>1. path' = path  BY <1>18, <2>2, Zenon
    <3>2. \A i \in 1..Len(cs) : cs[i] = blocks[i] /\ i \in 1..d  BY <1>11, <1>12
    <3> QED  BY <1>13, <2>2, <3>1, <3>2, Zenon DEF Prescribes
  <2> QED  BY <2>1, <2>2
<1>22. Ordered'
  <2>1. /\ Nested(blocks') /\ Sheltered(blocks', st'.stack) /\ Goes(path', reach', blocks')
        /\ Prescribes(wasm', path', Len(st'.stack), blocks') /\ Fit(st')
    BY <1>2, <1>9, <1>10, <1>14, <1>17, <1>20, <1>21 DEF x
  <2>2. reach' \in {"live", "branch", "return"}  BY <1>2
  <2> QED  BY <2>1, <2>2, Zenon DEF Ordered
<1>23. ASSUME Shapes = {}  PROVE Followed'
  <2>1. Followed  BY <1>1, <1>23
  <2>2. wasm.local = Homes(e)
    <3>1. CASE Running
      <4>1. wasm.local = Homes(st)  BY <2>1, Zenon DEF Followed
      <4>2. Homes(s) = Homes(st)  BY <1>5, HomesSame, Zenon DEF Same
      <4>3. Homes(e) = Homes(w)  BY <1>9, HomesKept, Zenon
      <4> QED  BY <1>8, <3>1, <4>1, <4>2, <4>3
    <3>2. CASE ~Running
      <4>1. Homes(e) = Homes(st)  BY <1>8, <1>9, <3>2, HomesKept
      <4> QED  BY <2>1, <4>1, Zenon DEF Followed
    <3> QED  BY <3>1, <3>2
  <2>3. ASSUME ~Running  PROVE Waits(wasm, path, e, blocks) /\ Waits(wasm, path, e, cs)
    <3>1. Waits(wasm, path, st, blocks) /\ e.frame = st.frame
      BY <1>8, <1>9, <2>1, <2>3 DEF Followed
    <3>2. \A i \in 1..Len(blocks) : path \in {ToEnd(i), ToElse(i)} =>
            /\ i \in 1..Len(blocks) /\ blocks[i].saved = blocks[i].saved
            /\ blocks[i].type = blocks[i].type /\ Remain(st, e, blocks[i].saved)
      BY <1>16, Zenon
    <3>3. \A i \in 1..Len(cs) : cs[i] = blocks[i] /\ i \in 1..Len(blocks)
      BY <1>11, <1>12
    <3>4. \A i \in 1..Len(cs) : path \in {ToEnd(i), ToElse(i)} =>
            /\ i \in 1..Len(blocks) /\ cs[i].saved = blocks[i].saved
            /\ cs[i].type = blocks[i].type /\ Remain(st, e, blocks[i].saved)
      BY <1>16, <3>3, Zenon
    <3> HIDE DEF d, b
    <3>5. Waits(wasm, path, e, blocks)  BY <1>3, <1>9, <3>1, <3>2, WaitsOn
    <3>6. Waits(wasm, path, e, cs)  BY <1>3, <1>9, <3>1, <3>4, WaitsOn
    <3> QED  BY <3>5, <3>6
  <2>4. ASSUME path' = Here  PROVE Carries(wasm, e, m)
    <3>1. CASE Running
      <4>1. Carries(wasm, st, n) /\ wasm.local = Homes(st)  BY <2>1, <3>1, Zenon DEF Followed
      <4>2. n <= n /\ n = m  BY <1>4, <1>19, <3>1
      <4>3. Carries(wasm, s, n) /\ wasm.local = Homes(s)
        BY <1>4, <1>5, <4>1, <4>2, SameValues, Zenon
      <4>4. Agrees(s, e, n)  BY <1>8, <1>9, <3>1, <4>2
      <4>5. Carries(wasm, e, n)  BY <4>3, <4>4, AgreesCarries, Zenon
      <4> QED  BY <4>2, <4>5
    <3>2. CASE ~Running
      <4>1. path = ToEnd(d) \/ path = ToElse(d)  BY <1>18, <2>4, <3>2, Zenon
      <4>2. Waits(wasm, path, e, blocks)  BY <2>3, <3>2
      <4>3. Carries(wasm, e, k)  BY <1>3, <4>1, <4>2, Zenon DEF Waits
      <4>4. CASE a = 0
        <5>1. m = k  BY <1>4, <4>4 DEF m
        <5> QED  BY <4>3, <5>1
      <4>5. CASE a = 1
        <5>1. path = ToEnd(d) /\ b.kind # "loop"  BY <1>19, <4>1, <4>5
        <5>2. wasm.stack[k + 1] = Get(e.frame, ResultPlace(e, b), b.type)
          BY <1>3, <4>2, <4>5, <5>1, Zenon DEF Waits
        <5>3. reach # "return"
          <6>1. a # 0  BY <4>5
          <6> QED  BY <1>3, <2>1, <6>1, Zenon DEF Followed
        <5>4. m = k + 1  BY <4>5 DEF m
        <5> DEFINE o == e.stack[k + 1]
        <5>5. /\ Denoted(e, o) = Get(e.frame, ResultPlace(st, b), b.type)
              /\ ResultPlace(e, b) = ResultPlace(st, b)
          <6>1. \A i \in 1..(b.saved + 1) : e.stack[i] = SavedAtEnd.stack[i]
            BY <1>6, <1>9, <5>1, <5>4
          <6>2. Len(e.stack) = b.saved + 1 /\ o = e.stack[b.saved + 1] /\ b = Last(blocks)
                /\ Arity(b) = 1
            BY <1>3, <1>9, <4>5, <5>4
          <6> HIDE DEF o, b, k, a, n
          <6> QED  BY <1>1, <1>2, <1>9, <1>23, <5>1, <5>3, <6>1, <6>2, ResultWaits, Zenon
        <5>6. wasm.stack[k + 1] = Denoted(e, o)  BY <5>2, <5>5
        <5>7. \A i \in 1..(k + 1) : i \in 1..k \/ i = k + 1  BY <1>4
        <5>8. \A i \in 1..(k + 1) : wasm.stack[i] = Denoted(e, e.stack[i])
          <6> TAKE i \in 1..(k + 1)
          <6>1. CASE i \in 1..k  BY <4>3, <6>1, Zenon DEF Carries
          <6>2. CASE i = k + 1  BY <5>6, <6>2
          <6> QED  BY <5>7, <6>1, <6>2
        <5> QED  BY <5>4, <5>8 DEF Carries
      <4> QED  BY <1>4, <4>4, <4>5
    <3> QED  BY <3>1, <3>2
  <2>5. /\ wasm.local = Homes(x) /\ (path' = Here => Carries(wasm, x, m))
        /\ Waits(wasm, path', x, cs)
    <3>1. CASE path' = Here
      <4>1. Carries(wasm, e, m) /\ Same(e, x)  BY <1>10, <2>4, <3>1
      <4>2. m <= Len(e.stack) /\ m \in Nat /\ Len(e.stack) \in Nat  BY <1>4, <1>9
      <4>3. Carries(wasm, x, m) /\ wasm.local = Homes(x)
        BY <2>2, <4>1, <4>2, SameValues, Zenon
      <4>4. Waits(wasm, path', x, cs)
        <5> DEFINE p == path'
        <5>1. p = Here  BY <3>1
        <5> HIDE DEF p
        <5>2. Waits(wasm, p, x, cs)  BY <5>1, WaitsNot, Zenon
        <5> QED  BY <5>2 DEF p
      <4> QED  BY <4>3, <4>4
    <3>2. CASE path' # Here
      <4>1. x = e /\ path' = path /\ ~Running  BY <1>10, <1>18, <3>2
      <4>2. Waits(wasm, path, e, cs)  BY <2>3, <4>1
      <4> QED  BY <2>2, <3>2, <4>1, <4>2
    <3> QED  BY <3>1, <3>2
  <2>6. path' # Over("astray")
    <3>1. path # Over("astray")  BY <2>1, Zenon DEF Followed
    <3>2. path' = Here \/ path' = path  BY <1>2
    <3> QED  BY <3>1, <3>2, Ways, Zenon
  <2>7. /\ wasm'.local = Homes(st') /\ (Running' => Carries(wasm', st', Len(st'.stack)))
        /\ Waits(wasm', path', st', blocks') /\ reach' # "return"
    BY <1>2, <1>9, <1>10, <2>5 DEF x, Running
  <2> QED  BY <2>6, <2>7, Zenon DEF Followed
<1> QED  BY <1>22, <1>23, Zenon DEF Right

-----------------------------------------------------------------------------
(* A branch is taken.                                                      *)

LEMMA SettledTyped ==
  ASSUME NEW s, s \in Machines, Plain(s)
  PROVE  Settled(s) \in Machines /\ Plain(Settled(s))
<1> DEFINE kept == UNION {p[1]..(p[1] + Size(p[2]) - 1) : p \in Named(s)}
           frame == [w \in Words |-> IF w \in kept THEN s.frame[w] ELSE Spoilt]
           scratch == [r \in Regs |-> IF Holders(s, r, Depth(s)) = {} THEN Junk ELSE s.scratch[r]]
           flag == IF s.stack # <<>> /\ Last(s.stack).mode = "flag" THEN s.flag ELSE Junk
           x == Settled(s)
<1>1. s.frame \in Frames /\ s.flag \in {0, 1, Junk}  BY Parts
<1>2. x = [s EXCEPT !.frame = frame, !.scratch = scratch, !.flag = flag]
  BY Zenon DEF Settled
<1>3. frame \in Frames
  <2>1. Spoilt \in Cells  BY DEF Spoilt, Cell, Cells, Loaded
  <2>2. \A w \in Words : s.frame[w] \in Cells  BY <1>1 DEF Frames
  <2> HIDE DEF kept
  <2> QED  BY <2>1, <2>2 DEF Frames
<1>4. scratch \in [Regs -> Loaded]
  <2>1. Junk \in Loaded  BY DEF Loaded
  <2>2. \A r \in Regs : s.scratch[r] \in Loaded  BY DEF Plain
  <2> QED  BY <2>1, <2>2
<1>5. flag \in {0, 1, Junk}  BY <1>1
<1> HIDE DEF frame, scratch, flag, x
<1>6. scratch \in [Regs -> Loaded \cup {PagesAddress}]  BY <1>4
<1>7. x \in Machines /\ x.scratch = scratch  BY <1>2, <1>3, <1>5, <1>6 DEF Machines
<1> QED  BY <1>4, <1>7 DEF Plain, x

LEMMA CarriedIs ==
  ASSUME NEW S, NEW q \in Seq(S), NEW b, b.saved \in Nat, NEW a \in {0, 1}, a = LabelArity(b),
         b.saved + a <= Len(q)
  PROVE  LET c == Carried(q, b)
         IN  /\ c \in Seq(S) /\ Len(c) = b.saved + a /\ \A i \in 1..b.saved : c[i] = q[i]
             /\ a = 1 => c[b.saved + 1] = q[Len(q)]
<1> DEFINE k == b.saved
           n == Len(q)
           l == SubSeq(q, 1, k)
           r == SubSeq(q, n - a + 1, n)
           c == Carried(q, b)
<1>1. c = l \o r  BY Zenon DEF Carried
<1>2. k \in 0..n /\ n \in Nat /\ k \in Nat /\ k + a <= n  OBVIOUS
<1>3. l \in Seq(S) /\ Len(l) = k /\ \A i \in 1..k : l[i] = q[i]
  <2> HIDE DEF k
  <2> QED  BY <1>2, PrefixIs
<1>4. r \in Seq(S) /\ Len(r) = a /\ (a = 1 => r[1] = q[n])
  <2>1. CASE a = 1
    <3>1. n - a + 1 = n /\ n \in 1..n  BY <1>2, <2>1
    <3> HIDE DEF n, k
    <3>2. r = SubSeq(q, n, n)  BY <3>1
    <3>3. SubSeq(q, n, n) \in Seq(S) /\ Len(SubSeq(q, n, n)) = 1 /\ SubSeq(q, n, n)[1] = q[n]
      BY <1>2, <3>1 DEF n
    <3> QED  BY <2>1, <3>2, <3>3
  <2>2. CASE a = 0
    <3>1. r = SubSeq(q, n + 1, n)  BY <1>2, <2>2
    <3>2. SubSeq(q, n + 1, n) = <<>>  BY <1>2
    <3> QED  BY <2>2, <3>1, <3>2
  <2> QED  BY <2>1, <2>2
<1> HIDE DEF l, r, k, n, c
<1>5. /\ l \o r \in Seq(S) /\ Len(l \o r) = k + a /\ \A i \in 1..k : (l \o r)[i] = l[i]
      /\ \A j \in 1..a : (l \o r)[k + j] = r[j]
  BY <1>3, <1>4, ConcatIs
<1>6. a = 1 => (l \o r)[k + 1] = r[1]
  <2>1. a = 1 => 1 \in 1..a  OBVIOUS
  <2> QED  BY <1>5, <2>1
<1>7. c \in Seq(S) /\ Len(c) = k + a  BY <1>1, <1>5, Zenon
<1>8. \A i \in 1..k : c[i] = q[i]  BY <1>1, <1>3, <1>5, Zenon
<1>9. a = 1 => c[k + 1] = q[n]  BY <1>1, <1>4, <1>6, Zenon
<1> QED  BY <1>7, <1>8, <1>9 DEF c, k, n

(* y is what code leaves that goes to a label: m operands, saved.          *)
Leaving(y, m) ==
  /\ Good(y) /\ FlagsTop(y) /\ Len(y.stack) = m /\ Rests(st, y, m)
  /\ m \in Nat /\ Floor <= m /\ m <= Len(st.stack)
  /\ \A j \in 1..m : AtHome(y.stack[j]) /\ y.stack[j].type = st.stack[j].type
                     /\ y.stack[j].at = st.stack[j].at
  /\ Shapes = {} => Agrees(st, y, m)

(* The label of block d finds its result on top of m operands.             *)
Reaches(d, m) ==
  /\ d \in 1..Len(blocks)
  /\ LabelArity(blocks[d]) = 1 =>
       /\ m > Floor /\ st.stack[m].type = blocks[d].type
       /\ Shapes = {} => st.stack[m].at = ResultPlace(st, blocks[d]) /\ m = blocks[d].saved + 1

LEMMA LoweredLeaving == ASSUME NEW y, NEW m, Lowered(y, m) PROVE Leaving(y, m)
<1>1. /\ Keeps(st, y, m) /\ Rests(st, y, m) /\ m \in Nat /\ Floor <= m /\ m <= Len(st.stack)
      /\ \A j \in 1..m : AtHome(y.stack[j])
  BY Zenon DEF Lowered
<1>2. Good(y) /\ FlagsTop(y) /\ Len(y.stack) = m /\ Agrees(st, y, m)  BY <1>1, Zenon DEF Keeps
<1>3. \A j \in 1..m : y.stack[j].type = st.stack[j].type /\ y.stack[j].at = st.stack[j].at
  BY <1>2, Zenon DEF Agrees
<1> QED  BY <1>1, <1>2, <1>3, Zenon DEF Leaving

LEMMA FitsIs ==
  ASSUME Ordered, NEW d \in DOMAIN blocks, NEW k \in Nat, Fits(d, k)
  PROVE  Has(k) /\ Reaches(d, Len(st.stack) - k)
<1> DEFINE b == blocks[d]
           n == Len(st.stack)
           m == n - k
<1>1. /\ n \in Nat /\ d \in 1..Len(blocks) /\ b.saved \in Nat /\ b.saved <= Floor /\ Floor \in Nat
  BY OrderedParts
<1>2. /\ Has(k)
      /\ LabelArity(b) = 1 =>
           /\ Has(k + 1) /\ st.stack[m].type = b.type
           /\ ~InPlace(b, m) => {"excess", "apart"} \cap Shapes # {}
           /\ m > b.saved + 1 => "excess" \in Shapes
  BY Zenon DEF Fits, Depth
<1> HIDE DEF b, n
<1>3. ASSUME LabelArity(b) = 1
      PROVE  /\ m > Floor /\ st.stack[m].type = b.type
             /\ Shapes = {} => st.stack[m].at = ResultPlace(st, b) /\ m = b.saved + 1
  <2>1. n >= Floor + (k + 1)  BY <1>2, <1>3 DEF Has, Depth, n
  <2>2. m > Floor  BY <1>1, <2>1
  <2>3. ASSUME Shapes = {}  PROVE st.stack[m].at = ResultPlace(st, b) /\ m = b.saved + 1
    <3>1. InPlace(b, m) /\ ~(m > b.saved + 1)  BY <1>2, <1>3, <2>3
    <3>2. m = b.saved + 1
      <4>1. ~(m > b.saved + 1) /\ m > Floor /\ m \in Int /\ b.saved <= Floor  BY <1>1, <2>2, <3>1
      <4> HIDE DEF m
      <4> QED  BY <1>1, <4>1
    <3> QED  BY <3>1, <3>2, Zenon DEF InPlace
  <2> QED  BY <1>2, <1>3, <2>2, <2>3
<1> QED  BY <1>1, <1>2, <1>3, Zenon DEF Reaches, b, n

(* What WebAssembly leaves on a branch from m operands.                    *)
LEMMA LabelStack ==
  ASSUME Right, Running, NEW d, NEW m, NEW y, Leaving(y, m), Reaches(d, m)
  PROVE  LET b == blocks[d]
             a == LabelArity(b)
             q == Carried(SubSeq(wasm.stack, 1, m), b)
             c == Carried(y.stack, b)
         IN  /\ b.saved \in Nat /\ b.saved <= m /\ a \in {0, 1} /\ b.saved + a <= m
             /\ b \in Blocks /\ b.saved <= Floor
             /\ q \in Seq(Values) /\ Len(q) = b.saved + a
             /\ c \in Seq(Operands) /\ Len(c) = b.saved + a
             /\ \A i \in 1..b.saved : c[i] = y.stack[i]
             /\ a = 1 => c[b.saved + 1] = y.stack[m]
             /\ Shapes = {} =>
                  /\ \A i \in 1..(b.saved + a) : /\ q[i] = Denoted(st, st.stack[i])
                                                 /\ Denoted(y, y.stack[i]) = q[i]
                  /\ c = SubSeq(y.stack, 1, b.saved + a)
<1> DEFINE b == blocks[d]
           a == LabelArity(b)
           k == b.saved
           g == SubSeq(wasm.stack, 1, m)
           q == Carried(g, b)
           c == Carried(y.stack, b)
<1>1. Ordered  BY DEF Right
<1>2. /\ Good(y) /\ Len(y.stack) = m /\ m \in Nat /\ Floor <= m /\ m <= Len(st.stack)
      /\ Shapes = {} => Agrees(st, y, m)
  BY Zenon DEF Leaving
<1>3. /\ d \in 1..Len(blocks) /\ (a = 1 => m > Floor)
      /\ a = 1 /\ Shapes = {} => m = k + 1
  BY Zenon DEF Reaches
<1>4. /\ Len(st.stack) \in Nat /\ b \in Blocks /\ k \in Nat /\ k <= Floor /\ Floor \in Nat
  BY <1>1, <1>3, OrderedParts
<1>5. a \in {0, 1}  BY Arities, Zenon
<1> HIDE DEF a
<1>6. m \in 0..Len(st.stack)  BY <1>2, <1>4
<1>7. /\ g \in Seq(Values) /\ Len(g) = m
      /\ Shapes = {} => \A i \in 1..m : g[i] = Denoted(st, st.stack[i])
  BY <1>6, WasmIs
<1>8. k + a <= m /\ k <= m
  <2> HIDE DEF k
  <2>1. CASE a = 1  BY <1>2, <1>3, <1>4, <2>1
  <2>2. CASE a = 0  BY <1>2, <1>4, <2>2
  <2> QED  BY <1>5, <2>1, <2>2
<1>9. y.stack \in Seq(Operands)  BY <1>2, Parts DEF Good
<1> HIDE DEF g, q, c, b
<1>10. /\ q \in Seq(Values) /\ Len(q) = k + a /\ \A i \in 1..k : q[i] = g[i]
       /\ a = 1 => q[k + 1] = g[m]
  <2>1. b.saved \in Nat /\ b.saved + a <= Len(g)  BY <1>4, <1>7, <1>8
  <2> QED  BY <1>5, <1>7, <2>1, CarriedIs DEF a, q
<1>11. /\ c \in Seq(Operands) /\ Len(c) = k + a /\ \A i \in 1..k : c[i] = y.stack[i]
       /\ a = 1 => c[k + 1] = y.stack[m]
  <2>1. b.saved \in Nat /\ b.saved + a <= Len(y.stack)  BY <1>2, <1>4, <1>8
  <2> QED  BY <1>2, <1>5, <1>9, <2>1, CarriedIs DEF a, c
<1> HIDE DEF k
<1>12. ASSUME Shapes = {}
       PROVE  /\ \A i \in 1..(k + a) : q[i] = g[i] /\ c[i] = y.stack[i] /\ i \in 1..m
              /\ k + a \in 0..m
  <2>1. a = 1 => m = k + 1  BY <1>3, <1>12
  <2>2. \A i \in 1..(k + a) : i \in 1..k \/ (a = 1 /\ i = k + 1)  BY <1>4, <1>5
  <2>3. \A i \in 1..(k + a) : i \in 1..m  BY <1>2, <1>4, <1>5, <1>8
  <2>4. k + a \in 0..m  BY <1>2, <1>4, <1>5, <1>8
  <2> QED  BY <1>10, <1>11, <2>1, <2>2, <2>3, <2>4, Zenon
<1>13. ASSUME Shapes = {}
       PROVE  /\ \A i \in 1..(k + a) : /\ q[i] = Denoted(st, st.stack[i])
                                       /\ Denoted(y, y.stack[i]) = q[i]
              /\ c = SubSeq(y.stack, 1, k + a)
  <2>1. \A i \in 1..(k + a) : q[i] = Denoted(st, st.stack[i])
    BY <1>7, <1>12, <1>13, Zenon
  <2>2. \A i \in 1..m : Denoted(y, y.stack[i]) = Denoted(st, st.stack[i])
    BY <1>2, <1>13, Zenon DEF Agrees
  <2>3. \A i \in 1..(k + a) : Denoted(y, y.stack[i]) = q[i]
    BY <1>12, <1>13, <2>1, <2>2, Zenon
  <2>4. c = SubSeq(y.stack, 1, k + a)
    <3> DEFINE r == SubSeq(y.stack, 1, k + a)
    <3>1. k + a \in 0..Len(y.stack)  BY <1>2, <1>12, <1>13
    <3>2. r \in Seq(Operands) /\ Len(r) = k + a /\ \A i \in 1..(k + a) : r[i] = y.stack[i]
      BY <1>9, <3>1, PrefixIs
    <3> HIDE DEF r
    <3>3. \A i \in 1..Len(c) : c[i] = r[i]  BY <1>11, <1>12, <1>13, <3>2, Zenon
    <3>4. Len(c) = Len(r)  BY <1>11, <3>2
    <3>5. c = r  BY <1>11, <3>2, <3>3, <3>4, SequencesEqual
    <3> QED  BY <3>5 DEF r
  <2> QED  BY <2>1, <2>3, <2>4
<1> QED  BY <1>4, <1>5, <1>8, <1>10, <1>11, <1>13 DEF k, b, a, q, c, g

(* A branch back to a loop.                                                *)
LEMMA LoopStep ==
  ASSUME Right, Running, NEW d, NEW m, NEW y, Leaving(y, m), Reaches(d, m),
         blocks[d].kind = "loop", NEW left, Jump(d, y, SubSeq(wasm.stack, 1, m), left)
  PROVE  Right'
<1> DEFINE b == blocks[d]
           a == LabelArity(b)
           k == b.saved
           q == Carried(SubSeq(wasm.stack, 1, m), b)
           c == Carried(y.stack, b)
           v == [y EXCEPT !.stack = SubSeq(@, 1, k)]
           x == st'
           cs == SubSeq(blocks, 1, d)
           w == wasm'
<1>1. Ordered /\ (Shapes = {} => Followed)  BY DEF Right
<1>2. /\ x = Settled(v) /\ blocks' = cs /\ reach' = reach /\ path' = path
      /\ w = [wasm EXCEPT !.stack = q]
  BY Zenon DEF Jump, Alongside
<1>3. /\ Fit(y) /\ Len(y.stack) = m /\ m \in Nat /\ (Shapes = {} => Agrees(st, y, m))
      /\ \A j \in 1..m : AtHome(y.stack[j])
  <2>1. /\ Good(y) /\ FlagsTop(y) /\ Len(y.stack) = m /\ m \in Nat /\ Rests(st, y, m)
        /\ Shapes = {} => Agrees(st, y, m)
        /\ \A j \in 1..m : AtHome(y.stack[j])
    BY Zenon DEF Leaving
  <2>2. Plain(st)  BY <1>1, OrderedParts
  <2>3. Plain(y)  BY <2>1, <2>2, Zenon DEF Rests
  <2> QED  BY <2>1, <2>3, Zenon DEF Fit
<1>4. /\ d \in 1..Len(blocks) /\ blocks \in Seq(Blocks) /\ Len(blocks) \in Nat /\ Nested(blocks)
      /\ wasm \in [stack : Seq(Values), local : [DOMAIN LocalTypes -> Values]]
      /\ reach = "live"
  BY <1>1, OrderedParts DEF Reaches, Ordered
<1>5. a = 0
  <2>1. \A e : e.kind = "loop" => LabelArity(e) = 0  BY Arities, Zenon
  <2> QED  BY <2>1
<1>6. /\ k \in Nat /\ k <= m /\ b \in Blocks /\ a \in {0, 1} /\ k + a <= m /\ k <= Floor
      /\ q \in Seq(Values) /\ Len(q) = k + a
      /\ c \in Seq(Operands) /\ Len(c) = k + a
      /\ \A i \in 1..k : c[i] = y.stack[i]
      /\ Shapes = {} =>
           /\ \A i \in 1..(k + a) : Denoted(y, y.stack[i]) = q[i]
           /\ c = SubSeq(y.stack, 1, k + a)
  BY LabelStack
<1>7. k + a = k /\ k \in 0..m  BY <1>3, <1>5, <1>6
<1> HIDE DEF k, q, a, c
<1>8. Len(q) = k /\ (Shapes = {} => \A i \in 1..k : Denoted(y, y.stack[i]) = q[i])
  BY <1>6, <1>7
<1>9. /\ Fit(v) /\ v \in Machines /\ Len(v.stack) = k /\ Agrees(y, v, k)
      /\ \A i \in 1..k : v.stack[i] = y.stack[i]
  <2> HIDE DEF v
  <2>1. v = [y EXCEPT !.stack = SubSeq(@, 1, k)]  BY DEF v
  <2>2. k \in 0..Len(y.stack) /\ Fit(y)  BY <1>3, <1>7
  <2> QED  BY <2>1, <2>2, FitPrefix
<1> HIDE DEF v
<1>10. Fit(x) /\ x.stack = v.stack /\ Same(v, x)
  <2>1. Good(v) /\ FlagsTop(v) /\ Plain(v)  BY <1>9 DEF Fit
  <2> HIDE DEF x
  <2> QED  BY <1>2, <2>1, SettledFit
<1>11. /\ cs \in Seq(Blocks) /\ Len(cs) = d /\ \A i \in 1..d : cs[i] = blocks[i]
  <2>1. d \in 0..Len(blocks)  BY <1>4
  <2> QED  BY <1>4, <2>1, PrefixIs
<1> HIDE DEF x, cs, w
<1>12. \A i \in 1..d : i \in 1..Len(blocks) /\ i <= d /\ d \in 0..Len(blocks)  BY <1>4
<1>13. Nested(cs)
  <2>1. d \in 0..Len(blocks)  BY <1>4
  <2> QED  BY <1>4, <1>11, <2>1, NestedPrefix
<1>14. \A i \in 1..d : blocks[i].saved \in Nat /\ blocks[i].saved <= k
  <2>1. \A i \in 1..Len(blocks) : blocks[i].saved \in Nat  BY <1>1, OrderedParts
  <2>2. \A i \in 1..d : blocks[i].saved <= blocks[d].saved  BY <1>4, <1>12, Zenon DEF Nested
  <2> QED  BY <1>12, <2>1, <2>2 DEF k
<1>15. Sheltered(cs, x.stack)
  <2>1. ASSUME NEW i \in 1..d
        PROVE  cs[i].saved <= Len(x.stack) /\ \A j \in 1..cs[i].saved : AtHome(x.stack[j])
    <3>1. cs[i].saved \in Nat /\ cs[i].saved <= k  BY <1>11, <1>14
    <3>2. \A j \in 1..cs[i].saved : j \in 1..k /\ j \in 1..m  BY <1>3, <1>7, <3>1
    <3>3. \A j \in 1..cs[i].saved : AtHome(x.stack[j])  BY <1>3, <1>9, <1>10, <3>2, Zenon
    <3> QED  BY <1>9, <1>10, <3>1, <3>3
  <2> QED  BY <1>11, <2>1, Zenon DEF Sheltered
<1>16. path' = Here /\ reach' = "live"  BY <1>2, <1>4 DEF Running
<1>17. /\ w \in [stack : Seq(Values), local : [DOMAIN LocalTypes -> Values]]
       /\ w.stack = q /\ w.local = wasm.local
  BY <1>2, <1>4, <1>6
<1>18. Goes(path', reach', cs)  BY <1>16, Zenon DEF Goes
<1>19. Prescribes(w, path', k, cs)
  <2>1. \A i : path' # ToEnd(i) /\ path' # ToElse(i)  BY <1>16, Ways, Zenon
  <2> QED  BY <1>8, <1>17, <2>1, Zenon DEF Prescribes
<1>20. Ordered'
  <2>1. /\ Nested(blocks') /\ Sheltered(blocks', st'.stack) /\ Goes(path', reach', blocks')
        /\ Prescribes(wasm', path', Len(st'.stack), blocks') /\ Fit(st')
    BY <1>2, <1>9, <1>10, <1>13, <1>15, <1>18, <1>19 DEF x, w
  <2>2. reach' \in {"live", "branch", "return"}  BY <1>16
  <2> QED  BY <2>1, <2>2, Zenon DEF Ordered
<1>21. ASSUME Shapes = {}  PROVE Followed'
  <2>1. Followed  BY <1>1, <1>21
  <2>2. Carries(w, x, k) /\ w.local = Homes(x)
    <3>1. Carries(w, y, k)  BY <1>8, <1>17, <1>21 DEF Carries
    <3>2. w.local = Homes(y)
      <4>1. wasm.local = Homes(st)  BY <2>1, Zenon DEF Followed
      <4>2. Homes(y) = Homes(st)  BY <1>3, <1>21, HomesSame, Zenon DEF Agrees
      <4> QED  BY <1>17, <4>1, <4>2
    <3>3. Carries(w, v, k) /\ w.local = Homes(v)
      <4>1. Agrees(y, v, k)  BY <1>9
      <4> QED  BY <3>1, <3>2, <4>1, AgreesCarries
    <3>4. k <= Len(v.stack) /\ k \in Nat /\ Len(v.stack) \in Nat  BY <1>6, <1>9
    <3> QED  BY <1>10, <3>3, <3>4, SameValues, Zenon
  <2>3. Waits(w, path', x, cs)
    <3> DEFINE p == path'
    <3>1. p = Here  BY <1>16
    <3> HIDE DEF p
    <3>2. Waits(w, p, x, cs)  BY <3>1, WaitsNot, Zenon
    <3> QED  BY <3>2 DEF p
  <2>4. path' # Over("astray") /\ reach' # "return"  BY <1>2, <1>16, <2>1 DEF Followed
  <2>5. /\ wasm'.local = Homes(st') /\ (Running' => Carries(wasm', st', Len(st'.stack)))
        /\ Waits(wasm', path', st', blocks')
    BY <1>2, <1>9, <1>10, <2>2, <2>3 DEF x, w
  <2> QED  BY <2>4, <2>5, Zenon DEF Followed
<1> QED  BY <1>20, <1>21, Zenon DEF Right

(* A branch to the end of a block.                                         *)
LEMMA ForwardStep ==
  ASSUME Right, Running, NEW d, NEW m, NEW y, Leaving(y, m), Reaches(d, m),
         blocks[d].kind # "loop", NEW left \in {"live", "branch"},
         Jump(d, y, SubSeq(wasm.stack, 1, m), left)
  PROVE  Right'
<1> DEFINE b == blocks[d]
           a == LabelArity(b)
           k == b.saved
           q == Carried(SubSeq(wasm.stack, 1, m), b)
           c == Carried(y.stack, b)
           u == [y EXCEPT !.stack = c]
           t == Settled(u)
           x == st'
           w == wasm'
<1>1. Ordered /\ (Shapes = {} => Followed)  BY DEF Right
<1>2. /\ x = [t EXCEPT !.stack = y.stack] /\ blocks' = blocks /\ reach' = left
      /\ path' = ToEnd(d) /\ w = [wasm EXCEPT !.stack = q]
  <2>1. u = [y EXCEPT !.stack = Carried(@, b)]  BY DEF Leaving, Good, Machines
  <2> HIDE DEF u
  <2> QED  BY <2>1, Zenon DEF Jump, Alongside
<1>3. /\ Good(y) /\ FlagsTop(y) /\ Plain(y) /\ y \in Machines /\ Len(y.stack) = m /\ m \in Nat
      /\ (Shapes = {} => Agrees(st, y, m)) /\ Rests(st, y, m) /\ Floor <= m /\ m <= Len(st.stack)
      /\ \A j \in 1..m : AtHome(y.stack[j]) /\ y.stack[j].type = st.stack[j].type
                         /\ y.stack[j].at = st.stack[j].at
  <2>1. /\ Good(y) /\ FlagsTop(y) /\ Len(y.stack) = m /\ m \in Nat /\ Rests(st, y, m)
        /\ (Shapes = {} => Agrees(st, y, m)) /\ Floor <= m /\ m <= Len(st.stack)
        /\ \A j \in 1..m : AtHome(y.stack[j]) /\ y.stack[j].type = st.stack[j].type
                           /\ y.stack[j].at = st.stack[j].at
    BY Zenon DEF Leaving
  <2>2. Plain(st)  BY <1>1, OrderedParts
  <2>3. Plain(y)  BY <2>1, <2>2, Zenon DEF Rests
  <2>4. y \in Machines  BY <2>1, Zenon DEF Good
  <2> QED  BY <2>1, <2>3, <2>4, Zenon
<1>4. /\ d \in 1..Len(blocks) /\ blocks \in Seq(Blocks) /\ Len(blocks) \in Nat /\ Nested(blocks)
      /\ Sheltered(blocks, st.stack) /\ st \in Machines /\ Floor \in Nat
      /\ wasm \in [stack : Seq(Values), local : [DOMAIN LocalTypes -> Values]]
      /\ a = 1 => st.stack[m].type = b.type
      /\ a = 1 /\ Shapes = {} => st.stack[m].at = ResultPlace(st, b) /\ m = k + 1
  BY <1>1, OrderedParts DEF Reaches, Ordered
<1>5. a = Arity(b)
  <2>1. \A e : e.kind # "loop" => LabelArity(e) = Arity(e)  BY Arities, Zenon
  <2> QED  BY <2>1
<1>6. /\ k \in Nat /\ k <= m /\ b \in Blocks /\ a \in {0, 1} /\ k + a <= m /\ k <= Floor
      /\ q \in Seq(Values) /\ Len(q) = k + a
      /\ c \in Seq(Operands) /\ Len(c) = k + a
      /\ \A i \in 1..k : c[i] = y.stack[i]
      /\ Shapes = {} =>
           /\ \A i \in 1..(k + a) : Denoted(y, y.stack[i]) = q[i]
           /\ c = SubSeq(y.stack, 1, k + a)
  BY LabelStack
<1> HIDE DEF k, q, c, a
<1>7. u \in Machines /\ Plain(u) /\ u.stack = c
  <2>1. u \in Machines /\ u.scratch = y.scratch /\ u.stack = c  BY <1>3, <1>6 DEF Machines
  <2> HIDE DEF u
  <2> QED  BY <1>3, <2>1, Zenon DEF Plain
<1>8. t \in Machines /\ Plain(t)
  <2> HIDE DEF u
  <2> QED  BY <1>7, SettledTyped, Zenon
<1> HIDE DEF t
<1>9. Fit(x) /\ x.stack = y.stack /\ x.frame = t.frame /\ x.local = t.local /\ x \in Machines
  <2>1. Good(y) /\ FlagsTop(y) /\ x = [t EXCEPT !.stack = y.stack]  BY <1>2, <1>3
  <2> HIDE DEF x
  <2> QED  BY <1>8, <2>1, StackIn DEF Fit, Good
<1> HIDE DEF x, w
<1>10. \A i \in 1..Len(blocks) : Remain(st, x, blocks[i].saved)
  <2> TAKE i \in 1..Len(blocks)
  <2>1. /\ blocks[i].saved \in Nat /\ blocks[i].saved <= Floor /\ Len(st.stack) \in Nat
        /\ \A j \in 1..blocks[i].saved : AtHome(st.stack[j])
    BY <1>1, OrderedParts
  <2>2. \A j \in 1..blocks[i].saved : j \in 1..m  BY <1>3, <1>4, <2>1
  <2>3. \A j \in 1..blocks[i].saved : x.stack[j] = st.stack[j]
    BY <1>3, <1>9, <2>1, <2>2, Zenon DEF Rests
  <2>4. blocks[i].saved \in 0..Len(st.stack) /\ blocks[i].saved \in 0..Len(x.stack)
    BY <1>3, <1>4, <1>9, <2>1
  <2> QED  BY <2>1, <2>3, <2>4, Zenon DEF Remain
<1>11. Sheltered(blocks, x.stack)
  <2>1. ASSUME NEW i \in 1..Len(blocks)
        PROVE  blocks[i].saved <= Len(x.stack) /\ \A j \in 1..blocks[i].saved : AtHome(x.stack[j])
    <3>1. Remain(st, x, blocks[i].saved)  BY <1>10
    <3>2. blocks[i].saved \in 0..Len(x.stack)  BY <3>1, Zenon DEF Remain
    <3>3. \A j \in 1..blocks[i].saved : AtHome(x.stack[j])  BY <3>1, Zenon DEF Remain
    <3>4. Len(x.stack) \in Nat  BY <1>3, <1>9
    <3> QED  BY <3>2, <3>3, <3>4
  <2> QED  BY <2>1, Zenon DEF Sheltered
<1>12. Goes(path', reach', blocks)  BY <1>2, <1>4, Zenon DEF Goes
<1>13. /\ w \in [stack : Seq(Values), local : [DOMAIN LocalTypes -> Values]]
       /\ w.stack = q /\ w.local = wasm.local
  BY <1>2, <1>4, <1>6
<1>14. /\ \A e : path' = ToEnd(e) => e = d
       /\ \A e : path' # ToElse(e)
       /\ path' # Here /\ path' # Over("astray")
  <2>1. path' = ToEnd(d) /\ "astray" \in {"returned", "astray"}  BY <1>2
  <2> QED  BY <2>1, Ways, Zenon
<1>15. Prescribes(w, path', m, blocks)
  <2>1. Len(w.stack) = b.saved + Arity(b)  BY <1>5, <1>6, <1>13 DEF k
  <2>2. \A e : path' = ToEnd(e) => Len(w.stack) = blocks[e].saved + Arity(blocks[e])
    BY <1>14, <2>1, Zenon
  <2> QED  BY <1>13, <1>14, <2>2, Zenon DEF Prescribes
<1>16. Ordered'
  <2>1. /\ Nested(blocks') /\ Sheltered(blocks', st'.stack) /\ Goes(path', reach', blocks')
        /\ Prescribes(wasm', path', Len(st'.stack), blocks') /\ Fit(st')
    BY <1>2, <1>3, <1>4, <1>9, <1>11, <1>12, <1>15 DEF x, w
  <2>2. reach' \in {"live", "branch", "return"}  BY <1>2
  <2> QED  BY <2>1, <2>2, Zenon DEF Ordered
<1>17. ASSUME Shapes = {}  PROVE Followed'
  <2>1. Followed  BY <1>1, <1>17
  <2>2. k + a \in 0..m /\ \A i \in 1..(k + a) : i \in 1..m  BY <1>3, <1>6
  <2>3. /\ Fit(u) /\ Agrees(y, u, k + a) /\ \A i \in 1..(k + a) : u.stack[i] = y.stack[i]
        /\ Len(u.stack) = k + a
    <3>1. u = [y EXCEPT !.stack = SubSeq(@, 1, k + a)]
      <4>1. c = SubSeq(y.stack, 1, k + a)  BY <1>6, <1>17
      <4> QED  BY <1>3, <4>1 DEF Machines
    <3>2. k + a \in 0..Len(y.stack) /\ Fit(y)  BY <1>3, <2>2 DEF Fit
    <3> HIDE DEF u
    <3> DEFINE n == k + a
    <3> HIDE DEF n
    <3>3. u = [y EXCEPT !.stack = SubSeq(@, 1, n)] /\ n \in 0..Len(y.stack)  BY <3>1, <3>2 DEF n
    <3>4. /\ Fit(u) /\ Agrees(y, u, n) /\ \A i \in 1..n : u.stack[i] = y.stack[i]
          /\ Len(u.stack) = n
      BY <3>2, <3>3, FitPrefix
    <3> QED  BY <3>4 DEF n
  <2> HIDE DEF u
  <2>4. Same(u, t) /\ t.stack = u.stack
    <3>1. Good(u) /\ FlagsTop(u) /\ Plain(u)  BY <2>3, Zenon DEF Fit
    <3> QED  BY <3>1, SettledFit, Zenon DEF t
  <2>5. w.local = Homes(x)
    <3>1. wasm.local = Homes(st)  BY <2>1, Zenon DEF Followed
    <3>2. Homes(y) = Homes(st)  BY <1>3, <1>17, HomesSame, Zenon DEF Agrees
    <3>3. Homes(u) = Homes(y)  BY <2>3, HomesSame, Zenon DEF Agrees
    <3>4. Homes(t) = Homes(u)  BY <2>4, HomesSame, Zenon DEF Same
    <3>5. Homes(x) = Homes(t)  BY <1>9, HomesKept, Zenon
    <3> QED  BY <1>13, <3>1, <3>2, <3>3, <3>4, <3>5
  <2>6. \A i \in 1..(k + a) :
          /\ w.stack[i] = Get(x.frame, y.stack[i].at, y.stack[i].type)
          /\ w.stack[i] = Denoted(x, x.stack[i])
    <3> TAKE i \in 1..(k + a)
    <3> DEFINE o == y.stack[i]
    <3>1. o.mode = "frame" /\ o.n = o.at  BY <1>3, <2>2 DEF AtHome
    <3>2. w.stack[i] = Denoted(y, o)  BY <1>6, <1>13, <1>17
    <3>3. Denoted(u, o) = Denoted(y, o) /\ u.stack[i] = o  BY <2>3 DEF Agrees
    <3>4. Denoted(t, o) = Denoted(u, o)
      <4>1. i \in 1..Len(u.stack)  BY <2>3
      <4>2. Denoted(t, t.stack[i]) = Denoted(u, u.stack[i])  BY <2>4, <4>1, Zenon DEF Same
      <4> QED  BY <2>4, <3>3, <4>2
    <3>5. x.stack[i] = o  BY <1>9
    <3> HIDE DEF o
    <3>6. Denoted(t, o) = Get(t.frame, o.n, o.type) /\ Denoted(x, o) = Get(x.frame, o.n, o.type)
      BY <3>1, DenotedIs, Zenon
    <3> QED  BY <1>9, <3>1, <3>2, <3>3, <3>4, <3>5, <3>6 DEF o
  <2>7. Carries(w, x, k)
    <3>1. \A i \in 1..k : i \in 1..(k + a)  BY <1>6
    <3> QED  BY <2>6, <3>1, Zenon DEF Carries
  <2>8. a = 1 => w.stack[k + 1] = Get(x.frame, ResultPlace(x, b), b.type)
    <3> SUFFICES ASSUME a = 1  PROVE w.stack[k + 1] = Get(x.frame, ResultPlace(x, b), b.type)
      OBVIOUS
    <3>1. m = k + 1 /\ st.stack[m].at = ResultPlace(st, b) /\ st.stack[m].type = b.type
      BY <1>4, <1>17
    <3>2. m \in 1..(k + a) /\ m \in 1..m  BY <1>6, <3>1
    <3>3. w.stack[m] = Get(x.frame, y.stack[m].at, y.stack[m].type)  BY <2>6, <3>2
    <3>4. y.stack[m].at = ResultPlace(st, b) /\ y.stack[m].type = b.type  BY <1>3, <3>1, <3>2
    <3>5. ResultPlace(x, b) = ResultPlace(st, b)
      <4>1. Remain(st, x, b.saved)  BY <1>4, <1>10
      <4>2. b.saved \in 0..Len(st.stack) /\ b.saved \in 0..Len(x.stack)
            /\ \A i \in 1..b.saved : x.stack[i] = st.stack[i]
        BY <4>1, Zenon DEF Remain
      <4> HIDE DEF b
      <4> QED  BY <1>4, <1>9, <4>2, PlaceSame
    <3> QED  BY <3>1, <3>3, <3>4, <3>5
  <2>9. Waits(w, path', x, blocks)
    <3> DEFINE p == path'
    <3>1. /\ \A e : p = ToEnd(e) => e = d
          /\ \A e : p # ToElse(e)
      BY <1>14
    <3> HIDE DEF p
    <3>2. ASSUME NEW e \in 1..Len(blocks)
          PROVE  /\ p \in {ToEnd(e), ToElse(e)} => Carries(w, x, blocks[e].saved)
                 /\ p = ToEnd(e) /\ Arity(blocks[e]) = 1 =>
                      w.stack[blocks[e].saved + 1]
                        = Get(x.frame, ResultPlace(x, blocks[e]), blocks[e].type)
      <4>1. CASE p = ToEnd(e)
        <5>1. e = d  BY <3>1, <4>1, Zenon
        <5>2. Carries(w, x, blocks[d].saved)  BY <2>7 DEF k
        <5>3. Arity(blocks[d]) = 1 => w.stack[blocks[d].saved + 1]
                                        = Get(x.frame, ResultPlace(x, blocks[d]), blocks[d].type)
          BY <1>5, <2>8 DEF k
        <5> QED  BY <5>1, <5>2, <5>3
      <4>2. CASE p # ToEnd(e)
        <5>1. p \notin {ToEnd(e), ToElse(e)}  BY <3>1, <4>2, Zenon
        <5> QED  BY <4>2, <5>1
      <4> QED  BY <4>1, <4>2
    <3>3. Waits(w, p, x, blocks)  BY <3>2 DEF Waits
    <3> QED  BY <3>3 DEF p
  <2>10. ~(Running') /\ reach' # "return"  BY <1>2, <1>14 DEF Running
  <2>11. wasm'.local = Homes(st') /\ Waits(wasm', path', st', blocks')
    BY <1>2, <2>5, <2>9 DEF x, w
  <2> QED  BY <1>14, <2>10, <2>11, Zenon DEF Followed
<1> QED  BY <1>16, <1>17, Zenon DEF Right

LEMMA JumpStep ==
  ASSUME Right, Running, NEW d, NEW m, NEW y, Leaving(y, m), Reaches(d, m),
         NEW left \in {"live", "branch"}, Jump(d, y, SubSeq(wasm.stack, 1, m), left)
  PROVE  Right'
<1>1. CASE blocks[d].kind = "loop"  BY <1>1, LoopStep, Zenon
<1>2. CASE blocks[d].kind # "loop"  BY <1>2, ForwardStep, Zenon
<1> QED  BY <1>1, <1>2

(* The path ends where it is: the shapes of code must allow for it.        *)
LEMMA AwayStep ==
  ASSUME Right, UNCHANGED <<st, blocks, reach, wasm>>, path' = Over("astray"),
         Shapes # {}
  PROVE  Right'
<1> DEFINE p == path'
<1>1. p = Over("astray") /\ "astray" \in {"returned", "astray"}  OBVIOUS
<1>2. st' = st /\ blocks' = blocks /\ reach' = reach /\ wasm' = wasm  OBVIOUS
<1> HIDE DEF p
<1>3. /\ Fit(st) /\ Nested(blocks) /\ Sheltered(blocks, st.stack)
      /\ reach \in {"live", "branch", "return"}
      /\ wasm \in [stack : Seq(Values), local : [DOMAIN LocalTypes -> Values]]
  BY Zenon DEF Right, Ordered, Prescribes
<1>4. Goes(p, reach, blocks)
  <2>1. p \in {Over("returned"), Over("astray")}  BY <1>1
  <2> QED  BY <2>1, Zenon DEF Goes
<1>5. p # Here /\ \A e : p # ToEnd(e) /\ p # ToElse(e)  BY <1>1, Ways, Zenon
<1>6. Prescribes(wasm, p, Len(st.stack), blocks)  BY <1>3, <1>5, Zenon DEF Prescribes
<1>7. Ordered'
  <2>1. /\ Fit(st') /\ Nested(blocks') /\ Sheltered(blocks', st'.stack)
        /\ reach' \in {"live", "branch", "return"} /\ Goes(path', reach', blocks')
        /\ Prescribes(wasm', path', Len(st'.stack), blocks')
    BY <1>2, <1>3, <1>4, <1>6 DEF p
  <2> QED  BY <2>1, Zenon DEF Ordered
<1> QED  BY <1>7, Zenon DEF Right

-----------------------------------------------------------------------------
(* Branches.                                                               *)

(* A branch, or return, that is translated only.                           *)
LEMMA PassedStep ==
  ASSUME Right, ~Running, NEW y, NEW k, Lowered(y, k), NEW left \in {"live", "branch"},
         Passed(y, left)
  PROVE  Right'
<1>1. Enters(y, k)  BY LoweredIs, Zenon
<1>2. st' = Machine(y) /\ reach' = left /\ blocks' = blocks /\ path' = path /\ wasm' = wasm
  BY Zenon DEF Passed
<1>3. reach' \in {"live", "branch", "return"} /\ reach' # "return"  BY <1>2
<1> QED  BY <1>1, <1>2, <1>3, CodeStep, Zenon

LEMMA BrStep ==
  ASSUME Right, NEW d \in 0..Len(blocks), Br(d)
  PROVE  Right'
<1> DEFINE n == Len(st.stack)
           s == SaveAll(Fetched(st))
<1>1. Ordered  BY DEF Right
<1>2. CASE d = 0
  <2>1. /\ "function" \in Shapes /\ path' = Over("astray")
        /\ UNCHANGED <<st, blocks, reach, wasm>>
    BY <1>2, Zenon DEF Br, Astray
  <2>2. Shapes # {}  BY <2>1
  <2> QED  BY <2>1, <2>2, AwayStep, Zenon
<1>3. CASE d # 0
  <2>1. d \in DOMAIN blocks  BY <1>1, <1>3, OrderedParts
  <2>2. Fits(d, 0) /\ IF Running THEN Jump(d, s, wasm.stack, "branch") ELSE Passed(s, "branch")
    BY <1>3, Zenon DEF Br
  <2>3. Lowered(s, n)  BY <1>1, SaveAllIs
  <2> HIDE DEF s
  <2>4. "branch" \in {"live", "branch"}  OBVIOUS
  <2>5. CASE Running
    <3>1. Leaving(s, n)  BY <2>3, LoweredLeaving, Zenon
    <3>2. Reaches(d, n)
      <4>1. 0 \in Nat /\ n - 0 = n  BY <1>1, OrderedParts
      <4>2. Reaches(d, n - 0)  BY <1>1, <2>1, <2>2, <4>1, FitsIs, Zenon
      <4> QED  BY <4>1, <4>2
    <3>3. SubSeq(wasm.stack, 1, n) = wasm.stack
      <4>1. wasm.stack \in Seq(Values) /\ Len(wasm.stack) = n  BY <1>1, <2>5, OrderedParts
      <4> QED  BY <4>1
    <3> HIDE DEF n
    <3>4. Jump(d, s, SubSeq(wasm.stack, 1, n), "branch")  BY <2>2, <2>5, <3>3
    <3> QED  BY <2>4, <2>5, <3>1, <3>2, <3>4, JumpStep, Zenon
  <2>6. CASE ~Running
    <3>1. Passed(s, "branch")  BY <2>2, <2>6
    <3> HIDE DEF n
    <3> QED  BY <2>3, <2>4, <2>6, <3>1, PassedStep, Zenon
  <2> QED  BY <2>5, <2>6
<1> QED  BY <1>2, <1>3

LEMMA BrIfStep ==
  ASSUME Right, NEW d \in DOMAIN blocks, BrIf(d)
  PROVE  Right'
<1> DEFINE k == Len(st.stack) - 1
           s == Condition(st)
           y == Pop(s, 1)
           holds == Denoted(s, Top(s)) # 0
<1>1. Ordered  BY DEF Right
<1>2. /\ Has(1) /\ Fits(d, 1)
      /\ IF ~Running THEN Passed(y, "live")
         ELSE IF holds # (WTop # 0) THEN Astray
         ELSE IF holds THEN Jump(d, y, WPop(1), "live")
         ELSE Emits(y, WPop(1))
  BY Zenon DEF BrIf
<1>3. k \in Nat /\ Floor <= k /\ k <= Len(st.stack) /\ Len(st.stack) = k + 1
  BY <1>1, <1>2, HasIs
<1>4. Good(st) /\ FlagsTop(st)  BY <1>1, OrderedParts
<1>5. Reaches(d, k)
  <2>1. 1 \in Nat  OBVIOUS
  <2> QED  BY <1>1, <1>2, <2>1, FitsIs, Zenon
<1> HIDE DEF k
<1>6. Topped(st, s, k)  BY <1>3, <1>4, ConditionIs, Zenon
<1> HIDE DEF s
<1>7. Lowered(y, k) /\ Denoted(s, Top(s)) = Denoted(st, st.stack[k + 1])
  BY <1>1, <1>3, <1>6, ToppedIs
<1> HIDE DEF y, holds
<1>8. "live" \in {"live", "branch"}  OBVIOUS
<1>9. CASE ~Running
  <2>1. Passed(y, "live")  BY <1>2, <1>9
  <2> QED  BY <1>7, <1>8, <1>9, <2>1, PassedStep, Zenon
<1>10. CASE Running
  <2>1. WPop(1) = SubSeq(wasm.stack, 1, k)  BY <1>3, <1>10, WPopIs
  <2>2. CASE holds # (WTop # 0)
    <3>1. Astray  BY <1>2, <1>10, <2>2
    <3>2. Shapes # {}
      <4> DEFINE a == Denoted(s, Top(s))
                 b == WTop
      <4>1. Shapes = {} => a = b
        <5>1. Shapes = {} => WTop = Denoted(st, st.stack[k + 1])  BY <1>3, <1>10, WTopIs
        <5> QED  BY <1>7, <5>1
      <4> HIDE DEF a, b
      <4>2. Shapes = {} => ((a # 0) = (b # 0))  BY <4>1
      <4>3. holds = (a # 0)  BY DEF holds, a
      <4> QED  BY <2>2, <4>2, <4>3 DEF b
    <3>3. path' = Over("astray") /\ UNCHANGED <<st, blocks, reach, wasm>>  BY <3>1, Zenon DEF Astray
    <3> QED  BY <3>2, <3>3, AwayStep, Zenon
  <2>3. CASE ~(holds # (WTop # 0)) /\ holds
    <3>1. Jump(d, y, WPop(1), "live")  BY <1>2, <1>10, <2>3
    <3>2. Jump(d, y, SubSeq(wasm.stack, 1, k), "live")  BY <2>1, <3>1, Zenon
    <3>3. Leaving(y, k)  BY <1>7, LoweredLeaving, Zenon
    <3> QED  BY <1>5, <1>8, <1>10, <3>2, <3>3, JumpStep, Zenon
  <2>4. CASE ~(holds # (WTop # 0)) /\ ~holds
    <3> DEFINE q == WPop(1)
    <3>1. Emits(y, q)  BY <1>2, <1>10, <2>4
    <3>2. Running => q = SubSeq(wasm.stack, 1, k)  BY <2>1
    <3>3. Keeps(st, y, k) /\ Rests(st, y, k)  BY <1>7, LoweredIs, Zenon
    <3> HIDE DEF q
    <3> QED  BY <1>3, <3>1, <3>2, <3>3, KeepsStep, Zenon
  <2> QED  BY <2>2, <2>3, <2>4
<1> QED  BY <1>9, <1>10

LEMMA LeastOfTwo ==
  ASSUME NEW a \in Nat, NEW b \in Nat
  PROVE  Min({a, b}) \in Nat /\ Min({a, b}) <= a /\ (b = 0 => Min({a, b}) = 0)
<1>1. \E x \in {a, b} : \A y \in {a, b} : x <= y
  <2>1. CASE a <= b
    <3>1. \A y \in {a, b} : a <= y  BY <2>1
    <3> QED  BY <3>1
  <2>2. CASE ~(a <= b)
    <3>1. \A y \in {a, b} : b <= y  BY <2>2
    <3> QED  BY <3>1
  <2> QED  BY <2>1, <2>2
<1> DEFINE m == Min({a, b})
<1>2. m \in {a, b} /\ \A y \in {a, b} : m <= y  BY <1>1 DEF Min
<1> HIDE DEF m
<1>3. m \in Nat /\ m <= a /\ m <= b  BY <1>2
<1>4. b = 0 => m = 0  BY <1>3
<1> QED  BY <1>3, <1>4 DEF m

(* Counting the index down changes nothing below it.                       *)
Indexed(s, k, count) ==
  /\ Good(s) /\ Len(s.stack) = k + 1 /\ \A j \in 1..k : AtHome(s.stack[j])
  /\ s.stack[k + 1].mode \in {"reg", "local"}
  /\ s.stack[k + 1].mode = "local" /\ count > 1 => "local index" \in Shapes

LEMMA CountedIs ==
  ASSUME NEW s, NEW k \in Nat, NEW count \in Nat, Indexed(s, k, count)
  PROVE  LET x == Counted(s, count)
         IN  /\ Good(x) /\ x.stack = s.stack /\ (Plain(s) => Plain(x))
             /\ Shapes = {} => Agrees(s, x, k)
<1> DEFINE d == s.stack[k + 1]
           v == Denoted(s, d)
           left == v - Min({v, count - 1})
           x == Counted(s, count)
<1>12. /\ Good(s) /\ Len(s.stack) = k + 1 /\ \A i \in 1..k : AtHome(s.stack[i])
       /\ d.mode \in {"reg", "local"}
       /\ d.mode = "local" /\ count > 1 => "local index" \in Shapes
  BY Zenon DEF Indexed
<1>13. Good(s) /\ Len(s.stack) = k + 1  BY <1>12, Zenon
<1>1. /\ s \in Machines /\ k + 1 \in 1..Len(s.stack) /\ d \in Operands
      /\ Readable(s.scratch, d) /\ s.local \in [DOMAIN VarTypes -> Loaded]
  <2>1. /\ s \in Machines /\ k + 1 \in 1..Len(s.stack) /\ Described(s.stack, s.scratch)
    BY <1>13 DEF Good
  <2>2. s.stack[k + 1] \in Operands /\ s.local \in [DOMAIN VarTypes -> Loaded]  BY <2>1, Parts
  <2>3. Readable(s.scratch, s.stack[k + 1])  BY <2>1, Zenon DEF Described
  <2> QED  BY <2>1, <2>2, <2>3, Zenon
<1>11. k \in 0..Len(s.stack)
  <2>1. s.stack \in Seq(Operands)  BY <1>1, Parts
  <2> QED  BY <1>13, <2>1
<1>2. Top(s) = d  BY <1>12 DEF Top, Depth
<1>3. v \in Loaded
  <2> HIDE DEF d
  <2> QED  BY <1>1, DenotedTyped
<1>4. x = IF v = Junk \/ count = 0 THEN s
          ELSE IF d.mode = "local" THEN [s EXCEPT !.local[d.n] = left]
          ELSE [s EXCEPT !.scratch[d.n] = left]
  BY <1>2, Zenon DEF Counted
<1> HIDE DEF x
<1>5. Agrees(s, s, k)  BY Zenon DEF Agrees
<1>6. CASE v = Junk \/ count = 0
  <2>1. x = s  BY <1>4, <1>6
  <2> QED  BY <1>5, <1>12, <2>1 DEF x
<1>7. CASE ~(v = Junk \/ count = 0)
  <2>1. left \in Loaded /\ (count = 1 => left = v)
    <3> DEFINE m == Min({v, count - 1})
    <3> HIDE DEF v
    <3>1. v \in Nat /\ v \in Values /\ count - 1 \in Nat
      <4>1. v \in Values  BY <1>3, <1>7 DEF Loaded
      <4>2. v \in Nat  BY <4>1, StackValuesAssumption
      <4>3. count # 0  BY <1>7
      <4> QED  BY <4>1, <4>2, <4>3
    <3>2. m \in Nat /\ m <= v /\ (count - 1 = 0 => m = 0)  BY <3>1, LeastOfTwo
    <3> HIDE DEF m
    <3>3. v - m \in 0..v /\ (count = 1 => v - m = v)
      <4>1. v - m \in 0..v  BY <3>1, <3>2
      <4>2. ASSUME count = 1  PROVE v - m = v
        <5>1. m = 0  BY <3>2, <4>2
        <5> QED  BY <3>1, <5>1
      <4> QED  BY <4>1, <4>2
    <3>4. 0..v \subseteq Values  BY <3>1, ControlFlowAssumption
    <3>5. v - m \in Values  BY <3>3, <3>4
    <3> QED  BY <3>3, <3>5 DEF Loaded, m
  <2> HIDE DEF left
  <2>2. CASE d.mode = "local"
    <3>1. x = [s EXCEPT !.local[d.n] = left]  BY <1>4, <1>7, <2>2
    <3>2. d.n \in DOMAIN VarTypes  BY <1>1, <2>2 DEF Readable
    <3> DEFINE w == [s.local EXCEPT ![d.n] = left]
    <3>3. w \in [DOMAIN VarTypes -> Loaded]  BY <1>1, <2>1
    <3>4. x = [s EXCEPT !.local = w]  BY <3>1
    <3> HIDE DEF w, d
    <3>5. x \in Machines /\ x.stack = s.stack /\ x.scratch = s.scratch
      BY <1>1, <3>3, <3>4 DEF Machines
    <3>6. Good(x)  BY <1>12, <3>5, Zenon DEF Good
    <3>7. ASSUME Shapes = {}  PROVE x = s
      <4>1. count = 1  BY <1>7, <1>12, <2>2, <3>7
      <4>2. left = s.local[d.n]
        <5>1. v = s.local[d.n]  BY <2>2, DenotedIs
        <5> QED  BY <2>1, <4>1, <5>1
      <4>3. w = s.local  BY <1>1, <3>2, <4>2 DEF w
      <4> QED  BY <1>1, <3>4, <4>3 DEF Machines
    <3>8. Shapes = {} => Agrees(s, x, k)  BY <1>5, <3>7
    <3>9. Plain(s) => Plain(x)  BY <3>5, Zenon DEF Plain
    <3> QED  BY <3>5, <3>6, <3>8, <3>9 DEF x
  <2>3. CASE d.mode = "reg"
    <3> DEFINE r == d.n
    <3>1. x = [s EXCEPT !.scratch[r] = left]
      <4>1. d.mode # "local"  BY <2>3
      <4> QED  BY <1>4, <1>7, <4>1
    <3>2. r \in Regs  BY <1>1, <2>3 DEF Readable
    <3> HIDE DEF r
    <3>3. x = WithReg(s, r, left) /\ left \in Loaded \cup {PagesAddress}
      BY <2>1, <3>1, Zenon DEF WithReg
    <3>4. /\ Good(x) /\ x.stack = s.stack /\ x.scratch[r] = left
          /\ \A q \in Regs : q # r => x.scratch[q] = s.scratch[q]
          /\ \A j \in 0..Len(s.stack) : Free(s.stack, r, j) => Agrees(s, x, j)
      BY <1>13, <2>1, <3>2, <3>3, WriteIs
    <3>5. Free(s.stack, r, k)  BY <1>12 DEF Free, InReg, AtHome
    <3>6. Agrees(s, x, k)  BY <1>11, <3>4, <3>5, Zenon
    <3>7. Plain(s) => Plain(x)
      <4>1. x.scratch = [s.scratch EXCEPT ![r] = left]  BY <1>1, <3>1 DEF Machines
      <4> HIDE DEF x
      <4> QED  BY <2>1, <4>1 DEF Plain
    <3> QED  BY <3>4, <3>6, <3>7 DEF x
  <2> QED  BY <1>12, <2>2, <2>3
<1> QED  BY <1>6, <1>7

LEMMA BrTableStep ==
  ASSUME Right, NEW targets \in Targets, BrTable(targets)
  PROVE  Right'
<1> DEFINE k == Len(st.stack) - 1
           f == Fetched(st)
           u == SaveUnder(f)
           s == LoadReg(u, Depth(u), Depth(u))
           count == Len(targets) - 1
           chosen(v) == targets[IF v < count THEN v + 1 ELSE count + 1]
           index == Denoted(s, Top(s))
           x == Counted(s, count)
           y == Pop(x, 1)
<1>1. Ordered  BY DEF Right
<1>2. /\ Has(1) /\ \A i \in DOMAIN targets : Fits(targets[i], 1)
      /\ Top(s).mode = "local" /\ count > 1 => "local index" \in Shapes
      /\ IF ~Running THEN Passed(Pop(s, 1), "branch")
         ELSE IF index = Junk \/ chosen(index) # chosen(WTop) THEN Astray
         ELSE Jump(chosen(index), y, WPop(1), "branch")
  BY Zenon DEF BrTable
<1>3. k \in Nat /\ Floor <= k /\ k <= Len(st.stack) /\ Len(st.stack) = k + 1
  BY <1>1, <1>2, HasIs
<1>4. /\ count \in 0..2 /\ DOMAIN targets = 1..(count + 1)
      /\ \A i \in 1..(count + 1) : targets[i] \in DOMAIN blocks
  <2>1. PICK n \in 1..3 : targets \in [1..n -> DOMAIN blocks]  BY DEF Targets
  <2>2. Len(targets) = n  BY <2>1
  <2> QED  BY <2>1, <2>2
<1> HIDE DEF count, k
<1>5. Good(st) /\ FlagsTop(st) /\ Plain(st)  BY <1>1, OrderedParts
<1>6. Topped(st, s, k) /\ s.stack[k + 1].mode \in {"reg", "local"}
  <2>1. /\ Good(f) /\ FlagsTop(f) /\ Len(f.stack) = k + 1 /\ Same(st, f)
    BY <1>3, <1>5, FetchedParts, FetchedIs
  <2>2. Rests(st, f, k)
    <3>1. Rests(st, f, k + 1)  BY <1>3, <1>5, RestsFetched
    <3>2. k + 1 \in Nat /\ k \in 0..(k + 1)  BY <1>3
    <3> QED  BY <3>1, <3>2, RestsLess, Zenon
  <2> HIDE DEF f
  <2>3. Topped(f, u, k)  BY <1>3, <2>1, SaveUnderIs, Zenon
  <2>4. Depth(u) = k + 1  BY <2>3, Zenon DEF Topped, Depth
  <2> HIDE DEF u
  <2>5. s = LoadReg(u, k + 1, k + 1)  BY <2>4, Zenon
  <2>6. Topped(f, LoadReg(u, k + 1, k + 1), k)
        /\ LoadReg(u, k + 1, k + 1).stack[k + 1].mode \in {"reg", "local"}
    BY <1>3, <2>3, ToppedLoaded, Zenon
  <2>7. Topped(f, s, k) /\ s.stack[k + 1].mode \in {"reg", "local"}  BY <2>5, <2>6, Zenon
  <2> HIDE DEF s
  <2>8. /\ Good(s) /\ FlagsTop(s) /\ Len(s.stack) = k + 1 /\ Same(f, s) /\ Rests(f, s, k)
        /\ \A j \in 1..k : AtHome(s.stack[j])
    BY <2>7, Zenon DEF Topped
  <2>9. Same(st, s)  BY <2>1, <2>8, SameTrans, Zenon
  <2>10. Rests(st, s, k)  BY <2>2, <2>8, RestsTrans, Zenon
  <2> QED  BY <2>7, <2>8, <2>9, <2>10, Zenon DEF Topped
<1> HIDE DEF s
<1>7. /\ Lowered(Pop(s, 1), k) /\ Top(s) = s.stack[k + 1]
      /\ index = Denoted(st, st.stack[k + 1])
  BY <1>1, <1>3, <1>6, ToppedIs
<1>8. /\ Good(s) /\ FlagsTop(s) /\ Len(s.stack) = k + 1 /\ Same(st, s) /\ Rests(st, s, k)
      /\ \A j \in 1..k : AtHome(s.stack[j])
  BY <1>6, Zenon DEF Topped
<1>9. "branch" \in {"live", "branch"}  OBVIOUS
<1>10. CASE ~Running
  <2>1. Passed(Pop(s, 1), "branch")  BY <1>2, <1>10
  <2> QED  BY <1>7, <1>9, <1>10, <2>1, PassedStep, Zenon
<1>11. CASE Running
  <2>1. WPop(1) = SubSeq(wasm.stack, 1, k)  BY <1>3, <1>11, WPopIs
  <2> HIDE DEF chosen, index
  <2>2. CASE index = Junk \/ chosen(index) # chosen(WTop)
    <3>1. Astray  BY <1>2, <1>11, <2>2, Zenon
    <3>2. Shapes # {}
      <4>1. WTop \in Values /\ (Shapes = {} => WTop = index)
        <5>1. WTop \in Values /\ (Shapes = {} => WTop = Denoted(st, st.stack[k + 1]))
          BY <1>3, <1>11, WTopIs
        <5> QED  BY <1>7, <5>1
      <4>2. WTop # Junk  BY <4>1, StackValuesAssumption DEF Junk
      <4> QED  BY <2>2, <4>1, <4>2, Zenon
    <3>3. path' = Over("astray") /\ UNCHANGED <<st, blocks, reach, wasm>>  BY <3>1, Zenon DEF Astray
    <3> QED  BY <3>2, <3>3, AwayStep, Zenon
  <2>3. CASE ~(index = Junk \/ chosen(index) # chosen(WTop))
    <3> DEFINE d == chosen(index)
    <3>1. Jump(d, y, WPop(1), "branch")  BY <1>2, <1>11, <2>3
    <3>2. index \in Nat
      <4>1. /\ s \in Machines /\ s.stack[k + 1] \in Operands /\ Readable(s.scratch, s.stack[k + 1])
        <5>1. s \in Machines /\ k + 1 \in 1..Len(s.stack)  BY <1>3, <1>8 DEF Good
        <5> QED  BY <1>8, <5>1, Parts DEF Good, Described
      <4>2. Denoted(s, s.stack[k + 1]) \in Loaded  BY <4>1, DenotedTyped, Zenon
      <4>3. index \in Loaded  BY <1>7, <4>2 DEF index
      <4> QED  BY <2>3, <4>3, StackValuesAssumption DEF Loaded
    <3>3. d \in DOMAIN blocks /\ Fits(d, 1)
      <4> DEFINE j == IF index < count THEN index + 1 ELSE count + 1
      <4>1. j \in 1..(count + 1)  BY <1>4, <3>2
      <4>2. d = targets[j]  BY DEF chosen
      <4> HIDE DEF j, d
      <4>3. j \in DOMAIN targets  BY <1>4, <4>1
      <4> QED  BY <1>2, <1>4, <4>1, <4>2, <4>3
    <3> HIDE DEF d
    <3>4. Reaches(d, k)
      <4>1. 1 \in Nat /\ Len(st.stack) - 1 = k  BY <1>3
      <4>2. Reaches(d, Len(st.stack) - 1)  BY <1>1, <3>3, <4>1, FitsIs, Zenon
      <4> QED  BY <4>1, <4>2
    <3>5. /\ Good(x) /\ x.stack = s.stack /\ (Plain(s) => Plain(x))
          /\ Shapes = {} => Agrees(s, x, k)
      <4>1. count \in Nat  BY <1>4
      <4>2. s.stack[k + 1].mode = "local" /\ count > 1 => "local index" \in Shapes
        BY <1>2, <1>7, Zenon
      <4>3. Indexed(s, k, count)  BY <1>6, <1>8, <4>2, Zenon DEF Indexed
      <4> QED  BY <1>3, <4>1, <4>3, CountedIs, Zenon
    <3> HIDE DEF x
    <3>6. /\ Good(y) /\ Len(y.stack) = k /\ FlagsTop(y) /\ Agrees(x, y, k) /\ Rests(x, y, k)
          /\ \A i \in 1..k : y.stack[i] = x.stack[i]
      <4>1. 1 \in 0..Len(x.stack) /\ Len(x.stack) - 1 = k  BY <1>3, <1>8, <3>5
      <4>2. FlagsTop(x)  BY <1>8, <3>5, Zenon DEF FlagsTop
      <4>3. Rests(x, Pop(x, 1), Len(x.stack) - 1)  BY <3>5, <4>1, RestsPop, Zenon
      <4>4. Rests(x, y, k)  BY <4>1, <4>3
      <4> QED  BY <3>5, <4>1, <4>2, <4>4, PopIs
    <3> HIDE DEF y
    <3>7. Rests(st, y, k)
      <4>1. Rests(s, x, k)  BY <3>5, Zenon DEF Rests
      <4>2. Rests(st, x, k)  BY <1>8, <4>1, RestsTrans, Zenon
      <4> QED  BY <3>6, <4>2, RestsTrans, Zenon
    <3>8. Shapes = {} => Agrees(st, y, k)
      <4>1. k \in 0..Len(st.stack) /\ Len(st.stack) \in Nat  BY <1>3
      <4>2. Agrees(st, s, k)  BY <1>8, <4>1, SameAgrees, Zenon
      <4> QED  BY <3>5, <3>6, <4>2, AgreesTrans, Zenon
    <3>9. \A j \in 1..k : AtHome(y.stack[j]) /\ y.stack[j].type = st.stack[j].type
                          /\ y.stack[j].at = st.stack[j].at
      <4>1. \A j \in 1..k : j \in 1..Len(st.stack)  BY <1>3
      <4>2. \A j \in 1..k : y.stack[j] = s.stack[j]  BY <3>5, <3>6
      <4> QED  BY <1>8, <4>1, <4>2, Zenon DEF Same
    <3>10. Leaving(y, k)  BY <1>3, <3>6, <3>7, <3>8, <3>9, Zenon DEF Leaving
    <3>11. Jump(d, y, SubSeq(wasm.stack, 1, k), "branch")  BY <2>1, <3>1, Zenon
    <3> QED  BY <1>9, <1>11, <3>4, <3>10, <3>11, JumpStep, Zenon
  <2> QED  BY <2>2, <2>3
<1> QED  BY <1>10, <1>11

LEMMA ReturnStep ==
  ASSUME Right, Return
  PROVE  Right'
<1> DEFINE k == Len(st.stack)
           s == Fetched(st)
           v == Denoted(s, Top(s))
           got == Get(Put(s.frame, 0, ResultType, v), 0, ResultType)
<1>1. Ordered  BY DEF Right
<1>2. /\ Has(1) /\ st' = Machine(s) /\ reach' = "return" /\ UNCHANGED <<blocks, wasm>>
      /\ Decided(got, WTop, Over("returned"))
      /\ (\E d \in DOMAIN blocks : Arity(blocks[d]) = 1) => "return" \in Shapes
  BY Zenon DEF Return
<1>3. k - 1 \in Nat /\ k = (k - 1) + 1 /\ k \in Nat /\ k >= 1 /\ Floor <= k /\ k <= MaxStack
  BY <1>1, <1>2, HasIs, OrderedParts
<1>4. Good(st) /\ FlagsTop(st)  BY <1>1, OrderedParts
<1>5. /\ Good(s) /\ FlagsTop(s) /\ s \in Machines /\ Len(s.stack) = k
      /\ \A i \in 1..k : Denoted(s, s.stack[i]) = Denoted(st, st.stack[i])
      /\ Same(st, s) /\ Rests(st, s, k)
  <2>1. Same(st, s)  BY <1>4, FetchedIs, Zenon
  <2>2. Rests(st, s, k)  BY <1>4, RestsFetched, Zenon
  <2> QED  BY <1>4, <2>1, <2>2, FetchedParts
<1> HIDE DEF s
<1>6. Enters(s, k)
  <2>1. k <= Len(s.stack)  BY <1>3, <1>5
  <2> QED  BY <1>3, <1>5, <2>1, Zenon DEF Enters
<1>7. Shapes = {} => \A d \in 1..Len(blocks) : Arity(blocks[d]) = 0
  <2>1. Shapes = {} => \A d \in DOMAIN blocks : Arity(blocks[d]) # 1  BY <1>2
  <2>2. DOMAIN blocks = 1..Len(blocks)  BY <1>1, OrderedParts
  <2> QED  BY <2>1, <2>2, Arities, Zenon
<1>8. reach' \in {"live", "branch", "return"}  BY <1>2
<1> HIDE DEF k
<1>9. CASE ~Running
  <2>1. path' = path  BY <1>2, <1>9, Zenon DEF Decided
  <2> QED  BY <1>2, <1>6, <1>7, <1>8, <1>9, <2>1, CodeStep, Zenon
<1>10. CASE Running
  <2> DEFINE p == path'
             x == st'
  <2>1. p = IF got = WTop THEN Over("returned") ELSE Over("astray")
    BY <1>2, <1>10, Zenon DEF Decided
  <2>2. Shapes = {} => got = WTop
    <3>1. ResultType \in Types  BY ControlFlowAssumption
    <3>2. 0 + Size(ResultType) <= FrameWords
      <4>1. ParamsEnd \in Nat /\ Size(ResultType) \in {1, 2}  BY <3>1, Params, Sizes
      <4>2. FrameWords \in Nat /\ FrameWords >= ParamsEnd + 3 * MaxStack /\ MaxStack \in Nat
        BY StackValuesAssumption DEF ParamsEnd
      <4> QED  BY <1>3, <4>1, <4>2
    <3>3. s.frame \in Frames /\ 0 \in Nat  BY <1>5, Parts
    <3> HIDE DEF v
    <3>4. got = v  BY <3>1, <3>2, <3>3, GetPut, Zenon
    <3>5. v = Denoted(st, st.stack[k])
      <4>1. Top(s) = s.stack[k] /\ k \in 1..k  BY <1>3, <1>5 DEF Top, Depth
      <4> QED  BY <1>5, <4>1 DEF v
    <3>6. Shapes = {} => WTop = Denoted(st, st.stack[k])
      <4> DEFINE j == k - 1
      <4>1. j \in Nat /\ Len(st.stack) = j + 1 /\ j + 1 = k  BY <1>3 DEF k
      <4> HIDE DEF j
      <4>2. Shapes = {} => WTop = Denoted(st, st.stack[j + 1])  BY <1>10, <4>1, WTopIs
      <4> QED  BY <4>1, <4>2
    <3> QED  BY <3>4, <3>5, <3>6
  <2> HIDE DEF got
  <2>3. /\ Fit(x) /\ x.stack = s.stack /\ Sheltered(blocks, s.stack) /\ Same(s, x)
    <3>1. /\ Fit(Machine(s)) /\ Machine(s).stack = s.stack /\ Sheltered(blocks, s.stack)
          /\ Same(s, Machine(s))
      BY <1>1, <1>6, <1>10, MachineIs
    <3>2. x = Machine(s)  BY <1>2
    <3> HIDE DEF x
    <3> QED  BY <3>1, <3>2
  <2> HIDE DEF p, x
  <2>4. \E how \in {"returned", "astray"} : p = Over(how)  BY <2>1
  <2>5. p # Here /\ \A e : p # ToEnd(e) /\ p # ToElse(e)  BY <2>4, Ways, Zenon
  <2>6. /\ Nested(blocks) /\ wasm \in [stack : Seq(Values), local : [DOMAIN LocalTypes -> Values]]
    BY <1>1, Zenon DEF Ordered, Prescribes
  <2>7. Goes(p, reach', blocks)
    <3>1. p \in {Over("returned"), Over("astray")}  BY <2>1
    <3> QED  BY <3>1, Zenon DEF Goes
  <2>8. Prescribes(wasm, p, Len(x.stack), blocks)  BY <2>5, <2>6, Zenon DEF Prescribes
  <2>9. Ordered'
    <3>1. /\ Fit(st') /\ Nested(blocks') /\ Sheltered(blocks', st'.stack)
          /\ Goes(path', reach', blocks')
          /\ Prescribes(wasm', path', Len(st'.stack), blocks')
      BY <1>2, <2>3, <2>6, <2>7, <2>8 DEF p, x
    <3> QED  BY <1>8, <3>1, Zenon DEF Ordered
  <2>10. ASSUME Shapes = {}  PROVE Followed'
    <3>1. p # Over("astray")
      <4>1. p = Over("returned")  BY <2>1, <2>2, <2>10
      <4> QED  BY <4>1, Ways, Zenon
    <3>2. wasm.local = Homes(x)
      <4>1. wasm.local = Homes(st)  BY <2>10, Zenon DEF Right, Followed
      <4>2. Homes(s) = Homes(st)  BY <1>5, HomesSame, Zenon DEF Same
      <4>3. Homes(x) = Homes(s)  BY <2>3, HomesSame, Zenon DEF Same
      <4> QED  BY <4>1, <4>2, <4>3
    <3>3. Waits(wasm, p, x, blocks)  BY <2>4, WaitsNot, Zenon
    <3>4. \A d \in 1..Len(blocks) : Arity(blocks[d]) = 0  BY <1>7, <2>10
    <3>5. /\ path' # Over("astray") /\ wasm'.local = Homes(st') /\ path' # Here
          /\ Waits(wasm', path', st', blocks')
          /\ \A d \in 1..Len(blocks') : Arity(blocks'[d]) = 0
      BY <1>2, <2>5, <3>1, <3>2, <3>3, <3>4 DEF p, x
    <3> QED  BY <3>5, Zenon DEF Followed, Running
  <2> QED  BY <2>9, <2>10, Zenon DEF Right
<1> QED  BY <1>9, <1>10

-----------------------------------------------------------------------------
(* The invariants hold.                                                    *)

LEMMA InitRight ==
  ASSUME Init
  PROVE  Right
<1>1. PICK args \in [DOMAIN ParamTypes -> Values] :
        /\ st = Entered(args, 0)
        /\ wasm = [stack |-> <<>>,
                   local |-> [i \in DOMAIN LocalTypes |->
                                IF i \in DOMAIN ParamTypes THEN args[i] ELSE 0]]
  BY DEF Init
<1>2. blocks = <<>> /\ reach = "live" /\ path = Here  BY DEF Init
<1>3. 0 \in Values /\ MaxBlocks \in Nat  BY StackValuesAssumption, ControlFlowAssumption
<1>4. /\ Good(st) /\ FlagsTop(st) /\ st.stack = <<>> /\ st.scratch = [r \in Regs |-> Junk]
      /\ \A i \in DOMAIN LocalTypes :
           Denoted(st, Home(i)) = IF i \in DOMAIN ParamTypes THEN args[i] ELSE 0
  BY <1>1, <1>3, EnteredIs
<1>5. Len(st.stack) = 0 /\ Len(blocks) = 0  BY <1>2, <1>4
<1>6. Fit(st)
  <2>1. Plain(st)  BY <1>4 DEF Plain, Loaded
  <2> QED  BY <1>4, <2>1 DEF Fit
<1>7. \A i : ~(i \in 1..Len(blocks)) /\ ~(i \in 1..Len(st.stack))  BY <1>5
<1>8. Nested(blocks)
  <2>1. blocks \in Seq(Blocks) /\ Len(blocks) <= MaxBlocks  BY <1>2, <1>3, <1>5
  <2> QED  BY <1>7, <2>1, Zenon DEF Nested
<1>9. Sheltered(blocks, st.stack)  BY <1>7, Zenon DEF Sheltered
<1>10. wasm \in [stack : Seq(Values), local : [DOMAIN LocalTypes -> Values]]
  <2> DEFINE w == [i \in DOMAIN LocalTypes |-> IF i \in DOMAIN ParamTypes THEN args[i] ELSE 0]
  <2>1. w \in [DOMAIN LocalTypes -> Values]  BY <1>3
  <2>2. wasm = [stack |-> <<>>, local |-> w]  BY <1>1, Zenon
  <2> HIDE DEF w
  <2>3. <<>> \in Seq(Values)  OBVIOUS
  <2> QED  BY <2>1, <2>2, <2>3
<1>11. Prescribes(wasm, path, Len(st.stack), blocks)
  <2>1. Len(wasm.stack) = 0  BY <1>1
  <2> QED  BY <1>5, <1>7, <1>10, <2>1, Zenon DEF Prescribes
<1>12. Goes(path, reach, blocks)  BY <1>2, Zenon DEF Goes
<1>13. Ordered  BY <1>2, <1>6, <1>8, <1>9, <1>11, <1>12 DEF Ordered
<1>14. Followed
  <2>1. wasm.local = Homes(st)  BY <1>1, <1>4 DEF Homes
  <2>2. Carries(wasm, st, Len(st.stack))  BY <1>7, Zenon DEF Carries
  <2>3. Waits(wasm, path, st, blocks)  BY <1>7, Zenon DEF Waits
  <2>4. path # Over("astray")
    <3>1. "astray" \in {"returned", "astray"}  OBVIOUS
    <3> QED  BY <1>2, <3>1, Ways, Zenon
  <2> QED  BY <1>2, <2>1, <2>2, <2>3, <2>4 DEF Followed
<1> QED  BY <1>13, <1>14 DEF Right

LEMMA NextRight ==
  ASSUME Right, [Next]_vars
  PROVE  Right'
<1>1. CASE UNCHANGED vars
  BY <1>1 DEF vars, Right, Ordered, Followed, Running
<1>2. CASE \E t \in Types, v \in Values : Const(t, v)  BY <1>2, ConstStep
<1>3. CASE \E i \in DOMAIN LocalTypes : LocalGet(i)  BY <1>3, LocalGetStep
<1>4. CASE \E i \in DOMAIN LocalTypes : LocalSet(i)  BY <1>4, LocalSetStep
<1>5. CASE Drop  BY <1>5, DropStep
<1>6. CASE Eqz  BY <1>6, EqzStep
<1>7. CASE \E c \in Callees : \E results \in [DOMAIN c.results -> Values] : Call(c, results)
  BY <1>7, CallStep
<1>8. CASE \E kind \in {"block", "loop"} : \E t \in BlockTypes[kind] : BeginBlock(kind, t)
  BY <1>8, BeginBlockStep
<1>9. CASE \E t \in BlockTypes["if"] : If(t)  BY <1>9, IfStep
<1>10. CASE Else  BY <1>10, ElseStep
<1>11. CASE End  BY <1>11, EndStep
<1>12. CASE \E d \in 0 .. Len(blocks) : Br(d)  BY <1>12, BrStep
<1>13. CASE \E d \in DOMAIN blocks : BrIf(d)  BY <1>13, BrIfStep
<1>14. CASE \E targets \in Targets : BrTable(targets)  BY <1>14, BrTableStep
<1>15. CASE Return  BY <1>15, ReturnStep
<1> QED  BY <1>1, <1>2, <1>3, <1>4, <1>5, <1>6, <1>7, <1>8, <1>9, <1>10, <1>11, <1>12, <1>13,
            <1>14, <1>15 DEF Next

(* Whatever the body is, the descriptions fit the machine, the operands    *)
(* under each block are in their own places, and WebAssembly has as many   *)
(* operands as a label will find.  When the body has none of the Shapes,   *)
(* operands, locals and decisions are WebAssembly's.                       *)
THEOREM ControlRight == Spec => []Right
<1>1. Init => Right  BY InitRight
<1>2. Right /\ [Next]_vars => Right'  BY NextRight
<1> QED  BY <1>1, <1>2, PTL DEF Spec

LEMMA OrderedTyped ==
  ASSUME Ordered
  PROVE  TypeOK
<1>1. /\ Good(st) /\ st \in Machines /\ Len(st.stack) \in Nat /\ Len(st.stack) <= MaxStack
      /\ DOMAIN st.stack = 1..Len(st.stack)
  BY OrderedParts
<1>2. Depth(st) <= MaxStack  BY <1>1 DEF Depth
<1>3. \A i \in DOMAIN st.stack :
        /\ st.stack[i].type \in Types
        /\ st.stack[i].mode = "reg" => st.stack[i].n \in Regs
        /\ st.stack[i].at + Size(st.stack[i].type) <= FrameWords
  <2> TAKE i \in DOMAIN st.stack
  <2>1. i \in 1..Len(st.stack)  BY <1>1
  <2>2. /\ st.stack[i].type \in Types /\ st.stack[i].at \in Nat /\ Readable(st.scratch, st.stack[i])
        /\ Placeable(st.stack[i].at, i)
    BY <1>1, <2>1, Parts DEF Good, Described
  <2>3. st.stack[i].mode = "reg" => st.stack[i].n \in Regs  BY <2>2 DEF Readable
  <2>4. st.stack[i].at + Size(st.stack[i].type) <= FrameWords
    <3> DEFINE at == st.stack[i].at
    <3>1. /\ Size(st.stack[i].type) \in {1, 2} /\ at \in Nat
          /\ at <= Even(at) /\ Even(at) + 2 <= ParamsEnd + 3 * i /\ Even(at) \in Nat
      BY <2>2, Sizes DEF Placeable, Even
    <3>2. /\ i <= MaxStack /\ i \in Nat /\ MaxStack \in Nat /\ ParamsEnd \in Nat /\ FrameWords \in Nat
          /\ ParamsEnd + 3 * MaxStack <= FrameWords
      BY <1>1, <2>1, Params, StackValuesAssumption
    <3> HIDE DEF at
    <3> DEFINE e == Even(at)
    <3> HIDE DEF e
    <3>3. at + Size(st.stack[i].type) <= e + 2 /\ e + 2 <= ParamsEnd + 3 * i
      BY <3>1 DEF e
    <3> QED  BY <3>1, <3>2, <3>3 DEF at, e
  <2> QED  BY <2>2, <2>3, <2>4
<1>4. blocks \in Seq(Blocks) /\ Len(blocks) <= MaxBlocks  BY DEF Ordered, Nested
<1>5. reach \in {"live", "branch", "return"}  BY DEF Ordered
<1>6. path.doing \in {"to end", "to else"} => path.of \in DOMAIN blocks
  <2>1. Goes(path, reach, blocks) /\ DOMAIN blocks = 1..Len(blocks)  BY OrderedParts DEF Ordered
  <2>5. Here.doing = "here" /\ \A how : Over(how).doing = how  BY DEF Here, Over
  <2>2. CASE path = Here
    <3>1. path.doing = "here"  BY <2>2, <2>5, Zenon
    <3> QED  BY <3>1
  <2>3. CASE path \in {Over("returned"), Over("astray")}
    <3>1. path.doing = "returned" \/ path.doing = "astray"
      BY <2>3, <2>5, Zenon
    <3> QED  BY <3>1
  <2>4. CASE \E d \in 1..Len(blocks) : path = ToEnd(d) \/ path = ToElse(d)
    <3>1. PICK d \in 1..Len(blocks) : path = ToEnd(d) \/ path = ToElse(d)  BY <2>4
    <3>2. ToEnd(d).of = d /\ ToElse(d).of = d  BY DEF ToEnd, ToElse
    <3>3. path.of = d  BY <3>1, <3>2, Zenon
    <3> QED  BY <2>1, <3>3
  <2>6. \/ path = Here \/ path \in {Over("returned"), Over("astray")}
        \/ \E d \in 1..Len(blocks) : path = ToEnd(d) \/ path = ToElse(d)
    BY <2>1, Zenon DEF Goes
  <2> QED  BY <2>2, <2>3, <2>4, <2>6
<1>7. wasm.local \in [DOMAIN LocalTypes -> Values]
  <2>1. wasm \in [stack : Seq(Values), local : [DOMAIN LocalTypes -> Values]]  BY OrderedParts
  <2> QED  BY <2>1
<1> QED  BY <1>2, <1>3, <1>4, <1>5, <1>6, <1>7, Zenon DEF TypeOK, Blocks

(* Descriptions stay within the bounds, a path that is on its way goes to  *)
(* a block there is, and WebAssembly has a value in each local.            *)
THEOREM ControlTyped == Spec => []TypeOK
<1>1. Right => TypeOK  BY OrderedTyped DEF Right
<1> QED  BY <1>1, ControlRight, PTL

(* Whatever is translated inside of a block, in a body of any shape, the   *)
(* operands it found stay in their own places in the frame.                *)
THEOREM ControlEnclosingSaved == Spec => []EnclosingSaved
<1>1. ASSUME Right  PROVE EnclosingSaved
  <2>1. /\ DOMAIN blocks = 1..Len(blocks) /\ Sheltered(blocks, st.stack)
    BY <1>1, OrderedParts DEF Right, Ordered
  <2> QED  BY <2>1, Zenon DEF EnclosingSaved, Sheltered, AtHome, Depth
<1> QED  BY <1>1, ControlRight, PTL

(* Along every path through a body that has none of the Shapes, the code   *)
(* decides as WebAssembly does, and the operands and locals it finds after *)
(* each label have WebAssembly's values.                                   *)
THEOREM ControlFollowsWasm ==
  ASSUME Shapes = {}
  PROVE  Spec => []FollowsWasm
<1>1. ASSUME Right  PROVE FollowsWasm
  <2>1. Ordered /\ Followed  BY <1>1, Shapes = {} DEF Right
  <2>2. path # Over("astray") /\ wasm.local = Homes(st)  BY <2>1, Zenon DEF Followed
  <2>3. ASSUME Running  PROVE wasm.stack = [i \in DOMAIN st.stack |-> Denoted(st, st.stack[i])]
    <3>1. Carries(wasm, st, Len(st.stack))  BY <2>1, <2>3, Zenon DEF Followed
    <3>2. /\ DOMAIN st.stack = 1..Len(st.stack) /\ wasm.stack \in Seq(Values)
          /\ Len(wasm.stack) = Len(st.stack)
      BY <2>1, <2>3, OrderedParts
    <3>3. \A i \in DOMAIN st.stack : wasm.stack[i] = Denoted(st, st.stack[i])
      BY <3>1, <3>2, Zenon DEF Carries
    <3> QED  BY <3>2, <3>3
  <2>4. wasm.local = [i \in DOMAIN LocalTypes |->
          Denoted(st, [type |-> LocalTypes[i], mode |-> LocalPlace(i).mode, n |-> LocalPlace(i).n])]
    BY <2>2, Zenon DEF Homes, Home
  <2> QED  BY <2>2, <2>3, <2>4, Zenon DEF FollowsWasm
<1>2. Right => FollowsWasm  BY <1>1
<1> QED  BY <1>2, ControlRight, PTL
=============================================================================
