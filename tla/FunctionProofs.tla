--------------------------- MODULE FunctionProofs ---------------------------
(***************************************************************************)
(* Proofs about what a generated function relies on: the frames of the     *)
(* value stack (RuntimeStack), the cached base of the memory               *)
(* (LinearMemory), the locals it zeroes on entry (LocalsInit) and the      *)
(* memory its code is in (ExecAllocator).  The four models share no state; *)
(* each has a part of this module.                                         *)
(*                                                                         *)
(* RuntimeStack.  Layout is the part of the argument that holds for both   *)
(* pointer sizes: frames are aligned, slots are ordered and above the      *)
(* parameters of the callers.  Agreement is the part that needs 8-byte     *)
(* pointers: both hands compute the same chain of addresses, so every      *)
(* value is read where it was written.                                     *)
(*                                                                         *)
(* LinearMemory.  A running function never uses a stale base, and          *)
(* memory.grow never takes pages away, as long as no declaration and no    *)
(* argument wraps (NoWrap); and LinearMemory implements WasmMemory, as     *)
(* long as no number of bytes wraps (BytesFit).  BaseCurrent speaks of     *)
(* the innermost function only, and is not inductive: when it returns, its *)
(* caller becomes innermost.  What carries over is that a caller whose     *)
(* base is a constant holds that of a fixed memory, which never moves      *)
(* (Decided, Held), and that every other caller is reloaded as it becomes  *)
(* innermost.                                                              *)
(*                                                                         *)
(* LocalsInit.  Whatever the body and the path, a local that is read       *)
(* before it is set is zeroed on entry.  ReadsZeroed holds because, on the *)
(* path, a local whose level is that of an open block has been set (Sure). *)
(* On the way to a label, that is known only of the blocks outside the one *)
(* the label belongs to: the scan goes on to mark locals that the path     *)
(* does not set, but forgets them at the label.  A branch back to a loop   *)
(* brings back the levels of its head, so those are as sure as the present *)
(* ones (HeadsSure).                                                       *)
(*                                                                         *)
(* ExecAllocator.  Whatever is compiled and freed, code has its memory to  *)
(* itself, and the list and the counters agree with the headers (HeapInv). *)
(* The headers are read as one structure (Heap): blocks fill each chunk    *)
(* and say how far it is to both neighbours.  An operation on them cuts a  *)
(* block in two, makes one of two neighbours, adds a chunk or drops some;  *)
(* each keeps Heap, and freeing a block between two free ones is two       *)
(* joins.  Sums over blocks are taken with TotalOut, which says that it    *)
(* does not matter which is added first.                                   *)
(***************************************************************************)
EXTENDS RuntimeStack, LinearMemory, LocalsInit, ExecAllocator, SequenceTheorems,
        FiniteSetTheorems, TLAPS

(*-------------------------------------------------------------------------*)
(* The value stack: RuntimeStack                                           *)
(*-------------------------------------------------------------------------*)

Writing == phase \in {"args", "results"}
Reading == phase \in {"params", "fetch"}

(* Frames are aligned, and each lies above the parameters of those below.  *)
FramesOrdered ==
  /\ \A k \in 1 .. Len(frames) :
       frames[k].base % 8 = 0 /\ frames[k].limit % 4 = 0 /\ frames[k].base <= frames[k].limit
  /\ \A j, k \in 1 .. Len(frames) :
       k < j => /\ frames[k].base <= frames[j].base
                /\ frames[k].hand = "wasm" => frames[k].limit <= frames[j].base

Layout ==
  /\ FramesOrdered
  /\ pos % 4 = 0
  /\ phase # "body" => Top.base <= pos
  /\ NaturallyAligned
  /\ CallersUntouched
  /\ SlotsDisjoint
  /\ Writing => \A i \in 1 .. Len(at) : at[i] + Size(vals[i]) <= pos

(* Where the slot after the n-th one may start.                            *)
EndAt(n) == IF n = 0 THEN Top.base ELSE at[n] + Size(vals[n])

(* Each value lies at the first aligned address after the one before it.   *)
Chained == \A i \in 1 .. Len(at) : at[i] = AlignUp(EndAt(i - 1), Align(vals[i]))

Agreement ==
  /\ phase # "body" => Chained
  /\ Writing => pos = EndAt(Len(at))
  /\ Reading => pos = EndAt(Len(got))
  /\ Writing => got = <<>>
  /\ ReadWhereWritten

-----------------------------------------------------------------------------
(* Arithmetic of the three ways to place a value.                          *)

LEMMA SizeValues ==
  ASSUME NEW t \in Types
  PROVE  Size(t) \in {4, 8} /\ (t \in {"i32", "f32"} => Size(t) = 4)
BY RuntimeStackAssumption DEF Types, Size

LEMMA AlignUpFacts ==
  ASSUME NEW o \in Nat, NEW a \in {4, 8}, o % 4 = 0
  PROVE  /\ AlignUp(o, a) \in Nat
         /\ o <= AlignUp(o, a)
         /\ AlignUp(o, a) % a = 0
         /\ AlignUp(o, a) % 4 = 0
         /\ a = 4 => AlignUp(o, a) = o
<1>1. CASE a = 4  BY <1>1 DEF AlignUp
<1>2. CASE a = 8  BY <1>2 DEF AlignUp
<1>3. QED  BY <1>1, <1>2

(* An offset aligned relative to a frame base is an aligned address.       *)
LEMMA FrameSlotIsAddress ==
  ASSUME NEW s0 \in Nat, NEW p \in Nat, NEW t \in Types,
         s0 % 8 = 0, p % 4 = 0, s0 <= p
  PROVE  FrameSlot(s0, p, t) = AlignUp(p, Align(t))
<1>1. CASE Size(t) = 4  BY <1>1 DEF FrameSlot, AlignUp, Align
<1>2. CASE Size(t) = 8  BY <1>2 DEF FrameSlot, AlignUp, Align
<1>3. QED  BY <1>1, <1>2, SizeValues

LEMMA PlaceBounds ==
  ASSUME NEW p \in Nat, NEW t \in Types, p % 4 = 0
  PROVE  /\ HostPut(p, t) \in Nat /\ p <= HostPut(p, t)
         /\ HostPut(p, t) % 4 = 0 /\ HostPut(p, t) % Align(t) = 0
         /\ HostGet(p, t) \in Nat /\ p <= HostGet(p, t) /\ HostGet(p, t) % 4 = 0
         /\ AlignUp(p, Align(t)) \in Nat /\ p <= AlignUp(p, Align(t))
         /\ AlignUp(p, Align(t)) % 4 = 0 /\ AlignUp(p, Align(t)) % Align(t) = 0
<1>1. /\ AlignUp(p, 8) \in Nat /\ p <= AlignUp(p, 8)
      /\ AlignUp(p, 8) % 4 = 0 /\ AlignUp(p, 8) % 8 = 0
  BY AlignUpFacts
<1>2. HostPut(p, t) \in {p, AlignUp(p, 8)} /\ HostGet(p, t) \in {p, AlignUp(p, 8)}
  BY DEF HostPut, HostGet
<1>3. HostPut(p, t) % Align(t) = 0
  <2>1. CASE t \in {"i32", "f32"}  BY <2>1, SizeValues DEF HostPut, Align
  <2>2. CASE t \notin {"i32", "f32"}
    <3>1. HostPut(p, t) = AlignUp(p, 8)  BY <2>2 DEF HostPut
    <3>2. CASE Align(t) = 8  BY <3>1, <3>2, <1>1
    <3>3. CASE Align(t) = 4  BY <3>1, <3>3, <1>1
    <3>4. QED  BY <3>2, <3>3, SizeValues DEF Align
  <2>3. QED  BY <2>1, <2>2
<1>4. /\ AlignUp(p, Align(t)) \in Nat /\ p <= AlignUp(p, Align(t))
      /\ AlignUp(p, Align(t)) % 4 = 0 /\ AlignUp(p, Align(t)) % Align(t) = 0
  BY AlignUpFacts, SizeValues DEF Align
<1>5. QED  BY <1>1, <1>2, <1>3, <1>4

(* With 8-byte pointers the rstack helpers compute the compiled layout.    *)
LEMMA HostAgrees ==
  ASSUME PtrSize = 8, NEW p \in Nat, NEW t \in Types, p % 4 = 0
  PROVE  HostPut(p, t) = AlignUp(p, Align(t)) /\ HostGet(p, t) = AlignUp(p, Align(t))
<1>1. CASE t \in {"i32", "f32"}
  <2>1. Align(t) = 4  BY <1>1, SizeValues DEF Align
  <2>2. AlignUp(p, Align(t)) = p  BY <2>1, AlignUpFacts
  <2>3. QED  BY <1>1, <2>2 DEF HostPut, HostGet
<1>2. CASE t \notin {"i32", "f32"}
  <2>1. Align(t) = 8  BY <1>2 DEF Align, Size, Types
  <2>2. QED  BY <1>2, <2>1 DEF HostPut, HostGet
<1>3. QED  BY <1>1, <1>2

LEMMA CallFrameAligned ==
  ASSUME NEW b \in Nat, NEW l \in Nat, NEW gap \in Nat,
         b % 8 = 0, l % 4 = 0, gap % 4 = 0, b <= l
  PROVE  /\ b + CallFrameOffset((l - b) + gap) \in Nat
         /\ (b + CallFrameOffset((l - b) + gap)) % 8 = 0
         /\ (b + CallFrameOffset((l - b) + gap)) % 4 = 0
         /\ l <= b + CallFrameOffset((l - b) + gap)
BY DEF CallFrameOffset

-----------------------------------------------------------------------------
(* Type correctness.                                                       *)

LEMMA PutTyped ==
  ASSUME TypeOK, Layout, NEW hand \in Hands, NEW s0 \in Nat, NEW t \in Types,
         s0 % 8 = 0, s0 <= pos, Put(hand, s0, t)
  PROVE  \E a \in Nat :
           /\ at' = Append(at, a) /\ vals' = Append(vals, t) /\ pos' = a + Size(t)
           /\ pos' \in Nat /\ pos' % 4 = 0 /\ pos <= a
           /\ a % 4 = 0 /\ a % Align(t) = 0
           /\ PtrSize = 8 => a = AlignUp(pos, Align(t))
<1> DEFINE a == IF hand = "host" THEN HostPut(pos, t) ELSE FrameSlot(s0, pos, t)
<1>1. pos \in Nat /\ pos % 4 = 0  BY DEF TypeOK, Layout
<1>2. /\ a \in Nat /\ pos <= a /\ a % 4 = 0 /\ a % Align(t) = 0
      /\ PtrSize = 8 => a = AlignUp(pos, Align(t))
  BY <1>1, PlaceBounds, FrameSlotIsAddress, HostAgrees, ZenonT(60)
<1>3. at' = Append(at, a) /\ vals' = Append(vals, t) /\ pos' = a + Size(t)
  BY DEF Put
<1>4. a + Size(t) \in Nat /\ (a + Size(t)) % 4 = 0
  <2>1. CASE Size(t) = 4  BY <1>2, <2>1
  <2>2. CASE Size(t) = 8  BY <1>2, <2>2
  <2>3. QED  BY <2>1, <2>2, SizeValues
<1>5. QED  BY <1>2, <1>3, <1>4

LEMMA GetTyped ==
  ASSUME TypeOK, Layout, NEW hand \in Hands, NEW s0 \in Nat,
         s0 % 8 = 0, s0 <= pos, Get(hand, s0)
  PROVE  \E a \in Nat :
           /\ Len(got) + 1 \in 1 .. Len(vals)
           /\ got' = Append(got, a) /\ pos' = a + Size(vals[Len(got) + 1])
           /\ pos' \in Nat /\ pos' % 4 = 0 /\ pos <= a
           /\ PtrSize = 8 => a = AlignUp(pos, Align(vals[Len(got) + 1]))
<1> DEFINE t == vals[Len(got) + 1]
<1> DEFINE a == IF hand = "host" THEN HostGet(pos, t) ELSE FrameSlot(s0, pos, t)
<1>1. pos \in Nat /\ pos % 4 = 0  BY DEF TypeOK, Layout
<1>2. Len(got) + 1 \in 1 .. Len(vals) /\ t \in Types
  BY DEF TypeOK, Get
<1>3. /\ a \in Nat /\ pos <= a /\ a % 4 = 0
      /\ PtrSize = 8 => a = AlignUp(pos, Align(t))
  <2> HIDE DEF t
  <2> QED  BY <1>1, <1>2, PlaceBounds, FrameSlotIsAddress, HostAgrees, ZenonT(60)
<1>4. got' = Append(got, a) /\ pos' = a + Size(t)
  BY DEF Get
<1>5. a + Size(t) \in Nat /\ (a + Size(t)) % 4 = 0
  <2> HIDE DEF a, t
  <2>1. CASE Size(t) = 4  BY <1>3, <2>1
  <2>2. CASE Size(t) = 8  BY <1>3, <2>2
  <2>3. QED  BY <1>2, <2>1, <2>2, SizeValues
<1>6. QED  BY <1>2, <1>3, <1>4, <1>5

LEMMA FrameTyped ==
  ASSUME TypeOK, NEW k \in 1 .. Len(frames)
  PROVE  frames[k].base \in Nat /\ frames[k].limit \in Nat /\ frames[k].hand \in Hands
<1>1. frames[k] \in Frame  BY DEF TypeOK
<1>2. QED  BY <1>1 DEF Frame

(* A new frame starts at a multiple of 8, above the caller's parameters.   *)
LEMMA CallTyped ==
  ASSUME TypeOK, Layout, NEW callee \in Hands, NEW gap \in Nat, gap % 4 = 0,
         Call(callee, gap)
  PROVE  \E base \in Nat :
           /\ frames' = Append(frames, [hand |-> callee, base |-> base, limit |-> base])
           /\ pos' = base /\ base % 8 = 0 /\ base % 4 = 0
           /\ \A k \in 1 .. Len(frames) :
                /\ frames[k].base <= base
                /\ frames[k].hand = "wasm" => frames[k].limit <= base
<1> DEFINE base == IF Top.hand = "host" THEN Top.base
                   ELSE Top.base + CallFrameOffset((Top.limit - Top.base) + gap)
<1>1. /\ Len(frames) \in 1 .. Len(frames)
      /\ Top.base \in Nat /\ Top.limit \in Nat /\ Top.hand \in Hands
  <2>1. Len(frames) \in 1 .. Len(frames)  BY DEF TypeOK
  <2>2. QED  BY <2>1, FrameTyped DEF Top
<1>2. Top.base % 8 = 0 /\ Top.limit % 4 = 0 /\ Top.base <= Top.limit
  BY <1>1 DEF Layout, FramesOrdered, Top
<1>3. CASE Top.hand = "host"
  <2>1. base = Top.base /\ Len(frames) = 1  BY <1>3 DEF Call
  <2>2. \A k \in 1 .. Len(frames) : frames[k].hand # "wasm" /\ frames[k].base <= base
    BY <1>1, <1>3, <2>1 DEF Top
  <2>3. Top.base % 4 = 0  BY <1>1, <1>2
  <2>4. frames' = Append(frames, [hand |-> callee, base |-> base, limit |-> base]) /\ pos' = base
    BY DEF Call
  <2>5. base \in Nat /\ base % 8 = 0 /\ base % 4 = 0  BY <1>1, <1>2, <2>1, <2>3
  <2>6. QED  BY <2>2, <2>4, <2>5
<1>4. CASE Top.hand # "host"
  <2>1. base = Top.base + CallFrameOffset((Top.limit - Top.base) + gap)  BY <1>4
  <2>3. frames' = Append(frames, [hand |-> callee, base |-> base, limit |-> base]) /\ pos' = base
    BY DEF Call
  <2> HIDE DEF base
  <2>2. base \in Nat /\ base % 8 = 0 /\ base % 4 = 0 /\ Top.limit <= base
    BY <1>1, <1>2, <2>1, CallFrameAligned
  <2>6. ASSUME NEW k \in 1 .. Len(frames)
        PROVE  frames[k].base <= base
    <3>1. frames[k].base \in Nat  BY FrameTyped
    <3>2. frames[k].base <= Top.base
      <4>1. CASE k = Len(frames)  BY <1>1, <4>1 DEF Top
      <4>2. CASE k # Len(frames)  BY <1>1, <4>2 DEF Layout, FramesOrdered, Top
      <4>3. QED  BY <4>1, <4>2
    <3>3. base \in Nat /\ Top.limit <= base /\ Top.base <= Top.limit  BY <1>2, <2>2
    <3>4. QED  BY <1>1, <3>1, <3>2, <3>3
  <2>4. ASSUME NEW k \in 1 .. Len(frames), frames[k].hand = "wasm"
        PROVE  frames[k].limit <= base
    <3>1. frames[k].limit \in Nat  BY FrameTyped
    <3>0. base \in Nat /\ Top.limit <= base  BY <2>2
    <3>5. Top.base <= Top.limit  BY <1>2
    <3>2. CASE k = Len(frames)  BY <3>0, <3>2 DEF Top
    <3>3. CASE k # Len(frames)
      <4>1. frames[k].limit <= Top.base  BY <1>1, <2>4, <3>3 DEF Layout, FramesOrdered, Top
      <4>2. QED  BY <1>1, <3>5, <3>0, <3>1, <4>1
    <3>4. QED  BY <3>2, <3>3
  <2>5. QED  BY <2>2, <2>3, <2>4, <2>6
<1>5. QED  BY <1>3, <1>4
-----------------------------------------------------------------------------
(* TypeOK and Layout are inductive.                                        *)

LEMMA PutKeepsLayout ==
  ASSUME TypeOK, Layout, Writing, NEW hand \in Hands, NEW s0 \in Nat, NEW t \in Types,
         s0 % 8 = 0, s0 <= pos, Put(hand, s0, t)
  PROVE  TypeOK' /\ Layout'
<1>1. PICK a \in Nat :
        /\ at' = Append(at, a) /\ vals' = Append(vals, t) /\ pos' = a + Size(t)
        /\ pos' \in Nat /\ pos' % 4 = 0 /\ pos <= a
        /\ a % 4 = 0 /\ a % Align(t) = 0
  BY PutTyped
<1>0. pos' = a + Size(t) /\ pos' \in Nat /\ pos <= a  BY <1>1
<1>2. UNCHANGED <<frames, phase, got>> /\ Len(vals) < MaxVals  BY DEF Put
<1>3. Top' = Top /\ Top.base \in Nat /\ Top.base <= pos /\ pos \in Nat /\ Size(t) \in Nat
  <2>1. Len(frames) \in 1 .. Len(frames)  BY DEF TypeOK
  <2>2. Top.base \in Nat  BY <2>1, FrameTyped DEF Top
  <2>3. Top' = Top  BY <1>2 DEF Top
  <2>4. Top.base <= pos /\ pos \in Nat  BY DEF Layout, Writing, TypeOK
  <2>5. Size(t) \in Nat  BY SizeValues
  <2>6. QED  BY <2>2, <2>3, <2>4, <2>5
<1>4. /\ Len(at') = Len(at) + 1 /\ Len(vals') = Len(vals) + 1 /\ Len(at) = Len(vals)
      /\ \A i \in 1 .. Len(at) : at'[i] = at[i] /\ vals'[i] = vals[i]
      /\ at'[Len(at) + 1] = a /\ vals'[Len(at) + 1] = t
      /\ at \in Seq(Nat) /\ vals \in Seq(Types)
  <2>1. at \in Seq(Nat) /\ vals \in Seq(Types) /\ Len(at) = Len(vals)  BY DEF TypeOK
  <2>2. at' = Append(at, a) /\ vals' = Append(vals, t)  BY <1>1
  <2>3. QED  BY <2>1, <2>2
<1>5. TypeOK'
  <2>1. at' \in Seq(Nat) /\ vals' \in Seq(Types)  BY <1>1, <1>4
  <2>2. QED  BY <1>0, <1>2, <1>4, <2>1, RuntimeStackAssumption DEF TypeOK
<1>6. \A i \in 1 .. Len(at) : at[i] \in Nat /\ Size(vals[i]) \in Nat /\ at[i] + Size(vals[i]) <= a
  <2> TAKE i \in 1 .. Len(at)
  <2>1. at[i] \in Nat /\ vals[i] \in Types  BY <1>4
  <2>2. Size(vals[i]) \in Nat  BY <2>1, SizeValues
  <2>3. at[i] + Size(vals[i]) <= pos  BY DEF Layout
  <2>4. QED  BY <1>0, <1>3, <2>1, <2>2, <2>3
<1>7. NaturallyAligned'
  <2> SUFFICES ASSUME NEW i \in 1 .. Len(at) + 1
               PROVE  at'[i] % Align(vals'[i]) = 0
    BY <1>4 DEF NaturallyAligned, Align, Size
  <2>1. CASE i \in 1 .. Len(at)
    BY <1>4, <2>1 DEF Layout, NaturallyAligned
  <2>2. CASE i = Len(at) + 1
    BY <1>1, <1>4, <2>2
  <2>3. QED  BY <1>4, <2>1, <2>2
<1>8. CallersUntouched'
  <2> SUFFICES ASSUME NEW i \in 1 .. Len(at) + 1, NEW k \in 1 .. Len(frames) - 1,
                      frames[k].hand = "wasm"
               PROVE  frames[k].limit <= at'[i]
    BY <1>2, <1>4 DEF CallersUntouched
  <2>1. CASE i \in 1 .. Len(at)  BY <1>4, <2>1 DEF Layout, CallersUntouched
  <2>2. CASE i = Len(at) + 1
    <3>1. k \in 1 .. Len(frames) /\ Len(frames) \in 1 .. Len(frames) /\ k < Len(frames)
      BY DEF TypeOK
    <3>2. frames[k].limit <= Top.base  BY <3>1 DEF Layout, FramesOrdered, Top
    <3>3. frames[k].limit \in Nat  BY <3>1, FrameTyped
    <3>4. QED  BY <1>0, <1>3, <1>4, <2>2, <3>2, <3>3, SMTT(60)
  <2>3. QED  BY <1>4, <2>1, <2>2
<1>9. SlotsDisjoint'
  <2> SUFFICES ASSUME NEW i \in 1 .. Len(at) + 1, NEW j \in 1 .. Len(at) + 1, i < j
               PROVE  at'[i] + Size(vals'[i]) <= at'[j]
    BY <1>4 DEF SlotsDisjoint, Size
  <2>1. i \in 1 .. Len(at)  BY <1>4
  <2>2. CASE j \in 1 .. Len(at)  BY <1>4, <2>1, <2>2 DEF Layout, SlotsDisjoint
  <2>3. CASE j = Len(at) + 1  BY <1>4, <1>6, <2>1, <2>3
  <2>4. QED  BY <1>4, <2>2, <2>3
<1>10. \A i \in 1 .. Len(at') : at'[i] + Size(vals'[i]) <= pos'
  <2> TAKE i \in 1 .. Len(at')
  <2>1. CASE i \in 1 .. Len(at)
    <3>1. at'[i] = at[i] /\ vals'[i] = vals[i]  BY <1>4, <2>1
    <3>2. at[i] \in Nat /\ Size(vals[i]) \in Nat /\ at[i] + Size(vals[i]) <= a
      BY <1>6, <2>1
    <3>3. a <= pos'  BY <1>0, <1>3
    <3>4. QED  BY <1>0, <3>1, <3>2, <3>3
  <2>2. CASE i = Len(at) + 1  BY <1>0, <1>3, <1>4, <2>2
  <2>3. QED  BY <1>4, <2>1, <2>2
<1>11. phase' # "body" => Top.base <= pos'
  BY <1>0, <1>3
<1>12. QED
  <2>1. FramesOrdered'  BY <1>2 DEF Layout, FramesOrdered
  <2>2. pos' % 4 = 0  BY <1>1
  <2>3. (phase # "body" => Top.base <= pos)'  BY <1>3, <1>11
  <2>4. (\A i \in 1 .. Len(at) : at[i] + Size(vals[i]) <= pos)'  BY <1>10 DEF Size
  <2>5. QED  BY <1>5, <1>7, <1>8, <1>9, <2>1, <2>2, <2>3, <2>4 DEF Layout

(* A step that moves no frame and no slot.                                 *)
LEMMA SameSlotsKeepLayout ==
  ASSUME TypeOK, Layout, UNCHANGED <<frames, vals, at>>, pos' % 4 = 0,
         phase' # "body" => Top.base <= pos', ~Writing'
  PROVE  Layout'
<1>1. frames' = frames /\ vals' = vals /\ at' = at /\ Top' = Top  BY DEF Top
<1>2. (NaturallyAligned /\ CallersUntouched /\ SlotsDisjoint)'
  BY <1>1 DEF Layout, NaturallyAligned, CallersUntouched, SlotsDisjoint, Align, Size
<1>3. FramesOrdered'
  BY <1>1 DEF Layout, FramesOrdered
<1>4. QED  BY <1>1, <1>2, <1>3 DEF Layout

LEMMA GetKeepsLayout ==
  ASSUME TypeOK, Layout, Reading, NEW hand \in Hands, NEW s0 \in Nat,
         s0 % 8 = 0, s0 <= pos, Get(hand, s0)
  PROVE  TypeOK' /\ Layout'
<1>1. PICK a \in Nat :
        /\ Len(got) + 1 \in 1 .. Len(vals)
        /\ got' = Append(got, a) /\ pos' = a + Size(vals[Len(got) + 1])
        /\ pos' \in Nat /\ pos' % 4 = 0 /\ pos <= a
  BY GetTyped
<1>2. UNCHANGED <<frames, phase, vals, at>>  BY DEF Get
<1>0. pos' = a + Size(vals[Len(got) + 1]) /\ pos' \in Nat /\ pos <= a  BY <1>1
<1>3. Size(vals[Len(got) + 1]) \in Nat
  <2>1. vals[Len(got) + 1] \in Types  BY <1>1 DEF TypeOK
  <2>2. QED  BY <2>1, SizeValues
<1>4. TypeOK'
  BY <1>1, <1>2 DEF TypeOK
<1>5. Top.base <= pos'
  <2>1. Len(frames) \in 1 .. Len(frames)  BY DEF TypeOK
  <2>2. Top.base \in Nat  BY <2>1, FrameTyped DEF Top
  <2>3. Top.base <= pos /\ pos \in Nat  BY DEF Layout, Reading, TypeOK
  <2>4. QED  BY <1>0, <1>3, <2>2, <2>3
<1>6. QED
  <2>1. pos' % 4 = 0 /\ (phase' # "body" => Top.base <= pos') /\ ~Writing'
    BY <1>1, <1>2, <1>5 DEF Reading, Writing
  <2>2. QED  BY <1>2, <1>4, <2>1, SameSlotsKeepLayout

LEMMA CallKeepsLayout ==
  ASSUME TypeOK, Layout, NEW callee \in Hands, NEW gap \in Nat, gap % 4 = 0,
         Call(callee, gap)
  PROVE  TypeOK' /\ Layout'
<1>1. PICK base \in Nat :
        /\ frames' = Append(frames, [hand |-> callee, base |-> base, limit |-> base])
        /\ pos' = base /\ base % 8 = 0 /\ base % 4 = 0
        /\ \A k \in 1 .. Len(frames) :
             /\ frames[k].base <= base
             /\ frames[k].hand = "wasm" => frames[k].limit <= base
  BY CallTyped
<1> DEFINE fr == [hand |-> callee, base |-> base, limit |-> base]
<1>2. fr \in Frame  BY DEF Frame
<1>3. fr.hand = callee /\ fr.base = base /\ fr.limit = base  OBVIOUS
<1> HIDE DEF fr
<1>4. frames' = Append(frames, fr) /\ pos' = base  BY <1>1 DEF fr
<1>5. /\ phase' = "args" /\ vals' = <<>> /\ at' = <<>> /\ got' = <<>>
      /\ Len(frames) < MaxFrames
  BY DEF Call
<1>6. /\ Len(frames') = Len(frames) + 1 /\ Len(frames) \in Nat /\ Len(frames) >= 1
      /\ \A k \in 1 .. Len(frames) : frames'[k] = frames[k]
      /\ frames'[Len(frames) + 1] = fr
      /\ frames' \in Seq(Frame)
  BY <1>2, <1>4 DEF TypeOK
<1>7. TypeOK'
  <2>1. Len(frames') \in 1 .. MaxFrames  BY <1>5, <1>6, RuntimeStackAssumption
  <2>2. QED  BY <1>4, <1>5, <1>6, <2>1, RuntimeStackAssumption DEF TypeOK
<1>8. ASSUME NEW k \in 1 .. Len(frames')
      PROVE  frames'[k].base % 8 = 0 /\ frames'[k].limit % 4 = 0 /\ frames'[k].base <= frames'[k].limit
  <2>1. CASE k \in 1 .. Len(frames)  BY <1>6, <2>1 DEF Layout, FramesOrdered
  <2>2. CASE k = Len(frames) + 1
    <3>1. frames'[k].base = base /\ frames'[k].limit = base  BY <1>3, <1>6, <2>2
    <3>2. base % 8 = 0 /\ base % 4 = 0 /\ base <= base  BY <1>1
    <3>3. QED  BY <3>1, <3>2
  <2>3. QED  BY <1>6, <2>1, <2>2
<1>9. ASSUME NEW j \in 1 .. Len(frames'), NEW k \in 1 .. Len(frames'), k < j
      PROVE  /\ frames'[k].base <= frames'[j].base
             /\ frames'[k].hand = "wasm" => frames'[k].limit <= frames'[j].base
  <2>1. k \in 1 .. Len(frames)  BY <1>6, <1>9
  <2>2. CASE j \in 1 .. Len(frames)  BY <1>6, <1>9, <2>1, <2>2 DEF Layout, FramesOrdered
  <2>3. CASE j = Len(frames) + 1  BY <1>1, <1>3, <1>6, <1>9, <2>1, <2>3
  <2>4. QED  BY <1>6, <2>2, <2>3
<1>10. (Top.base <= pos)'
  BY <1>3, <1>4, <1>6 DEF Top
<1>11. QED
  BY <1>1, <1>4, <1>5, <1>7, <1>8, <1>9, <1>10, SMTT(60)
  DEF Layout, FramesOrdered, NaturallyAligned, CallersUntouched, SlotsDisjoint, Writing

LEMMA StartBodyKeepsLayout ==
  ASSUME TypeOK, Layout, StartBody
  PROVE  TypeOK' /\ Layout'
<1> DEFINE n == Len(frames)
<1>1. /\ n \in 1 .. n /\ n \in Nat /\ phase = "params" /\ phase' = "body"
      /\ UNCHANGED <<vals, at, got, pos>>
      /\ frames' = [frames EXCEPT ![n].limit = pos]
  BY DEF StartBody, TypeOK
<1>2. frames[n] \in Frame /\ pos \in Nat /\ pos % 4 = 0 /\ frames[n].base <= pos
  BY <1>1 DEF TypeOK, Layout, FramesOrdered, Top
<1> DEFINE fr == [frames[n] EXCEPT !.limit = pos]
<1>a. fr \in Frame /\ fr.base = frames[n].base /\ fr.hand = frames[n].hand /\ fr.limit = pos
  BY <1>2 DEF Frame
<1>b. frames' = [frames EXCEPT ![n] = fr]  BY <1>1
<1> HIDE DEF n, fr
<1>c. /\ frames' \in Seq(Frame) /\ Len(frames') = n
      /\ \A k \in 1 .. n : frames'[k] = IF k = n THEN fr ELSE frames[k]
  <2>1. frames \in Seq(Frame) /\ n \in 1 .. Len(frames) /\ Len(frames) = n
    BY <1>1 DEF TypeOK, n
  <2>2. /\ frames' \in Seq(Frame) /\ Len(frames') = Len(frames)
        /\ \A k \in 1 .. Len(frames) : frames'[k] = IF k = n THEN fr ELSE frames[k]
    <3>1. fr \in Frame  BY <1>a
    <3>2. QED  BY <2>1, <3>1, <1>b, ExceptSeq
  <2>3. QED  BY <2>1, <2>2
<1>3. /\ Len(frames') = n /\ frames' \in Seq(Frame)
      /\ \A k \in 1 .. n : /\ frames'[k].base = frames[k].base
                           /\ frames'[k].hand = frames[k].hand
                           /\ frames'[k].limit = IF k = n THEN pos ELSE frames[k].limit
  BY <1>a, <1>c
<1>4. TypeOK'
  BY <1>1, <1>3 DEF TypeOK, n
<1>0. at' = at /\ vals' = vals /\ Len(frames) = n  BY <1>1 DEF n
<1>5. (NaturallyAligned /\ SlotsDisjoint)'
  BY <1>0 DEF Layout, NaturallyAligned, SlotsDisjoint, Size, Align
<1>6. CallersUntouched'
  <2> SUFFICES ASSUME NEW i \in 1 .. Len(at), NEW k \in 1 .. n - 1, frames'[k].hand = "wasm"
               PROVE  frames'[k].limit <= at[i]
    BY <1>0, <1>3 DEF CallersUntouched
  <2>1. k \in 1 .. n /\ k # n  BY <1>1
  <2>2. frames[k].hand = "wasm" /\ frames'[k].limit = frames[k].limit  BY <1>3, <2>1
  <2>3. QED  BY <1>0, <2>2 DEF Layout, CallersUntouched
<1>7. FramesOrdered'
  <2>1. ASSUME NEW k \in 1 .. n
        PROVE  /\ frames'[k].base % 8 = 0 /\ frames'[k].limit % 4 = 0
               /\ frames'[k].base <= frames'[k].limit
    <3>1. frames[k].base % 8 = 0 /\ frames[k].limit % 4 = 0 /\ frames[k].base <= frames[k].limit
      BY <1>0 DEF Layout, FramesOrdered
    <3>2. QED  BY <1>2, <1>3, <3>1
  <2>2. ASSUME NEW j \in 1 .. n, NEW k \in 1 .. n, k < j
        PROVE  /\ frames'[k].base <= frames'[j].base
               /\ frames'[k].hand = "wasm" => frames'[k].limit <= frames'[j].base
    <3>1. k # n  BY <1>1, <2>2
    <3>2. /\ frames[k].base <= frames[j].base
          /\ frames[k].hand = "wasm" => frames[k].limit <= frames[j].base
      BY <1>0, <2>2 DEF Layout, FramesOrdered
    <3>3. QED  BY <1>3, <3>1, <3>2
  <2>3. QED  BY <1>3, <2>1, <2>2 DEF FramesOrdered
<1>8. pos' % 4 = 0 /\ phase' = "body" /\ ~Writing'
  BY <1>1, <1>2 DEF Writing
<1>9. QED
  BY <1>4, <1>5, <1>6, <1>7, <1>8 DEF Layout

LEMMA ResumeKeepsLayout ==
  ASSUME TypeOK, Layout, Resume
  PROVE  TypeOK' /\ Layout'
<1>1. /\ phase = "fetch" /\ phase' = "body" /\ UNCHANGED <<vals, at, got, pos>>
      /\ frames' = SubSeq(frames, 1, Len(frames) - 1)
      /\ Len(frames) \in Nat /\ Len(frames) > 1
  BY DEF Resume, TypeOK
<1>2. /\ Len(frames') = Len(frames) - 1
      /\ \A k \in 1 .. Len(frames) - 1 : frames'[k] = frames[k]
      /\ frames' \in Seq(Frame)
  BY <1>1 DEF TypeOK
<1>3. TypeOK'
  BY <1>1, <1>2, RuntimeStackAssumption DEF TypeOK
<1>4. (NaturallyAligned /\ CallersUntouched /\ SlotsDisjoint)'
  <2>1. at' = at /\ vals' = vals  BY <1>1
  <2>2. CallersUntouched'
    <3> SUFFICES ASSUME NEW i \in 1 .. Len(at), NEW k \in 1 .. Len(frames) - 2,
                        frames'[k].hand = "wasm"
                 PROVE  frames'[k].limit <= at[i]
      BY <1>1, <1>2, <2>1 DEF CallersUntouched
    <3>1. k \in 1 .. Len(frames) - 1 /\ frames'[k] = frames[k]  BY <1>1, <1>2
    <3>2. QED  BY <3>1 DEF Layout, CallersUntouched
  <2>3. NaturallyAligned' /\ SlotsDisjoint'
    BY <2>1 DEF Layout, NaturallyAligned, SlotsDisjoint, Size, Align
  <2>4. QED  BY <2>2, <2>3
<1>5. \A k \in 1 .. Len(frames') : k \in 1 .. Len(frames) /\ frames'[k] = frames[k]
  BY <1>1, <1>2
<1>6. FramesOrdered'
  BY <1>5 DEF Layout, FramesOrdered
<1>7. pos' % 4 = 0 /\ phase' = "body" /\ ~Writing'
  BY <1>1 DEF Layout, Writing
<1>8. QED
  BY <1>3, <1>4, <1>6, <1>7 DEF Layout

THEOREM TypeAndLayout == Spec => [](TypeOK /\ Layout)
<1>1. Init => TypeOK /\ Layout
  <2> SUFFICES ASSUME Init PROVE TypeOK /\ Layout  OBVIOUS
  <2>1. [hand |-> "host", base |-> 0, limit |-> 0] \in Frame  BY DEF Frame, Hands
  <2>2. TypeOK  BY <2>1, RuntimeStackAssumption DEF Init, TypeOK
  <2>3. Layout
    BY
    DEF Init, Layout, FramesOrdered, Top, NaturallyAligned, CallersUntouched, SlotsDisjoint, Writing
  <2>4. QED  BY <2>2, <2>3
<1>2. TypeOK /\ Layout /\ [Next]_vars => TypeOK' /\ Layout'
  <2> SUFFICES ASSUME TypeOK, Layout, [Next]_vars PROVE TypeOK' /\ Layout'
    OBVIOUS
  <2>0. /\ Len(frames) \in 1 .. Len(frames)
        /\ Top.base \in Nat /\ Top.limit \in Nat /\ Top.hand \in Hands /\ Top.base % 8 = 0
    <3>1. Len(frames) \in 1 .. Len(frames)  BY DEF TypeOK
    <3>2. QED  BY <3>1, FrameTyped DEF Top, Layout, FramesOrdered
  <2>b. ASSUME phase # "body"
        PROVE  /\ Below.base \in Nat /\ Below.hand \in Hands /\ Below.base % 8 = 0
               /\ Top.base <= pos /\ Below.base <= pos
    <3>1. /\ Len(frames) - 1 \in 1 .. Len(frames) /\ Len(frames) \in 1 .. Len(frames)
          /\ Len(frames) - 1 < Len(frames)
      BY <2>b DEF TypeOK
    <3>2. Below.base \in Nat /\ Below.hand \in Hands  BY <3>1, FrameTyped DEF Below
    <3>3. Below.base % 8 = 0  BY <3>1 DEF Layout, FramesOrdered, Below
    <3>4. Below.base <= Top.base  BY <3>1 DEF Layout, FramesOrdered, Below, Top
    <3>5. Top.base <= pos /\ pos \in Nat  BY <2>b DEF Layout, TypeOK
    <3>6. QED  BY <2>0, <3>2, <3>3, <3>4, <3>5
  <2>1. ASSUME NEW callee \in Hands, NEW gap \in {g \in 0 .. MaxGap : g % 4 = 0},
               Call(callee, gap)
        PROVE  TypeOK' /\ Layout'
    <3>1. gap \in Nat /\ gap % 4 = 0  BY RuntimeStackAssumption
    <3>2. QED  BY <2>1, <3>1, CallKeepsLayout
  <2>2. ASSUME NEW t \in Types, PutArg(t)
        PROVE  TypeOK' /\ Layout'
    BY <2>2, <2>b, PutKeepsLayout DEF PutArg, Writing
  <2>3. ASSUME NEW t \in Types, PutResult(t)
        PROVE  TypeOK' /\ Layout'
    BY <2>3, <2>0, <2>b, PutKeepsLayout DEF PutResult, Writing
  <2>4. CASE GetParam
    BY <2>4, <2>0, <2>b, GetKeepsLayout DEF GetParam, Reading
  <2>5. CASE GetResult
    BY <2>5, <2>b, GetKeepsLayout DEF GetResult, Reading
  <2>6. CASE EnterFunc
    <3>1. pos' = Top.base /\ UNCHANGED <<frames, vals, at, got>> /\ phase' = "params" /\ phase = "args"
      BY <2>6 DEF EnterFunc
    <3>2. Top.base % 4 = 0  BY <2>0
    <3>3. TypeOK'  BY <2>0, <3>1 DEF TypeOK
    <3>4. pos' % 4 = 0 /\ Top.base <= pos' /\ ~Writing'  BY <2>0, <3>1, <3>2 DEF Writing
    <3>5. QED  BY <3>1, <3>3, <3>4, SameSlotsKeepLayout
  <2>7. CASE LeaveFunc
    <3>1. pos' = Top.base /\ UNCHANGED <<frames, vals, at, got>> /\ phase' = "fetch" /\ phase = "results"
      BY <2>7 DEF LeaveFunc
    <3>2. Top.base % 4 = 0  BY <2>0
    <3>3. TypeOK'  BY <2>0, <3>1 DEF TypeOK
    <3>4. pos' % 4 = 0 /\ Top.base <= pos' /\ ~Writing'  BY <2>0, <3>1, <3>2 DEF Writing
    <3>5. QED  BY <3>1, <3>3, <3>4, SameSlotsKeepLayout
  <2>8. CASE Return
    <3>1. /\ pos' = Top.base /\ UNCHANGED frames /\ phase' = "results" /\ Len(frames) > 1
          /\ vals' = <<>> /\ at' = <<>> /\ got' = <<>>
      BY <2>8 DEF Return
    <3>2. Top.base % 4 = 0  BY <2>0
    <3>3. TypeOK'  BY <2>0, <3>1, RuntimeStackAssumption DEF TypeOK
    <3>4. QED
      <4>1. FramesOrdered'  BY <3>1 DEF Layout, FramesOrdered
      <4>2. (NaturallyAligned /\ CallersUntouched /\ SlotsDisjoint)'
        BY <3>1 DEF NaturallyAligned, CallersUntouched, SlotsDisjoint
      <4>3. pos' % 4 = 0 /\ (Top.base <= pos)'  BY <2>0, <3>1, <3>2 DEF Top
      <4>4. \A i \in 1 .. Len(at') : FALSE  BY <3>1
      <4>5. Layout'
        <5>1. (Writing => \A i \in 1 .. Len(at) : at[i] + Size(vals[i]) <= pos)'  BY <4>4
        <5>2. QED  BY <4>1, <4>2, <4>3, <5>1 DEF Layout
      <4>6. QED  BY <3>3, <4>5
  <2>9. CASE StartBody
    BY <2>9, StartBodyKeepsLayout
  <2>10. CASE Resume
    BY <2>10, ResumeKeepsLayout
  <2>11. CASE UNCHANGED vars
    <3>1. /\ frames' = frames /\ phase' = phase /\ vals' = vals /\ at' = at /\ got' = got
          /\ pos' = pos /\ Top' = Top
      BY <2>11 DEF vars, Top
    <3>2. TypeOK'  BY <3>1 DEF TypeOK
    <3>3. (NaturallyAligned /\ CallersUntouched /\ SlotsDisjoint)'
      BY <3>1 DEF Layout, NaturallyAligned, CallersUntouched, SlotsDisjoint, Align, Size
    <3>4. FramesOrdered'  BY <3>1 DEF Layout, FramesOrdered
    <3>5. Writing' => \A i \in 1 .. Len(at') : at'[i] + Size(vals'[i]) <= pos'
      BY <3>1 DEF Layout, Writing
    <3>6. pos' % 4 = 0 /\ (phase # "body" => Top.base <= pos)'  BY <3>1 DEF Layout
    <3>7. QED  BY <3>2, <3>3, <3>4, <3>5, <3>6 DEF Layout, Size
  <2> QED
    BY <2>1, <2>2, <2>3, <2>4, <2>5, <2>6, <2>7, <2>8, <2>9, <2>10, <2>11 DEF Next
<1> QED  BY <1>1, <1>2, PTL DEF Spec

-----------------------------------------------------------------------------
FramesAligned == \A k \in 1 .. Len(frames) : frames[k].base % 8 = 0

(* What Layout says of the layout, for every bound and both pointer sizes. *)

(* Frames are 8-aligned: CallFrameOffset's +4 repairs every odd count of   *)
(* 4-byte values below the arguments.                                      *)
THEOREM AlwaysFramesAligned == Spec => []FramesAligned
<1>1. Layout => FramesAligned  BY DEF Layout, FramesOrdered, FramesAligned
<1>2. QED  BY <1>1, TypeAndLayout, PTL

(* Every load and store that moves an argument or a result is aligned.     *)
THEOREM AlwaysNaturallyAligned == Spec => []NaturallyAligned
<1>1. Layout => NaturallyAligned  BY DEF Layout
<1>2. QED  BY <1>1, TypeAndLayout, PTL

(* No transfer reaches the parameters of a function still running below.   *)
THEOREM AlwaysCallersUntouched == Spec => []CallersUntouched
<1>1. Layout => CallersUntouched  BY DEF Layout
<1>2. QED  BY <1>1, TypeAndLayout, PTL

(* No argument overwrites another, and no result another result.           *)
THEOREM AlwaysSlotsDisjoint == Spec => []SlotsDisjoint
<1>1. Layout => SlotsDisjoint  BY DEF Layout
<1>2. QED  BY <1>1, TypeAndLayout, PTL

-----------------------------------------------------------------------------
(* Agreement is inductive when pointers have 8 bytes.                      *)

LEMMA PutKeepsAgreement ==
  ASSUME PtrSize = 8, TypeOK, Layout, Agreement, Writing,
         NEW hand \in Hands, NEW s0 \in Nat, NEW t \in Types,
         s0 % 8 = 0, s0 <= pos, Put(hand, s0, t)
  PROVE  Agreement'
<1>1. PICK a \in Nat :
        /\ at' = Append(at, a) /\ vals' = Append(vals, t) /\ pos' = a + Size(t)
        /\ a = AlignUp(pos, Align(t))
  BY PutTyped
<1>2. UNCHANGED <<frames, phase, got>> /\ Top' = Top  BY DEF Put, Top
<1>3. /\ Len(at) \in Nat /\ Len(at') = Len(at) + 1 /\ Len(at) = Len(vals)
      /\ \A i \in 1 .. Len(at) : at'[i] = at[i] /\ vals'[i] = vals[i]
      /\ at'[Len(at) + 1] = a /\ vals'[Len(at) + 1] = t
  <2>1. at \in Seq(Nat) /\ vals \in Seq(Types) /\ Len(at) = Len(vals)  BY DEF TypeOK
  <2>2. at' = Append(at, a) /\ vals' = Append(vals, t)  BY <1>1
  <2>3. QED  BY <2>1, <2>2
<1>4. \A i \in 0 .. Len(at) : EndAt(i)' = EndAt(i)
  BY <1>2, <1>3 DEF EndAt, Size
<1>5. phase # "body" /\ Writing' /\ ~Reading'  BY <1>2 DEF Writing, Reading
<1>6. ASSUME NEW i \in 1 .. Len(at')
      PROVE  (at[i] = AlignUp(EndAt(i - 1), Align(vals[i])))'
  <2>1. CASE i \in 1 .. Len(at)
    <3>1. i - 1 \in 0 .. Len(at)  BY <1>3, <2>1
    <3>2. at[i] = AlignUp(EndAt(i - 1), Align(vals[i]))
      BY <1>5, <2>1 DEF Agreement, Chained
    <3>3. EndAt(i - 1)' = EndAt(i - 1) /\ at'[i] = at[i] /\ vals'[i] = vals[i]
      BY <1>3, <1>4, <2>1, <3>1
    <3>4. QED  BY <3>2, <3>3 DEF AlignUp, Align, Size
  <2>2. CASE i = Len(at) + 1
    <3>1. i - 1 \in 0 .. Len(at) /\ i - 1 = Len(at)  BY <1>3, <2>2
    <3>2. pos = EndAt(Len(at))  BY DEF Agreement
    <3>3. EndAt(i - 1)' = pos /\ at'[i] = a /\ vals'[i] = t
      BY <1>3, <1>4, <2>2, <3>1, <3>2
    <3>4. QED  BY <1>1, <3>3 DEF AlignUp, Align, Size
  <2>3. QED  BY <1>3, <2>1, <2>2
<1>7. (pos = EndAt(Len(at)))'
  <2>1. pos' = a + Size(t) /\ Len(at') # 0 /\ at'[Len(at')] = a /\ vals'[Len(at')] = t
    BY <1>1, <1>3
  <2>2. QED  BY <2>1 DEF EndAt, Size
<1>8. ReadWhereWritten'
  BY <1>2 DEF Agreement, ReadWhereWritten
<1>9. Chained'
  BY <1>6 DEF Chained
<1>10. (Writing => got = <<>>)'
  BY <1>2 DEF Agreement
<1>11. QED
  BY <1>5, <1>7, <1>8, <1>9, <1>10 DEF Agreement

LEMMA GetKeepsAgreement ==
  ASSUME PtrSize = 8, TypeOK, Layout, Agreement, Reading,
         NEW hand \in Hands, NEW s0 \in Nat,
         s0 % 8 = 0, s0 <= pos, Get(hand, s0)
  PROVE  Agreement'
<1> DEFINE n == Len(got) + 1
<1>1. PICK a \in Nat :
        /\ n \in 1 .. Len(vals)
        /\ got' = Append(got, a) /\ pos' = a + Size(vals[n])
        /\ a = AlignUp(pos, Align(vals[n]))
  BY GetTyped
<1>2. UNCHANGED <<frames, phase, vals, at>> /\ Top' = Top  BY DEF Get, Top
<1>3. /\ Len(got) \in Nat /\ n - 1 = Len(got) /\ Len(got') = n /\ Len(at) = Len(vals)
      /\ \A i \in 1 .. Len(got) : got'[i] = got[i]
      /\ got'[n] = a
  BY <1>1 DEF TypeOK
<1>4. phase # "body" /\ ~Writing' /\ Reading'  BY <1>2 DEF Writing, Reading
<1>5. a = at[n]
  <2>1. pos = EndAt(n - 1)  BY <1>3 DEF Agreement
  <2>2. at[n] = AlignUp(EndAt(n - 1), Align(vals[n]))
    BY <1>1, <1>3, <1>4 DEF Agreement, Chained
  <2>3. QED  BY <1>1, <2>1, <2>2
<1>6. ReadWhereWritten'
  <2>1. \A i \in 1 .. Len(got) : got[i] = at[i]  BY DEF Agreement, ReadWhereWritten
  <2>2. QED  BY <1>2, <1>3, <1>5, <2>1 DEF ReadWhereWritten
<1>7. (pos = EndAt(Len(got)))'
  <2>1. n # 0 /\ Len(got') = n  BY <1>3
  <2>2. pos' = at[n] + Size(vals[n])  BY <1>1, <1>5
  <2>3. at' = at /\ vals' = vals  BY <1>2
  <2> HIDE DEF n
  <2>4. QED  BY <2>1, <2>2, <2>3 DEF EndAt, Size
<1>8. Chained'
  <2>1. Chained  BY <1>4 DEF Agreement
  <2>2. at' = at /\ vals' = vals /\ Top' = Top  BY <1>2
  <2>3. QED  BY <2>1, <2>2 DEF Chained, EndAt, AlignUp, Align, Size
<1>9. QED
  BY <1>4, <1>6, <1>7, <1>8 DEF Agreement

LEMMA StepKeepsAgreement ==
  ASSUME PtrSize = 8, TypeOK, Layout, Agreement, [Next]_vars
  PROVE  Agreement'
<1>0. Len(frames) \in 1 .. Len(frames) /\ Top.base \in Nat /\ Top.hand \in Hands /\ Top.base % 8 = 0
  <2>1. Len(frames) \in 1 .. Len(frames)  BY DEF TypeOK
  <2>2. QED  BY <2>1, FrameTyped DEF Top, Layout, FramesOrdered
<1>b. ASSUME phase # "body"
      PROVE  /\ Below.base \in Nat /\ Below.hand \in Hands /\ Below.base % 8 = 0
             /\ Top.base <= pos /\ Below.base <= pos
  <2>1. /\ Len(frames) - 1 \in 1 .. Len(frames) /\ Len(frames) \in 1 .. Len(frames)
        /\ Len(frames) - 1 < Len(frames)
    BY <1>b DEF TypeOK
  <2>2. Below.base \in Nat /\ Below.hand \in Hands  BY <2>1, FrameTyped DEF Below
  <2>3. Below.base % 8 = 0  BY <2>1 DEF Layout, FramesOrdered, Below
  <2>4. Below.base <= Top.base  BY <2>1 DEF Layout, FramesOrdered, Below, Top
  <2>5. Top.base <= pos /\ pos \in Nat  BY <1>b DEF Layout, TypeOK
  <2>6. QED  BY <1>0, <2>2, <2>3, <2>4, <2>5
<1>1. ASSUME NEW callee \in Hands, NEW gap \in {g \in 0 .. MaxGap : g % 4 = 0},
             Call(callee, gap)
      PROVE  Agreement'
  <2>1. gap \in Nat /\ gap % 4 = 0  BY RuntimeStackAssumption
  <2>2. PICK base \in Nat :
          /\ frames' = Append(frames, [hand |-> callee, base |-> base, limit |-> base])
          /\ pos' = base
    BY <1>1, <2>1, CallTyped
  <2>3. phase' = "args" /\ vals' = <<>> /\ at' = <<>> /\ got' = <<>>
    BY <1>1 DEF Call
  <2>4. Top'.base = base
    BY <2>2 DEF Top, TypeOK
  <2>5. QED
    BY <2>2, <2>3, <2>4 DEF Agreement, Writing, Reading, EndAt, Chained, ReadWhereWritten
<1>2. ASSUME NEW t \in Types, PutArg(t)
      PROVE  Agreement'
  BY <1>2, <1>b, PutKeepsAgreement DEF PutArg, Writing
<1>3. ASSUME NEW t \in Types, PutResult(t)
      PROVE  Agreement'
  BY <1>3, <1>0, <1>b, PutKeepsAgreement DEF PutResult, Writing
<1>4. CASE GetParam
  BY <1>4, <1>0, <1>b, GetKeepsAgreement DEF GetParam, Reading
<1>5. CASE GetResult
  BY <1>5, <1>b, GetKeepsAgreement DEF GetResult, Reading
<1>6. CASE EnterFunc
  <2>1. /\ pos' = Top.base /\ UNCHANGED <<frames, vals, at, got>>
        /\ phase = "args" /\ phase' = "params" /\ got = <<>>
    BY <1>6 DEF EnterFunc, Agreement, Writing
  <2>2. QED
    BY <2>1
    DEF Agreement, Writing, Reading, EndAt, Chained, ReadWhereWritten, Top, AlignUp, Align, Size
<1>7. CASE LeaveFunc
  <2>1. /\ pos' = Top.base /\ UNCHANGED <<frames, vals, at, got>>
        /\ phase = "results" /\ phase' = "fetch" /\ got = <<>>
    BY <1>7 DEF LeaveFunc, Agreement, Writing
  <2>2. QED
    BY <2>1
    DEF Agreement, Writing, Reading, EndAt, Chained, ReadWhereWritten, Top, AlignUp, Align, Size
<1>8. CASE Return
  BY <1>8 DEF Return, Agreement, Writing, Reading, EndAt, Chained, ReadWhereWritten, Top
<1>9. CASE StartBody
  BY <1>9 DEF StartBody, Agreement, Writing, Reading, ReadWhereWritten
<1>10. CASE Resume
  BY <1>10 DEF Resume, Agreement, Writing, Reading, ReadWhereWritten
<1>11. CASE UNCHANGED vars
  BY <1>11
  DEF vars, Agreement, Writing, Reading, EndAt, Chained, ReadWhereWritten, Top, AlignUp, Align, Size
<1> QED
  BY <1>1, <1>2, <1>3, <1>4, <1>5, <1>6, <1>7, <1>8, <1>9, <1>10, <1>11 DEF Next

(* Host and compiled code agree on every address of every transfer of      *)
(* arguments or results when pointers have 8 bytes.  The hypothesis is     *)
(* needed: RuntimeStack32.cfg has the counterexample for 4 bytes.          *)
THEOREM HandsAgree ==
  ASSUME PtrSize = 8
  PROVE  Spec => []ReadWhereWritten
<1>1. Init => Agreement
  BY DEF Init, Agreement, Writing, Reading, ReadWhereWritten
<1>2. TypeOK /\ Layout /\ Agreement /\ [Next]_vars => Agreement'
  BY StepKeepsAgreement
<1>3. Agreement => ReadWhereWritten
  BY DEF Agreement
<1>4. QED  BY <1>1, <1>2, <1>3, TypeAndLayout, PTL DEF Spec

(*-------------------------------------------------------------------------*)
(* The memory: LinearMemory                                                *)
(*-------------------------------------------------------------------------*)

Memory == [pages : Nat, fixed : BOOLEAN, bytes : 0 .. MaxMoves, maximum : Nat]
Code == [mode : Modes, const : 0 .. MaxMoves]
Running == [fn : Funcs, base : 0 .. MaxMoves]

(* The memory has a block and at least one page.                           *)
Sized ==
  /\ mem.bytes # NULL
  /\ mem.pages \in 1 .. mem.maximum
  /\ ~mem.fixed => mem.maximum = DefaultMax
  /\ \A delta \in Deltas : delta + mem.maximum < Word

(* What each function decided when it was compiled still fits the memory.  *)
Decided ==
  \A f \in Funcs :
    /\ code[f].mode # "raw"
    /\ code[f].mode = "constant" => mem.fixed /\ code[f].const = mem.bytes
    /\ code[f].mode = "cached" => ~mem.fixed

(* A running function that uses a constant holds the base of the block.    *)
Held ==
  \A i \in 1 .. Len(stack) :
    /\ code[stack[i].fn].mode # "none"
    /\ code[stack[i].fn].mode = "constant" => stack[i].base = mem.bytes

MemoryInv == MemoryTypeOK /\ Sized /\ Decided /\ Held /\ BaseCurrent

-----------------------------------------------------------------------------

(* The components of a well-typed state.                                   *)
LEMMA MemoryParts ==
  ASSUME MemoryTypeOK
  PROVE  /\ mem \in Memory /\ mem.pages \in Nat /\ mem.maximum \in Nat
         /\ mem.bytes \in 0 .. MaxMoves /\ mem.fixed \in BOOLEAN
         /\ \A f \in Funcs : code[f] \in Code /\ code[f].mode \in Modes
         /\ stack \in Seq(Running)
         /\ \A i \in 1 .. Len(stack) :
              /\ stack[i] \in Running /\ stack[i].fn \in Funcs
              /\ stack[i].base \in 0 .. MaxMoves
<1>1. mem \in Memory /\ stack \in Seq(Running)  BY DEF MemoryTypeOK, Memory, Running
<1>2. /\ mem.pages \in Nat /\ mem.maximum \in Nat
      /\ mem.bytes \in 0 .. MaxMoves /\ mem.fixed \in BOOLEAN
  BY <1>1 DEF Memory
<1>3. \A f \in Funcs : code[f] \in Code /\ code[f].mode \in Modes  BY DEF MemoryTypeOK, Code
<1>4. \A i \in 1 .. Len(stack) : stack[i] \in Running  BY <1>1
<1>5. \A i \in 1 .. Len(stack) : stack[i].fn \in Funcs /\ stack[i].base \in 0 .. MaxMoves
  BY <1>4 DEF Running
<1>6. QED  BY <1>1, <1>2, <1>3, <1>4, <1>5

(* A frame that starts now holds the right base.                           *)
LEMMA NewFrame ==
  ASSUME MemoryInv, NEW f \in Funcs, code[f].mode # "none"
  PROVE  /\ Activation(f) \in Running /\ Activation(f).fn = f
         /\ code[f].mode = "constant" => Activation(f).base = mem.bytes
         /\ BaseOf(Activation(f)) = mem.bytes
<1>1. code[f].mode \in {"constant", "cached", "direct"}
  BY MemoryParts DEF MemoryInv, Decided, Modes
<1>2. /\ code[f].const \in 0 .. MaxMoves /\ mem.bytes \in 0 .. MaxMoves
      /\ 0 \in 0 .. MaxMoves
  <2>1. code[f] \in Code  BY MemoryParts DEF MemoryInv
  <2>2. QED  BY <2>1, MemoryParts, LinearMemoryAssumption DEF MemoryInv, Code
<1>3. code[f].mode = "constant" => EntryBase(f) = mem.bytes
  BY DEF MemoryInv, Decided, EntryBase
<1>4. code[f].mode = "cached" => EntryBase(f) = mem.bytes
  BY DEF EntryBase
<1>5. code[f].mode = "direct" => EntryBase(f) = 0
  BY DEF EntryBase, NULL
<1>6. EntryBase(f) \in 0 .. MaxMoves  BY <1>1, <1>2, <1>3, <1>4, <1>5
<1>7. QED
  BY <1>1, <1>3, <1>4, <1>6 DEF Activation, BaseOf, Running

(* A frame that becomes innermost again after a call holds the right base. *)
LEMMA ReloadedFrame ==
  ASSUME MemoryInv, NEW i \in 1 .. Len(stack)
  PROVE  /\ Reloaded(stack[i], mem.bytes) \in Running
         /\ Reloaded(stack[i], mem.bytes).fn = stack[i].fn
         /\ code[stack[i].fn].mode = "constant" => Reloaded(stack[i], mem.bytes).base = mem.bytes
         /\ BaseOf(Reloaded(stack[i], mem.bytes)) = mem.bytes
<1> DEFINE fr == stack[i]
<1>1. /\ fr \in Running /\ fr.fn \in Funcs /\ fr.base \in 0 .. MaxMoves
      /\ mem.bytes \in 0 .. MaxMoves
  BY MemoryParts DEF MemoryInv
<1>2. code[fr.fn].mode \in {"constant", "cached", "direct"}
  BY <1>1, MemoryParts DEF MemoryInv, Decided, Held, Modes
<1>3. code[fr.fn].mode = "constant" => fr.base = mem.bytes  BY DEF MemoryInv, Held
<1> HIDE DEF fr
<1>4. [fr EXCEPT !.base = mem.bytes] \in Running
      /\ [fr EXCEPT !.base = mem.bytes].fn = fr.fn
      /\ [fr EXCEPT !.base = mem.bytes].base = mem.bytes
  BY <1>1 DEF Running
<1>5. /\ Reloaded(fr, mem.bytes) \in Running
      /\ Reloaded(fr, mem.bytes).fn = fr.fn
      /\ code[fr.fn].mode = "constant" => Reloaded(fr, mem.bytes).base = mem.bytes
      /\ BaseOf(Reloaded(fr, mem.bytes)) = mem.bytes
  BY <1>1, <1>2, <1>3, <1>4 DEF Reloaded, BaseOf
<1>6. QED  BY <1>5 DEF fr

-----------------------------------------------------------------------------
(* One lemma per action that changes the memory, the code or the stack.    *)

LEMMA CompileKeepsInv ==
  ASSUME MemoryInv, NEW f \in Funcs, NEW first \in BOOLEAN, Compile(f, first)
  PROVE  MemoryInv'
<1> DEFINE c == [mode |-> IF mem.bytes = NULL THEN "raw"
                          ELSE IF ~first THEN "direct"
                          ELSE IF mem.fixed THEN "constant" ELSE "cached",
                 const |-> mem.bytes]
<1>1. /\ code[f].mode = "none" /\ code' = [code EXCEPT ![f] = c]
      /\ UNCHANGED <<mem, size, data, moves, stack, out, wild>>
  BY DEF Compile
<1>2. mem.bytes # NULL /\ mem.bytes \in 0 .. MaxMoves  BY MemoryParts DEF MemoryInv, Sized
<1>3. /\ c \in Code /\ c.const = mem.bytes /\ c.mode \in {"direct", "constant", "cached"}
      /\ c.mode = "constant" => mem.fixed
      /\ c.mode = "cached" => ~mem.fixed
  BY <1>2 DEF Code, Modes
<1> HIDE DEF c
<1>4. code \in [Funcs -> Code]  BY DEF MemoryInv, MemoryTypeOK, Code
<1>5. code' \in [Funcs -> Code] /\ \A g \in Funcs : code'[g] = IF g = f THEN c ELSE code[g]
  BY <1>1, <1>3, <1>4
<1>6. MemoryTypeOK'
  BY <1>1, <1>5 DEF MemoryInv, MemoryTypeOK, Code
<1>7. \A i \in 1 .. Len(stack) : stack[i].fn \in Funcs /\ stack[i].fn # f
  BY <1>1, MemoryParts DEF MemoryInv, Held
<1>8. Decided'
  BY <1>1, <1>3, <1>5 DEF MemoryInv, Decided
<1>9. Held'
  BY <1>1, <1>5, <1>7 DEF MemoryInv, Held
<1>10. BaseCurrent'
  <2> SUFFICES ASSUME stack # <<>> PROVE BaseOf(Active)' = mem.bytes
    BY <1>1 DEF BaseCurrent
  <2>1. Len(stack) \in 1 .. Len(stack)  BY MemoryParts DEF MemoryInv
  <2>2. Active' = Active /\ Active.fn \in Funcs /\ Active.fn # f
    BY <1>1, <1>7, <2>1 DEF Active
  <2>3. BaseOf(Active) = mem.bytes  BY DEF MemoryInv, BaseCurrent
  <2>4. QED  BY <1>1, <1>5, <2>2, <2>3 DEF BaseOf
<1>11. Sized'  BY <1>1 DEF MemoryInv, Sized
<1>12. QED  BY <1>6, <1>8, <1>9, <1>10, <1>11 DEF MemoryInv

(* Steps that only put a frame on top, or take frames away.                *)
LEMMA StackKeepsInv ==
  ASSUME MemoryInv, UNCHANGED <<mem, size, data, moves, code, out, wild>>,
         stack' \in Seq(Running), Len(stack') <= MaxDepth,
         \A i \in 1 .. Len(stack') :
           /\ code[stack'[i].fn].mode # "none"
           /\ code[stack'[i].fn].mode = "constant" => stack'[i].base = mem.bytes,
         stack' # <<>> => BaseOf(stack'[Len(stack')]) = mem.bytes
  PROVE  MemoryInv'
<1>1. MemoryTypeOK'  BY DEF MemoryInv, MemoryTypeOK, Running
<1>2. Sized' /\ Decided'  BY DEF MemoryInv, Sized, Decided
<1>3. Held'  BY DEF Held
<1>4. BaseCurrent'  BY DEF BaseCurrent, BaseOf, Active
<1>5. QED  BY <1>1, <1>2, <1>3, <1>4 DEF MemoryInv

LEMMA EnterKeepsInv ==
  ASSUME MemoryInv, NEW f \in Funcs, Enter(f)
  PROVE  MemoryInv'
<1>1. /\ code[f].mode # "none" /\ Len(stack) < MaxDepth
      /\ stack' = Append(stack, Activation(f))
      /\ UNCHANGED <<mem, size, data, moves, code, out, wild>>
  BY DEF Enter
<1>2. /\ Activation(f) \in Running /\ Activation(f).fn = f
      /\ code[f].mode = "constant" => Activation(f).base = mem.bytes
      /\ BaseOf(Activation(f)) = mem.bytes
  BY <1>1, NewFrame
<1>3. stack \in Seq(Running)  BY MemoryParts DEF MemoryInv
<1>4. /\ stack' \in Seq(Running) /\ Len(stack') = Len(stack) + 1 /\ Len(stack) \in Nat
      /\ \A i \in 1 .. Len(stack) : stack'[i] = stack[i]
      /\ stack'[Len(stack) + 1] = Activation(f)
  BY <1>1, <1>2, <1>3
<1>5. ASSUME NEW i \in 1 .. Len(stack')
      PROVE  /\ code[stack'[i].fn].mode # "none"
             /\ code[stack'[i].fn].mode = "constant" => stack'[i].base = mem.bytes
  <2>1. CASE i \in 1 .. Len(stack)  BY <1>4, <2>1 DEF MemoryInv, Held
  <2>2. CASE i = Len(stack) + 1  BY <1>1, <1>2, <1>4, <2>2
  <2>3. QED  BY <1>4, <2>1, <2>2
<1>6. Len(stack') <= MaxDepth  BY <1>1, <1>4, LinearMemoryAssumption
<1>7. BaseOf(stack'[Len(stack')]) = mem.bytes  BY <1>2, <1>4, SMTT(30)
<1>8. QED  BY <1>1, <1>4, <1>5, <1>6, <1>7, StackKeepsInv

LEMMA TailCallKeepsInv ==
  ASSUME MemoryInv, NEW f \in Funcs, TailCall(f)
  PROVE  MemoryInv'
<1>1. /\ code[f].mode # "none" /\ stack # <<>>
      /\ stack' = [stack EXCEPT ![Len(stack)] = Activation(f)]
      /\ UNCHANGED <<mem, size, data, moves, code, out, wild>>
  BY DEF TailCall
<1>2. /\ Activation(f) \in Running /\ Activation(f).fn = f
      /\ code[f].mode = "constant" => Activation(f).base = mem.bytes
      /\ BaseOf(Activation(f)) = mem.bytes
  BY <1>1, NewFrame
<1>3. stack \in Seq(Running) /\ Len(stack) \in 1 .. Len(stack) /\ Len(stack) <= MaxDepth
  BY <1>1, MemoryParts DEF MemoryInv, MemoryTypeOK
<1>4. /\ stack' \in Seq(Running) /\ Len(stack') = Len(stack)
      /\ \A i \in 1 .. Len(stack) : stack'[i] = IF i = Len(stack) THEN Activation(f) ELSE stack[i]
  BY <1>1, <1>2, <1>3
<1>5. ASSUME NEW i \in 1 .. Len(stack')
      PROVE  /\ code[stack'[i].fn].mode # "none"
             /\ code[stack'[i].fn].mode = "constant" => stack'[i].base = mem.bytes
  <2>1. CASE i = Len(stack)  BY <1>1, <1>2, <1>4, <2>1
  <2>2. CASE i # Len(stack)  BY <1>4, <2>2 DEF MemoryInv, Held
  <2>3. QED  BY <2>1, <2>2
<1>6. BaseOf(stack'[Len(stack')]) = mem.bytes  BY <1>2, <1>3, <1>4
<1>7. QED  BY <1>1, <1>3, <1>4, <1>5, <1>6, StackKeepsInv

LEMMA LeaveKeepsInv ==
  ASSUME MemoryInv, Leave
  PROVE  MemoryInv'
<1> DEFINE n == Len(stack) - 1
<1>1. /\ stack # <<>>
      /\ stack' = [i \in 1 .. n |-> IF i = n THEN Reloaded(stack[i], mem.bytes) ELSE stack[i]]
      /\ UNCHANGED <<mem, size, data, moves, code, out, wild>>
  BY DEF Leave
<1>2. /\ stack \in Seq(Running) /\ n \in Nat /\ n <= MaxDepth
      /\ \A i \in 1 .. n : i \in 1 .. Len(stack)
  <2>1. stack \in Seq(Running) /\ stack # <<>>  BY <1>1, MemoryParts DEF MemoryInv
  <2>2. Len(stack) \in Nat /\ Len(stack) # 0 /\ Len(stack) <= MaxDepth
    BY <2>1 DEF MemoryInv, MemoryTypeOK
  <2>3. QED  BY <2>1, <2>2, LinearMemoryAssumption
<1>3. \A i \in 1 .. n :
        /\ Reloaded(stack[i], mem.bytes) \in Running
        /\ Reloaded(stack[i], mem.bytes).fn = stack[i].fn
        /\ code[stack[i].fn].mode = "constant" => Reloaded(stack[i], mem.bytes).base = mem.bytes
        /\ BaseOf(Reloaded(stack[i], mem.bytes)) = mem.bytes
        /\ stack[i] \in Running
  BY <1>2, ReloadedFrame, MemoryParts DEF MemoryInv
<1> HIDE DEF n
<1>4. /\ stack' \in Seq(Running) /\ Len(stack') = n
      /\ \A i \in 1 .. n : stack'[i] = IF i = n THEN Reloaded(stack[i], mem.bytes) ELSE stack[i]
  BY <1>1, <1>2, <1>3
<1>5. ASSUME NEW i \in 1 .. Len(stack')
      PROVE  /\ code[stack'[i].fn].mode # "none"
             /\ code[stack'[i].fn].mode = "constant" => stack'[i].base = mem.bytes
  <2>1. /\ code[stack[i].fn].mode # "none"
        /\ code[stack[i].fn].mode = "constant" => stack[i].base = mem.bytes
    BY <1>2, <1>4 DEF MemoryInv, Held
  <2>2. QED  BY <1>3, <1>4, <2>1
<1>6. stack' # <<>> => BaseOf(stack'[Len(stack')]) = mem.bytes
  BY <1>2, <1>3, <1>4
<1>7. QED  BY <1>1, <1>2, <1>4, <1>5, <1>6, StackKeepsInv

(* What memory.grow makes of the number of pages when nothing wraps.       *)
LEMMA WantedGrows ==
  ASSUME MemoryInv, NEW delta \in Deltas
  PROVE  Wanted(delta) = delta + mem.pages /\ mem.pages <= Wanted(delta)
         /\ Wanted(delta) \in Nat
<1>1. delta \in Nat /\ delta + mem.maximum < Word /\ Word \in Nat /\ mem.maximum \in Nat
  BY LinearMemoryAssumption, MemoryParts DEF MemoryInv, Sized
<1>2. mem.pages \in 1 .. mem.maximum  BY DEF MemoryInv, Sized
<1>3. delta + mem.pages \in 0 .. Word - 1  BY <1>1, <1>2
<1>4. (delta + mem.pages) % Word = delta + mem.pages  BY <1>1, <1>3
<1>5. QED  BY <1>1, <1>2, <1>4 DEF Wanted

(* realloc answers an address, since something is asked for.               *)
LEMMA MovedSomewhere ==
  ASSUME NoWrap, MemoryInv, NEW n \in Nat, n # 0, NEW b \in Moved(n), moves < MaxMoves
  PROVE  b \in 0 .. MaxMoves /\ b # NULL /\ moves + 1 \in 0 .. MaxMoves
<1>1. moves \in 0 .. MaxMoves /\ mem.bytes \in 0 .. MaxMoves /\ mem.bytes # NULL
  BY MemoryParts DEF MemoryInv, MemoryTypeOK, Sized
<1>2. b \in {moves + 1, mem.bytes}  BY DEF Moved
<1>3. QED  BY <1>1, <1>2, LinearMemoryAssumption DEF NULL

LEMMA BytesTyped ==
  ASSUME NEW p \in Nat
  PROVE  Bytes(p) \in Nat
<1>1. p * PageSize \in Int  BY LinearMemoryAssumption
<1>2. QED  BY <1>1, LinearMemoryAssumption DEF Bytes

LEMMA GrowMovesKeepsInv ==
  ASSUME NoWrap, MemoryInv, NEW delta \in Deltas, GrowMoves(delta)
  PROVE  MemoryInv'
<1>1. /\ stack # <<>> /\ ~mem.fixed /\ moves < MaxMoves
      /\ Wanted(delta) <= mem.maximum /\ size' = Bytes(Wanted(delta))
      /\ stack' = [stack EXCEPT ![Len(stack)] = Reloaded(Active, mem'.bytes)]
      /\ out' = <<"grew", mem.pages>> /\ UNCHANGED code
  BY DEF GrowMoves
<1>2. PICK b \in Moved(size') :
        /\ mem' = [mem EXCEPT !.pages = Wanted(delta), !.bytes = b]
        /\ moves' = IF b = moves + 1 THEN b ELSE moves
  BY DEF GrowMoves
<1>3. /\ Wanted(delta) \in Nat /\ mem.pages <= Wanted(delta)
      /\ mem.pages \in 1 .. mem.maximum /\ mem.maximum = DefaultMax
  BY <1>1, WantedGrows DEF MemoryInv, Sized
<1>4. Wanted(delta) \in 1 .. mem.maximum  BY <1>1, <1>3, LinearMemoryAssumption
<1>5. size' \in Nat /\ size' # 0  BY <1>1, <1>3, <1>4, BytesTyped DEF NoWrap
<1>6. b \in 0 .. MaxMoves /\ b # NULL /\ moves + 1 \in 0 .. MaxMoves
  BY <1>1, <1>2, <1>5, MovedSomewhere
<1>7. /\ mem' \in Memory /\ mem'.pages = Wanted(delta) /\ mem'.bytes = b
      /\ mem'.fixed = mem.fixed /\ mem'.maximum = mem.maximum
  <2>1. mem \in Memory  BY MemoryParts DEF MemoryInv
  <2>2. QED  BY <1>2, <1>3, <1>6, <2>1 DEF Memory
<1>8. moves' \in 0 .. MaxMoves  BY <1>2, <1>6 DEF MemoryInv, MemoryTypeOK
<1>9. /\ Active \in Running /\ Active.fn \in Funcs /\ Len(stack) \in 1 .. Len(stack)
      /\ code[Active.fn].mode \in {"cached", "direct"}
  <2>1. stack \in Seq(Running) /\ stack # <<>>  BY <1>1, MemoryParts DEF MemoryInv
  <2>2. Len(stack) \in 1 .. Len(stack)  BY <2>1
  <2>3. Active \in Running /\ Active.fn \in Funcs
    BY <2>2, MemoryParts DEF MemoryInv, Active
  <2>4. code[Active.fn].mode \in Modes  BY <2>3, MemoryParts DEF MemoryInv
  <2>5. code[Active.fn].mode \notin {"none", "raw", "constant"}
    BY <1>1, <2>2, <2>3 DEF MemoryInv, Held, Decided, Active
  <2>6. QED  BY <2>2, <2>3, <2>4, <2>5 DEF Modes
<1>10. /\ Reloaded(Active, mem'.bytes) \in Running
       /\ Reloaded(Active, mem'.bytes).fn = Active.fn
       /\ code[Active.fn].mode = "cached" => Reloaded(Active, mem'.bytes).base = b
  BY <1>6, <1>7, <1>9 DEF Reloaded, Running
<1>11. /\ stack \in Seq(Running) /\ stack' \in Seq(Running) /\ Len(stack') = Len(stack)
       /\ \A i \in 1 .. Len(stack) :
            stack'[i] = IF i = Len(stack) THEN Reloaded(Active, mem'.bytes) ELSE stack[i]
       /\ Len(stack) <= MaxDepth
  <2>1. stack \in Seq(Running) /\ Len(stack) <= MaxDepth
    BY MemoryParts DEF MemoryInv, MemoryTypeOK
  <2>2. QED  BY <1>1, <1>9, <1>10, <2>1
<1>12. MemoryTypeOK'
  <2>1. data' \in [PageIndex -> {"zero", "stored", "junk"}]
    BY DEF GrowMoves, MemoryInv, MemoryTypeOK
  <2>2. wild' \in BOOLEAN  BY DEF GrowMoves
  <2>3. out' \in {"grew"} \X Nat  BY <1>1, MemoryParts DEF MemoryInv
  <2>4. QED
    BY <1>1, <1>5, <1>7, <1>8, <1>11, <2>1, <2>2, <2>3
    DEF MemoryInv, MemoryTypeOK, Memory, Running
<1>13. Sized'  BY <1>3, <1>4, <1>6, <1>7 DEF MemoryInv, Sized, NULL
<1>14. Decided'  BY <1>1, <1>7 DEF MemoryInv, Decided
<1>15. Held'
  <2> SUFFICES ASSUME NEW i \in 1 .. Len(stack)
               PROVE  /\ code[stack'[i].fn].mode # "none"
                      /\ code[stack'[i].fn].mode # "constant"
    BY <1>1, <1>11 DEF Held
  <2>1. stack'[i].fn = stack[i].fn /\ stack[i].fn \in Funcs
    BY <1>10, <1>11, MemoryParts DEF MemoryInv, Active
  <2>2. QED  BY <1>1, <2>1, SMTT(30) DEF MemoryInv, Held, Decided
<1>16. BaseCurrent'
  <2>1. Active' = Reloaded(Active, mem'.bytes)  BY <1>9, <1>11 DEF Active
  <2>2. QED  BY <1>1, <1>7, <1>9, <1>10, <2>1 DEF BaseCurrent, BaseOf
<1>17. QED  BY <1>12, <1>13, <1>14, <1>15, <1>16 DEF MemoryInv

(* Steps that keep the block where it is, and the code and the stack.      *)
LEMMA SameBlockKeepsInv ==
  ASSUME MemoryInv, MemoryTypeOK', UNCHANGED <<code, stack>>, Sized',
         mem'.bytes = mem.bytes, mem'.fixed = mem.fixed
  PROVE  MemoryInv'
<1>1. Decided' /\ Held'  BY DEF MemoryInv, Decided, Held
<1>2. BaseCurrent'  BY DEF MemoryInv, BaseCurrent, BaseOf, Active
<1>3. QED  BY <1>1, <1>2 DEF MemoryInv

LEMMA InitMemory ==
  ASSUME NoWrap, MemoryInit
  PROVE  MemoryInv
<1>1. PICK d \in Declared :
        /\ size = Allocated(d)
        /\ \E b \in {1} \cup (IF size = 0 THEN {NULL} ELSE {}) :
             /\ moves = b
             /\ mem = [pages |-> d.initial, fixed |-> d.limited, bytes |-> b,
                       maximum |-> Maximum(d)]
  BY DEF MemoryInit
<1>2. /\ d.initial \in Nat /\ d.limited \in BOOLEAN /\ d.maximum \in Nat
      /\ size # 0 /\ d.initial \in 1 .. Maximum(d)
      /\ \A delta \in Deltas : delta + Maximum(d) < Word
      /\ Maximum(d) \in Nat /\ (~d.limited => Maximum(d) = DefaultMax)
  BY <1>1, LinearMemoryAssumption DEF NoWrap, Maximum
<1>3. /\ moves = 1
      /\ mem = [pages |-> d.initial, fixed |-> d.limited, bytes |-> 1,
                maximum |-> Maximum(d)]
  BY <1>1, <1>2
<1>4. size \in Nat
  BY <1>1, <1>2, BytesTyped DEF Allocated
<1>5. MemoryTypeOK
  <2>1. /\ data = [p \in PageIndex |-> IF (p + 1) * PageSize <= size THEN "zero" ELSE "junk"]
        /\ code = [f \in Funcs |-> [mode |-> "none", const |-> NULL]]
        /\ stack = <<>> /\ out = <<"none">> /\ wild = FALSE
    BY DEF MemoryInit
  <2>2. mem \in Memory  BY <1>2, <1>3, LinearMemoryAssumption DEF Memory
  <2>3. code \in [Funcs -> Code]  BY <2>1, LinearMemoryAssumption DEF Code, Modes, NULL
  <2>4. data \in [PageIndex -> {"zero", "stored", "junk"}]  BY <2>1
  <2>5. stack \in Seq(Running) /\ Len(stack) <= MaxDepth  BY <2>1, LinearMemoryAssumption
  <2>6. QED
    BY <1>3, <1>4, <2>1, <2>2, <2>3, <2>4, <2>5, LinearMemoryAssumption
    DEF MemoryTypeOK, Memory, Code, Running
<1>6. Sized  BY <1>2, <1>3 DEF Sized, NULL
<1>7. Decided /\ Held /\ BaseCurrent  BY DEF MemoryInit, Decided, Held, BaseCurrent
<1>8. QED  BY <1>5, <1>6, <1>7 DEF MemoryInv

LEMMA NextMemory ==
  ASSUME NoWrap, MemoryInv, [MemoryNext]_memoryVars
  PROVE  MemoryInv'
<1>1. ASSUME NEW f \in Funcs, NEW first \in BOOLEAN, Compile(f, first) PROVE MemoryInv'
  BY <1>1, CompileKeepsInv
<1>2. ASSUME NEW f \in Funcs, Enter(f) PROVE MemoryInv'
  BY <1>2, EnterKeepsInv
<1>3. ASSUME NEW f \in Funcs, TailCall(f) PROVE MemoryInv'
  BY <1>3, TailCallKeepsInv
<1>4. CASE Leave
  BY <1>4, LeaveKeepsInv
<1>5. ASSUME NEW delta \in Deltas, GrowRefused(delta) PROVE MemoryInv'
  <2>1. MemoryTypeOK'  BY <1>5 DEF GrowRefused, MemoryInv, MemoryTypeOK
  <2>2. QED  BY <1>5, <2>1, SameBlockKeepsInv DEF GrowRefused, MemoryInv, Sized
<1>6. ASSUME NEW delta \in Deltas, GrowFixed(delta) PROVE MemoryInv'
  <2>1. /\ mem.fixed /\ Wanted(delta) <= mem.maximum
        /\ mem' = [mem EXCEPT !.pages = Wanted(delta)] /\ out' = <<"grew", mem.pages>>
        /\ UNCHANGED <<size, data, moves, code, stack, wild>>
    BY <1>6 DEF GrowFixed
  <2>2. /\ Wanted(delta) \in Nat /\ mem.pages <= Wanted(delta)
        /\ mem.pages \in 1 .. mem.maximum
    BY WantedGrows DEF MemoryInv, Sized
  <2>3. /\ mem' \in Memory /\ mem'.pages = Wanted(delta) /\ mem'.bytes = mem.bytes
        /\ mem'.fixed = mem.fixed /\ mem'.maximum = mem.maximum
    <3>1. mem \in Memory  BY MemoryParts DEF MemoryInv
    <3>2. QED  BY <2>1, <2>2, <3>1 DEF Memory
  <2>4. MemoryTypeOK'  BY <2>1, <2>3, MemoryParts DEF MemoryInv, MemoryTypeOK, Memory
  <2>5. Sized'
    <3>1. mem'.pages \in 1 .. mem'.maximum  BY <2>1, <2>2, <2>3
    <3>2. QED  BY <2>3, <3>1 DEF MemoryInv, Sized
  <2>6. QED  BY <2>1, <2>3, <2>4, <2>5, SameBlockKeepsInv
<1>7. ASSUME NEW delta \in Deltas, GrowMoves(delta) PROVE MemoryInv'
  BY <1>7, GrowMovesKeepsInv
<1>8. ASSUME NEW p \in PageIndex, Store(p) PROVE MemoryInv'
  <2>1. MemoryTypeOK'  BY <1>8 DEF Store, MemoryInv, MemoryTypeOK
  <2>2. QED  BY <1>8, <2>1, SameBlockKeepsInv DEF Store, MemoryInv, Sized
<1>9. ASSUME NEW p \in PageIndex, Load(p) PROVE MemoryInv'
  <2>1. data[p] \in {"zero", "stored", "junk"}  BY DEF MemoryInv, MemoryTypeOK
  <2>2. MemoryTypeOK'  BY <1>9, <2>1 DEF Load, MemoryInv, MemoryTypeOK
  <2>3. QED  BY <1>9, <2>2, SameBlockKeepsInv DEF Load, MemoryInv, Sized
<1>10. CASE UNCHANGED memoryVars
  <2>1. MemoryTypeOK'  BY <1>10 DEF memoryVars, MemoryInv, MemoryTypeOK
  <2>2. QED  BY <1>10, <2>1, SameBlockKeepsInv DEF memoryVars, MemoryInv, Sized
<1> QED
  BY <1>1, <1>2, <1>3, <1>4, <1>5, <1>6, <1>7, <1>8, <1>9, <1>10 DEF MemoryNext

-----------------------------------------------------------------------------

(* Every running function reaches the block where it is now, through any   *)
(* nesting of calls and growing, when nothing wraps.                       *)
THEOREM BaseAlwaysCurrent ==
  ASSUME NoWrap
  PROVE  MemorySpec => []BaseCurrent
<1>1. MemoryInit => MemoryInv  BY InitMemory
<1>2. MemoryInv /\ [MemoryNext]_memoryVars => MemoryInv'  BY NextMemory
<1>3. MemoryInv => BaseCurrent  BY DEF MemoryInv
<1>4. QED  BY <1>1, <1>2, <1>3, PTL DEF MemorySpec

(* The state stays well-typed.                                             *)
THEOREM LinearMemoryTyped ==
  ASSUME NoWrap
  PROVE  MemorySpec => []MemoryTypeOK
<1>1. MemoryInit => MemoryInv  BY InitMemory
<1>2. MemoryInv /\ [MemoryNext]_memoryVars => MemoryInv'  BY NextMemory
<1>3. MemoryInv => MemoryTypeOK  BY DEF MemoryInv
<1>4. QED  BY <1>1, <1>2, <1>3, PTL DEF MemorySpec

-----------------------------------------------------------------------------
(* The refinement, as long as no number of bytes wraps either.  It adds to *)
(* MemoryInv how large the block is and what is in it beyond the end of the*)
(* memory.                                                                 *)

(* The sizes in bytes that are computed in 32 bits.                        *)
BytesFit ==
  /\ DefaultMax * PageSize < Word
  /\ \A d \in Declared : d.limited => d.maximum * PageSize < Word

(* What the block is sized for.                                            *)
Room == IF mem.fixed THEN mem.maximum ELSE mem.pages

Holds ==
  /\ ~wild /\ mem.maximum * PageSize < Word
  /\ size = Room * PageSize
  /\ mem.fixed => \A p \in PageIndex : p >= mem.pages /\ p < mem.maximum => data[p] = "zero"

FullInv == MemoryInv /\ Holds

Data == [p \in PageIndex |-> IF p < mem.pages THEN data[p] ELSE "zero"]

-----------------------------------------------------------------------------
(* Sizes.                                                                  *)

LEMMA SizesOrdered ==
  ASSUME NEW a \in Nat, NEW b \in Nat
  PROVE  /\ a * PageSize \in Nat
         /\ a <= b => a * PageSize <= b * PageSize
         /\ a < b <=> a * PageSize < b * PageSize
         /\ a < b => (a + 1) * PageSize <= b * PageSize
         /\ (a + b) * PageSize = a * PageSize + b * PageSize
<1>1. PageSize \in Nat /\ PageSize > 0  BY LinearMemoryAssumption
<1> QED  BY <1>1

LEMMA BytesExact ==
  ASSUME NEW p \in Nat, p * PageSize < Word
  PROVE  Bytes(p) = p * PageSize
<1>1. p * PageSize \in Nat /\ Word \in Nat  BY SizesOrdered, LinearMemoryAssumption
<1>2. \A n \in Nat : n < Word => n % Word = n  BY <1>1
<1> QED  BY <1>1, <1>2 DEF Bytes

LEMMA BytesUpTo ==
  ASSUME NEW p \in Nat, NEW most \in Nat, p <= most, most * PageSize < Word
  PROVE  Bytes(p) = p * PageSize
<1>1. /\ p * PageSize \in Nat /\ most * PageSize \in Nat /\ p * PageSize <= most * PageSize
      /\ Word \in Nat
  BY SizesOrdered, LinearMemoryAssumption
<1> QED  BY <1>1, BytesExact

LEMMA HoldsPages == ASSUME FullInv PROVE BlockHoldsPages
<1>1. /\ mem.pages \in Nat /\ mem.maximum \in Nat /\ mem.pages <= mem.maximum
      /\ mem.fixed \in BOOLEAN
  BY MemoryParts DEF FullInv, MemoryInv, Sized
<1>2. Room \in Nat /\ mem.pages <= Room  BY <1>1 DEF Room
<1> QED  BY <1>1, <1>2, SizesOrdered DEF BlockHoldsPages, FullInv, Holds

-----------------------------------------------------------------------------

LEMMA InitFull == ASSUME NoWrap, BytesFit, MemoryInit PROVE FullInv /\ Wasm!Init
<1>1. MemoryInv  BY InitMemory
<1>2. PICK d \in Declared :
        /\ size = Allocated(d)
        /\ \E b \in {1} \cup (IF size = 0 THEN {NULL} ELSE {}) :
             /\ moves = b
             /\ mem = [pages |-> d.initial, fixed |-> d.limited, bytes |-> b,
                       maximum |-> Maximum(d)]
  BY DEF MemoryInit
<1>3. /\ mem.pages = d.initial /\ mem.fixed = d.limited /\ mem.maximum = Maximum(d)
      /\ d.initial \in Nat /\ d.maximum \in Nat /\ d.limited \in BOOLEAN /\ DefaultMax \in Nat
  BY <1>2, LinearMemoryAssumption
<1>4. d.initial <= Maximum(d) /\ Maximum(d) \in Nat
  <2>1. d.initial \in 1 .. Maximum(d)  BY DEF NoWrap
  <2>2. Maximum(d) \in Nat  BY <1>3 DEF Maximum
  <2>3. QED  BY <2>1, <2>2
<1>5. Maximum(d) * PageSize < Word  BY <1>3 DEF Maximum, BytesFit
<1>6. size = Room * PageSize /\ Room \in Nat /\ mem.pages <= Room
  <2>1. Room \in Nat /\ Room <= Maximum(d) /\ mem.pages <= Room  BY <1>3, <1>4 DEF Room
  <2>2. size = Bytes(Room)  BY <1>2, <1>3 DEF Allocated, Room, Maximum
  <2>3. QED  BY <1>4, <1>5, <2>1, <2>2, BytesUpTo
<1>7. \A p \in PageIndex : p < Room => data[p] = "zero"
  <2>1. \A p \in PageIndex : p \in Nat  BY DEF PageIndex
  <2>2. \A p \in PageIndex : p < Room => (p + 1) * PageSize <= size
    BY <1>6, <2>1, SizesOrdered
  <2>3. QED  BY <2>2 DEF MemoryInit
<1>8. ~wild /\ out = <<"none">>  BY DEF MemoryInit
<1>9. Holds  BY <1>3, <1>5, <1>6, <1>7, <1>8 DEF Holds, Room
<1>10. Data = [p \in PageIndex |-> "zero"]
  <2>1. \A p \in PageIndex : p < mem.pages => p < Room
    BY <1>3, <1>6 DEF PageIndex
  <2>2. QED  BY <1>7, <2>1 DEF Data
<1> QED  BY <1>1, <1>3, <1>4, <1>8, <1>9, <1>10 DEF FullInv, Wasm!Init, Data

(* Steps that leave the memory and its block alone.                        *)
LEMMA ElsewhereStep ==
  ASSUME FullInv, UNCHANGED <<mem, size, data, wild>>
  PROVE  Holds'
BY DEF FullInv, Holds, Room

LEMMA StoreStep ==
  ASSUME FullInv, NEW p \in PageIndex, Store(p)
  PROVE  Holds' /\ Wasm!Store
<1>1. stack # <<>> /\ BaseOf(Active) = mem.bytes
  BY DEF Store, FullInv, MemoryInv, BaseCurrent
<1>2. /\ p < mem.pages /\ data' = [data EXCEPT ![p] = "stored"] /\ out' = <<"none">>
      /\ UNCHANGED <<mem, size, wild>>
  BY <1>1 DEF Store
<1>3. data \in [PageIndex -> {"zero", "stored", "junk"}] /\ mem.pages \in Nat
  BY MemoryParts DEF FullInv, MemoryInv, MemoryTypeOK
<1>4. \A q \in PageIndex : data'[q] = IF q = p THEN "stored" ELSE data[q]  BY <1>2, <1>3
<1>5. Holds'
  <2>1. \A q \in PageIndex : q >= mem.pages => q # p  BY <1>2, <1>3 DEF PageIndex
  <2>2. QED  BY <1>2, <1>4, <2>1 DEF FullInv, Holds, Room
<1>6. Data' = [Data EXCEPT ![p] = "stored"]
  <2>1. Data' = [q \in PageIndex |-> IF q < mem.pages THEN data'[q] ELSE "zero"]
    BY <1>2 DEF Data
  <2>2. \A q \in PageIndex : Data'[q] = IF q = p THEN "stored" ELSE Data[q]
    BY <1>2, <1>4, <2>1 DEF Data
  <2>3. [Data EXCEPT ![p] = "stored"] = [q \in PageIndex |-> IF q = p THEN "stored" ELSE Data[q]]
    BY DEF Data
  <2>4. Data' = [q \in PageIndex |-> Data'[q]]  BY <2>1
  <2>5. QED  BY <2>2, <2>3, <2>4
<1> QED  BY <1>2, <1>5, <1>6 DEF Wasm!Store, Data

LEMMA LoadStep ==
  ASSUME FullInv, NEW p \in PageIndex, Load(p)
  PROVE  Holds' /\ Wasm!Load
<1>1. stack # <<>> /\ BaseOf(Active) = mem.bytes
  BY DEF Load, FullInv, MemoryInv, BaseCurrent
<1>2. /\ p < mem.pages /\ out' = <<"read", data[p]>> /\ UNCHANGED <<mem, size, data, wild>>
  BY <1>1 DEF Load
<1>3. Holds'  BY <1>2, ElsewhereStep
<1> QED  BY <1>2, <1>3 DEF Wasm!Load

LEMMA GrowFixedStep ==
  ASSUME NoWrap, FullInv, NEW delta \in Deltas, GrowFixed(delta)
  PROVE  Holds' /\ Wasm!Grow
<1>1. /\ mem.fixed /\ Wanted(delta) <= mem.maximum
      /\ mem' = [mem EXCEPT !.pages = Wanted(delta)] /\ out' = <<"grew", mem.pages>>
      /\ UNCHANGED <<size, data, wild>>
  BY DEF GrowFixed
<1>2. Wanted(delta) \in Nat /\ mem.pages <= Wanted(delta)  BY WantedGrows DEF FullInv
<1>3. mem \in Memory /\ mem.pages \in Nat /\ mem.maximum \in Nat
  BY MemoryParts DEF FullInv, MemoryInv
<1>4. mem'.pages = Wanted(delta) /\ mem'.maximum = mem.maximum /\ mem'.fixed
  BY <1>1, <1>2, <1>3 DEF Memory
<1>5. \A q \in PageIndex : q \in Nat  BY DEF PageIndex
<1>6. Holds'
  <2>1. Room' = Room  BY <1>1, <1>4 DEF Room
  <2>2. \A q \in PageIndex : q >= Wanted(delta) => q >= mem.pages  BY <1>2, <1>3, <1>5
  <2>3. QED  BY <1>1, <1>4, <2>1, <2>2 DEF FullInv, Holds
<1>7. Data' = Data
  <2>1. \A q \in PageIndex : q >= mem.pages /\ q < mem.maximum => data[q] = "zero"
    BY <1>1 DEF FullInv, Holds
  <2>2. \A q \in PageIndex :
          /\ q < mem.pages => q < Wanted(delta)
          /\ ~(q < mem.pages) /\ q < Wanted(delta) => q >= mem.pages /\ q < mem.maximum
    BY <1>1, <1>2, <1>3, <1>5
  <2>3. Data' = [q \in PageIndex |-> IF q < Wanted(delta) THEN data[q] ELSE "zero"]
    BY <1>1, <1>4 DEF Data
  <2>4. QED  BY <2>1, <2>2, <2>3 DEF Data
<1> QED  BY <1>1, <1>2, <1>3, <1>4, <1>6, <1>7 DEF Wasm!Grow, Data

LEMMA GrowMovesStep ==
  ASSUME NoWrap, FullInv, NEW delta \in Deltas, GrowMoves(delta)
  PROVE  Holds' /\ Wasm!Grow
<1> DEFINE from == Bytes(mem.pages)
           upto == from + Cleared(delta)
<1>1. /\ ~mem.fixed /\ Wanted(delta) <= mem.maximum /\ out' = <<"grew", mem.pages>>
      /\ size' = Bytes(Wanted(delta))
      /\ \E b : mem' = [mem EXCEPT !.pages = Wanted(delta), !.bytes = b]
      /\ data' = [p \in PageIndex |->
               IF (p + 1) * PageSize > size' THEN "junk"
               ELSE IF p * PageSize >= from /\ p * PageSize < upto THEN "zero"
               ELSE IF (p + 1) * PageSize > size THEN "junk" ELSE data[p]]
      /\ wild' = (upto > size' /\ upto > from)
  BY DEF GrowMoves
<1>2. /\ Wanted(delta) = delta + mem.pages /\ Wanted(delta) \in Nat
      /\ mem.pages <= Wanted(delta)
  BY WantedGrows DEF FullInv
<1>3. /\ mem \in Memory /\ mem.pages \in Nat /\ mem.maximum \in Nat /\ delta \in Nat
      /\ mem.pages <= mem.maximum /\ delta <= mem.maximum
  <2>1. mem \in Memory /\ mem.pages \in Nat /\ mem.maximum \in Nat
    BY MemoryParts DEF FullInv, MemoryInv
  <2>2. delta \in Nat  BY LinearMemoryAssumption
  <2>3. QED  BY <1>1, <1>2, <2>1, <2>2
<1>4. mem'.pages = Wanted(delta) /\ mem'.maximum = mem.maximum /\ ~mem'.fixed
  BY <1>1, <1>3 DEF Memory
<1>5. /\ from = mem.pages * PageSize /\ Cleared(delta) = delta * PageSize
      /\ size' = Wanted(delta) * PageSize /\ size = mem.pages * PageSize
  <2>1. mem.maximum * PageSize < Word /\ size = mem.pages * PageSize
    BY <1>1 DEF FullInv, Holds, Room
  <2>2. QED  BY <1>1, <1>2, <1>3, <2>1, BytesUpTo DEF Cleared
<1>6. upto = size'
  <2>1. (mem.pages + delta) * PageSize = mem.pages * PageSize + delta * PageSize
    BY <1>3, SizesOrdered
  <2>2. Wanted(delta) = mem.pages + delta  BY <1>2, <1>3
  <2>3. QED  BY <1>5, <2>1, <2>2
<1> HIDE DEF from, upto
<1>7. size' \in Nat  BY <1>2, <1>5, SizesOrdered
<1>8. ~wild'
  <2>1. ~(upto > size')  BY <1>6, <1>7
  <2>2. wild' = (upto > size' /\ upto > from)  BY <1>1
  <2>3. QED  BY <2>1, <2>2, Zenon
<1>9. Holds'
  <2>1. Room' = Wanted(delta)  BY <1>4 DEF Room
  <2>2. mem'.maximum * PageSize < Word  BY <1>4 DEF FullInv, Holds
  <2>3. QED  BY <1>4, <1>5, <1>8, <2>1, <2>2 DEF Holds
<1>10. \A p \in PageIndex : p < Wanted(delta) =>
         data'[p] = IF p < mem.pages THEN data[p] ELSE "zero"
  <2>1. SUFFICES ASSUME NEW p \in PageIndex, p < Wanted(delta)
                 PROVE  data'[p] = IF p < mem.pages THEN data[p] ELSE "zero"
    OBVIOUS
  <2>2. p \in Nat  BY DEF PageIndex
  <2>3. /\ p * PageSize \in Nat /\ (p + 1) * PageSize \in Nat
        /\ (p + 1) * PageSize <= Wanted(delta) * PageSize
        /\ p * PageSize < Wanted(delta) * PageSize
        /\ mem.pages * PageSize \in Nat /\ Wanted(delta) * PageSize \in Nat
    <3>1. p + 1 \in Nat  BY <2>2
    <3>2. /\ p * PageSize \in Nat /\ (p + 1) * PageSize \in Nat
          /\ mem.pages * PageSize \in Nat /\ Wanted(delta) * PageSize \in Nat
      BY <1>2, <1>3, <2>2, <3>1, SizesOrdered
    <3>3. /\ (p + 1) * PageSize <= Wanted(delta) * PageSize
          /\ p * PageSize < Wanted(delta) * PageSize
      BY <1>2, <2>1, <2>2, SizesOrdered
    <3>4. QED  BY <3>2, <3>3
  <2>4. CASE p < mem.pages
    <3>1. p * PageSize < mem.pages * PageSize /\ (p + 1) * PageSize <= mem.pages * PageSize
      BY <1>3, <2>2, <2>4, SizesOrdered
    <3>2. /\ ~((p + 1) * PageSize > size') /\ ~(p * PageSize >= from)
          /\ ~((p + 1) * PageSize > size)
      BY <1>5, <2>3, <3>1
    <3>3. QED  BY <1>1, <2>4, <3>2
  <2>5. CASE ~(p < mem.pages)
    <3>1. mem.pages <= p  BY <1>3, <2>2, <2>5
    <3>2. mem.pages * PageSize <= p * PageSize  BY <1>3, <2>2, <3>1, SizesOrdered
    <3>3. /\ ~((p + 1) * PageSize > size') /\ p * PageSize >= from /\ p * PageSize < upto
      BY <1>5, <1>6, <2>3, <3>2
    <3>4. QED  BY <1>1, <2>5, <3>3
  <2>6. QED  BY <2>4, <2>5
<1>11. Data' = Data
  <2>1. Data' = [p \in PageIndex |-> IF p < Wanted(delta) THEN data'[p] ELSE "zero"]
    BY <1>4 DEF Data
  <2>2. \A p \in PageIndex : p < mem.pages => p < Wanted(delta)
    BY <1>2, <1>3 DEF PageIndex
  <2>3. QED  BY <1>10, <2>1, <2>2 DEF Data
<1> QED  BY <1>1, <1>2, <1>3, <1>4, <1>9, <1>11 DEF Wasm!Grow, Data

LEMMA NextFull ==
  ASSUME NoWrap, FullInv, [MemoryNext]_memoryVars
  PROVE  FullInv' /\ [Wasm!Next]_Wasm!vars
<1>1. MemoryInv'  BY NextMemory DEF FullInv
<1>2. CASE \/ \E f \in Funcs, first \in BOOLEAN : Compile(f, first)
           \/ \E f \in Funcs : Enter(f) \/ TailCall(f)
           \/ Leave \/ UNCHANGED memoryVars
  <2>1. UNCHANGED <<mem, size, data, out, wild>>
    BY <1>2 DEF Compile, Enter, TailCall, Leave, memoryVars
  <2>2. Holds'  BY <2>1, ElsewhereStep
  <2>3. UNCHANGED Wasm!vars  BY <2>1 DEF Wasm!vars
  <2>4. QED  BY <1>1, <2>2, <2>3 DEF FullInv
<1>3. ASSUME NEW delta \in Deltas, GrowRefused(delta) PROVE Holds' /\ Wasm!GrowFails
  <2>1. UNCHANGED <<mem, size, data, wild>> /\ out' = <<"refused">>  BY <1>3 DEF GrowRefused
  <2>2. QED  BY <2>1, ElsewhereStep DEF Wasm!GrowFails
<1>4. QED
  BY <1>1, <1>2, <1>3, GrowFixedStep, GrowMovesStep, StoreStep, LoadStep
     DEF MemoryNext, FullInv, Wasm!Next

(* The block has room for every page the memory says it has, and clearing  *)
(* the new pages never leaves it, when no number of pages or bytes wraps.  *)
THEOREM BlockAlwaysHoldsPages == ASSUME NoWrap, BytesFit PROVE MemorySpec => []BlockHoldsPages
<1>1. MemoryInit => FullInv  BY InitFull
<1>2. FullInv /\ [MemoryNext]_memoryVars => FullInv'  BY NextFull
<1>3. FullInv => BlockHoldsPages  BY HoldsPages
<1>4. QED  BY <1>1, <1>2, <1>3, PTL DEF MemorySpec

(* However functions are compiled, call each other and grow the memory,    *)
(* it is the one WebAssembly promises.                                     *)
THEOREM LinearImplementsWasm == ASSUME NoWrap, BytesFit PROVE MemorySpec => ImplementsWasmMemory
<1>1. MemoryInit => FullInv /\ Wasm!Init  BY InitFull
<1>2. FullInv /\ [MemoryNext]_memoryVars => FullInv' /\ [Wasm!Next]_Wasm!vars  BY NextFull
<1>3. QED  BY <1>1, <1>2, PTL DEF MemorySpec, ImplementsWasmMemory, Wasm!Spec

(*-------------------------------------------------------------------------*)
(* The locals: LocalsInit                                                  *)
(*-------------------------------------------------------------------------*)

Block == [kind : Kinds, head : [Locals -> Levels]]

(* The innermost block around the place the path goes to, and the blocks   *)
(* it has entered.                                                         *)
Around == IF path = Here THEN Depth ELSE path.of - 1
Entered == IF path = Here THEN Depth ELSE path.of

(* The level of a local is that of a block that is still open: what was    *)
(* set in a block that ended, or in the other arm, is not relied upon.     *)
LevelsOpen == \A l \in Locals : level[l] <= Depth \/ level[l] = Unset

Sure == \A l \in Locals : level[l] <= Around => l \in assigned

HeadsSure ==
  \A i \in 1 .. Depth :
    i <= Entered => \A l \in Locals : blocks[i].head[l] # Unset => l \in assigned

HeadsOpen ==
  \A i \in 1 .. Depth :
    \A l \in Locals : blocks[i].head[l] <= i - 1 \/ blocks[i].head[l] = Unset

ScanInv == ScanTypeOK /\ LevelsOpen /\ Sure /\ HeadsSure /\ HeadsOpen /\ ReadsZeroed

-----------------------------------------------------------------------------

(* A level is a nesting, or the number that stands for none.              *)
LEMMA LevelsAreNumbers == Levels \subseteq Int
BY LocalsInitAssumption DEF Levels, Unset

(* The components of a well-typed state.                                   *)
LEMMA ScanParts ==
  ASSUME ScanTypeOK
  PROVE  /\ level \in [Locals -> Levels] /\ Depth \in Nat /\ Depth <= MaxBlocks
         /\ Depth < Unset /\ blocks \in Seq(Block)
         /\ \A i \in 1 .. Depth : blocks[i] \in Block /\ blocks[i].head \in [Locals -> Levels]
         /\ \A l \in Locals : level[l] \in Int
         /\ \A i \in 1 .. Depth : \A l \in Locals : blocks[i].head[l] \in Int
<1>1. level \in [Locals -> Levels] /\ blocks \in Seq(Block) /\ Depth <= MaxBlocks
  BY DEF ScanTypeOK, Block
<1>2. Depth \in Nat /\ MaxBlocks \in Nat /\ MaxBlocks < Unset /\ Depth < Unset
  BY <1>1, LocalsInitAssumption DEF Depth, Unset
<1>3. \A i \in 1 .. Depth : blocks[i] \in Block  BY <1>1 DEF Depth
<1>4. \A i \in 1 .. Depth : blocks[i].head \in [Locals -> Levels]  BY <1>3 DEF Block
<1>5. Levels \subseteq Int  BY <1>2 DEF Levels, Unset
<1>6. QED  BY <1>1, <1>2, <1>3, <1>4, <1>5

(* Where the path is, is here, on its way to an open block, or left.       *)
LEMMA PathCases ==
  ASSUME ScanTypeOK
  PROVE  \/ path = Here
         \/ path = Left /\ path # Here /\ Around = -1 /\ Entered = 0
         \/ \E d \in 1 .. Depth :
              /\ path \in {ToEnd(d), ToElse(d)} /\ path # Here
              /\ Around = d - 1 /\ Entered = d
<1>1. path \in {Here, Left} \cup {ToEnd(d) : d \in 1 .. Depth} \cup {ToElse(d) : d \in 1 .. Depth}
  BY DEF ScanTypeOK
<1>2. Here.doing = "here"  BY DEF Here
<1>3. CASE path = Left  BY <1>3 DEF Left, Here, Around, Entered
<1>4. ASSUME NEW d \in 1 .. Depth, path \in {ToEnd(d), ToElse(d)}
      PROVE  path # Here /\ Around = d - 1 /\ Entered = d
  <2>1. CASE path = ToEnd(d)
    <3>1. path.of = d /\ path.doing = "to end"  BY <2>1 DEF ToEnd
    <3>2. path # Here  BY <1>2, <3>1
    <3>3. QED  BY <3>1, <3>2 DEF Around, Entered
  <2>2. CASE path = ToElse(d)
    <3>1. path.of = d /\ path.doing = "to else"  BY <2>2 DEF ToElse
    <3>2. path # Here  BY <1>2, <3>1
    <3>3. QED  BY <3>1, <3>2 DEF Around, Entered
  <2>3. QED  BY <1>4, <2>1, <2>2
<1>5. QED  BY <1>1, <1>3, <1>4

(* Forgetting the levels deeper than d keeps them typed, leaves none of    *)
(* them above d, and changes none of the others.                           *)
LEMMA UnsureLevels ==
  ASSUME ScanTypeOK, NEW d \in Int, d < Unset
  PROVE  /\ Unsure(d) \in [Locals -> Levels]
         /\ \A l \in Locals : Unsure(d)[l] <= d \/ Unsure(d)[l] = Unset
         /\ \A l \in Locals : Unsure(d)[l] <= d => Unsure(d)[l] = level[l]
         /\ \A l \in Locals, e \in Int : e < Unset /\ Unsure(d)[l] <= e => level[l] <= e
<1>1. Unset \in Levels /\ Unset \in Int  BY DEF Levels, Unset
<1>2. level \in [Locals -> Levels] /\ \A l \in Locals : level[l] \in Int  BY ScanParts
<1>3. Unsure(d) \in [Locals -> Levels]  BY <1>1, <1>2 DEF Unsure
<1>4. \A l \in Locals : Unsure(d)[l] = IF level[l] > d THEN Unset ELSE level[l]
  BY DEF Unsure
<1>5. QED  BY <1>1, <1>2, <1>3, <1>4

LEMMA InitScan == ScanInit => ScanInv
<1> SUFFICES ASSUME ScanInit PROVE ScanInv  OBVIOUS
<1>1. Depth = 0 /\ blocks = <<>> /\ path = Here  BY DEF ScanInit, Depth
<1>2. 0 \in Levels /\ Unset \in Levels  BY LocalsInitAssumption DEF Levels
<1>3. level \in [Locals -> Levels]  BY <1>2 DEF ScanInit
<1>4. blocks \in Seq([kind : Kinds, head : [Locals -> Levels]])  BY <1>1
<1>5. ScanTypeOK  BY <1>1, <1>3, <1>4, LocalsInitAssumption DEF ScanTypeOK, ScanInit, Locals
<1>6. \A l \in Locals : level[l] = IF l \in Params THEN 0 ELSE Unset  BY DEF ScanInit
<1>7. LevelsOpen  BY <1>1, <1>6 DEF LevelsOpen
<1>8. Sure  BY <1>1, <1>6 DEF Sure, Around, ScanInit, Unset
<1>9. HeadsSure /\ HeadsOpen  BY <1>1 DEF HeadsSure, HeadsOpen
<1>10. ReadsZeroed  BY DEF ScanInit, ReadsZeroed
<1>11. QED  BY <1>5, <1>7, <1>8, <1>9, <1>10 DEF ScanInv

-----------------------------------------------------------------------------

(* Reading: on the path, a local that was not set has the level Unset.     *)
LEMMA LocalGetKeepsInv ==
  ASSUME ScanInv, NEW l \in Locals, LocalGet(l)
  PROVE  ScanInv'
<1>1. UNCHANGED <<level, blocks, path, assigned>> /\ ScanTypeOK  BY DEF LocalGet, ScanInv
<1>2. flagged' \subseteq Locals /\ early' \subseteq Locals
  BY DEF LocalGet, ScanInv, ScanTypeOK
<1>3. ScanTypeOK'  BY <1>1, <1>2 DEF ScanTypeOK, Depth
<1>4. (LevelsOpen /\ Sure /\ HeadsSure /\ HeadsOpen)'
  BY <1>1 DEF ScanInv, LevelsOpen, Sure, HeadsSure, HeadsOpen, Around, Entered, Depth
<1>5. ReadsZeroed'
  <2>1. early \subseteq flagged /\ flagged \subseteq flagged'
    BY DEF ScanInv, ReadsZeroed, LocalGet
  <2>2. CASE path = Here /\ l \notin assigned
    <3>1. level[l] > Depth
      BY <1>1, <2>2, ScanParts DEF ScanInv, Sure, Around
    <3>2. flagged' = flagged \cup {l} /\ early' = early \cup {l}  BY <2>2, <3>1 DEF LocalGet
    <3>3. QED  BY <2>1, <3>2 DEF ReadsZeroed
  <2>3. CASE ~(path = Here /\ l \notin assigned)
    BY <2>1, <2>3 DEF LocalGet, ReadsZeroed
  <2>4. QED  BY <2>2, <2>3
<1>6. QED  BY <1>3, <1>4, <1>5 DEF ScanInv

(* Setting: off the path, the level given is that of a block the path has  *)
(* not come to, and is not counted on.                                     *)
LEMMA LocalSetKeepsInv ==
  ASSUME ScanInv, NEW l \in Locals, LocalSet(l)
  PROVE  ScanInv'
<1>1. UNCHANGED <<blocks, flagged, path, early>> /\ ScanTypeOK  BY DEF LocalSet, ScanInv
<1>2. Depth' = Depth /\ Depth \in 0 .. MaxBlocks /\ Around' = Around /\ Entered' = Entered
  BY <1>1, ScanParts, LocalsInitAssumption DEF Depth, Around, Entered
<1>3. level' \in [Locals -> Levels]
  BY <1>1, <1>2, ScanParts DEF LocalSet, Levels
<1>4. assigned \subseteq assigned' /\ assigned' \subseteq Locals
  BY DEF LocalSet, ScanInv, ScanTypeOK
<1>5. ScanTypeOK'  BY <1>1, <1>2, <1>3, <1>4 DEF ScanTypeOK, Depth
<1>6. \A k \in Locals : level'[k] = IF k = l /\ level[l] > Depth THEN Depth ELSE level[k]
  BY <1>1, ScanParts DEF LocalSet
<1>7. LevelsOpen'  BY <1>2, <1>6, ScanParts DEF ScanInv, LevelsOpen
<1>8. Sure'
  <2> SUFFICES ASSUME NEW k \in Locals, level'[k] <= Around  PROVE k \in assigned'
    BY <1>2 DEF Sure
  <2>1. CASE level'[k] = level[k]  BY <1>4, <2>1 DEF ScanInv, Sure
  <2>2. CASE k = l /\ level'[k] = Depth
    <3>1. path = Here  BY <1>1, <1>2, <2>2, PathCases
    <3>2. QED  BY <2>2, <3>1 DEF LocalSet
  <2>3. QED  BY <1>6, <2>1, <2>2
<1>9. (HeadsSure /\ HeadsOpen)'
  BY <1>1, <1>2, <1>4 DEF ScanInv, HeadsSure, HeadsOpen
<1>10. ReadsZeroed'  BY <1>1 DEF ScanInv, ReadsZeroed
<1>11. QED  BY <1>5, <1>7, <1>8, <1>9, <1>10 DEF ScanInv

(* A new block begins with the levels of the moment.                       *)
LEMMA BeginKeepsInv ==
  ASSUME ScanInv, NEW kind \in {"block", "loop", "if"}, Begin(kind)
  PROVE  ScanInv'
<1> DEFINE b == [kind |-> kind, head |-> level]
<1>1. UNCHANGED <<level, flagged, assigned, early>> /\ ScanTypeOK /\ blocks' = Append(blocks, b)
  BY DEF Begin, ScanInv
<1>2. b \in Block /\ b.head = level  BY <1>1, ScanParts DEF Block, Kinds
<1> HIDE DEF b
<1>3. /\ Depth' = Depth + 1 /\ Depth' \in Nat /\ Depth' <= MaxBlocks /\ Depth < Unset
      /\ Depth \in Nat /\ blocks' \in Seq(Block) /\ blocks'[Depth + 1] = b
      /\ \A i \in 1 .. Depth : blocks'[i] = blocks[i]
  BY <1>1, <1>2, ScanParts, LocalsInitAssumption DEF Begin, Depth
<1>4. path' = path \/ (path = Here /\ path' = ToElse(Depth + 1))
  BY DEF Begin
<1>5. ScanTypeOK'
  <2>1. path' \in {Here, Left} \cup {ToEnd(d) : d \in 1 .. Depth'} \cup {ToElse(d) : d \in 1 .. Depth'}
    <3>1. 1 .. Depth \subseteq 1 .. Depth' /\ Depth + 1 \in 1 .. Depth'  BY <1>3
    <3>2. QED  BY <1>1, <1>4, <3>1 DEF ScanTypeOK
  <2>2. QED  BY <1>1, <1>3, <2>1 DEF ScanTypeOK, Block, Depth
<1>6. LevelsOpen'  BY <1>1, <1>3, ScanParts DEF ScanInv, LevelsOpen
<1>7. /\ path = Here => Around' \in {Depth, Depth + 1} /\ Entered' = Depth + 1
      /\ path # Here => path' # Here /\ Around' = Around /\ Entered' = Entered
  <2>1. CASE path = Here /\ path' = path  BY <1>3, <2>1 DEF Around, Entered
  <2>2. CASE path = Here /\ path' = ToElse(Depth + 1)
    <3>1. path'.of = Depth + 1 /\ path'.doing = "to else"  BY <2>2 DEF ToElse
    <3>2. Here.doing = "here"  BY DEF Here
    <3>3. path' # Here  BY <3>1, <3>2
    <3>4. Entered' = Depth + 1  BY <3>1, <3>3 DEF Entered
    <3>5. \A of : of = Depth + 1 => of - 1 = Depth  BY <1>3
    <3>6. path'.of - 1 = Depth  BY <3>1, <3>5
    <3>7. Around' = Depth  BY <3>3, <3>6 DEF Around
    <3>8. QED  BY <2>2, <3>4, <3>7
  <2>3. CASE path # Here
    <3>1. path' = path  BY <1>4, <2>3
    <3>2. QED  BY <2>3, <3>1 DEF Around, Entered
  <2>4. QED  BY <1>4, <2>1, <2>2, <2>3
<1>8. path = Here => \A l \in Locals : level[l] # Unset => l \in assigned
  BY <1>1, ScanParts DEF ScanInv, LevelsOpen, Sure, Around
<1>9. Sure'
  <2>1. CASE path = Here
    <3> SUFFICES ASSUME NEW l \in Locals, level[l] <= Around'  PROVE l \in assigned
      BY <1>1 DEF Sure
    <3>1. level[l] # Unset
      <4>1. Around' < Unset  BY <1>3, <1>7, <2>1, LocalsInitAssumption DEF Unset
      <4>2. Around' \in Int /\ level[l] \in Int /\ Unset \in Int
        BY <1>1, <1>3, <1>7, <2>1, ScanParts DEF Unset
      <4>3. QED  BY <4>1, <4>2
    <3>2. QED  BY <1>8, <2>1, <3>1
  <2>2. CASE path # Here  BY <1>1, <1>7, <2>2 DEF ScanInv, Sure
  <2>3. QED  BY <2>1, <2>2
<1>10. HeadsSure'
  <2> SUFFICES ASSUME NEW i \in 1 .. Depth', i <= Entered', NEW l \in Locals,
                      blocks'[i].head[l] # Unset
               PROVE  l \in assigned
    BY <1>1 DEF HeadsSure
  <2>1. CASE i = Depth + 1
    <3>1. path = Here
      <4>1. Entered \in Int /\ Entered <= Depth  BY <1>1, <1>3, PathCases DEF Entered
      <4>2. QED  BY <1>3, <1>7, <2>1, <4>1
    <3>2. QED  BY <1>2, <1>3, <1>8, <2>1, <3>1
  <2>2. CASE i # Depth + 1
    <3>1. i \in 1 .. Depth /\ blocks'[i] = blocks[i]  BY <1>3, <2>2
    <3>2. i <= Entered  BY <1>7, <3>1 DEF Entered
    <3>3. QED  BY <3>1, <3>2 DEF ScanInv, HeadsSure
  <2>3. QED  BY <2>1, <2>2
<1>11. HeadsOpen'
  <2> SUFFICES ASSUME NEW i \in 1 .. Depth', NEW l \in Locals
               PROVE  blocks'[i].head[l] <= i - 1 \/ blocks'[i].head[l] = Unset
    BY DEF HeadsOpen
  <2>1. CASE i = Depth + 1  BY <1>2, <1>3, <2>1 DEF ScanInv, LevelsOpen
  <2>2. CASE i # Depth + 1
    <3>1. i \in 1 .. Depth /\ blocks'[i] = blocks[i]  BY <1>3, <2>2
    <3>2. QED  BY <3>1 DEF ScanInv, HeadsOpen
  <2>3. QED  BY <2>1, <2>2
<1>12. ReadsZeroed'  BY <1>1 DEF ScanInv, ReadsZeroed
<1>13. QED  BY <1>5, <1>6, <1>9, <1>10, <1>11, <1>12 DEF ScanInv

-----------------------------------------------------------------------------

(* At an else, the path comes from the jump over the first arm, goes past  *)
(* the second, or stays where it was; the levels of the block are gone.    *)
LEMMA ElseKeepsInv ==
  ASSUME ScanInv, Else
  PROVE  ScanInv'
<1>1. UNCHANGED <<flagged, assigned, early>> /\ ScanTypeOK /\ level' = Unsure(Depth - 1)
  BY DEF Else, ScanInv, AtElse
<1>2. Depth \in Nat /\ Depth \in 1 .. Depth /\ Depth < Unset /\ Depth <= MaxBlocks
  BY <1>1, ScanParts DEF Else, Depth
<1>3. /\ Depth' = Depth /\ blocks' \in Seq(Block)
      /\ \A i \in 1 .. Depth : blocks'[i].head = blocks[i].head
  <2>1. blocks' = [blocks EXCEPT ![Depth].kind = "else"]  BY DEF Else
  <2>2. blocks \in Seq(Block) /\ \A i \in 1 .. Depth : blocks[i] \in Block
    BY <1>1, ScanParts
  <2>3. [blocks[Depth] EXCEPT !.kind = "else"] \in Block  BY <1>2, <2>2 DEF Block, Kinds
  <2>4. blocks' \in Seq(Block) /\ Len(blocks') = Len(blocks)
    BY <1>2, <2>1, <2>2, <2>3 DEF Depth
  <2>5. \A i \in 1 .. Depth : blocks'[i].head = blocks[i].head
    BY <1>2, <2>1, <2>2 DEF Block, Depth
  <2>6. QED  BY <2>4, <2>5 DEF Depth
<1>4. /\ level' \in [Locals -> Levels]
      /\ \A l \in Locals : level'[l] <= Depth - 1 \/ level'[l] = Unset
      /\ \A l \in Locals, e \in Int : e < Unset /\ level'[l] <= e => level[l] <= e
      /\ \A l \in Locals : level'[l] \in Int
  <2>1. Depth - 1 \in Int /\ Depth - 1 < Unset  BY <1>2 DEF Unset
  <2>2. Unsure(Depth - 1) \in [Locals -> Levels]  BY <1>1, <2>1, UnsureLevels
  <2>3. QED  BY <1>1, <2>1, <2>2, UnsureLevels, LevelsAreNumbers
<1>5. \/ path = Here /\ path' = ToEnd(Depth)
      \/ path = ToElse(Depth) /\ path # Here /\ path' = Here
      \/ path # Here /\ path' = path
  BY DEF Else
<1>6. ScanTypeOK'
  <2>1. path' \in {Here, Left} \cup {ToEnd(d) : d \in 1 .. Depth'} \cup {ToElse(d) : d \in 1 .. Depth'}
    BY <1>1, <1>2, <1>3, <1>5 DEF ScanTypeOK
  <2>2. QED  BY <1>1, <1>2, <1>3, <1>4, <2>1 DEF ScanTypeOK, Block, Depth
<1>7. LevelsOpen'  BY <1>2, <1>3, <1>4 DEF LevelsOpen
<1>8. \/ Around' = Depth - 1 /\ Entered' = Depth /\ Around = Depth /\ Entered = Depth
      \/ Around' = Depth /\ Entered' = Depth /\ Around = Depth - 1 /\ Entered = Depth
      \/ Around' = Around /\ Entered' = Entered /\ Around < Depth /\ Around \in Int
  <2>1. CASE path = Here /\ path' = ToEnd(Depth)
    <3>1. path'.of = Depth /\ path'.doing = "to end"  BY <2>1 DEF ToEnd
    <3>2. Here.doing = "here"  BY DEF Here
    <3>3. QED  BY <1>3, <2>1, <3>1, <3>2 DEF Around, Entered
  <2>2. CASE path = ToElse(Depth) /\ path # Here /\ path' = Here
    <3>1. path.of = Depth  BY <2>2 DEF ToElse
    <3>2. QED  BY <1>3, <2>2, <3>1 DEF Around, Entered
  <2>3. CASE path # Here /\ path' = path
    <3>1. Around \in Int /\ Around < Depth  BY <1>1, <1>2, <2>3, PathCases
    <3>2. QED  BY <2>3, <3>1 DEF Around, Entered
  <2>4. QED  BY <1>5, <2>1, <2>2, <2>3
<1>9. Sure'
  <2> SUFFICES ASSUME NEW l \in Locals, level'[l] <= Around'  PROVE l \in assigned
    BY <1>1 DEF Sure
  <2>1. Around' \in Int /\ Around' < Unset /\ Around' <= Depth /\ level'[l] \in Int
    BY <1>2, <1>4, <1>8 DEF Unset
  <2>2. level'[l] <= Depth - 1  BY <1>2, <1>4, <2>1
  <2>3. level[l] <= Depth - 1 /\ level[l] <= Around' /\ level[l] \in Int
    <3>1. Depth - 1 \in Int /\ Depth - 1 < Unset  BY <1>2 DEF Unset
    <3>2. QED  BY <1>1, <1>4, <2>1, <2>2, <3>1, ScanParts
  <2>4. level[l] <= Around  BY <1>2, <1>8, <2>3
  <2>5. QED  BY <2>4 DEF ScanInv, Sure
<1>10. HeadsSure'
  <2>1. \A i \in 1 .. Depth : i <= Entered' => i <= Entered  BY <1>2, <1>8
  <2>2. QED  BY <1>1, <1>3, <2>1 DEF ScanInv, HeadsSure
<1>11. HeadsOpen'  BY <1>3 DEF ScanInv, HeadsOpen
<1>12. ReadsZeroed'  BY <1>1 DEF ScanInv, ReadsZeroed
<1>13. QED  BY <1>6, <1>7, <1>9, <1>10, <1>11, <1>12 DEF ScanInv

(* The outermost d blocks.                                                 *)
LEMMA Outermost ==
  ASSUME ScanTypeOK, NEW d \in 0 .. Depth, blocks' = SubSeq(blocks, 1, d)
  PROVE  /\ Depth' = d /\ blocks' \in Seq(Block)
         /\ \A i \in 1 .. d : blocks'[i] = blocks[i]
<1>1. blocks \in Seq(Block) /\ Depth \in Nat  BY ScanParts
<1>2. d \in Nat /\ d <= Len(blocks)  BY <1>1 DEF Depth
<1>3. Len(SubSeq(blocks, 1, d)) = d /\ SubSeq(blocks, 1, d) \in Seq(Block)  BY <1>1, <1>2
<1>4. \A i \in 1 .. d : SubSeq(blocks, 1, d)[i] = blocks[i]  BY <1>1, <1>2
<1>5. QED  BY <1>3, <1>4 DEF Depth

(* At an end, the path comes in if it was on its way to the block's label. *)
LEMMA EndKeepsInv ==
  ASSUME ScanInv, End
  PROVE  ScanInv'
<1>1. UNCHANGED <<flagged, assigned, early>> /\ ScanTypeOK /\ level' = Unsure(Depth - 1)
  BY DEF End, ScanInv, AtEnd
<1>2. Depth \in Nat /\ Depth \in 1 .. Depth /\ Depth < Unset /\ Depth <= MaxBlocks
  BY <1>1, ScanParts DEF End, Depth
<1>3. /\ Depth' = Depth - 1 /\ blocks' \in Seq(Block)
      /\ \A i \in 1 .. Depth - 1 : blocks'[i] = blocks[i]
  <2>1. Depth - 1 \in 0 .. Depth /\ blocks' = SubSeq(blocks, 1, Depth - 1)  BY <1>2 DEF End
  <2>2. QED  BY <1>1, <2>1, Outermost
<1>4. /\ level' \in [Locals -> Levels]
      /\ \A l \in Locals : level'[l] <= Depth - 1 \/ level'[l] = Unset
      /\ \A l \in Locals, e \in Int : e < Unset /\ level'[l] <= e => level[l] <= e
      /\ \A l \in Locals : level'[l] \in Int
  <2>1. Depth - 1 \in Int /\ Depth - 1 < Unset  BY <1>2 DEF Unset
  <2>2. Unsure(Depth - 1) \in [Locals -> Levels]  BY <1>1, <2>1, UnsureLevels
  <2>3. QED  BY <1>1, <2>1, <2>2, UnsureLevels, LevelsAreNumbers
<1>5. \/ path \in {ToEnd(Depth), ToElse(Depth)} /\ path' = Here
      \/ path \notin {ToEnd(Depth), ToElse(Depth)} /\ path' = path
  BY DEF End, Arrives
<1>6. ScanTypeOK'
  <2>1. path' \in {Here, Left} \cup {ToEnd(d) : d \in 1 .. Depth'} \cup {ToElse(d) : d \in 1 .. Depth'}
    <3>1. \A d \in 1 .. Depth : d = Depth \/ d \in 1 .. Depth'  BY <1>2, <1>3
    <3>2. QED  BY <1>1, <1>5, <3>1 DEF ScanTypeOK
  <2>2. Depth' <= MaxBlocks  BY <1>2, <1>3, LocalsInitAssumption
  <2>3. (flagged \subseteq Locals /\ assigned \subseteq Locals /\ early \subseteq Locals)'
    BY <1>1 DEF ScanTypeOK
  <2>4. QED  BY <1>3, <1>4, <2>1, <2>2, <2>3 DEF ScanTypeOK, Block
<1>7. LevelsOpen'  BY <1>3, <1>4 DEF LevelsOpen
<1>8. \/ Around' = Depth - 1 /\ Entered' = Depth - 1 /\ Around >= Depth - 1 /\ Entered >= Depth - 1
      \/ Around' = Around /\ Entered' = Entered /\ Around < Depth /\ Around \in Int
  <2>1. CASE path \in {ToEnd(Depth), ToElse(Depth)} /\ path' = Here
    <3>1. path.of = Depth /\ path # Here
      <4>1. Here.doing = "here"  BY DEF Here
      <4>2. CASE path = ToEnd(Depth)
        <5>1. path.of = Depth /\ path.doing = "to end"  BY <4>2 DEF ToEnd
        <5>2. QED  BY <4>1, <5>1
      <4>3. CASE path = ToElse(Depth)
        <5>1. path.of = Depth /\ path.doing = "to else"  BY <4>3 DEF ToElse
        <5>2. QED  BY <4>1, <5>1
      <4>4. QED  BY <2>1, <4>2, <4>3
    <3>2. Around' = Depth - 1 /\ Entered' = Depth - 1  BY <1>3, <2>1 DEF Around, Entered
    <3>3. Around = Depth - 1 /\ Entered = Depth  BY <3>1 DEF Around, Entered
    <3>4. QED  BY <1>2, <3>2, <3>3
  <2>2. CASE path = Here /\ path' = path
    <3>1. Around' = Depth - 1 /\ Entered' = Depth - 1  BY <1>3, <2>2 DEF Around, Entered
    <3>2. Around = Depth /\ Entered = Depth  BY <2>2 DEF Around, Entered
    <3>3. QED  BY <1>2, <3>1, <3>2
  <2>3. CASE path # Here /\ path' = path
    <3>1. Around \in Int /\ Around < Depth  BY <1>1, <1>2, <2>3, PathCases
    <3>2. QED  BY <2>3, <3>1 DEF Around, Entered
  <2>4. QED  BY <1>5, <2>1, <2>2, <2>3
<1>9. Sure'
  <2> SUFFICES ASSUME NEW l \in Locals, level'[l] <= Around'  PROVE l \in assigned
    BY <1>1 DEF Sure
  <2>1. Around' \in Int /\ Around' < Unset /\ Around \in Int
    <3>1. Around \in Int  BY <1>1, <1>2, PathCases DEF Around
    <3>2. QED  BY <1>2, <1>8, <3>1 DEF Unset
  <2>2. level[l] <= Around' /\ level[l] \in Int  BY <1>1, <1>4, <2>1, ScanParts
  <2>3. level[l] <= Around  BY <1>2, <1>8, <2>1, <2>2
  <2>4. QED  BY <2>3 DEF ScanInv, Sure
<1>10. HeadsSure'
  <2>1. \A i \in 1 .. Depth - 1 : i <= Entered' => i <= Entered
    <3>1. Entered \in Int  BY <1>1, <1>2, PathCases DEF Entered
    <3>2. QED  BY <1>2, <1>8, <3>1
  <2>2. 1 .. Depth - 1 \subseteq 1 .. Depth  BY <1>2
  <2>3. QED  BY <1>1, <1>3, <2>1, <2>2 DEF ScanInv, HeadsSure
<1>11. HeadsOpen'
  <2>1. 1 .. Depth - 1 \subseteq 1 .. Depth  BY <1>2
  <2>2. QED  BY <1>3, <2>1 DEF ScanInv, HeadsOpen
<1>12. ReadsZeroed'  BY <1>1 DEF ScanInv, ReadsZeroed
<1>13. QED  BY <1>6, <1>7, <1>9, <1>10, <1>11, <1>12 DEF ScanInv

(* A branch forward leaves the path before the label; one back to a loop   *)
(* finds the levels of the head, which were sure and still are.            *)
LEMMA BranchKeepsInv ==
  ASSUME ScanInv, NEW d \in 1 .. Depth, Branch(d)
  PROVE  ScanInv'
<1>1. UNCHANGED <<flagged, assigned, early>> /\ ScanTypeOK /\ path = Here
  BY DEF Branch, ScanInv
<1>2. Depth \in Nat /\ Depth < Unset /\ Depth <= MaxBlocks /\ d \in Int  BY <1>1, ScanParts
<1>3. Around = Depth /\ Entered = Depth  BY <1>1 DEF Around, Entered
<1>4. ReadsZeroed'  BY <1>1 DEF ScanInv, ReadsZeroed
<1>5. CASE blocks[d].kind = "loop"
  <2>1. blocks' = SubSeq(blocks, 1, d) /\ level' = blocks[d].head /\ path' = Here
    BY <1>1, <1>5 DEF Branch
  <2>2. /\ Depth' = d /\ blocks' \in Seq(Block) /\ \A i \in 1 .. d : blocks'[i] = blocks[i]
    <3>1. d \in 0 .. Depth  BY <1>2
    <3>2. QED  BY <1>1, <2>1, <3>1, Outermost
  <2>3. Around' = d /\ Entered' = d  BY <2>1, <2>2 DEF Around, Entered
  <2>4. level' \in [Locals -> Levels]  BY <1>1, <2>1, ScanParts
  <2>5. ScanTypeOK'
    <3>1. Depth' <= MaxBlocks  BY <1>2, <2>2, LocalsInitAssumption
    <3>2. (flagged \subseteq Locals /\ assigned \subseteq Locals /\ early \subseteq Locals)'
      BY <1>1 DEF ScanTypeOK
    <3>3. QED  BY <2>1, <2>2, <2>4, <3>1, <3>2 DEF ScanTypeOK, Block
  <2>6. \A l \in Locals : level'[l] <= d - 1 \/ level'[l] = Unset
    BY <2>1 DEF ScanInv, HeadsOpen
  <2>7. \A l \in Locals : level'[l] \in Int  BY <2>5, ScanParts, <2>4, <2>1, <1>1
  <2>8. LevelsOpen'  BY <1>2, <2>2, <2>6, <2>7 DEF LevelsOpen
  <2>9. Sure'
    <3> SUFFICES ASSUME NEW l \in Locals, level'[l] <= d  PROVE l \in assigned
      BY <1>1, <2>3 DEF Sure
    <3>1. level'[l] # Unset  BY <1>2, <2>7 DEF Unset
    <3>2. d <= Entered /\ blocks[d].head[l] # Unset  BY <1>2, <1>3, <2>1, <3>1
    <3>3. QED  BY <3>2 DEF ScanInv, HeadsSure
  <2>10. 1 .. d \subseteq 1 .. Depth /\ \A i \in 1 .. d : i <= Entered  BY <1>2, <1>3
  <2>11. (HeadsSure /\ HeadsOpen)'
    <3>1. \A i \in 1 .. Depth' : blocks'[i] = blocks[i] /\ i \in 1 .. Depth /\ i <= Entered
      BY <2>2, <2>10
    <3>2. HeadsSure'  BY <1>1, <3>1 DEF ScanInv, HeadsSure
    <3>3. HeadsOpen'  BY <1>1, <3>1 DEF ScanInv, HeadsOpen
    <3> QED  BY <3>2, <3>3
  <2>12. QED  BY <1>4, <2>5, <2>8, <2>9, <2>11 DEF ScanInv
<1>6. CASE blocks[d].kind # "loop"
  <2>1. path' = ToEnd(d) /\ UNCHANGED <<blocks, level>>  BY <1>6 DEF Branch
  <2>2. Depth' = Depth  BY <2>1 DEF Depth
  <2>3. Around' = d - 1 /\ Entered' = d
    <3>1. path'.of = d /\ path'.doing = "to end"  BY <2>1 DEF ToEnd
    <3>2. Here.doing = "here"  BY DEF Here
    <3>3. path' # Here  BY <3>1, <3>2
    <3>4. QED  BY <3>1, <3>3 DEF Around, Entered
  <2>4. ScanTypeOK'  BY <1>1, <2>1, <2>2 DEF ScanTypeOK, Depth
  <2>5. (LevelsOpen /\ HeadsOpen)'  BY <2>1, <2>2 DEF ScanInv, LevelsOpen, HeadsOpen
  <2>6. Sure'
    <3>1. \A l \in Locals : level[l] <= d - 1 => level[l] <= Depth  BY <1>1, <1>2, ScanParts
    <3>2. QED  BY <1>1, <1>3, <2>1, <2>3, <3>1 DEF ScanInv, Sure
  <2>7. HeadsSure'
    <3>1. \A i \in 1 .. Depth : i <= Entered  BY <1>2, <1>3
    <3>2. QED  BY <1>1, <2>1, <2>2, <3>1 DEF ScanInv, HeadsSure
  <2>8. QED  BY <1>4, <2>4, <2>5, <2>6, <2>7 DEF ScanInv
<1>7. QED  BY <1>5, <1>6

LEMMA ReturnKeepsInv ==
  ASSUME ScanInv, Returns
  PROVE  ScanInv'
<1>1. UNCHANGED <<level, blocks, flagged, assigned, early>> /\ ScanTypeOK /\ path' = Left
  BY DEF Returns, ScanInv
<1>2. Around' = -1 /\ Entered' = 0  BY <1>1 DEF Left, Here, Around, Entered
<1>3. Depth' = Depth  BY <1>1 DEF Depth
<1>4. ScanTypeOK'  BY <1>1, <1>3 DEF ScanTypeOK, Depth
<1>5. (LevelsOpen /\ HeadsOpen /\ ReadsZeroed)'
  BY <1>1, <1>3 DEF ScanInv, LevelsOpen, HeadsOpen, ReadsZeroed
<1>6. Sure'
  <2>1. \A l \in Locals : level[l] >= 0
    BY <1>1, LocalsInitAssumption DEF ScanTypeOK, Levels, Unset
  <2>2. \A l \in Locals : ~(level[l] <= -1)  BY <1>1, <2>1, ScanParts
  <2>3. QED  BY <1>1, <1>2, <2>2 DEF Sure
<1>7. HeadsSure'  BY <1>1, <1>2, <1>3, ScanParts DEF HeadsSure
<1>8. QED  BY <1>4, <1>5, <1>6, <1>7 DEF ScanInv

LEMMA NextScan == ScanInv /\ [ScanNext]_scanVars => ScanInv'
<1> SUFFICES ASSUME ScanInv, [ScanNext]_scanVars PROVE ScanInv'  OBVIOUS
<1>1. ASSUME NEW l \in Locals, LocalGet(l) PROVE ScanInv'  BY <1>1, LocalGetKeepsInv
<1>2. ASSUME NEW l \in Locals, LocalSet(l) PROVE ScanInv'  BY <1>2, LocalSetKeepsInv
<1>3. ASSUME NEW kind \in {"block", "loop", "if"}, Begin(kind) PROVE ScanInv'
  BY <1>3, BeginKeepsInv
<1>4. CASE Else  BY <1>4, ElseKeepsInv
<1>5. CASE End  BY <1>5, EndKeepsInv
<1>6. ASSUME NEW d \in 1 .. Depth, Branch(d) PROVE ScanInv'  BY <1>6, BranchKeepsInv
<1>7. CASE Returns  BY <1>7, ReturnKeepsInv
<1>8. CASE UNCHANGED scanVars
  BY <1>8
  DEF scanVars, ScanInv, ScanTypeOK, LevelsOpen, Sure, HeadsSure, HeadsOpen, ReadsZeroed,
              Around, Entered, Depth
<1>9. QED  BY <1>1, <1>2, <1>3, <1>4, <1>5, <1>6, <1>7, <1>8 DEF ScanNext

-----------------------------------------------------------------------------

(* However deep blocks are nested and whatever branches are taken, a local *)
(* that is read before it is set is one of those zeroed on entry.          *)
THEOREM ReadsAlwaysZeroed == ScanSpec => []ReadsZeroed
<1>1. ScanInv => ReadsZeroed  BY DEF ScanInv
<1>2. QED  BY <1>1, InitScan, NextScan, PTL DEF ScanSpec

(* The scan relies on no block that has ended, and its state is typed.     *)
THEOREM LevelsAlwaysOpen == ScanSpec => [](ScanTypeOK /\ LevelsOpen)
<1>1. ScanInv => ScanTypeOK /\ LevelsOpen  BY DEF ScanInv
<1>2. QED  BY <1>1, InitScan, NextScan, PTL DEF ScanSpec

(*-------------------------------------------------------------------------*)
(* The code of functions: ExecAllocator                                    *)
(*-------------------------------------------------------------------------*)

-----------------------------------------------------------------------------
(* Lists and sums.                                                         *)

OneLess == {p \in Nat \X Nat : p[1] < p[2]}

LEMMA Smallest ==
  ASSUME NEW T, T \subseteq Nat, T # {}
  PROVE  \E m \in T : \A k \in T : m <= k
<1>1. IsWellFoundedOn(OneLess, Nat)
  BY NatLessThanWellFounded, Zenon DEF OpToRel, OneLess
<1>2. PICK m \in T : \A k \in T : ~(<<k, m>> \in OneLess)
  BY <1>1, WFMin
<1>3. \A k \in T : ~(k < m)  BY <1>2 DEF OneLess
<1> QED  BY <1>3

(* A list without the places in S: each that is left is there once.        *)
Once(list) == \A i, j \in 1 .. Len(list) : list[i] = list[j] => i = j
Listed(list) == {list[i] : i \in 1 .. Len(list)}

Keeps(kept, list, S, n) ==
  kept = [k \in 0 .. n |->
            IF k = 0 THEN <<>>
            ELSE IF list[k] \in S THEN kept[k - 1] ELSE Append(kept[k - 1], list[k])]

LEMMA KeptExists ==
  ASSUME NEW list, NEW S, NEW n \in Nat
  PROVE  \E kept : Keeps(kept, list, S, n)
<1> DEFINE Bad == {m \in Nat : ~\E kept : Keeps(kept, list, S, m)}
<1> SUFFICES ASSUME Bad # {} PROVE FALSE  OBVIOUS
<1>1. PICK m \in Bad : \A k \in Bad : m <= k
  <2>1. Bad \subseteq Nat  OBVIOUS
  <2> QED  BY <2>1, Smallest
<1>2. m # 0
  <2>1. Keeps([k \in 0 .. 0 |-> <<>>], list, S, 0)  BY DEF Keeps
  <2> QED  BY <1>1, <2>1
<1>3. m \in Nat /\ m - 1 \in Nat  BY <1>1, <1>2
<1>4. PICK h : Keeps(h, list, S, m - 1)
  <2>1. m - 1 \notin Bad
    <3> HIDE DEF Bad
    <3> QED  BY <1>1, <1>3
  <2> QED  BY <1>3, <2>1, Zenon
<1> DEFINE last == IF list[m] \in S THEN h[m - 1] ELSE Append(h[m - 1], list[m])
           f == [k \in 0 .. m |-> IF k = m THEN last ELSE h[k]]
<1>5. Keeps(f, list, S, m)
  <2> HIDE DEF Bad
  <2>1. ASSUME NEW k \in 0 .. m
        PROVE  f[k] = IF k = 0 THEN <<>>
                      ELSE IF list[k] \in S THEN f[k - 1] ELSE Append(f[k - 1], list[k])
    <3>1. CASE k = m
      <4>1. f[k] = last /\ f[k - 1] = h[m - 1]  BY <1>2, <1>3, <3>1
      <4> QED  BY <1>2, <3>1, <4>1
    <3>2. CASE k # m
      <4>1. k \in 0 .. (m - 1) /\ f[k] = h[k] /\ (k # 0 => f[k - 1] = h[k - 1])
        BY <1>3, <3>2
      <4> HIDE DEF f
      <4>2. h[k] = IF k = 0 THEN <<>>
                   ELSE IF list[k] \in S THEN h[k - 1] ELSE Append(h[k - 1], list[k])
        BY <1>4, <4>1 DEF Keeps
      <4> QED  BY <4>1, <4>2
    <3> QED  BY <3>1, <3>2
  <2> QED  BY <2>1 DEF Keeps
<1> QED  BY <1>1, <1>5

LEMMA UnlinkedIs ==
  ASSUME NEW T, NEW list \in Seq(T), NEW S
  PROVE  /\ Unlinked(list, S) \in Seq(T)
         /\ Listed(Unlinked(list, S)) = Listed(list) \ S
         /\ Once(list) => Once(Unlinked(list, S))
<1> DEFINE n == Len(list)
           kept == CHOOSE f : Keeps(f, list, S, n)
<1>1. n \in Nat  OBVIOUS
<1>2. Unlinked(list, S) = kept[n]  BY Zenon DEF Unlinked, Keeps
<1>3. Keeps(kept, list, S, n)  BY <1>1, KeptExists, Zenon
<1> HIDE DEF kept
<1> DEFINE Good(x, k) ==
             /\ x \in Seq(T) /\ Listed(x) = {list[i] : i \in 1 .. k} \ S
             /\ Once(list) => Once(x)
           Bad == {k \in 0 .. n : ~Good(kept[k], k)}
<1>4. Bad = {}
  <2> SUFFICES ASSUME Bad # {} PROVE FALSE  OBVIOUS
  <2>1. PICK m \in Bad : \A k \in Bad : m <= k
    <3>1. Bad \subseteq Nat  OBVIOUS
    <3> QED  BY <3>1, Smallest
  <2>2. m # 0
    <3>1. kept[0] = <<>>  BY <1>1, <1>3 DEF Keeps
    <3>2. Good(<<>>, 0)  BY DEF Listed, Once
    <3> QED  BY <2>1, <3>1, <3>2
  <2>3. m \in 1 .. n /\ m - 1 \in 0 .. n /\ m - 1 \in Nat  BY <1>1, <2>1, <2>2
  <2>4. Good(kept[m - 1], m - 1)
    <3> HIDE DEF Good
    <3>1. m - 1 \notin Bad
      <4> HIDE DEF Bad
      <4> QED  BY <2>1, <2>3
    <3> QED  BY <2>3, <3>1
  <2>5. kept[m] = IF list[m] \in S THEN kept[m - 1] ELSE Append(kept[m - 1], list[m])
    <3>1. m \in 0 .. n /\ m # 0  BY <2>3
    <3> QED  BY <1>3, <3>1 DEF Keeps
  <2> DEFINE x == kept[m - 1]
             e == list[m]
  <2>6. {list[i] : i \in 1 .. m} = {list[i] : i \in 1 .. (m - 1)} \cup {e}
    <3>1. \A i : i \in 1 .. m <=> i \in 1 .. (m - 1) \/ i = m  BY <2>3
    <3> HIDE DEF n
    <3> QED  BY <3>1
  <2>7. Good(kept[m], m)
    <3> HIDE DEF x
    <3>1. CASE e \in S
      <4>1. kept[m] = x  BY <2>5, <3>1 DEF x
      <4> HIDE DEF e
      <4> QED  BY <2>4, <2>6, <3>1, <4>1 DEF x
    <3>2. CASE e \notin S
      <4>1. kept[m] = Append(x, e)  BY <2>5, <3>2 DEF x
      <4>2. e \in T /\ x \in Seq(T)  BY <2>3, <2>4 DEF x
      <4> DEFINE y == Append(x, e)
      <4>3. /\ y \in Seq(T) /\ Len(y) = Len(x) + 1 /\ Len(x) \in Nat
            /\ y[Len(x) + 1] = e /\ \A i \in 1 .. Len(x) : y[i] = x[i]
        <5> HIDE DEF e
        <5> QED  BY <4>2
      <4> HIDE DEF y
      <4>4. \A i : i \in 1 .. Len(y) <=> i \in 1 .. Len(x) \/ i = Len(x) + 1  BY <4>3
      <4>5. Listed(y) = Listed(x) \cup {e}
        <5> HIDE DEF e
        <5> QED  BY <4>3, <4>4 DEF Listed
      <4>6. Listed(x) = {list[i] : i \in 1 .. (m - 1)} \ S  BY <2>4 DEF x
      <4>7. ASSUME Once(list)  PROVE Once(y)
        <5>1. \A i \in 1 .. (m - 1) : list[i] # e
          <6>1. \A i \in 1 .. (m - 1) : i \in 1 .. n /\ i # m  BY <2>3
          <6> QED  BY <2>3, <4>7, <6>1, Zenon DEF Once
        <5>2. Once(x)  BY <2>4, <4>7 DEF x
        <5>3. \A i \in 1 .. Len(x) : x[i] # e
          <6>1. e \notin Listed(x)
            <7> HIDE DEF e
            <7> QED  BY <4>6, <5>1
          <6> QED  BY <6>1, Zenon DEF Listed
        <5>4. ASSUME NEW i \in 1 .. Len(y), NEW j \in 1 .. Len(y), y[i] = y[j]  PROVE i = j
          <6>1. CASE i \in 1 .. Len(x) /\ j \in 1 .. Len(x)
            BY <4>3, <5>2, <5>4, <6>1, ZenonT(60) DEF Once
          <6>2. CASE i = Len(x) + 1 /\ j \in 1 .. Len(x)
            BY <4>3, <5>3, <5>4, <6>2, Zenon
          <6>3. CASE i \in 1 .. Len(x) /\ j = Len(x) + 1
            BY <4>3, <5>3, <5>4, <6>3, Zenon
          <6> QED  BY <4>4, <5>4, <6>1, <6>2, <6>3, Zenon
        <5> QED  BY <5>4, Zenon DEF Once
      <4>8. Listed(y) = {list[i] : i \in 1 .. m} \ S
        <5> HIDE DEF e
        <5> QED  BY <2>6, <3>2, <4>5, <4>6
      <4> QED  BY <4>1, <4>3, <4>7, <4>8, Zenon DEF y
    <3> QED  BY <3>1, <3>2
  <2> QED  BY <2>1, <2>7
<1>5. Good(kept[n], n)
  <2> HIDE DEF Good
  <2>1. n \in 0 .. n  BY <1>1
  <2> QED  BY <1>4, <2>1
<1> QED  BY <1>2, <1>5 DEF Listed

(* Sums over a finite set, of the values of a function.                    *)
Choice(s) == CHOOSE x \in s : TRUE
Sums(g, f, S) ==
  g = [s \in SUBSET S |-> IF s = {} THEN 0 ELSE f[Choice(s)] + g[s \ {Choice(s)}]]
Total(f, S) == (CHOOSE g : Sums(g, f, S))[S]

LEMMA SumsAt ==
  ASSUME NEW f, NEW S, NEW g, Sums(g, f, S), NEW s \in SUBSET S
  PROVE  g[s] = IF s = {} THEN 0 ELSE f[Choice(s)] + g[s \ {Choice(s)}]
BY DEF Sums

(* Smaller sets first: what fails for a finite set fails for a smallest.   *)
LEMMA SmallestSet ==
  ASSUME NEW B, \A s \in B : IsFiniteSet(s), B # {}
  PROVE  \E s \in B : \A x \in s : s \ {x} \notin B
<1> DEFINE N == {Cardinality(s) : s \in B}
<1>1. N \subseteq Nat  BY FS_CardinalityType
<1>2. PICK m \in N : \A k \in N : m <= k  BY <1>1, Smallest
<1>3. PICK s \in B : Cardinality(s) = m  BY <1>2
<1>4. ASSUME NEW x \in s, s \ {x} \in B  PROVE FALSE
  <2>1. IsFiniteSet(s)  BY <1>3
  <2>2. Cardinality(s \ {x}) = Cardinality(s) - 1  BY <2>1, FS_RemoveElement, Zenon
  <2>3. Cardinality(s \ {x}) \in N  BY <1>4
  <2>4. m <= Cardinality(s \ {x})  BY <1>2, <2>3
  <2> QED  BY <1>1, <1>2, <1>3, <2>2, <2>4
<1> QED  BY <1>3, <1>4

LEMMA SumsUnique ==
  ASSUME NEW f, NEW S, IsFiniteSet(S), NEW T, IsFiniteSet(T), NEW g, Sums(g, f, S),
         NEW h, Sums(h, f, T), NEW r, r \subseteq S, r \subseteq T
  PROVE  g[r] = h[r]
<1> DEFINE B == {s \in SUBSET S : s \subseteq T /\ g[s] # h[s]}
<1>1. B = {}
  <2> SUFFICES ASSUME B # {} PROVE FALSE  OBVIOUS
  <2>1. \A s \in B : IsFiniteSet(s)  BY FS_Subset
  <2>2. PICK s \in B : \A x \in s : s \ {x} \notin B
    <3> HIDE DEF B
    <3> QED  BY <2>1, SmallestSet
  <2>3. s \in SUBSET S /\ s \in SUBSET T /\ g[s] # h[s]  BY <2>2
  <2> DEFINE c == Choice(s)
  <2>4. g[s] = IF s = {} THEN 0 ELSE f[c] + g[s \ {c}]  BY <2>3, SumsAt
  <2>5. h[s] = IF s = {} THEN 0 ELSE f[c] + h[s \ {c}]  BY <2>3, SumsAt
  <2>6. s # {} /\ c \in s  BY <2>3, <2>4, <2>5 DEF Choice
  <2> HIDE DEF c
  <2>7. g[s \ {c}] = h[s \ {c}]  BY <2>2, <2>3, <2>6
  <2> QED  BY <2>3, <2>4, <2>5, <2>6, <2>7
<1> QED  BY <1>1

LEMMA SumsExist ==
  ASSUME NEW f, NEW S, IsFiniteSet(S)
  PROVE  \E g : Sums(g, f, S)
<1> DEFINE B == {s \in SUBSET S : ~\E g : Sums(g, f, s)}
<1>1. B = {}
  <2> SUFFICES ASSUME B # {} PROVE FALSE  OBVIOUS
  <2>1. \A s \in B : IsFiniteSet(s)  BY FS_Subset
  <2>2. PICK s \in B : \A x \in s : s \ {x} \notin B
    <3> HIDE DEF B
    <3> QED  BY <2>1, SmallestSet
  <2>3. s \in SUBSET S /\ IsFiniteSet(s)  BY <2>1, <2>2
  <2> DEFINE Of(u) == CHOOSE g : Sums(g, f, u)
             g == [u \in SUBSET s |-> IF u = {} THEN 0
                                      ELSE f[Choice(u)] + Of(s \ {Choice(u)})[u \ {Choice(u)}]]
  <2>4. \A x \in s : Sums(Of(s \ {x}), f, s \ {x}) /\ IsFiniteSet(s \ {x})
    <3> SUFFICES ASSUME NEW x \in s PROVE Sums(Of(s \ {x}), f, s \ {x}) /\ IsFiniteSet(s \ {x})
      OBVIOUS
    <3>1. \E h : Sums(h, f, s \ {x})  BY <2>2, <2>3
    <3>2. IsFiniteSet(s \ {x})  BY <2>3, FS_Subset
    <3> QED  BY <3>1, <3>2
  <2>5. \A u \in SUBSET s : u # {} => Choice(u) \in u  BY DEF Choice
  <2> HIDE DEF Of
  <2>6. ASSUME NEW u \in SUBSET s
        PROVE  g[u] = IF u = {} THEN 0 ELSE f[Choice(u)] + g[u \ {Choice(u)}]
    <3>1. CASE u = {}  BY <3>1
    <3>2. CASE u # {}
      <4> DEFINE a == Choice(u)
                 v == u \ {a}
      <4>1. a \in s /\ a \in u /\ v \in SUBSET s  BY <2>5, <3>2
      <4>2. g[u] = f[a] + Of(s \ {a})[v]  BY <3>2
      <4>3. g[v] = Of(s \ {a})[v]
        <5>1. Sums(Of(s \ {a}), f, s \ {a}) /\ IsFiniteSet(s \ {a}) /\ v \in SUBSET (s \ {a})
          BY <2>4, <4>1
        <5>2. Of(s \ {a})[v] = IF v = {} THEN 0 ELSE f[Choice(v)] + Of(s \ {a})[v \ {Choice(v)}]
          <6> DEFINE o == Of(s \ {a})
                     S1 == s \ {a}
          <6>1. Sums(o, f, S1) /\ v \in SUBSET S1  BY <5>1
          <6> HIDE DEF o, S1, v, g
          <6>2. o[v] = IF v = {} THEN 0 ELSE f[Choice(v)] + o[v \ {Choice(v)}]  BY <6>1, SumsAt
          <6> QED  BY <6>2 DEF o
        <5>3. g[v] = IF v = {} THEN 0 ELSE f[Choice(v)] + Of(s \ {Choice(v)})[v \ {Choice(v)}]
          <6> HIDE DEF v
          <6> QED  BY <4>1
        <5>4. CASE v = {}  BY <5>2, <5>3, <5>4
        <5>5. CASE v # {}
          <6> DEFINE b == Choice(v)
          <6>1. b \in s /\ b \in v  BY <2>5, <4>1, <5>5
          <6>2. Sums(Of(s \ {b}), f, s \ {b}) /\ IsFiniteSet(s \ {b})  BY <2>4, <6>1
          <6>3. v \ {b} \subseteq s \ {a} /\ v \ {b} \subseteq s \ {b}  BY <4>1
          <6> HIDE DEF b
          <6>4. Of(s \ {a})[v \ {b}] = Of(s \ {b})[v \ {b}]
            <7> HIDE DEF a, v
            <7> QED  BY <5>1, <6>2, <6>3, SumsUnique
          <6> HIDE DEF g, v, a
          <6> QED  BY <5>2, <5>3, <5>5, <6>4 DEF b
        <5> QED  BY <5>4, <5>5
      <4> HIDE DEF g, v
      <4> QED  BY <3>2, <4>2, <4>3 DEF v
    <3> QED  BY <3>1, <3>2
  <2>7. Sums(g, f, s)
    <3>1. g = [u \in SUBSET s |-> g[u]]  OBVIOUS
    <3> HIDE DEF g
    <3>2. g = [u \in SUBSET s |-> IF u = {} THEN 0 ELSE f[Choice(u)] + g[u \ {Choice(u)}]]
      BY <2>6, <3>1
    <3> QED  BY <3>2 DEF Sums
  <2> HIDE DEF g
  <2> QED  BY <2>2, <2>7
<1>2. S \in SUBSET S /\ S \notin B  BY <1>1
<1> QED  BY <1>2

LEMMA TotalAt ==
  ASSUME NEW f, NEW S, IsFiniteSet(S)
  PROVE  /\ S = {} => Total(f, S) = 0
         /\ S # {} => \E c \in S : Total(f, S) = f[c] + Total(f, S \ {c})
<1> DEFINE g == CHOOSE h : Sums(h, f, S)
           c == Choice(S)
           k == CHOOSE h : Sums(h, f, S \ {c})
<1>1. IsFiniteSet(S \ {c})  BY FS_Subset
<1>2. Sums(g, f, S)  BY SumsExist
<1>3. Sums(k, f, S \ {c})
  <2> HIDE DEF c
  <2> QED  BY <1>1, SumsExist
<1>4. Total(f, S) = g[S] /\ Total(f, S \ {c}) = k[S \ {c}]  BY DEF Total
<1>5. S # {} => c \in S  BY DEF Choice
<1> HIDE DEF g, k
<1>6. S \in SUBSET S  OBVIOUS
<1>7. g[S] = IF S = {} THEN 0 ELSE f[c] + g[S \ {c}]
  BY <1>2, <1>6, SumsAt
<1> HIDE DEF c
<1>8. g[S \ {c}] = k[S \ {c}]
  <2>1. S \ {c} \subseteq S /\ S \ {c} \subseteq S \ {c}  OBVIOUS
  <2> QED  BY <1>1, <1>2, <1>3, <2>1, SumsUnique
<1> QED  BY <1>4, <1>5, <1>7, <1>8

Numbers(f, S) == \A x \in S : f[x] \in Nat

LEMMA TotalNat ==
  ASSUME NEW f, NEW S, IsFiniteSet(S), Numbers(f, S)
  PROVE  Total(f, S) \in Nat
<1> DEFINE B == {s \in SUBSET S : Total(f, s) \notin Nat}
<1>1. B = {}
  <2> SUFFICES ASSUME B # {} PROVE FALSE  OBVIOUS
  <2>1. \A s \in B : IsFiniteSet(s)  BY FS_Subset
  <2>2. PICK s \in B : \A x \in s : s \ {x} \notin B
    <3> HIDE DEF B
    <3> QED  BY <2>1, SmallestSet
  <2>3. IsFiniteSet(s) /\ s \subseteq S /\ Total(f, s) \notin Nat  BY <2>1, <2>2
  <2>4. PICK c \in s : Total(f, s) = f[c] + Total(f, s \ {c})  BY <2>3, TotalAt
  <2>5. Total(f, s \ {c}) \in Nat  BY <2>2, <2>3
  <2>6. f[c] \in Nat  BY <2>3 DEF Numbers
  <2> QED  BY <2>3, <2>4, <2>5, <2>6
<1> QED  BY <1>1

(* It does not matter which element is taken first.                        *)
LEMMA TotalOut ==
  ASSUME NEW f, NEW S, IsFiniteSet(S), Numbers(f, S), NEW x \in S
  PROVE  Total(f, S) = f[x] + Total(f, S \ {x})
<1> DEFINE Right(s) == \A y \in s : Total(f, s) = f[y] + Total(f, s \ {y})
           B == {s \in SUBSET S : ~Right(s)}
<1>1. B = {}
  <2> SUFFICES ASSUME B # {} PROVE FALSE  OBVIOUS
  <2>1. \A s \in B : IsFiniteSet(s)  BY FS_Subset
  <2>2. PICK s \in B : \A y \in s : s \ {y} \notin B
    <3> HIDE DEF B
    <3> QED  BY <2>1, SmallestSet
  <2>3. IsFiniteSet(s) /\ s \subseteq S /\ ~Right(s)  BY <2>1, <2>2
  <2>4. PICK y \in s : Total(f, s) # f[y] + Total(f, s \ {y})  BY <2>3
  <2>5. PICK c \in s : Total(f, s) = f[c] + Total(f, s \ {c})  BY <2>3, TotalAt
  <2>6. Right(s \ {c}) /\ Right(s \ {y})
    <3> HIDE DEF Right
    <3> QED  BY <2>2, <2>3
  <2>7. c # y  BY <2>4, <2>5
  <2>8. Total(f, s \ {c}) = f[y] + Total(f, (s \ {c}) \ {y})  BY <2>6, <2>7
  <2>9. Total(f, s \ {y}) = f[c] + Total(f, (s \ {y}) \ {c})  BY <2>6, <2>7
  <2>10. (s \ {c}) \ {y} = (s \ {y}) \ {c}  OBVIOUS
  <2> DEFINE r == (s \ {y}) \ {c}
  <2>11. Total(f, r) \in Nat
    <3>1. IsFiniteSet(r) /\ r \subseteq S  BY <2>3, FS_Subset
    <3>2. Numbers(f, r)  BY <3>1 DEF Numbers
    <3> HIDE DEF r
    <3> QED  BY <3>1, <3>2, TotalNat
  <2>12. f[c] \in Nat /\ f[y] \in Nat  BY <2>3 DEF Numbers
  <2> HIDE DEF r, B, Right
  <2>13. Total(f, s \ {c}) = f[y] + Total(f, r) /\ Total(f, s \ {y}) = f[c] + Total(f, r)
    BY <2>8, <2>9, <2>10 DEF r
  <2> QED  BY <2>4, <2>5, <2>11, <2>12, <2>13
<1>2. S \in SUBSET S  OBVIOUS
<1>3. Right(S)
  <2> HIDE DEF Right
  <2> QED  BY <1>1, <1>2
<1> QED  BY <1>3

(* The same numbers under other names have the same sum.                   *)
LEMMA TotalRenamed ==
  ASSUME NEW f, NEW S, IsFiniteSet(S), Numbers(f, S), NEW g, NEW name,
         \A x, y \in S : name[x] = name[y] => x = y,
         \A x \in S : g[name[x]] = f[x]
  PROVE  Total(g, {name[x] : x \in S}) = Total(f, S)
<1> DEFINE Named(s) == {name[x] : x \in s}
           B == {s \in SUBSET S : Total(g, Named(s)) # Total(f, s)}
<1>1. B = {}
  <2> SUFFICES ASSUME B # {} PROVE FALSE  OBVIOUS
  <2>1. \A s \in B : IsFiniteSet(s)  BY FS_Subset
  <2>2. PICK s \in B : \A x \in s : s \ {x} \notin B
    <3> HIDE DEF B
    <3> QED  BY <2>1, SmallestSet
  <2>3. IsFiniteSet(s) /\ s \subseteq S /\ Total(g, Named(s)) # Total(f, s)  BY <2>1, <2>2
  <2>4. s # {}
    <3>1. Named({}) = {} /\ IsFiniteSet({})  BY FS_EmptySet
    <3>2. Total(g, {}) = 0 /\ Total(f, {}) = 0  BY <3>1, TotalAt
    <3> QED  BY <2>3, <3>1, <3>2
  <2>5. PICK c \in s : TRUE  BY <2>4
  <2>6. Numbers(f, s)  BY <2>3 DEF Numbers
  <2>7. Total(f, s) = f[c] + Total(f, s \ {c})  BY <2>3, <2>6, TotalOut
  <2>8. Named(s) \ {name[c]} = Named(s \ {c})  BY <2>3, <2>5
  <2>9. IsFiniteSet(Named(s))
    <3>1. [x \in s |-> name[x]] \in Surjection(s, Named(s))  BY DEF Surjection
    <3> HIDE DEF Named
    <3> QED  BY <2>3, <3>1, FS_Surjection
  <2>10. Numbers(g, Named(s)) /\ name[c] \in Named(s)  BY <2>3, <2>6 DEF Numbers
  <2> DEFINE N == Named(s)
  <2>12. Total(g, N) = g[name[c]] + Total(g, N \ {name[c]})
    <3>1. IsFiniteSet(N) /\ Numbers(g, N) /\ name[c] \in N  BY <2>9, <2>10
    <3> HIDE DEF N
    <3> QED  BY <3>1, TotalOut
  <2>13. Total(g, Named(s \ {c})) = Total(f, s \ {c})
    <3> HIDE DEF Named
    <3> QED  BY <2>2, <2>3
  <2>14. g[name[c]] = f[c]  BY <2>3
  <2> HIDE DEF Named
  <2> QED  BY <2>3, <2>7, <2>8, <2>12, <2>13, <2>14
<1>2. S \in SUBSET S  OBVIOUS
<1> HIDE DEF Named
<1>3. Total(g, Named(S)) = Total(f, S)  BY <1>1, <1>2
<1> QED  BY <1>3 DEF Named

LEMMA TotalSame ==
  ASSUME NEW f, NEW S, IsFiniteSet(S), Numbers(f, S), NEW g, \A x \in S : g[x] = f[x]
  PROVE  Total(g, S) = Total(f, S)
<1> DEFINE name == [x \in S |-> x]
<1>1. \A x \in S : name[x] = x  OBVIOUS
<1>2. {name[x] : x \in S} = S  BY <1>1
<1> HIDE DEF name
<1>3. Total(g, {name[x] : x \in S}) = Total(f, S)  BY <1>1, TotalRenamed
<1> QED  BY <1>2, <1>3

LEMMA TotalSplit ==
  ASSUME NEW f, NEW S, IsFiniteSet(S), Numbers(f, S), NEW T, T \subseteq S
  PROVE  Total(f, S) = Total(f, T) + Total(f, S \ T)
<1> DEFINE Rest(s) == S \ (T \ s)
           B == {s \in SUBSET T : Total(f, Rest(s)) # Total(f, s) + Total(f, S \ T)}
<1>1. B = {}
  <2> SUFFICES ASSUME B # {} PROVE FALSE  OBVIOUS
  <2>1. \A s \in B : IsFiniteSet(s)  BY FS_Subset
  <2>2. PICK s \in B : \A x \in s : s \ {x} \notin B
    <3> HIDE DEF B
    <3> QED  BY <2>1, SmallestSet
  <2>3. /\ IsFiniteSet(s) /\ s \subseteq T /\ s \subseteq S
        /\ Total(f, Rest(s)) # Total(f, s) + Total(f, S \ T)
    BY <2>1, <2>2
  <2>4. IsFiniteSet(S \ T) /\ Numbers(f, S \ T) /\ Numbers(f, s)
    BY <2>3, FS_Subset DEF Numbers
  <2>5. Total(f, S \ T) \in Nat /\ Total(f, s) \in Nat  BY <2>3, <2>4, TotalNat
  <2>6. s # {}
    <3>1. Rest({}) = S \ T  OBVIOUS
    <3>2. Total(f, {}) = 0  BY FS_EmptySet, TotalAt
    <3>3. Total(f, Rest({})) = Total(f, {}) + Total(f, S \ T)  BY <2>5, <3>1, <3>2
    <3> HIDE DEF Rest
    <3> QED  BY <2>3, <3>3
  <2>7. PICK c \in s : TRUE  BY <2>6
  <2>8. Total(f, s) = f[c] + Total(f, s \ {c})  BY <2>3, <2>4, TotalOut
  <2>9. IsFiniteSet(Rest(s)) /\ Numbers(f, Rest(s)) /\ c \in Rest(s)
    BY <2>3, FS_Subset DEF Numbers
  <2>10. Rest(s) \ {c} = Rest(s \ {c})  BY <2>3
  <2> HIDE DEF Rest
  <2>11. Total(f, Rest(s)) = f[c] + Total(f, Rest(s \ {c}))
    <3>1. Total(f, Rest(s)) = f[c] + Total(f, Rest(s) \ {c})  BY <2>9, TotalOut
    <3> QED  BY <2>10, <3>1
  <2>12. Total(f, Rest(s \ {c})) = Total(f, s \ {c}) + Total(f, S \ T)  BY <2>2, <2>3
  <2>13. f[c] \in Nat /\ Total(f, s \ {c}) \in Nat
    <3>1. IsFiniteSet(s \ {c}) /\ Numbers(f, s \ {c})  BY <2>3, <2>4, FS_Subset DEF Numbers
    <3> QED  BY <2>4, <3>1, TotalNat DEF Numbers
  <2> HIDE DEF B
  <2> QED  BY <2>3, <2>5, <2>8, <2>11, <2>12, <2>13
<1>2. T \in SUBSET T /\ Rest(T) = S  OBVIOUS
<1> HIDE DEF Rest
<1> QED  BY <1>1, <1>2

(* The two sums of the model.                                              *)
Sizes(h) == [p \in DOMAIN h |-> h[p].size]

LEMMA LengthsTotal ==
  ASSUME NEW len, NEW S
  PROVE  MapThenSumSet(LAMBDA c : len[c], S) = Total(len, S)
BY DEF MapThenSumSet, MapThenFoldSet, Total, Sums, Choice

LEMMA SizesTotal ==
  ASSUME NEW h, NEW S, IsFiniteSet(S), S \subseteq DOMAIN h
  PROVE  MapThenSumSet(LAMBDA p : h[p].size, S) = Total(Sizes(h), S)
<1> DEFINE P(g) == g = [s \in SUBSET S |->
                          IF s = {} THEN 0 ELSE h[Choice(s)].size + g[s \ {Choice(s)}]]
<1>1. MapThenSumSet(LAMBDA p : h[p].size, S) = (CHOOSE g : P(g))[S]
  BY DEF MapThenSumSet, MapThenFoldSet, Choice
<1>2. \A s \in SUBSET S : s # {} => Sizes(h)[Choice(s)] = h[Choice(s)].size
  BY DEF Sizes, Choice
<1>3. \A g : P(g) <=> Sums(g, Sizes(h), S)
  <2> TAKE g
  <2> HIDE DEF P
  <2>1. [s \in SUBSET S |-> IF s = {} THEN 0 ELSE h[Choice(s)].size + g[s \ {Choice(s)}]]
        = [s \in SUBSET S |-> IF s = {} THEN 0 ELSE Sizes(h)[Choice(s)] + g[s \ {Choice(s)}]]
    BY <1>2
  <2> QED  BY <2>1, Zenon DEF P, Sums
<1> HIDE DEF P
<1>4. (CHOOSE g : P(g)) = (CHOOSE g : Sums(g, Sizes(h), S))  BY <1>3
<1> QED  BY <1>1, <1>4, Zenon DEF Total

-----------------------------------------------------------------------------
(* The heap: each chunk is filled with blocks from its beginning to the    *)
(* header at its end, and each header says how far it is to the next and   *)
(* to the last.                                                            *)

Ends(h, p) == h[p].kind = "end"
Behind(h, p) == At(p, h[p].size)
Ahead(h, p) == At(p, - h[p].prev_size)

Chunked(len) ==
  /\ IsFiniteSet(DOMAIN len) /\ DOMAIN len \subseteq Chunks
  /\ \A c \in DOMAIN len : len[c] \in Nat \ {0}
Headed(h) ==
  /\ IsFiniteSet(DOMAIN h) /\ DOMAIN h \subseteq Place
  /\ \A p \in DOMAIN h : h[p] \in Header
Inside(len, h) ==
  /\ \A c \in DOMAIN len : <<c, 0>> \in DOMAIN h
  /\ \A p \in DOMAIN h :
       /\ p[1] \in DOMAIN len /\ p[2] <= len[p[1]]
       /\ Ends(h, p) <=> p[2] = len[p[1]]
Followed(h) ==
  \A p \in DOMAIN h :
    ~Ends(h, p) =>
      /\ h[p].size > 0
      /\ Behind(h, p) \in DOMAIN h /\ h[Behind(h, p)].prev_size = h[p].size
Clear(h) ==
  \A p, q \in DOMAIN h :
    ~Ends(h, p) /\ q[1] = p[1] => q[2] <= p[2] \/ q[2] >= p[2] + h[p].size
Preceded(h) ==
  \A p \in DOMAIN h :
    /\ p[2] = 0 => h[p].prev_size = 0
    /\ p[2] # 0 =>
         /\ h[p].prev_size > 0 /\ h[p].prev_size <= p[2]
         /\ Ahead(h, p) \in DOMAIN h /\ ~Ends(h, Ahead(h, p))
         /\ h[Ahead(h, p)].size = h[p].prev_size

Heap(len, h) ==
  Chunked(len) /\ Headed(h) /\ Inside(len, h) /\ Followed(h) /\ Clear(h) /\ Preceded(h)

LEMMA Places ==
  /\ \A p, n : At(p, n)[1] = p[1] /\ At(p, n)[2] = p[2] + n
  /\ \A p \in Place : p[1] \in Chunks /\ p[2] \in Nat
  /\ \A p \in Place, n \in Int : p[2] + n \in Nat => At(p, n) \in Place
  /\ \A p, q \in Place : p[1] = q[1] /\ p[2] = q[2] => p = q
BY DEF At, Place

LEMMA Headers ==
  ASSUME NEW h, Headed(h)
  PROVE  \A p \in DOMAIN h :
           /\ p \in Place /\ p[1] \in Chunks /\ p[2] \in Nat
           /\ h[p].size \in Nat /\ h[p].prev_size \in Nat
           /\ h[p].kind \in {"used", "free", "end"}
BY Places DEF Headed, Header

(* The neighbours of a block, and that only they have it for neighbour.    *)
LEMMA Neighbours ==
  ASSUME NEW len, NEW h, Heap(len, h), NEW b \in DOMAIN h
  PROVE  /\ ~Ends(h, b) =>
              /\ Behind(h, b) \in DOMAIN h /\ Behind(h, b)[1] = b[1]
              /\ Behind(h, b)[2] = b[2] + h[b].size /\ Behind(h, b)[2] > b[2]
              /\ h[Behind(h, b)].prev_size = h[b].size /\ h[b].size > 0
         /\ b[2] # 0 =>
              /\ Ahead(h, b) \in DOMAIN h /\ Ahead(h, b)[1] = b[1]
              /\ Ahead(h, b)[2] = b[2] - h[b].prev_size /\ Ahead(h, b)[2] < b[2]
              /\ ~Ends(h, Ahead(h, b)) /\ Behind(h, Ahead(h, b)) = b
         /\ \A q \in DOMAIN h : ~Ends(h, q) /\ Behind(h, q) = b => q = Ahead(h, b) /\ b[2] # 0
<1>1. Headed(h) /\ Followed(h) /\ Preceded(h)  BY Zenon DEF Heap
<1>2. \A p \in DOMAIN h :
        /\ p \in Place /\ p[1] \in Chunks /\ p[2] \in Nat
        /\ h[p].size \in Nat /\ h[p].prev_size \in Nat
  BY <1>1, Headers
<1>3. ASSUME ~Ends(h, b)
      PROVE  /\ Behind(h, b) \in DOMAIN h /\ Behind(h, b)[1] = b[1]
             /\ Behind(h, b)[2] = b[2] + h[b].size /\ Behind(h, b)[2] > b[2]
             /\ h[Behind(h, b)].prev_size = h[b].size /\ h[b].size > 0
  <2>1. Behind(h, b) \in DOMAIN h /\ h[Behind(h, b)].prev_size = h[b].size /\ h[b].size > 0
    BY <1>1, <1>3 DEF Followed
  <2>2. Behind(h, b)[1] = b[1] /\ Behind(h, b)[2] = b[2] + h[b].size  BY Places, Zenon DEF Behind
  <2> QED  BY <1>2, <2>1, <2>2
<1>4. ASSUME b[2] # 0
      PROVE  /\ Ahead(h, b) \in DOMAIN h /\ Ahead(h, b)[1] = b[1]
             /\ Ahead(h, b)[2] = b[2] - h[b].prev_size /\ Ahead(h, b)[2] < b[2]
             /\ ~Ends(h, Ahead(h, b)) /\ Behind(h, Ahead(h, b)) = b
  <2> DEFINE a == Ahead(h, b)
  <2>1. a \in DOMAIN h /\ ~Ends(h, a) /\ h[a].size = h[b].prev_size /\ h[b].prev_size > 0
    BY <1>1, <1>4 DEF Preceded
  <2>2. a[1] = b[1] /\ a[2] = b[2] + - h[b].prev_size  BY Places, Zenon DEF Ahead
  <2> HIDE DEF a
  <2>3. a[2] = b[2] - h[b].prev_size /\ a[2] < b[2]  BY <1>2, <2>1, <2>2
  <2>4. Behind(h, a)[1] = b[1] /\ Behind(h, a)[2] = a[2] + h[a].size
    BY <2>2, Places, Zenon DEF Behind
  <2>5. Behind(h, a)[2] = b[2]  BY <1>2, <2>1, <2>3, <2>4
  <2>6. Behind(h, a) \in Place  BY <1>1, <1>2, <2>1 DEF Followed
  <2>7. Behind(h, a) = b  BY <1>2, <2>4, <2>5, <2>6, Places, Zenon
  <2> QED  BY <2>1, <2>2, <2>3, <2>7 DEF a
<1>5. ASSUME NEW q \in DOMAIN h, ~Ends(h, q), Behind(h, q) = b
      PROVE  q = Ahead(h, b) /\ b[2] # 0
  <2>1. h[b].prev_size = h[q].size /\ h[q].size > 0  BY <1>1, <1>5 DEF Followed
  <2>2. b[1] = q[1] /\ b[2] = q[2] + h[q].size  BY <1>5, Places, Zenon DEF Behind
  <2>3. b[2] # 0  BY <1>2, <2>1, <2>2
  <2>4. Ahead(h, b) \in DOMAIN h /\ Ahead(h, b)[1] = b[1]
        /\ Ahead(h, b)[2] = b[2] - h[b].prev_size
    BY <1>4, <2>3
  <2>5. Ahead(h, b)[2] = q[2]  BY <1>2, <2>1, <2>2, <2>4
  <2>6. q = Ahead(h, b)  BY <1>2, <2>2, <2>4, <2>5, Places, ZenonT(60)
  <2> QED  BY <2>3, <2>6
<1> QED  BY <1>3, <1>4, <1>5

(* Block b of heap h is cut in two in heap k: the first part has size left. *)
Cuts(h, k, b, left) ==
  LET p == At(b, left)
      next == Behind(h, b)
      room == h[b].size - left
  IN  /\ DOMAIN k = DOMAIN h \cup {p}
      /\ k[b] \in Header /\ ~Ends(k, b)
      /\ k[b].size = left /\ k[b].prev_size = h[b].prev_size
      /\ k[p] \in Header /\ ~Ends(k, p) /\ k[p].size = room /\ k[p].prev_size = left
      /\ k[next] \in Header /\ k[next].kind = h[next].kind
      /\ k[next].size = h[next].size /\ k[next].prev_size = room
      /\ \A q \in DOMAIN h \ {b, next} : k[q] = h[q]

LEMMA CutKeepsHeap ==
  ASSUME NEW len, NEW h, Heap(len, h), NEW b \in DOMAIN h, ~Ends(h, b),
         NEW left \in Nat \ {0}, left < h[b].size, NEW k, Cuts(h, k, b, left)
  PROVE  Heap(len, k) /\ At(b, left) \notin DOMAIN h
<1> DEFINE p == At(b, left)
           next == Behind(h, b)
           n == h[b].size
           room == n - left
<1>1. Chunked(len) /\ Headed(h) /\ Inside(len, h) /\ Followed(h) /\ Clear(h) /\ Preceded(h)
  BY Zenon DEF Heap
<1>2. \A x \in DOMAIN h :
        /\ x \in Place /\ x[1] \in Chunks /\ x[2] \in Nat
        /\ h[x].size \in Nat /\ h[x].prev_size \in Nat
  BY <1>1, Headers
<1>3. /\ next \in DOMAIN h /\ next[1] = b[1] /\ next[2] = b[2] + n /\ n \in Nat
      /\ h[next].prev_size = n /\ next # b
  BY <1>2, Neighbours
<1>4. /\ p \in Place /\ p[1] = b[1] /\ p[2] = b[2] + left /\ p[2] \in Nat
      /\ room \in Nat /\ room > 0 /\ left + room = n
  BY <1>2, <1>3, Places
<1>5. /\ DOMAIN k = DOMAIN h \cup {p}
      /\ k[b] \in Header /\ ~Ends(k, b) /\ k[b].size = left /\ k[b].prev_size = h[b].prev_size
      /\ k[p] \in Header /\ ~Ends(k, p) /\ k[p].size = room /\ k[p].prev_size = left
      /\ k[next] \in Header /\ k[next].kind = h[next].kind
      /\ k[next].size = h[next].size /\ k[next].prev_size = room
      /\ \A q \in DOMAIN h \ {b, next} : k[q] = h[q]
  BY Zenon DEF Cuts
<1> HIDE DEF p, next, n, room
<1>6. p \notin DOMAIN h /\ p # b /\ p # next
  <2>1. n = h[b].size  BY DEF n
  <2> QED  BY <1>1, <1>2, <1>3, <1>4, <2>1 DEF Clear
<1>7. \A q \in DOMAIN h : q # b => k[q].size = h[q].size /\ k[q].kind = h[q].kind
  BY <1>5
<1>8. \A q \in DOMAIN h : q # next => k[q].prev_size = h[q].prev_size
  BY <1>5
<1>9. \A q \in DOMAIN h : Ends(k, q) <=> Ends(h, q)
  BY <1>5, <1>7 DEF Ends
<1>10. Headed(k)
  <2>1. IsFiniteSet(DOMAIN k)  BY <1>1, <1>5, FS_AddElement DEF Headed
  <2>2. \A q \in DOMAIN k : k[q] \in Header /\ q \in Place  BY <1>1, <1>2, <1>4, <1>5 DEF Headed
  <2> QED  BY <2>1, <2>2 DEF Headed
<1>11. Inside(len, k)
  <2>1. \A c \in DOMAIN len : <<c, 0>> \in DOMAIN k  BY <1>1, <1>5 DEF Inside
  <2>2. p[1] \in DOMAIN len /\ p[2] < len[p[1]]
    <3>1. next[1] \in DOMAIN len /\ next[2] <= len[next[1]]  BY <1>1, <1>3 DEF Inside
    <3>2. len[next[1]] \in Nat  BY <1>1, <3>1 DEF Chunked
    <3> QED  BY <1>2, <1>3, <1>4, <3>1, <3>2
  <2>3. len[p[1]] \in Nat  BY <1>1, <2>2 DEF Chunked
  <2>4. \A q \in DOMAIN h : /\ q[1] \in DOMAIN len /\ q[2] <= len[q[1]]
                            /\ Ends(k, q) <=> q[2] = len[q[1]]
    BY <1>1, <1>9 DEF Inside
  <2> QED  BY <1>4, <1>5, <2>1, <2>2, <2>3, <2>4 DEF Inside
<1>12. Followed(k)
  <2>1. k[p].size > 0 /\ Behind(k, p) \in DOMAIN k /\ k[Behind(k, p)].prev_size = k[p].size
    <3>1. Behind(k, p)[1] = p[1] /\ Behind(k, p)[2] = p[2] + room
      <4>1. Behind(k, p) = At(p, room)  BY <1>5 DEF Behind
      <4> QED  BY <4>1, Places
    <3>2. Behind(k, p) \in Place  BY <1>4, <1>5, Places DEF Behind
    <3>3. Behind(k, p)[2] = next[2]  BY <1>2, <1>3, <1>4, <3>1
    <3>4. Behind(k, p) = next  BY <1>2, <1>3, <1>4, <3>1, <3>2, <3>3, Places, ZenonT(60)
    <3> QED  BY <1>3, <1>4, <1>5, <3>4
  <2>2. k[b].size > 0 /\ Behind(k, b) \in DOMAIN k /\ k[Behind(k, b)].prev_size = k[b].size
    <3>1. Behind(k, b) = p  BY <1>5 DEF Behind, p
    <3> QED  BY <1>5, <3>1
  <2>3. ASSUME NEW q \in DOMAIN h, q # b, ~Ends(k, q)
        PROVE  k[q].size > 0 /\ Behind(k, q) \in DOMAIN k
               /\ k[Behind(k, q)].prev_size = k[q].size
    <3> DEFINE r == Behind(h, q)
    <3>1. ~Ends(h, q) /\ Behind(k, q) = r  BY <1>7, <1>9, <2>3 DEF Behind
    <3>2. h[q].size > 0 /\ r \in DOMAIN h /\ h[r].prev_size = h[q].size
      BY <1>1, <3>1 DEF Followed
    <3>3. r # next
      <4>1. \A x \in DOMAIN h : ~Ends(h, x) /\ Behind(h, x) = next => x = Ahead(h, next)
        BY <1>3, Neighbours
      <4> QED  BY <2>3, <3>1, <4>1 DEF next
    <3> HIDE DEF r
    <3> QED  BY <1>5, <1>7, <1>8, <2>3, <3>1, <3>2, <3>3
  <2> QED  BY <1>5, <2>1, <2>2, <2>3 DEF Followed
<1>13. Clear(k)
  <2>1. \A x, y \in DOMAIN h :
          ~Ends(h, x) /\ y[1] = x[1] => y[2] <= x[2] \/ y[2] >= x[2] + h[x].size
    BY <1>1 DEF Clear
  <2>2. n = h[b].size  BY DEF n
  <2>3. ASSUME NEW x \in DOMAIN h, NEW y \in DOMAIN h, ~Ends(k, x), y[1] = x[1]
        PROVE  y[2] <= x[2] \/ y[2] >= x[2] + k[x].size
    <3>1. y[2] <= x[2] \/ y[2] >= x[2] + h[x].size  BY <1>9, <2>1, <2>3
    <3>2. k[x].size \in Nat /\ k[x].size <= h[x].size
      <4>1. CASE x = b  BY <1>2, <1>4, <1>5, <2>2, <4>1
      <4>2. CASE x # b  BY <1>2, <1>7, <4>2
      <4> QED  BY <4>1, <4>2
    <3> QED  BY <1>2, <3>1, <3>2
  <2>4. ASSUME NEW y \in DOMAIN h, y[1] = p[1]
        PROVE  y[2] <= p[2] \/ y[2] >= p[2] + k[p].size
    <3>1. y[2] <= b[2] \/ y[2] >= b[2] + n  BY <1>4, <2>1, <2>2, <2>4
    <3> QED  BY <1>2, <1>3, <1>4, <1>5, <3>1
  <2>5. ASSUME NEW x \in DOMAIN h, ~Ends(k, x), p[1] = x[1]
        PROVE  p[2] <= x[2] \/ p[2] >= x[2] + k[x].size
    <3>1. CASE x = b  BY <1>2, <1>4, <1>5, <3>1
    <3>2. CASE x # b
      <4>1. k[x].size = h[x].size  BY <1>7, <3>2
      <4>2. b[2] <= x[2] \/ b[2] >= x[2] + h[x].size  BY <1>4, <1>9, <2>1, <2>5
      <4>3. x[2] <= b[2] \/ x[2] >= b[2] + n  BY <1>4, <2>1, <2>2, <2>5
      <4>4. x[2] # b[2]  BY <1>2, <1>4, <2>5, <3>2, Places, Zenon
      <4> QED  BY <1>2, <1>3, <1>4, <4>1, <4>2, <4>3, <4>4
    <3> QED  BY <3>1, <3>2
  <2>6. p[2] <= p[2]  BY <1>4
  <2> QED  BY <1>5, <2>3, <2>4, <2>5, <2>6 DEF Clear
<1>14. Preceded(k)
  <2>1. k[p].prev_size > 0 /\ k[p].prev_size <= p[2] /\ Ahead(k, p) \in DOMAIN k
        /\ ~Ends(k, Ahead(k, p)) /\ k[Ahead(k, p)].size = k[p].prev_size /\ p[2] # 0
    <3>1. Ahead(k, p)[1] = b[1] /\ Ahead(k, p)[2] = p[2] + - left
      <4>1. Ahead(k, p) = At(p, - left)  BY <1>5 DEF Ahead
      <4> QED  BY <1>4, <4>1, Places
    <3>2. Ahead(k, p)[2] = b[2]  BY <1>2, <1>4, <3>1
    <3>3. Ahead(k, p) \in Place
      <4>1. Ahead(k, p) = At(p, - left)  BY <1>5 DEF Ahead
      <4>2. p[2] + - left \in Nat /\ - left \in Int  BY <1>2, <1>4
      <4> QED  BY <1>4, <4>1, <4>2, Places
    <3>4. Ahead(k, p) = b  BY <1>2, <3>1, <3>2, <3>3, Places, Zenon
    <3> QED  BY <1>2, <1>4, <1>5, <3>4
  <2>2. k[next].prev_size > 0 /\ k[next].prev_size <= next[2] /\ Ahead(k, next) \in DOMAIN k
        /\ ~Ends(k, Ahead(k, next)) /\ k[Ahead(k, next)].size = k[next].prev_size /\ next[2] # 0
    <3>1. Ahead(k, next)[1] = p[1] /\ Ahead(k, next)[2] = next[2] + - room
      <4>1. Ahead(k, next) = At(next, - room)  BY <1>5 DEF Ahead
      <4> QED  BY <1>3, <1>4, <4>1, Places
    <3>2. Ahead(k, next)[2] = p[2]  BY <1>2, <1>3, <1>4, <3>1
    <3>3. Ahead(k, next) \in Place
      <4>1. Ahead(k, next) = At(next, - room)  BY <1>5 DEF Ahead
      <4>2. next[2] + - room \in Nat /\ - room \in Int  BY <1>2, <1>3, <1>4
      <4> QED  BY <1>2, <1>3, <4>1, <4>2, Places
    <3>4. Ahead(k, next) = p  BY <1>4, <3>1, <3>2, <3>3, Places, Zenon
    <3> QED  BY <1>2, <1>3, <1>4, <1>5, <3>4
  <2>3. ASSUME NEW q \in DOMAIN h, q # next
        PROVE  /\ q[2] = 0 => k[q].prev_size = 0
               /\ q[2] # 0 =>
                    /\ k[q].prev_size > 0 /\ k[q].prev_size <= q[2]
                    /\ Ahead(k, q) \in DOMAIN k /\ ~Ends(k, Ahead(k, q))
                    /\ k[Ahead(k, q)].size = k[q].prev_size
    <3>1. k[q].prev_size = h[q].prev_size  BY <1>8, <2>3
    <3>2. CASE q[2] = 0  BY <1>1, <3>1, <3>2 DEF Preceded
    <3>3. CASE q[2] # 0
      <4> DEFINE r == Ahead(h, q)
      <4>1. /\ h[q].prev_size > 0 /\ h[q].prev_size <= q[2]
            /\ r \in DOMAIN h /\ ~Ends(h, r) /\ h[r].size = h[q].prev_size
        BY <1>1, <3>3 DEF Preceded
      <4>2. Ahead(k, q) = r  BY <3>1 DEF Ahead
      <4>3. Behind(h, r) = q  BY <3>3, Neighbours
      <4> HIDE DEF r
      <4>4. r # b  BY <2>3, <4>3 DEF next
      <4> QED  BY <1>5, <1>7, <1>9, <3>1, <3>3, <4>1, <4>2, <4>4
    <3> QED  BY <3>2, <3>3
  <2> QED  BY <1>5, <2>1, <2>2, <2>3 DEF Preceded
<1> QED  BY <1>1, <1>6, <1>10, <1>11, <1>12, <1>13, <1>14 DEF Heap, p

(* Block b and the one behind it in heap h are one in heap k.              *)
Joins(h, k, b) ==
  LET gone == Behind(h, b)
      next == Behind(h, gone)
      n == h[b].size + h[gone].size
  IN  /\ DOMAIN k = DOMAIN h \ {gone}
      /\ k[b] \in Header /\ ~Ends(k, b)
      /\ k[b].size = n /\ k[b].prev_size = h[b].prev_size
      /\ k[next] \in Header /\ k[next].kind = h[next].kind
      /\ k[next].size = h[next].size /\ k[next].prev_size = n
      /\ \A q \in DOMAIN h \ {b, gone, next} : k[q] = h[q]

LEMMA JoinKeepsHeap ==
  ASSUME NEW len, NEW h, Heap(len, h), NEW b \in DOMAIN h, ~Ends(h, b),
         ~Ends(h, Behind(h, b)), NEW k, Joins(h, k, b)
  PROVE  Heap(len, k)
<1> DEFINE p == Behind(h, b)
           next == Behind(h, p)
           n == h[b].size + h[p].size
<1>1. Chunked(len) /\ Headed(h) /\ Inside(len, h) /\ Followed(h) /\ Clear(h) /\ Preceded(h)
  BY Zenon DEF Heap
<1>2. \A x \in DOMAIN h :
        /\ x \in Place /\ x[1] \in Chunks /\ x[2] \in Nat
        /\ h[x].size \in Nat /\ h[x].prev_size \in Nat
  BY <1>1, Headers
<1>3. /\ p \in DOMAIN h /\ p[1] = b[1] /\ p[2] = b[2] + h[b].size
      /\ h[p].prev_size = h[b].size /\ h[b].size > 0 /\ ~Ends(h, p)
  BY Neighbours
<1>4. /\ next \in DOMAIN h /\ next[1] = b[1] /\ next[2] = p[2] + h[p].size
      /\ h[next].prev_size = h[p].size /\ h[p].size > 0
  <2> HIDE DEF p
  <2> QED  BY <1>3, Neighbours
<1>5. /\ DOMAIN k = DOMAIN h \ {p}
      /\ k[b] \in Header /\ ~Ends(k, b) /\ k[b].size = n /\ k[b].prev_size = h[b].prev_size
      /\ k[next] \in Header /\ k[next].kind = h[next].kind
      /\ k[next].size = h[next].size /\ k[next].prev_size = n
      /\ \A q \in DOMAIN h \ {b, p, next} : k[q] = h[q]
  BY Zenon DEF Joins
<1>6. n \in Nat /\ n > 0 /\ next[2] = b[2] + n /\ n = h[b].size + h[p].size
  BY <1>2, <1>3, <1>4
<1>7. next = Behind(h, p) /\ p = Behind(h, b)  OBVIOUS
<1> HIDE DEF p, next, n
<1>8. b # p /\ b # next /\ p # next  BY <1>2, <1>3, <1>4, <1>6
<1>9. \A q \in DOMAIN k : q # b => k[q].size = h[q].size /\ k[q].kind = h[q].kind
  BY <1>5
<1>10. \A q \in DOMAIN k : q # next => k[q].prev_size = h[q].prev_size
  BY <1>5
<1>11. \A q \in DOMAIN k : Ends(k, q) <=> Ends(h, q)
  BY <1>5, <1>9 DEF Ends
<1>12. Headed(k)
  <2>1. IsFiniteSet(DOMAIN k)  BY <1>1, <1>5, FS_Subset DEF Headed
  <2>2. \A q \in DOMAIN k : k[q] \in Header /\ q \in Place  BY <1>1, <1>2, <1>5 DEF Headed
  <2> QED  BY <2>1, <2>2 DEF Headed
<1>13. Inside(len, k)
  <2>1. ASSUME NEW c \in DOMAIN len  PROVE <<c, 0>> \in DOMAIN k
    <3>1. <<c, 0>> \in DOMAIN h  BY <1>1 DEF Inside
    <3>2. p[2] # 0  BY <1>2, <1>3
    <3>3. <<c, 0>> # p  BY <3>2
    <3> QED  BY <1>5, <3>1, <3>3
  <2>2. \A q \in DOMAIN k : /\ q[1] \in DOMAIN len /\ q[2] <= len[q[1]]
                            /\ Ends(k, q) <=> q[2] = len[q[1]]
    BY <1>1, <1>5, <1>11 DEF Inside
  <2> QED  BY <2>1, <2>2 DEF Inside
<1>14. Followed(k)
  <2>1. k[b].size > 0 /\ Behind(k, b) \in DOMAIN k /\ k[Behind(k, b)].prev_size = k[b].size
    <3>1. Behind(k, b)[1] = b[1] /\ Behind(k, b)[2] = b[2] + n /\ Behind(k, b) \in Place
      <4>1. Behind(k, b) = At(b, n)  BY <1>5 DEF Behind
      <4>2. b[2] + n \in Nat /\ n \in Int  BY <1>2, <1>6
      <4> QED  BY <1>2, <4>1, <4>2, Places
    <3>2. Behind(k, b) = next  BY <1>2, <1>4, <1>6, <3>1, Places, ZenonT(60)
    <3> QED  BY <1>4, <1>5, <1>6, <1>8, <3>2
  <2>2. ASSUME NEW q \in DOMAIN k, q # b, ~Ends(k, q)
        PROVE  k[q].size > 0 /\ Behind(k, q) \in DOMAIN k
               /\ k[Behind(k, q)].prev_size = k[q].size
    <3> DEFINE r == Behind(h, q)
    <3>1. ~Ends(h, q) /\ Behind(k, q) = r /\ q \in DOMAIN h /\ q # p
      BY <1>5, <1>9, <1>11, <2>2 DEF Behind
    <3>2. h[q].size > 0 /\ r \in DOMAIN h /\ h[r].prev_size = h[q].size
      BY <1>1, <3>1 DEF Followed
    <3>3. r # next
      <4>1. \A x \in DOMAIN h : ~Ends(h, x) /\ Behind(h, x) = next => x = Ahead(h, next)
        BY <1>4, Neighbours
      <4> QED  BY <1>3, <1>7, <3>1, <4>1
    <3>4. r # p
      <4>1. \A x \in DOMAIN h : ~Ends(h, x) /\ Behind(h, x) = p => x = Ahead(h, p)
        BY <1>3, Neighbours
      <4> QED  BY <1>7, <2>2, <3>1, <4>1
    <3> HIDE DEF r
    <3> QED  BY <1>5, <1>9, <1>10, <2>2, <3>1, <3>2, <3>3, <3>4
  <2> QED  BY <1>5, <2>1, <2>2 DEF Followed
<1>15. Clear(k)
  <2>1. \A x, y \in DOMAIN h :
          ~Ends(h, x) /\ y[1] = x[1] => y[2] <= x[2] \/ y[2] >= x[2] + h[x].size
    BY <1>1 DEF Clear
  <2>2. ASSUME NEW x \in DOMAIN k, NEW y \in DOMAIN k, ~Ends(k, x), y[1] = x[1]
        PROVE  y[2] <= x[2] \/ y[2] >= x[2] + k[x].size
    <3>1. x \in DOMAIN h /\ y \in DOMAIN h /\ y # p /\ ~Ends(h, x)  BY <1>5, <1>11, <2>2
    <3>2. y[2] <= x[2] \/ y[2] >= x[2] + h[x].size  BY <2>1, <2>2, <3>1
    <3>3. CASE x # b  BY <1>9, <3>2, <3>3
    <3>4. CASE x = b
      <4>1. y[2] <= p[2] \/ y[2] >= p[2] + h[p].size  BY <1>3, <2>1, <2>2, <3>1, <3>4
      <4>2. y[2] # p[2]  BY <1>2, <1>3, <2>2, <3>1, <3>4, Places, Zenon
      <4> QED  BY <1>2, <1>3, <1>5, <1>6, <3>1, <3>2, <3>4, <4>1, <4>2
    <3> QED  BY <3>3, <3>4
  <2> QED  BY <2>2 DEF Clear
<1>16. Preceded(k)
  <2>1. k[next].prev_size > 0 /\ k[next].prev_size <= next[2] /\ Ahead(k, next) \in DOMAIN k
        /\ ~Ends(k, Ahead(k, next)) /\ k[Ahead(k, next)].size = k[next].prev_size /\ next[2] # 0
    <3>1. Ahead(k, next) = At(next, - n)  BY <1>5 DEF Ahead
    <3>2. next[2] + - n = b[2] /\ - n \in Int  BY <1>2, <1>4, <1>6
    <3>3. Ahead(k, next)[1] = b[1] /\ Ahead(k, next)[2] = b[2] /\ Ahead(k, next) \in Place
      BY <1>2, <1>4, <3>1, <3>2, Places
    <3>4. Ahead(k, next) = b  BY <1>2, <3>3, Places, Zenon
    <3> QED  BY <1>2, <1>5, <1>6, <1>8, <3>4
  <2>2. ASSUME NEW q \in DOMAIN k, q # next
        PROVE  /\ q[2] = 0 => k[q].prev_size = 0
               /\ q[2] # 0 =>
                    /\ k[q].prev_size > 0 /\ k[q].prev_size <= q[2]
                    /\ Ahead(k, q) \in DOMAIN k /\ ~Ends(k, Ahead(k, q))
                    /\ k[Ahead(k, q)].size = k[q].prev_size
    <3>1. k[q].prev_size = h[q].prev_size /\ q \in DOMAIN h /\ q # p  BY <1>5, <1>10, <2>2
    <3>2. CASE q[2] = 0  BY <1>1, <3>1, <3>2 DEF Preceded
    <3>3. CASE q[2] # 0
      <4> DEFINE r == Ahead(h, q)
      <4>1. /\ h[q].prev_size > 0 /\ h[q].prev_size <= q[2]
            /\ r \in DOMAIN h /\ ~Ends(h, r) /\ h[r].size = h[q].prev_size
        BY <1>1, <3>1, <3>3 DEF Preceded
      <4>2. Ahead(k, q) = r  BY <3>1 DEF Ahead
      <4>3. Behind(h, r) = q  BY <3>1, <3>3, Neighbours
      <4> HIDE DEF r
      <4>4. r # b /\ r # p  BY <1>7, <2>2, <3>1, <4>3
      <4>5. r \in DOMAIN k  BY <1>5, <4>1, <4>4
      <4> QED  BY <1>9, <1>11, <3>1, <3>3, <4>1, <4>2, <4>4, <4>5
    <3> QED  BY <3>2, <3>3
  <2> QED  BY <2>1, <2>2 DEF Preceded
<1> QED  BY <1>1, <1>12, <1>13, <1>14, <1>15, <1>16 DEF Heap

(* The same sizes with other owners.                                       *)
LEMMA RelabelKeepsHeap ==
  ASSUME NEW len, NEW h, Heap(len, h), NEW k, DOMAIN k = DOMAIN h,
         \A q \in DOMAIN h :
           /\ k[q] \in Header /\ k[q].size = h[q].size /\ k[q].prev_size = h[q].prev_size
           /\ Ends(k, q) <=> Ends(h, q)
  PROVE  Heap(len, k)
<1>1. Chunked(len) /\ Headed(h) /\ Inside(len, h) /\ Followed(h) /\ Clear(h) /\ Preceded(h)
  BY Zenon DEF Heap
<1>2. \A q \in DOMAIN h : Behind(k, q) = Behind(h, q) /\ Ahead(k, q) = Ahead(h, q)
  BY DEF Behind, Ahead
<1>3. Headed(k)  BY <1>1 DEF Headed
<1>4. Inside(len, k)  BY <1>1 DEF Inside
<1>5. Followed(k)  BY <1>1, <1>2 DEF Followed
<1>6. Clear(k)  BY <1>1 DEF Clear
<1>7. Preceded(k)  BY <1>1, <1>2 DEF Preceded
<1> QED  BY <1>1, <1>3, <1>4, <1>5, <1>6, <1>7 DEF Heap

(* Chunk c of n bytes is added, as one block.                              *)
Adds(len, h, len2, k, c, n) ==
  /\ DOMAIN len2 = DOMAIN len \cup {c} /\ len2[c] = n
  /\ \A d \in DOMAIN len : len2[d] = len[d]
  /\ DOMAIN k = DOMAIN h \cup {<<c, 0>>, <<c, n>>}
  /\ k[<<c, 0>>] = Used(n, 0) /\ k[<<c, n>>] = Terminator(n)
  /\ \A q \in DOMAIN h : k[q] = h[q]

LEMMA AddKeepsHeap ==
  ASSUME NEW len, NEW h, Heap(len, h), NEW c \in Chunks, c \notin DOMAIN len,
         NEW n \in Nat \ {0}, NEW len2, NEW k, Adds(len, h, len2, k, c, n)
  PROVE  Heap(len2, k)
<1> DEFINE b == <<c, 0>>
           e == <<c, n>>
<1>1. Chunked(len) /\ Headed(h) /\ Inside(len, h) /\ Followed(h) /\ Clear(h) /\ Preceded(h)
  BY Zenon DEF Heap
<1>2. \A x \in DOMAIN h :
        /\ x \in Place /\ x[1] \in Chunks /\ x[2] \in Nat
        /\ h[x].size \in Nat /\ h[x].prev_size \in Nat
  BY <1>1, Headers
<1>3. /\ b[1] = c /\ b[2] = 0 /\ e[1] = c /\ e[2] = n /\ b # e
      /\ b \in Place /\ e \in Place /\ At(b, n) = e /\ At(e, - n) = b
  BY DEF Place, At
<1>4. /\ DOMAIN len2 = DOMAIN len \cup {c} /\ len2[c] = n
      /\ \A d \in DOMAIN len : len2[d] = len[d]
      /\ DOMAIN k = DOMAIN h \cup {b, e}
      /\ k[b] = Used(n, 0) /\ k[e] = Terminator(n)
      /\ \A q \in DOMAIN h : k[q] = h[q]
  BY Zenon DEF Adds
<1> HIDE DEF b, e
<1>5. /\ k[b] \in Header /\ k[b].size = n /\ k[b].prev_size = 0 /\ ~Ends(k, b)
      /\ k[e] \in Header /\ k[e].prev_size = n /\ Ends(k, e)
  BY <1>4 DEF Used, Terminator, Header, Ends
<1>6. \A q \in DOMAIN h : q[1] # c  BY <1>1 DEF Inside
<1>7. \A q \in DOMAIN h : /\ k[q] = h[q] /\ (Ends(k, q) <=> Ends(h, q))
                          /\ Behind(k, q) = Behind(h, q) /\ Ahead(k, q) = Ahead(h, q)
  BY <1>4 DEF Ends, Behind, Ahead
<1>8. Chunked(len2)  BY <1>1, <1>4, FS_AddElement DEF Chunked
<1>9. Headed(k)
  <2>1. IsFiniteSet(DOMAIN h)  BY <1>1 DEF Headed
  <2>2. IsFiniteSet(DOMAIN h \cup {b})  BY <2>1, FS_AddElement
  <2>3. IsFiniteSet((DOMAIN h \cup {b}) \cup {e})  BY <2>2, FS_AddElement
  <2>4. DOMAIN k = (DOMAIN h \cup {b}) \cup {e}  BY <1>4
  <2>5. \A q \in DOMAIN k : q \in Place /\ k[q] \in Header
    BY <1>1, <1>2, <1>3, <1>4, <1>5 DEF Headed
  <2> QED  BY <2>3, <2>4, <2>5 DEF Headed
<1>10. Inside(len2, k)
  <2>1. \A d \in DOMAIN len2 : <<d, 0>> \in DOMAIN k  BY <1>1, <1>4 DEF Inside, b
  <2>2. \A q \in DOMAIN h : /\ q[1] \in DOMAIN len2 /\ q[2] <= len2[q[1]]
                            /\ Ends(k, q) <=> q[2] = len2[q[1]]
    BY <1>1, <1>4, <1>7 DEF Inside
  <2>3. \A q \in {b, e} : /\ q[1] \in DOMAIN len2 /\ q[2] <= len2[q[1]]
                          /\ Ends(k, q) <=> q[2] = len2[q[1]]
    BY <1>3, <1>4, <1>5
  <2> QED  BY <1>4, <2>1, <2>2, <2>3 DEF Inside
<1>11. Followed(k)
  <2>1. Behind(k, b) = e  BY <1>3, <1>5 DEF Behind
  <2> QED  BY <1>1, <1>4, <1>5, <1>7, <2>1 DEF Followed
<1>12. Clear(k)
  <2>1. \A x, y \in DOMAIN h :
          ~Ends(h, x) /\ y[1] = x[1] => y[2] <= x[2] \/ y[2] >= x[2] + h[x].size
    BY <1>1 DEF Clear
  <2>2. \A y \in {b, e} : y[2] <= b[2] \/ y[2] >= b[2] + k[b].size  BY <1>3, <1>5
  <2> QED  BY <1>3, <1>4, <1>5, <1>6, <1>7, <2>1, <2>2 DEF Clear
<1>13. Preceded(k)
  <2>1. Ahead(k, e) = b  BY <1>3, <1>5 DEF Ahead
  <2>2. \A q \in DOMAIN h :
          /\ q[2] = 0 => k[q].prev_size = 0
          /\ q[2] # 0 =>
               /\ k[q].prev_size > 0 /\ k[q].prev_size <= q[2]
               /\ Ahead(k, q) \in DOMAIN k /\ ~Ends(k, Ahead(k, q))
               /\ k[Ahead(k, q)].size = k[q].prev_size
    BY <1>1, <1>4, <1>7 DEF Preceded
  <2> QED  BY <1>3, <1>4, <1>5, <2>1, <2>2 DEF Preceded
<1> QED  BY <1>8, <1>9, <1>10, <1>11, <1>12, <1>13 DEF Heap

(* The chunks in S are given back with all their headers.                  *)
Drops(len, h, len2, k, S) ==
  /\ len2 = Without(len, S)
  /\ k = Without(h, {q \in DOMAIN h : q[1] \in S})

LEMMA DropKeepsHeap ==
  ASSUME NEW len, NEW h, Heap(len, h), NEW S, NEW len2, NEW k, Drops(len, h, len2, k, S)
  PROVE  /\ Heap(len2, k)
         /\ DOMAIN k = {q \in DOMAIN h : q[1] \notin S}
         /\ \A q \in DOMAIN k : k[q] = h[q]
         /\ \A q \in DOMAIN k : ~Ends(h, q) => Behind(h, q) \in DOMAIN k
<1>1. Chunked(len) /\ Headed(h) /\ Inside(len, h) /\ Followed(h) /\ Clear(h) /\ Preceded(h)
  BY Zenon DEF Heap
<1>2. /\ DOMAIN len2 = DOMAIN len \ S /\ \A d \in DOMAIN len2 : len2[d] = len[d]
      /\ DOMAIN k = {q \in DOMAIN h : q[1] \notin S} /\ \A q \in DOMAIN k : k[q] = h[q]
  BY DEF Drops, Without
<1>3. \A q \in DOMAIN k : /\ q \in DOMAIN h /\ k[q] = h[q] /\ (Ends(k, q) <=> Ends(h, q))
                          /\ Behind(k, q) = Behind(h, q) /\ Ahead(k, q) = Ahead(h, q)
  BY <1>2 DEF Ends, Behind, Ahead
<1>4. \A q \in DOMAIN k : /\ ~Ends(h, q) => Behind(h, q) \in DOMAIN k
                          /\ q[2] # 0 => Ahead(h, q) \in DOMAIN k
  BY <1>2, Neighbours
<1>5. Chunked(len2)  BY <1>1, <1>2, FS_Subset DEF Chunked
<1>6. Headed(k)
  <2>1. IsFiniteSet(DOMAIN k)  BY <1>1, <1>2, FS_Subset DEF Headed
  <2> QED  BY <1>1, <1>2, <2>1 DEF Headed
<1>7. Inside(len2, k)
  <2>1. ASSUME NEW d \in DOMAIN len2  PROVE <<d, 0>> \in DOMAIN k
    <3>1. <<d, 0>> \in DOMAIN h /\ d \notin S  BY <1>1, <1>2 DEF Inside
    <3> QED  BY <1>2, <3>1
  <2>2. \A q \in DOMAIN k : /\ q[1] \in DOMAIN len2 /\ q[2] <= len2[q[1]]
                            /\ Ends(k, q) <=> q[2] = len2[q[1]]
    BY <1>1, <1>2, <1>3 DEF Inside
  <2> QED  BY <2>1, <2>2 DEF Inside
<1>8. Followed(k)  BY <1>1, <1>3, <1>4 DEF Followed
<1>9. Clear(k)  BY <1>1, <1>3 DEF Clear
<1>10. Preceded(k)  BY <1>1, <1>3, <1>4 DEF Preceded
<1> QED  BY <1>2, <1>4, <1>5, <1>6, <1>7, <1>8, <1>9, <1>10 DEF Heap

(* A free block that is its whole chunk.                                   *)
LEMMA WholeIs ==
  ASSUME NEW len, NEW h, Heap(len, h), NEW p \in DOMAIN h, WholeChunk(h, p)
  PROVE  /\ p[2] = 0 /\ p[1] \in DOMAIN len /\ h[p].size = len[p[1]]
         /\ \A q \in DOMAIN h : q[1] = p[1] => q = p \/ Ends(h, q)
<1>1. Chunked(len) /\ Headed(h) /\ Inside(len, h) /\ Followed(h) /\ Clear(h) /\ Preceded(h)
  BY Zenon DEF Heap
<1>2. \A x \in DOMAIN h :
        /\ x \in Place /\ x[1] \in Chunks /\ x[2] \in Nat
        /\ h[x].size \in Nat /\ h[x].prev_size \in Nat
  BY <1>1, Headers
<1>3. ~Ends(h, p) /\ h[p].prev_size = 0 /\ Ends(h, Behind(h, p))
  BY DEF WholeChunk, Ends, Behind
<1>4. p[2] = 0  BY <1>1, <1>3 DEF Preceded
<1>5. Behind(h, p) \in DOMAIN h /\ Behind(h, p)[1] = p[1] /\ Behind(h, p)[2] = p[2] + h[p].size
  BY <1>3, Neighbours
<1>6. p[1] \in DOMAIN len /\ len[p[1]] = p[2] + h[p].size  BY <1>1, <1>3, <1>5 DEF Inside
<1>7. h[p].size = len[p[1]]  BY <1>2, <1>4, <1>6
<1>8. ASSUME NEW q \in DOMAIN h, q[1] = p[1]  PROVE q = p \/ Ends(h, q)
  <2>1. q[2] <= p[2] \/ q[2] >= p[2] + h[p].size  BY <1>1, <1>3, <1>8 DEF Clear
  <2>2. CASE q[2] <= p[2]
    <3>1. q[2] = p[2]  BY <1>2, <1>4, <2>2
    <3> QED  BY <1>2, <1>8, <3>1, Places, Zenon
  <2>3. CASE q[2] >= p[2] + h[p].size
    <3>1. q[2] <= len[p[1]]  BY <1>1, <1>8 DEF Inside
    <3>2. q[2] = len[q[1]]  BY <1>2, <1>6, <1>8, <2>3, <3>1
    <3> QED  BY <1>1, <3>2 DEF Inside
  <2> QED  BY <2>1, <2>2, <2>3
<1> QED  BY <1>4, <1>6, <1>7, <1>8

-----------------------------------------------------------------------------
(* The invariant.                                                          *)

UsedOf(h) == {p \in DOMAIN h : h[p].kind = "used"}
FreeOf(h) == {p \in DOMAIN h : h[p].kind = "free"}

(* The list has each free block once.                                      *)
Lists(list, h) == list \in Seq(DOMAIN h) /\ Once(list) /\ Listed(list) = FreeOf(h)

(* A function has each block that is in use, with the room it asked for.   *)
Owned(own, h) ==
  /\ DOMAIN own = UsedOf(h)
  /\ \A p \in DOMAIN own : own[p] \in Requests /\ h[p].size >= own[p] + HeaderSize

NoneJoinable(h) == \A p \in FreeOf(h) : h[Behind(h, p)].kind # "free"

Counted ==
  /\ allocated = Total(Sizes(header), DOMAIN held)
  /\ total = Total(length, DOMAIN length)

HeapInv ==
  /\ Heap(length, header) /\ Lists(free, header) /\ Owned(held, header)
  /\ NoneJoinable(header) /\ Counted

LEMMA Relisted ==
  ASSUME NEW T, NEW list \in Seq(T), NEW U, Listed(list) \subseteq U
  PROVE  list \in Seq(U)
<1>1. \A i \in 1 .. Len(list) : list[i] \in U  BY DEF Listed
<1> QED  BY <1>1, SeqDef

LEMMA PushedFirst ==
  ASSUME NEW T, NEW list \in Seq(T), Once(list), NEW p \in T, p \notin Listed(list)
  PROVE  /\ <<p>> \o list \in Seq(T) /\ Once(<<p>> \o list)
         /\ Listed(<<p>> \o list) = Listed(list) \cup {p}
<1> DEFINE long == <<p>> \o list
<1>1. /\ long \in Seq(T) /\ Len(long) = Len(list) + 1 /\ long[1] = p
      /\ \A i \in 2 .. Len(list) + 1 : long[i] = list[i - 1]
  OBVIOUS
<1>2. Len(list) \in Nat  OBVIOUS
<1> HIDE DEF long
<1>3. \A i \in 1 .. Len(list) : long[i + 1] = list[i]  BY <1>1, <1>2
<1>4. Listed(long) = Listed(list) \cup {p}
  <2>1. \A i \in 1 .. Len(long) : long[i] \in Listed(list) \cup {p}
    BY <1>1, <1>2 DEF Listed
  <2>2. p \in Listed(long)
    <3>1. 1 \in 1 .. Len(long)  BY <1>1, <1>2
    <3> QED  BY <1>1, <3>1 DEF Listed
  <2>3. ASSUME NEW i \in 1 .. Len(list)  PROVE list[i] \in Listed(long)
    <3>1. i + 1 \in 1 .. Len(long)  BY <1>1, <1>2
    <3> QED  BY <1>3, <3>1 DEF Listed
  <2> QED  BY <2>1, <2>2, <2>3 DEF Listed
<1>5. Once(long)
  <2> SUFFICES ASSUME NEW i \in 1 .. Len(long), NEW j \in 1 .. Len(long), long[i] = long[j]
               PROVE  i = j
    BY DEF Once
  <2>1. \A x \in 1 .. Len(list) : list[x] # p  BY DEF Listed
  <2>2. i \in 2 .. Len(list) + 1 => long[i] = list[i - 1] /\ i - 1 \in 1 .. Len(list)
    BY <1>1, <1>2
  <2>3. j \in 2 .. Len(list) + 1 => long[j] = list[j - 1] /\ j - 1 \in 1 .. Len(list)
    BY <1>1, <1>2
  <2>4. CASE i = 1 \/ j = 1  BY <1>1, <1>2, <2>1, <2>2, <2>3, <2>4
  <2>5. CASE i # 1 /\ j # 1
    <3>1. i - 1 = j - 1  BY <1>1, <1>2, <2>2, <2>3, <2>5 DEF Once
    <3> QED  BY <1>1, <1>2, <3>1
  <2> QED  BY <2>4, <2>5
<1> QED  BY <1>1, <1>4, <1>5 DEF long

(* A block with its number more, and with its number less.                 *)
LEMMA TotalMore ==
  ASSUME NEW f, NEW S, IsFiniteSet(S), Numbers(f, S), NEW g, NEW x, x \notin S,
         \A y \in S : g[y] = f[y], g[x] \in Nat
  PROVE  Total(g, S \cup {x}) = Total(f, S) + g[x]
<1> DEFINE T == S \cup {x}
<1>1. IsFiniteSet(T) /\ x \in T /\ T \ {x} = S  BY FS_AddElement
<1>2. Numbers(g, T)  BY DEF Numbers
<1> HIDE DEF T
<1>3. Total(g, T) = g[x] + Total(g, T \ {x})  BY <1>1, <1>2, TotalOut
<1>4. Total(g, S) = Total(f, S)  BY TotalSame
<1>5. Total(f, S) \in Nat  BY TotalNat
<1> QED  BY <1>1, <1>3, <1>4, <1>5 DEF T

LEMMA TotalLess ==
  ASSUME NEW f, NEW S, IsFiniteSet(S), Numbers(f, S), NEW x \in S, NEW g,
         \A y \in S \ {x} : g[y] = f[y]
  PROVE  Total(g, S \ {x}) = Total(f, S) - f[x] /\ Total(f, S) - f[x] \in Nat
<1> DEFINE R == S \ {x}
<1>1. IsFiniteSet(R) /\ Numbers(f, R)  BY FS_Subset DEF Numbers
<1>2. Total(f, S) = f[x] + Total(f, R)  BY TotalOut
<1> HIDE DEF R
<1>3. Total(g, R) = Total(f, R)
  <2>1. \A y \in R : g[y] = f[y]  BY DEF R
  <2> QED  BY <1>1, <2>1, TotalSame
<1>4. Total(f, R) \in Nat /\ f[x] \in Nat  BY <1>1, TotalNat DEF Numbers
<1> QED  BY <1>2, <1>3, <1>4 DEF R

(* What the invariant says of single blocks and of the counters.           *)
LEMMA InvParts ==
  ASSUME HeapInv
  PROVE  /\ Heap(length, header) /\ Lists(free, header) /\ Owned(held, header)
         /\ NoneJoinable(header) /\ Chunked(length) /\ Headed(header)
         /\ allocated = Total(Sizes(header), DOMAIN held)
         /\ total = Total(length, DOMAIN length)
         /\ IsFiniteSet(DOMAIN held) /\ Numbers(Sizes(header), DOMAIN held)
         /\ IsFiniteSet(DOMAIN length) /\ Numbers(length, DOMAIN length)
         /\ allocated \in Nat /\ total \in Nat
         /\ \A p \in DOMAIN held : Sizes(header)[p] = header[p].size
<1>1. /\ Heap(length, header) /\ Lists(free, header) /\ Owned(held, header)
      /\ NoneJoinable(header)
      /\ allocated = Total(Sizes(header), DOMAIN held)
      /\ total = Total(length, DOMAIN length)
  BY Zenon DEF HeapInv, Counted
<1>2. Chunked(length) /\ Headed(header)  BY <1>1, Zenon DEF Heap
<1>3. DOMAIN held \subseteq DOMAIN header  BY <1>1 DEF Owned, UsedOf
<1>4. \A p \in DOMAIN header : Sizes(header)[p] = header[p].size  BY DEF Sizes
<1>5. IsFiniteSet(DOMAIN held)  BY <1>2, <1>3, FS_Subset DEF Headed
<1>6. Numbers(Sizes(header), DOMAIN held)  BY <1>2, <1>3, <1>4, Headers DEF Numbers
<1>7. IsFiniteSet(DOMAIN length) /\ Numbers(length, DOMAIN length)
  BY <1>2 DEF Chunked, Numbers
<1>8. allocated \in Nat /\ total \in Nat  BY <1>1, <1>5, <1>6, <1>7, TotalNat
<1> QED  BY <1>1, <1>2, <1>3, <1>4, <1>5, <1>6, <1>7, <1>8

LEMMA InvFrom ==
  ASSUME NEW len, NEW h, NEW list, NEW own, NEW a, NEW t,
         length' = len, header' = h, free' = list, held' = own, allocated' = a, total' = t,
         Heap(len, h), Lists(list, h), Owned(own, h), NoneJoinable(h),
         a = Total(Sizes(h), DOMAIN own), t = Total(len, DOMAIN len)
  PROVE  HeapInv'
BY Zenon DEF HeapInv, Counted

(* The sizes that are given out.                                           *)
LEMMA BlockForRoom ==
  ASSUME NEW r \in Requests
  PROVE  BlockFor(r) \in Nat /\ BlockFor(r) >= r + HeaderSize /\ BlockFor(r) > 0
BY ExecAllocatorAssumption DEF BlockFor, ALIGN_SIZE

LEMMA ChunkLengthRoom ==
  ASSUME NEW n \in Nat, n > 0
  PROVE  ChunkLength(n) \in Nat /\ ChunkLength(n) >= n
BY ExecAllocatorAssumption DEF ChunkLength, CHUNK_SIZE

LEMMA FirstFits ==
  ASSUME HeapInv, NEW n \in Nat, Fits(n) # {}
  PROVE  First(n) \in FreeOf(header) /\ header[First(n)].size >= n
<1>1. free \in Seq(DOMAIN header) /\ Listed(free) = FreeOf(header)
  BY InvParts DEF Lists
<1>2. Fits(n) \subseteq 1 .. Len(free) /\ Fits(n) \subseteq Nat  BY <1>1 DEF Fits
<1>3. \E i \in Fits(n) : \A j \in Fits(n) : i <= j  BY <1>2, Smallest
<1> DEFINE i == CHOOSE x \in Fits(n) : \A j \in Fits(n) : x <= j
<1>4. i \in Fits(n)  BY <1>3
<1>5. First(n) = free[i]  BY DEF First
<1> HIDE DEF i
<1>6. free[i] \in Listed(free) /\ header[free[i]].size >= n  BY <1>1, <1>2, <1>4 DEF Fits, Listed
<1> QED  BY <1>1, <1>5, <1>6

-----------------------------------------------------------------------------
(* sljit_malloc_exec.                                                      *)

(* A function gets block p, which nobody had, in heap h.                   *)
LEMMA GivesCounts ==
  ASSUME HeapInv, NEW h, Headed(h), NEW p, p \notin DOMAIN held, NEW r \in Requests,
         UsedOf(h) = UsedOf(header) \cup {p},
         \A q \in UsedOf(header) : h[q].size = header[q].size,
         NEW n, h[p].size = n, n >= r + HeaderSize, Gives(p, r, n)
  PROVE  Owned(held', h) /\ allocated' = Total(Sizes(h), DOMAIN held')
<1>1. /\ DOMAIN held = UsedOf(header) /\ allocated = Total(Sizes(header), DOMAIN held)
      /\ IsFiniteSet(DOMAIN held) /\ Numbers(Sizes(header), DOMAIN held)
      /\ \A q \in DOMAIN held : held[q] \in Requests /\ header[q].size >= held[q] + HeaderSize
      /\ \A q \in DOMAIN held : Sizes(header)[q] = header[q].size
  BY InvParts DEF Owned
<1>2. /\ DOMAIN held' = DOMAIN held \cup {p} /\ held'[p] = r
      /\ \A q \in DOMAIN held : held'[q] = held[q]
  <2>1. held' = With(held, p, r)  BY DEF Gives
  <2>2. /\ DOMAIN With(held, p, r) = DOMAIN held \cup {p} /\ With(held, p, r)[p] = r
        /\ \A q \in DOMAIN held : q # p => With(held, p, r)[q] = held[q]
    BY DEF With
  <2> QED  BY <2>1, <2>2
<1>3. Owned(held', h)
  <2>1. DOMAIN held' = UsedOf(h)  BY <1>1, <1>2
  <2>2. ASSUME NEW q \in DOMAIN held'
        PROVE  held'[q] \in Requests /\ h[q].size >= held'[q] + HeaderSize
    <3>1. CASE q = p  BY <1>2, <3>1
    <3>2. CASE q # p
      <4>1. q \in DOMAIN held /\ held'[q] = held[q]  BY <1>2, <3>2
      <4> QED  BY <1>1, <4>1
    <3> QED  BY <3>1, <3>2
  <2> QED  BY <2>1, <2>2 DEF Owned
<1>4. \A q \in UsedOf(h) : Sizes(h)[q] = h[q].size  BY DEF Sizes, UsedOf
<1>5. p \in DOMAIN h  BY DEF UsedOf
<1>6. n \in Nat  BY <1>5, Headers
<1>7. \A q \in DOMAIN held : Sizes(h)[q] = Sizes(header)[q]  BY <1>1, <1>4
<1>8. Sizes(h)[p] = n  BY <1>4
<1>9. Total(Sizes(h), DOMAIN held \cup {p}) = Total(Sizes(header), DOMAIN held) + n
  BY <1>1, <1>6, <1>7, <1>8, TotalMore
<1>10. allocated' = allocated + n  BY DEF Gives
<1> QED  BY <1>1, <1>2, <1>3, <1>9, <1>10

LEMMA MallocCutsStep ==
  ASSUME HeapInv, NEW r \in Requests, MallocCuts(r)
  PROVE  HeapInv'
<1> DEFINE room == BlockFor(r)
           b == First(room)
           left == header[b].size - room
           p == At(b, left)
           next == At(p, room)
           k == header'
<1>1. /\ Heap(length, header) /\ Lists(free, header) /\ Owned(held, header)
      /\ NoneJoinable(header) /\ Headed(header) /\ total = Total(length, DOMAIN length)
  BY InvParts
<1>2. room \in Nat /\ room > 0 /\ room >= r + HeaderSize  BY BlockForRoom
<1>3. b \in DOMAIN header /\ header[b].kind = "free"
  BY <1>2, FirstFits DEF FreeOf, MallocCuts
<1>4. header[b].size > room + 64  BY DEF MallocCuts, Leaves
<1>5. header[b].size \in Nat /\ header[b].prev_size \in Nat /\ b \in Place /\ b[2] \in Nat
  BY <1>1, <1>3, Headers
<1>6. left \in Nat /\ left > 0 /\ left < header[b].size /\ header[b].size - left = room
  BY <1>2, <1>4, <1>5
<1>7. next = Behind(header, b)
  <2>1. p = <<b[1], b[2] + left>> /\ next = <<p[1], p[2] + room>>  BY Zenon DEF At
  <2>2. p[2] + room = b[2] + header[b].size /\ p[1] = b[1]  BY <1>2, <1>5, <1>6, <2>1
  <2> QED  BY <2>1, <2>2 DEF Behind, At
<1>8. ~Ends(header, b)  BY <1>3 DEF Ends
<1>9. next \in DOMAIN header /\ next # b /\ header[next].kind # "free"
  <2>1. Behind(header, b) \in DOMAIN header /\ Behind(header, b)[2] > b[2]
    BY <1>1, <1>3, <1>8, Neighbours
  <2>2. Behind(header, b) # b  BY <1>5, <2>1
  <2>3. header[Behind(header, b)].kind # "free"  BY <1>1, <1>3 DEF NoneJoinable, FreeOf
  <2> QED  BY <1>7, <2>1, <2>2, <2>3
<1>10. p[2] = b[2] + left /\ next[2] = p[2] + room /\ p # b /\ p # next
  <2>1. p[2] = b[2] + left /\ next[2] = p[2] + room  BY Places
  <2> QED  BY <1>2, <1>5, <1>6, <2>1
<1>11. /\ k = With(With([header EXCEPT ![next].prev_size = room],
                        b, Free(left, header[b].prev_size)), p, Used(room, left))
       /\ Gives(p, r, room) /\ UNCHANGED <<length, free, total>>
  BY Zenon DEF MallocCuts
<1>12. header[next] \in Header /\ header[b] \in Header  BY <1>1, <1>3, <1>9 DEF Headed
<1> HIDE DEF p, next, b, room, left
<1>13. /\ DOMAIN k = DOMAIN header \cup {p}
       /\ k[b] = Free(left, header[b].prev_size) /\ k[p] = Used(room, left)
       /\ k[next] = [header[next] EXCEPT !.prev_size = room]
       /\ \A q \in DOMAIN header : q # b /\ q # p /\ q # next => k[q] = header[q]
  <2> DEFINE h1 == [header EXCEPT ![next].prev_size = room]
             h2 == With(h1, b, Free(left, header[b].prev_size))
  <2>1. /\ DOMAIN h1 = DOMAIN header /\ h1[next] = [header[next] EXCEPT !.prev_size = room]
        /\ \A q \in DOMAIN header : q # next => h1[q] = header[q]
    BY <1>9
  <2> HIDE DEF h1
  <2>2. /\ DOMAIN h2 = DOMAIN h1 \cup {b} /\ h2[b] = Free(left, header[b].prev_size)
        /\ \A q \in DOMAIN h1 : q # b => h2[q] = h1[q]
    BY DEF With
  <2> HIDE DEF h2
  <2>3. k = With(h2, p, Used(room, left))  BY <1>11 DEF h1, h2
  <2>4. /\ DOMAIN k = DOMAIN h2 \cup {p} /\ k[p] = Used(room, left)
        /\ \A q \in DOMAIN h2 : q # p => k[q] = h2[q]
    <3>1. /\ DOMAIN With(h2, p, Used(room, left)) = DOMAIN h2 \cup {p}
          /\ With(h2, p, Used(room, left))[p] = Used(room, left)
          /\ \A q \in DOMAIN h2 : q # p => With(h2, p, Used(room, left))[q] = h2[q]
      BY DEF With
    <3> HIDE DEF k
    <3> QED  BY <2>3, <3>1
  <2> HIDE DEF k
  <2> QED  BY <1>3, <1>9, <1>10, <2>1, <2>2, <2>4
<1> HIDE DEF k
<1>14. /\ k[b] \in Header /\ k[b].kind = "free" /\ k[b].size = left
       /\ k[b].prev_size = header[b].prev_size
       /\ k[p] \in Header /\ k[p].kind = "used" /\ k[p].size = room /\ k[p].prev_size = left
       /\ k[next] \in Header /\ k[next].kind = header[next].kind
       /\ k[next].size = header[next].size /\ k[next].prev_size = room
  BY <1>2, <1>5, <1>6, <1>12, <1>13 DEF Free, Used, Header
<1>15. Cuts(header, k, b, left)
  <2>1. \A q \in DOMAIN header \ {b, next} : q # p => k[q] = header[q]  BY <1>13
  <2>2. ~Ends(k, b) /\ ~Ends(k, p)  BY <1>14 DEF Ends
  <2>3. p \in DOMAIN header => FALSE
    <3>1. Clear(header)  BY <1>1 DEF Heap
    <3>2. p[1] = b[1]  BY Places DEF p
    <3>3. p \in DOMAIN header => p[2] <= b[2] \/ p[2] >= b[2] + header[b].size
      BY <1>3, <1>8, <3>1, <3>2 DEF Clear
    <3> QED  BY <1>5, <1>6, <1>10, <3>3
  <2>4. \A q \in DOMAIN header \ {b, next} : k[q] = header[q]  BY <2>1, <2>3
  <2>5. p = At(b, left)  BY DEF p
  <2> QED  BY <1>6, <1>7, <1>13, <1>14, <2>2, <2>4, <2>5, Zenon DEF Cuts
<1>16. Heap(length, k) /\ p \notin DOMAIN header
  BY <1>1, <1>3, <1>6, <1>8, <1>15, CutKeepsHeap DEF p
<1>17. \A q \in DOMAIN header : /\ k[q].kind = header[q].kind
                                /\ q # b => k[q].size = header[q].size
  BY <1>3, <1>13, <1>14, <1>16
<1>18. UsedOf(k) = UsedOf(header) \cup {p} /\ FreeOf(k) = FreeOf(header)
  BY <1>13, <1>14, <1>16, <1>17 DEF UsedOf, FreeOf
<1>19. Owned(held', k) /\ allocated' = Total(Sizes(k), DOMAIN held')
  <2>1. Headed(k)  BY <1>16 DEF Heap
  <2>2. p \notin DOMAIN held  BY <1>1, <1>16 DEF Owned, UsedOf
  <2>3. \A q \in UsedOf(header) : k[q].size = header[q].size  BY <1>3, <1>17 DEF UsedOf
  <2>4. Gives(p, r, room)  BY <1>11
  <2> QED  BY <1>2, <1>14, <1>18, <2>1, <2>2, <2>3, <2>4, GivesCounts
<1>20. Lists(free, k)
  <2>1. Listed(free) \subseteq DOMAIN k  BY <1>1, <1>13 DEF Lists, FreeOf
  <2>2. free \in Seq(DOMAIN k)  BY <1>1, <2>1, Relisted DEF Lists
  <2> QED  BY <1>1, <1>18, <2>2 DEF Lists
<1>21. NoneJoinable(k)
  <2> SUFFICES ASSUME NEW q \in FreeOf(k)  PROVE k[Behind(k, q)].kind # "free"
    BY DEF NoneJoinable
  <2>1. CASE q = b
    <3>1. Behind(k, q) = p  BY <1>14, <2>1 DEF Behind, p
    <3> QED  BY <1>14, <3>1
  <2>2. CASE q # b
    <3>1. q \in FreeOf(header) /\ Behind(k, q) = Behind(header, q) /\ ~Ends(header, q)
      BY <1>17, <1>18, <2>2 DEF Behind, FreeOf, Ends
    <3>2. Behind(header, q) \in DOMAIN header /\ header[Behind(header, q)].kind # "free"
      BY <1>1, <3>1, Neighbours DEF NoneJoinable, FreeOf
    <3> QED  BY <1>17, <3>1, <3>2
  <2> QED  BY <2>1, <2>2
<1>22. length' = length /\ free' = free /\ total' = total /\ header' = k  BY <1>11 DEF k
<1> QED  BY <1>1, <1>16, <1>19, <1>20, <1>21, <1>22, InvFrom

LEMMA MallocTakesStep ==
  ASSUME HeapInv, NEW r \in Requests, MallocTakes(r)
  PROVE  HeapInv'
<1> DEFINE room == BlockFor(r)
           b == First(room)
           k == header'
<1>1. /\ Heap(length, header) /\ Lists(free, header) /\ Owned(held, header)
      /\ NoneJoinable(header) /\ Headed(header) /\ total = Total(length, DOMAIN length)
  BY InvParts
<1>2. room \in Nat /\ room > 0 /\ room >= r + HeaderSize  BY BlockForRoom
<1>3. b \in FreeOf(header) /\ header[b].size >= room  BY <1>2, FirstFits DEF MallocTakes
<1>4. b \in DOMAIN header /\ header[b].kind = "free" /\ header[b] \in Header
      /\ header[b].size \in Nat
  BY <1>1, <1>3, Headers DEF FreeOf, Headed
<1>5. /\ k = [header EXCEPT ![b].kind = "used"] /\ free' = Unlinked(free, {b})
      /\ Gives(b, r, header[b].size) /\ UNCHANGED <<length, total>>
  BY Zenon DEF MallocTakes
<1> HIDE DEF b, room
<1>6. /\ DOMAIN k = DOMAIN header /\ k[b] = [header[b] EXCEPT !.kind = "used"]
      /\ \A q \in DOMAIN header : q # b => k[q] = header[q]
  BY <1>4, <1>5
<1>61. free' = Unlinked(free, {b}) /\ Gives(b, r, header[b].size)
      /\ length' = length /\ total' = total /\ header' = k
  BY <1>5
<1> HIDE DEF k
<1>7. /\ k[b] \in Header /\ k[b].kind = "used" /\ k[b].size = header[b].size
      /\ k[b].prev_size = header[b].prev_size
  BY <1>4, <1>6 DEF Header
<1>8. \A q \in DOMAIN header :
        /\ k[q] \in Header /\ k[q].size = header[q].size /\ k[q].prev_size = header[q].prev_size
        /\ Ends(k, q) <=> Ends(header, q)
        /\ Behind(k, q) = Behind(header, q)
  BY <1>1, <1>4, <1>6, <1>7 DEF Ends, Behind, Headed
<1>9. Heap(length, k)  BY <1>1, <1>6, <1>8, RelabelKeepsHeap
<1>10. UsedOf(k) = UsedOf(header) \cup {b} /\ FreeOf(k) = FreeOf(header) \ {b}
  <2>1. \A q \in DOMAIN header :
          /\ k[q].kind = "used" <=> header[q].kind = "used" \/ q = b
          /\ k[q].kind = "free" <=> header[q].kind = "free" /\ q # b
    BY <1>4, <1>6, <1>7
  <2> QED  BY <1>4, <1>6, <2>1 DEF UsedOf, FreeOf
<1>11. Owned(held', k) /\ allocated' = Total(Sizes(k), DOMAIN held')
  <2>1. Headed(k)  BY <1>9 DEF Heap
  <2>2. b \notin DOMAIN held  BY <1>1, <1>4 DEF Owned, UsedOf
  <2>3. \A q \in UsedOf(header) : k[q].size = header[q].size  BY <1>8 DEF UsedOf
  <2>4. header[b].size >= r + HeaderSize
    <3>1. HeaderSize \in Nat /\ r \in Nat  BY ExecAllocatorAssumption
    <3> QED  BY <1>2, <1>3, <1>4, <3>1
  <2> QED  BY <1>61, <1>7, <1>10, <2>1, <2>2, <2>3, <2>4, GivesCounts
<1>12. Lists(free', k)
  <2>1. free' \in Seq(DOMAIN header) /\ Once(free') /\ Listed(free') = Listed(free) \ {b}
    BY <1>1, <1>61, UnlinkedIs DEF Lists
  <2> QED  BY <1>1, <1>6, <1>10, <2>1 DEF Lists
<1>13. NoneJoinable(k)
  <2> SUFFICES ASSUME NEW q \in FreeOf(k)  PROVE k[Behind(k, q)].kind # "free"
    BY DEF NoneJoinable
  <2>1. q \in FreeOf(header) /\ Behind(k, q) = Behind(header, q) /\ ~Ends(header, q)
    BY <1>8, <1>10 DEF FreeOf, Ends
  <2>2. Behind(header, q) \in DOMAIN header /\ header[Behind(header, q)].kind # "free"
    BY <1>1, <2>1, Neighbours DEF NoneJoinable, FreeOf
  <2>3. Behind(header, q) # b  BY <1>4, <2>2
  <2> QED  BY <1>6, <2>1, <2>2, <2>3
<1> QED  BY <1>1, <1>9, <1>11, <1>12, <1>13, <1>61, InvFrom

(* The heap with a new chunk: all of it is one block, whoever has it.      *)
Grown(len2, k, c, n) ==
  /\ len2 = With(length, c, n)
  /\ k = With(With(header, <<c, 0>>, Used(n, 0)), <<c, n>>, Terminator(n))

LEMMA GrownHeap ==
  ASSUME HeapInv, NEW c \in Chunks, c \notin DOMAIN length, NEW n \in Nat \ {0},
         NEW len2, NEW k, Grown(len2, k, c, n)
  PROVE  /\ Heap(len2, k)
         /\ DOMAIN k = DOMAIN header \cup {<<c, 0>>, <<c, n>>}
         /\ k[<<c, 0>>] = Used(n, 0) /\ k[<<c, n>>] = Terminator(n)
         /\ \A q \in DOMAIN header : k[q] = header[q] /\ q[1] # c
         /\ Total(len2, DOMAIN len2) = total + n
<1>1. /\ Heap(length, header) /\ IsFiniteSet(DOMAIN length) /\ Numbers(length, DOMAIN length)
      /\ total = Total(length, DOMAIN length)
  BY InvParts
<1>2. \A q \in DOMAIN header : q[1] # c  BY <1>1 DEF Heap, Inside
<1> DEFINE b == <<c, 0>>
           e == <<c, n>>
           h1 == With(header, b, Used(n, 0))
<1>3. b[1] = c /\ e[1] = c /\ b # e  OBVIOUS
<1>4. b \notin DOMAIN header /\ e \notin DOMAIN header  BY <1>2, <1>3
<1>5. k = With(h1, e, Terminator(n)) /\ len2 = With(length, c, n)  BY DEF Grown
<1> HIDE DEF b, e
<1>6. /\ DOMAIN h1 = DOMAIN header \cup {b} /\ h1[b] = Used(n, 0)
      /\ \A q \in DOMAIN header : h1[q] = header[q]
  BY <1>4 DEF With
<1> HIDE DEF h1
<1>7. /\ DOMAIN k = DOMAIN header \cup {b, e} /\ k[b] = Used(n, 0) /\ k[e] = Terminator(n)
      /\ \A q \in DOMAIN header : k[q] = header[q]
  BY <1>3, <1>4, <1>5, <1>6 DEF With
<1>8. /\ DOMAIN len2 = DOMAIN length \cup {c} /\ len2[c] = n
      /\ \A d \in DOMAIN length : len2[d] = length[d]
  BY <1>5 DEF With
<1>9. Adds(length, header, len2, k, c, n)  BY <1>7, <1>8 DEF Adds, b, e
<1>10. Heap(len2, k)  BY <1>1, <1>9, AddKeepsHeap
<1>11. Total(len2, DOMAIN length \cup {c}) = Total(length, DOMAIN length) + len2[c]
  BY <1>1, <1>8, TotalMore
<1> QED  BY <1>1, <1>2, <1>7, <1>8, <1>10, <1>11 DEF b, e

LEMMA MallocGrowsStep ==
  ASSUME HeapInv, NEW r \in Requests, NEW c \in Chunks, MallocGrows(r, c)
  PROVE  HeapInv'
<1> DEFINE room == BlockFor(r)
           n == ChunkLength(room)
           cut == Leaves(n, room)
           p == <<c, 0>>
           e == <<c, n>>
           f == At(p, room)
           own == Used(IF cut THEN room ELSE n, 0)
           end == Terminator(IF cut THEN n - room ELSE n)
           heap == With(With(header, p, own), e, end)
           k == header'
           whole == With(With(header, p, Used(n, 0)), e, Terminator(n))
           len2 == With(length, c, n)
<1>1. /\ Lists(free, header) /\ Owned(held, header) /\ NoneJoinable(header)
      /\ Heap(length, header)
  BY InvParts
<1>2. /\ room \in Nat /\ room > 0 /\ room >= r + HeaderSize
      /\ n \in Nat /\ n >= room /\ n \in Nat \ {0}
      /\ HeaderSize \in Nat /\ r \in Nat
  BY BlockForRoom, ChunkLengthRoom, ExecAllocatorAssumption
<1>3. /\ c \notin DOMAIN length /\ length' = len2 /\ total' = total + n
      /\ k = IF cut THEN With(heap, f, Free(n - room, room)) ELSE heap
      /\ free' = IF cut THEN <<f>> \o free ELSE free
      /\ Gives(p, r, IF cut THEN room ELSE n)
  BY Zenon DEF MallocGrows
<1> DEFINE Good(h, len) ==
             /\ Heap(len, h)
             /\ DOMAIN h = DOMAIN header \cup {p, e}
             /\ h[p] = Used(n, 0) /\ h[e] = Terminator(n)
             /\ \A q \in DOMAIN header : h[q] = header[q] /\ q[1] # c
             /\ Total(len, DOMAIN len) = total + n
<1>4. Good(whole, len2)
  <2> HIDE DEF n
  <2>1. Grown(len2, whole, c, n)  BY Zenon DEF Grown
  <2>2. c \notin DOMAIN length /\ n \in Nat \ {0}  BY <1>2, <1>3
  <2> HIDE DEF whole, len2
  <2> QED  BY <2>1, <2>2, GrownHeap
<1>5. p[1] = c /\ p[2] = 0 /\ e[1] = c /\ e[2] = n /\ p # e /\ f = <<c, room>> /\ f[1] = c /\ f[2] = room
  <2>1. p[1] = c /\ p[2] = 0 /\ e[1] = c /\ e[2] = n /\ p # e  BY <1>2
  <2>2. f = <<p[1], p[2] + room>>  BY Zenon DEF At
  <2> HIDE DEF room
  <2>3. f = <<c, room>>  BY <1>2, <2>1, <2>2
  <2> QED  BY <2>1, <2>3
<1>6. p \notin DOMAIN header /\ e \notin DOMAIN header  BY <1>4, <1>5
<1>7. /\ DOMAIN heap = DOMAIN header \cup {p, e} /\ heap[p] = own /\ heap[e] = end
      /\ \A q \in DOMAIN header : heap[q] = header[q]
  <2> DEFINE h1 == With(header, p, own)
  <2> HIDE DEF p, e, own, end
  <2>1. /\ DOMAIN h1 = DOMAIN header \cup {p} /\ h1[p] = own
        /\ \A q \in DOMAIN header : h1[q] = header[q]
    BY <1>6 DEF With
  <2>2. heap = With(h1, e, end)  OBVIOUS
  <2> HIDE DEF h1, heap
  <2> QED  BY <1>5, <1>6, <2>1, <2>2 DEF With
<1>8. CASE ~cut
  <2>1. k = heap /\ free' = free /\ Gives(p, r, n) /\ heap = whole  BY <1>3, <1>8
  <2> HIDE DEF k, heap, whole, len2, p, e, n, room, Good
  <2>2. Good(k, len2)  BY <1>4, <2>1
  <2>3. /\ Heap(len2, k) /\ DOMAIN k = DOMAIN header \cup {p, e}
        /\ k[p] = Used(n, 0) /\ k[e] = Terminator(n)
        /\ \A q \in DOMAIN header : k[q] = header[q] /\ q[1] # c
        /\ Total(len2, DOMAIN len2) = total + n
    BY <2>2 DEF Good
  <2>4. k[p].kind = "used" /\ k[p].size = n /\ k[e].kind = "end"
    BY <2>3 DEF Used, Terminator
  <2>5. UsedOf(k) = UsedOf(header) \cup {p} /\ FreeOf(k) = FreeOf(header)
    <3>1. \A q \in DOMAIN k : q \in DOMAIN header \/ q = p \/ q = e  BY <2>3
    <3> QED  BY <1>6, <2>3, <2>4, <3>1 DEF UsedOf, FreeOf
  <2>6. Owned(held', k) /\ allocated' = Total(Sizes(k), DOMAIN held')
    <3>1. Headed(k)  BY <2>3 DEF Heap
    <3>2. p \notin DOMAIN held  BY <1>1, <1>6 DEF Owned, UsedOf
    <3>3. \A q \in UsedOf(header) : k[q].size = header[q].size  BY <2>3 DEF UsedOf
    <3>4. n >= r + HeaderSize  BY <1>2
    <3> QED  BY <2>1, <2>4, <2>5, <3>1, <3>2, <3>3, <3>4, GivesCounts
  <2>7. Lists(free, k)
    <3>1. Listed(free) \subseteq DOMAIN k  BY <1>1, <2>3 DEF Lists, FreeOf
    <3>2. free \in Seq(DOMAIN k)  BY <1>1, <3>1, Relisted DEF Lists
    <3> QED  BY <1>1, <2>5, <3>2 DEF Lists
  <2>8. NoneJoinable(k)
    <3> SUFFICES ASSUME NEW q \in FreeOf(k)  PROVE k[Behind(k, q)].kind # "free"
      BY DEF NoneJoinable
    <3>1. q \in FreeOf(header) /\ q \in DOMAIN header /\ ~Ends(header, q)
      BY <2>5 DEF FreeOf, Ends
    <3>2. Behind(k, q) = Behind(header, q)  BY <2>3, <3>1 DEF Behind
    <3>3. Behind(header, q) \in DOMAIN header /\ header[Behind(header, q)].kind # "free"
      BY <1>1, <3>1, Neighbours DEF NoneJoinable
    <3> QED  BY <2>3, <3>2, <3>3
  <2> QED  BY <1>3, <2>1, <2>3, <2>6, <2>7, <2>8, InvFrom DEF k
<1>9. CASE cut
  <2>1. k = With(heap, f, Free(n - room, room)) /\ free' = <<f>> \o free /\ Gives(p, r, room)
        /\ own = Used(room, 0) /\ end = Terminator(n - room)
    BY <1>3, <1>9
  <2>2. n > room + 64  BY <1>9 DEF Leaves
  <2> HIDE DEF k, heap, whole, len2, p, e, f, n, room, own, end
  <2>3. room < n /\ n - room \in Nat /\ n - room > 0  BY <1>2, <2>2
  <2>4. f \notin DOMAIN header /\ f # p /\ f # e
    BY <1>2, <1>4, <1>5, <2>3
  <2>5. /\ DOMAIN k = (DOMAIN header \cup {p, e}) \cup {f}
        /\ k[p] = Used(room, 0) /\ k[e] = Terminator(n - room) /\ k[f] = Free(n - room, room)
        /\ \A q \in DOMAIN header : k[q] = header[q]
    BY <1>7, <2>1, <2>4 DEF With
  <2>6. /\ Heap(len2, whole) /\ DOMAIN whole = DOMAIN header \cup {p, e}
        /\ whole[p] = Used(n, 0) /\ whole[e] = Terminator(n)
        /\ \A q \in DOMAIN header : whole[q] = header[q] /\ q[1] # c
        /\ Total(len2, DOMAIN len2) = total + n
    BY <1>4
  <2> HIDE DEF Good
  <2>7. /\ k[p] \in Header /\ k[p].kind = "used" /\ k[p].size = room /\ k[p].prev_size = 0
        /\ k[f] \in Header /\ k[f].kind = "free" /\ k[f].size = n - room /\ k[f].prev_size = room
        /\ k[e] \in Header /\ k[e].kind = "end" /\ k[e].size = 1 /\ k[e].prev_size = n - room
    BY <1>2, <2>3, <2>5 DEF Used, Free, Terminator, Header
  <2>8. /\ whole[p].kind = "used" /\ whole[p].size = n /\ whole[p].prev_size = 0
        /\ whole[e].kind = "end" /\ whole[e].size = 1
    BY <2>6 DEF Used, Terminator
  <2>9. Behind(whole, p) = e /\ At(p, room) = f
    <3>1. Behind(whole, p) = <<p[1], p[2] + n>>  BY <2>8 DEF Behind, At
    <3>2. p[2] + n = n  BY <1>2, <1>5
    <3>3. Behind(whole, p) = <<c, n>>  BY <1>5, <3>1, <3>2
    <3> QED  BY <3>3 DEF e, f
  <2>10. Cuts(whole, k, p, room)
    <3>1. ~Ends(k, p) /\ ~Ends(k, f)  BY <2>7 DEF Ends
    <3>2. \A q \in DOMAIN whole \ {p, e} : k[q] = whole[q]  BY <2>5, <2>6
    <3> QED  BY <2>5, <2>6, <2>7, <2>8, <2>9, <3>1, <3>2 DEF Cuts
  <2>11. Heap(len2, k)
    <3>1. p \in DOMAIN whole /\ ~Ends(whole, p)  BY <2>6, <2>8 DEF Ends
    <3>2. room \in Nat \ {0} /\ room < whole[p].size  BY <1>2, <2>3, <2>8
    <3> QED  BY <2>6, <2>10, <3>1, <3>2, CutKeepsHeap
  <2>12. UsedOf(k) = UsedOf(header) \cup {p} /\ FreeOf(k) = FreeOf(header) \cup {f}
    <3>1. \A q \in DOMAIN k : q \in DOMAIN header \/ q = p \/ q = e \/ q = f  BY <2>5
    <3> QED  BY <1>6, <2>4, <2>5, <2>7, <3>1 DEF UsedOf, FreeOf
  <2>13. Owned(held', k) /\ allocated' = Total(Sizes(k), DOMAIN held')
    <3>1. Headed(k)  BY <2>11 DEF Heap
    <3>2. p \notin DOMAIN held  BY <1>1, <1>6 DEF Owned, UsedOf
    <3>3. \A q \in UsedOf(header) : k[q].size = header[q].size  BY <2>5 DEF UsedOf
    <3> QED  BY <1>2, <2>1, <2>7, <2>12, <3>1, <3>2, <3>3, GivesCounts
  <2>14. Lists(free', k)
    <3>1. Listed(free) \subseteq DOMAIN k  BY <1>1, <2>5 DEF Lists, FreeOf
    <3>2. free \in Seq(DOMAIN k)  BY <1>1, <3>1, Relisted DEF Lists
    <3>3. f \in DOMAIN k /\ f \notin Listed(free) /\ Once(free)
      BY <1>1, <2>4, <2>5 DEF Lists, FreeOf
    <3>4. /\ free' \in Seq(DOMAIN k) /\ Once(free')
          /\ Listed(free') = Listed(free) \cup {f}
      BY <2>1, <3>2, <3>3, PushedFirst
    <3> QED  BY <1>1, <2>12, <3>4 DEF Lists
  <2>15. NoneJoinable(k)
    <3> SUFFICES ASSUME NEW q \in FreeOf(k)  PROVE k[Behind(k, q)].kind # "free"
      BY DEF NoneJoinable
    <3>1. CASE q = f
      <4>1. Behind(k, q) = <<f[1], f[2] + (n - room)>>  BY <2>7, <3>1 DEF Behind, At
      <4>2. f[2] + (n - room) = n  BY <1>2, <1>5
      <4>3. Behind(k, q) = e  BY <1>5, <4>1, <4>2 DEF e
      <4> QED  BY <2>7, <4>3
    <3>2. CASE q # f
      <4>1. q \in FreeOf(header) /\ q \in DOMAIN header /\ ~Ends(header, q)
        BY <2>12, <3>2 DEF FreeOf, Ends
      <4>2. Behind(k, q) = Behind(header, q)  BY <2>5, <4>1 DEF Behind
      <4>3. Behind(header, q) \in DOMAIN header /\ header[Behind(header, q)].kind # "free"
        BY <1>1, <4>1, Neighbours DEF NoneJoinable
      <4> QED  BY <2>5, <4>2, <4>3
    <3> QED  BY <3>1, <3>2
  <2> QED  BY <1>3, <2>6, <2>11, <2>13, <2>14, <2>15, InvFrom DEF k
<1> QED  BY <1>8, <1>9

-----------------------------------------------------------------------------
(* sljit_free_exec.                                                        *)

(* The block behind what block p is joined to.                             *)
Beyond(p) == IF IsFree(After(p)) THEN Behind(header, After(p)) ELSE After(p)

LEMMA JoinedPlaces ==
  ASSUME HeapInv, NEW p \in DOMAIN held
  PROVE  /\ p \in DOMAIN header /\ header[p].kind = "used" /\ p \in Place /\ header[p].size > 0
         /\ After(p) = Behind(header, p) /\ After(p) \in DOMAIN header
         /\ After(p)[1] = p[1] /\ After(p)[2] = p[2] + header[p].size
         /\ IsFree(Before(p)) =>
              /\ Before(p) = Ahead(header, p) /\ Before(p) \in FreeOf(header)
              /\ Behind(header, Before(p)) = p /\ Before(p)[1] = p[1]
              /\ p[2] = Before(p)[2] + header[Before(p)].size
              /\ header[Before(p)].size > 0
         /\ IsFree(After(p)) => After(p) \in FreeOf(header) /\ header[After(p)].size > 0
         /\ Beyond(p) \in DOMAIN header /\ header[Beyond(p)].kind # "free"
         /\ Beyond(p)[1] = p[1]
         /\ Beyond(p)[2] = p[2] + header[p].size
                           + (IF IsFree(After(p)) THEN header[After(p)].size ELSE 0)
<1>1. /\ Heap(length, header) /\ NoneJoinable(header) /\ Headed(header)
      /\ DOMAIN held = UsedOf(header)
  BY InvParts DEF Owned
<1>2. p \in DOMAIN header /\ header[p].kind = "used" /\ p \in Place /\ ~Ends(header, p)
      /\ p[2] \in Nat /\ header[p].size \in Nat /\ header[p].prev_size \in Nat
  BY <1>1, Headers DEF UsedOf, Ends
<1>3. After(p) = Behind(header, p) /\ Before(p) = Ahead(header, p)
  BY Zenon DEF After, Before, Behind, Ahead
<1>4. /\ After(p) \in DOMAIN header /\ header[p].size > 0
      /\ After(p)[1] = p[1] /\ After(p)[2] = p[2] + header[p].size
  BY <1>1, <1>2, <1>3, Neighbours
<1>5. ASSUME IsFree(Before(p))
      PROVE  /\ Before(p) \in FreeOf(header)
             /\ Behind(header, Before(p)) = p /\ Before(p)[1] = p[1]
             /\ p[2] = Before(p)[2] + header[Before(p)].size
             /\ header[Before(p)].size > 0
  <2>1. p[2] # 0
    <3> SUFFICES ASSUME p[2] = 0 PROVE FALSE  OBVIOUS
    <3>1. header[p].prev_size = 0  BY <1>1, <1>2 DEF Heap, Preceded
    <3>2. Before(p)[1] = p[1] /\ Before(p)[2] = p[2] /\ Before(p) \in Place
      BY <1>2, <3>1, Places DEF Before
    <3>3. Before(p) = p  BY <1>2, <3>2, Places, Zenon
    <3> QED  BY <1>2, <1>5, <3>3 DEF IsFree
  <2> DEFINE L == Before(p)
  <2>2. /\ L \in DOMAIN header /\ L[1] = p[1] /\ ~Ends(header, L)
        /\ Behind(header, L) = p
    BY <1>1, <1>2, <1>3, <2>1, Neighbours
  <2>3. L \in FreeOf(header)  BY <1>5, <2>2 DEF FreeOf, IsFree
  <2> HIDE DEF L
  <2>4. Behind(header, L)[2] = L[2] + header[L].size /\ header[L].size > 0
    BY <1>1, <2>2, Neighbours
  <2> QED  BY <2>2, <2>3, <2>4 DEF L
<1>6. CASE IsFree(After(p))
  <2> DEFINE R == After(p)
  <2>1. R \in FreeOf(header) /\ ~Ends(header, R)  BY <1>4, <1>6 DEF FreeOf, IsFree, Ends
  <2>2. Beyond(p) = Behind(header, R)  BY <1>6 DEF Beyond
  <2>3. R \in DOMAIN header /\ R[1] = p[1] /\ R[2] = p[2] + header[p].size  BY <1>4
  <2> HIDE DEF R
  <2>4. /\ Behind(header, R) \in DOMAIN header /\ Behind(header, R)[1] = R[1]
        /\ Behind(header, R)[2] = R[2] + header[R].size /\ header[R].size > 0
    BY <1>1, <2>1, <2>3, Neighbours
  <2>5. header[Behind(header, R)].kind # "free"  BY <1>1, <2>1 DEF NoneJoinable
  <2> QED  BY <1>2, <1>3, <1>4, <1>5, <1>6, <2>1, <2>2, <2>3, <2>4, <2>5 DEF R
<1>7. CASE ~IsFree(After(p))
  <2>1. Beyond(p) = After(p)  BY <1>7 DEF Beyond
  <2>2. header[After(p)].kind # "free"  BY <1>7 DEF IsFree
  <2>3. After(p)[2] = p[2] + header[p].size + 0  BY <1>2, <1>4
  <2> QED  BY <1>2, <1>3, <1>4, <1>5, <1>7, <2>1, <2>2, <2>3
<1> QED  BY <1>6, <1>7

(* What JoinedHeap makes of the headers.                                   *)
JoinedTo(k, block, room, gone, next) ==
  /\ block \in DOMAIN header /\ block \notin gone /\ next \in DOMAIN header /\ next \notin gone
  /\ block # next /\ At(block, room) = next
  /\ DOMAIN k = DOMAIN header \ gone
  /\ k[block] = Free(room, header[block].prev_size)
  /\ k[next] = [header[next] EXCEPT !.prev_size = room]
  /\ \A q \in DOMAIN k : q # block /\ q # next => k[q] = header[q]

LEMMA JoinedHeapIs ==
  ASSUME HeapInv, NEW p \in DOMAIN held
  PROVE  JoinedTo(JoinedHeap(p), Joined(p).block, Joined(p).size, Joined(p).gone, Beyond(p))
<1> DEFINE L == Before(p)
           R == After(p)
           left == IsFree(L)
           right == IsFree(R)
           block == IF left THEN L ELSE p
           sl == IF left THEN header[L].size ELSE 0
           sr == IF right THEN header[R].size ELSE 0
           room == header[p].size + sl + sr
           gone == (IF left THEN {p} ELSE {}) \cup (IF right THEN {R} ELSE {})
           next == Beyond(p)
           rest == Without(header, gone)
           h1 == [rest EXCEPT ![At(block, room)].prev_size = room]
           k == With(h1, block, Free(room, header[block].prev_size))
<1>1. Joined(p).block = block /\ Joined(p).size = room /\ Joined(p).gone = gone
  BY Zenon DEF Joined
<1>2. JoinedHeap(p) = k  BY <1>1, Zenon DEF JoinedHeap
<1>3. /\ Heap(length, header) /\ Headed(header)
      /\ \A q \in DOMAIN header : q \in Place /\ q[2] \in Nat /\ header[q].size \in Nat
  BY InvParts, Headers
<1>4. /\ p \in DOMAIN header /\ header[p].kind = "used" /\ p \in Place /\ header[p].size > 0
      /\ R \in DOMAIN header
      /\ R[1] = p[1] /\ R[2] = p[2] + header[p].size
      /\ left => /\ L \in FreeOf(header) /\ L[1] = p[1]
                 /\ p[2] = L[2] + header[L].size /\ header[L].size > 0
      /\ right => R \in FreeOf(header) /\ header[R].size > 0
      /\ next \in DOMAIN header /\ header[next].kind # "free"
      /\ next[1] = p[1] /\ next[2] = p[2] + header[p].size + sr
  BY JoinedPlaces
<1>5. left => L \in DOMAIN header  BY <1>4 DEF FreeOf
<1>6. block \in DOMAIN header /\ block[1] = p[1] /\ p[2] = block[2] + sl /\ sl \in Nat /\ sr \in Nat
  <2>1. CASE left  BY <1>3, <1>4, <1>5, <2>1
  <2>2. CASE ~left  BY <1>3, <1>4, <2>2
  <2> QED  BY <2>1, <2>2
<1>7. next[2] = block[2] + room /\ room \in Nat /\ room > 0 /\ room = header[p].size + sl + sr
  <2>1. block[2] \in Nat /\ header[p].size \in Nat  BY <1>3, <1>4, <1>6
  <2> HIDE DEF block, sl, sr, next
  <2> QED  BY <1>4, <1>6, <2>1
<1> HIDE DEF next, room, sr, sl
<1>8. block \notin gone /\ next \notin gone /\ block # next
  <2>1. next # block  BY <1>3, <1>6, <1>7
  <2>2. next # p  BY <1>3, <1>4, <1>6, <1>7
  <2>3. right => next # R
    <3>1. right => sr > 0  BY <1>4 DEF sr
    <3> QED  BY <1>3, <1>4, <1>6, <3>1
  <2>4. left => block # p  BY <1>3, <1>4, <1>5
  <2>5. right => block # R  BY <1>3, <1>4, <1>6
  <2> QED  BY <2>1, <2>2, <2>3, <2>4, <2>5
<1> HIDE DEF block, gone
<1>9. At(block, room) = next
  <2>1. At(block, room)[1] = block[1] /\ At(block, room)[2] = block[2] + room
    BY Places
  <2>2. /\ block \in Place /\ next \in Place /\ room \in Int
        /\ block[2] + room \in Nat /\ block[1] = next[1] /\ block[2] + room = next[2]
    BY <1>3, <1>4, <1>6, <1>7
  <2>3. At(block, room) \in Place  BY <2>2, Places, Zenon
  <2>4. At(block, room)[1] = next[1] /\ At(block, room)[2] = next[2]  BY <2>1, <2>2
  <2> QED  BY <2>2, <2>3, <2>4, Places, Zenon
<1>10. /\ DOMAIN rest = DOMAIN header \ gone /\ \A q \in DOMAIN rest : rest[q] = header[q]
       /\ next \in DOMAIN rest /\ block \in DOMAIN rest
  BY <1>4, <1>6, <1>8 DEF Without
<1> HIDE DEF rest
<1>11. /\ DOMAIN h1 = DOMAIN rest /\ h1[next] = [header[next] EXCEPT !.prev_size = room]
       /\ \A q \in DOMAIN rest : q # next => h1[q] = header[q]
  BY <1>9, <1>10
<1> HIDE DEF h1
<1>12. /\ DOMAIN k = DOMAIN h1 /\ k[block] = Free(room, header[block].prev_size)
       /\ \A q \in DOMAIN h1 : q # block => k[q] = h1[q]
  BY <1>10, <1>11 DEF With
<1> HIDE DEF k
<1>13. JoinedTo(k, block, room, gone, next)
  BY <1>4, <1>6, <1>8, <1>9, <1>10, <1>11, <1>12 DEF JoinedTo
<1> QED  BY <1>1, <1>2, <1>13 DEF next

LEMMA JoinedKeepsHeap ==
  ASSUME HeapInv, NEW p \in DOMAIN held, NEW k, k = JoinedHeap(p)
  PROVE  Heap(length, k)
<1> DEFINE L == Before(p)
           R == After(p)
           left == IsFree(L)
           right == IsFree(R)
           N == Beyond(p)
           own == header[p].size
           prev == header[IF left THEN L ELSE p].prev_size
<1>1. /\ Heap(length, header) /\ Headed(header)
      /\ \A q \in DOMAIN header : q \in Place /\ q[2] \in Nat /\ header[q].size \in Nat
                                  /\ header[q] \in Header /\ header[q].prev_size \in Nat
  BY InvParts, Headers DEF Headed
<1>2. /\ p \in DOMAIN header /\ header[p].kind = "used" /\ own > 0
      /\ R = Behind(header, p) /\ R \in DOMAIN header
      /\ left => /\ L \in FreeOf(header) /\ Behind(header, L) = p
                 /\ L[1] = p[1] /\ p[2] = L[2] + header[L].size
      /\ right => R \in FreeOf(header)
      /\ N \in DOMAIN header
  BY JoinedPlaces
<1>3. /\ ~Ends(header, p)
      /\ left => L \in DOMAIN header /\ ~Ends(header, L)
      /\ right => ~Ends(header, R)
  BY <1>2 DEF Ends, FreeOf
<1>4. (right => N = Behind(header, R)) /\ (~right => N = R)  BY DEF Beyond
<1>5. /\ Joined(p).block = IF left THEN L ELSE p
      /\ Joined(p).size = own + (IF left THEN header[L].size ELSE 0)
                              + (IF right THEN header[R].size ELSE 0)
      /\ Joined(p).gone = (IF left THEN {p} ELSE {}) \cup (IF right THEN {R} ELSE {})
  BY Zenon DEF Joined
<1>6. JoinedTo(k, Joined(p).block, Joined(p).size, Joined(p).gone, N)
  BY JoinedHeapIs
<1> HIDE DEF L, R, left, right, N, own
<1>7. own \in Nat  BY <1>1, <1>2 DEF own
<1> DEFINE To(block, room, gone) ==
             /\ block # N /\ At(block, room) = N
             /\ DOMAIN k = DOMAIN header \ gone
             /\ k[block] = Free(room, header[block].prev_size)
             /\ k[N] = [header[N] EXCEPT !.prev_size = room]
             /\ \A q \in DOMAIN k : q # block /\ q # N => k[q] = header[q]
<1>8. ASSUME NEW block \in DOMAIN header, NEW room \in Nat, NEW gone, To(block, room, gone)
      PROVE  /\ k[block] \in Header /\ ~Ends(k, block)
             /\ k[block].size = room /\ k[block].prev_size = header[block].prev_size
             /\ k[N] \in Header /\ k[N].kind = header[N].kind
             /\ k[N].size = header[N].size /\ k[N].prev_size = room
  <2>1. k[block] = Free(room, header[block].prev_size) /\ header[block].prev_size \in Nat
    BY <1>1, <1>8
  <2>2. k[N] = [header[N] EXCEPT !.prev_size = room] /\ header[N] \in Header
    BY <1>1, <1>2, <1>8
  <2> QED  BY <2>1, <2>2 DEF Free, Header, Ends
<1>9. CASE ~left /\ ~right
  <2>1. Joined(p).block = p /\ Joined(p).size = own /\ Joined(p).gone = {} /\ N = R
    BY <1>4, <1>5, <1>7, <1>9
  <2>2. To(p, own, {})  BY <1>6, <2>1, Zenon DEF JoinedTo
  <2>3. /\ k[p] \in Header /\ ~Ends(k, p) /\ k[p].size = own
        /\ k[p].prev_size = header[p].prev_size
        /\ k[N] \in Header /\ k[N].kind = header[N].kind
        /\ k[N].size = header[N].size /\ k[N].prev_size = own
    <3> HIDE DEF To
    <3> QED  BY <1>2, <1>7, <1>8, <2>2
  <2>4. header[N].prev_size = own  BY <1>1, <1>2, <1>3, <2>1, Neighbours DEF own
  <2>5. DOMAIN k = DOMAIN header /\ \A q \in DOMAIN header : q # p /\ q # N => k[q] = header[q]
    BY <2>2
  <2>6. \A q \in DOMAIN header :
          /\ k[q] \in Header /\ k[q].size = header[q].size
          /\ k[q].prev_size = header[q].prev_size /\ (Ends(k, q) <=> Ends(header, q))
    BY <1>1, <1>3, <2>3, <2>4, <2>5 DEF Ends, own
  <2> QED  BY <1>1, <2>5, <2>6, RelabelKeepsHeap
<1>10. CASE ~left /\ right
  <2> DEFINE n == own + header[R].size
  <2>1. /\ Joined(p).block = p /\ Joined(p).size = n /\ Joined(p).gone = {R}
        /\ N = Behind(header, R) /\ n \in Nat
    BY <1>1, <1>2, <1>4, <1>5, <1>7, <1>10
  <2> HIDE DEF n
  <2>2. To(p, n, {R})  BY <1>6, <2>1, Zenon DEF JoinedTo
  <2>3. /\ k[p] \in Header /\ ~Ends(k, p) /\ k[p].size = n
        /\ k[p].prev_size = header[p].prev_size
        /\ k[N] \in Header /\ k[N].kind = header[N].kind
        /\ k[N].size = header[N].size /\ k[N].prev_size = n
    <3> HIDE DEF To
    <3> QED  BY <1>2, <1>8, <2>1, <2>2
  <2>4. DOMAIN k = DOMAIN header \ {R} /\ \A q \in DOMAIN header \ {p, R, N} : k[q] = header[q]
    BY <2>2
  <2>5. Joins(header, k, p)
    BY <1>2, <2>1, <2>3, <2>4, Zenon DEF Joins, n, own
  <2>6. ~Ends(header, Behind(header, p))  BY <1>2, <1>3, <1>10
  <2> QED  BY <1>1, <1>2, <1>3, <2>5, <2>6, JoinKeepsHeap
<1>11. CASE left /\ ~right
  <2> DEFINE n == header[L].size + own
  <2>1. /\ Joined(p).block = L /\ Joined(p).size = n /\ Joined(p).gone = {p} /\ N = R
        /\ n \in Nat /\ L \in DOMAIN header
    BY <1>1, <1>2, <1>3, <1>4, <1>5, <1>7, <1>11
  <2> HIDE DEF n
  <2>2. To(L, n, {p})  BY <1>6, <2>1, Zenon DEF JoinedTo
  <2>3. /\ k[L] \in Header /\ ~Ends(k, L) /\ k[L].size = n
        /\ k[L].prev_size = header[L].prev_size
        /\ k[N] \in Header /\ k[N].kind = header[N].kind
        /\ k[N].size = header[N].size /\ k[N].prev_size = n
    <3> HIDE DEF To
    <3> QED  BY <1>8, <2>1, <2>2
  <2>4. DOMAIN k = DOMAIN header \ {p} /\ \A q \in DOMAIN header \ {L, p, N} : k[q] = header[q]
    BY <2>2
  <2>5. Behind(header, L) = p /\ Behind(header, p) = N  BY <1>2, <1>11, <2>1
  <2>6. Joins(header, k, L)
    BY <2>3, <2>4, <2>5, Zenon DEF Joins, n, own
  <2>7. ~Ends(header, Behind(header, L)) /\ ~Ends(header, L)  BY <1>3, <1>11, <2>5
  <2> QED  BY <1>1, <2>1, <2>6, <2>7, JoinKeepsHeap
<1>12. CASE left /\ right
  <2> DEFINE m == own + header[R].size
             n == header[L].size + m
             mid == [q \in DOMAIN header \ {R} |->
                       IF q = p THEN Free(m, header[p].prev_size)
                       ELSE IF q = N THEN [header[N] EXCEPT !.prev_size = m] ELSE header[q]]
  <2>1. /\ Joined(p).block = L /\ Joined(p).size = n /\ Joined(p).gone = {p, R}
        /\ N = Behind(header, R) /\ n \in Nat /\ m \in Nat /\ L \in DOMAIN header
    BY <1>1, <1>2, <1>3, <1>4, <1>5, <1>7, <1>12
  <2>2. L # p /\ L # R /\ p # R /\ N # R /\ N # p /\ N # L
    <3>1. /\ R[2] = p[2] + own /\ own > 0
      BY <1>1, <1>2, <1>3, Neighbours DEF own
    <3>2. N[2] = R[2] + header[R].size /\ header[R].size > 0
      BY <1>1, <1>2, <1>3, <1>12, <2>1, Neighbours
    <3>3. p[2] = L[2] + header[L].size /\ header[L].size > 0
      BY <1>1, <1>2, <1>3, <1>12, Neighbours
    <3>4. /\ L[2] \in Nat /\ p[2] \in Nat /\ R[2] \in Nat /\ N[2] \in Nat
          /\ header[L].size \in Nat /\ header[R].size \in Nat
      BY <1>1, <1>2, <2>1
    <3>5. L[2] < p[2] /\ p[2] < R[2] /\ R[2] < N[2]  BY <1>7, <3>1, <3>2, <3>3, <3>4
    <3> QED  BY <3>4, <3>5
  <2>3. /\ DOMAIN mid = DOMAIN header \ {R}
        /\ mid[p] = Free(m, header[p].prev_size)
        /\ mid[N] = [header[N] EXCEPT !.prev_size = m]
        /\ \A q \in DOMAIN header \ {p, R, N} : mid[q] = header[q]
    BY <1>2, <2>2
  <2> HIDE DEF mid, n, m
  <2>4. /\ mid[p] \in Header /\ ~Ends(mid, p) /\ mid[p].size = m
        /\ mid[p].prev_size = header[p].prev_size
        /\ mid[N] \in Header /\ mid[N].kind = header[N].kind
        /\ mid[N].size = header[N].size /\ mid[N].prev_size = m
    <3>1. header[N] \in Header /\ header[p].prev_size \in Nat  BY <1>1, <1>2
    <3> QED  BY <2>1, <2>3, <3>1 DEF Free, Header, Ends
  <2>5. Joins(header, mid, p)
    BY <1>2, <2>1, <2>3, <2>4, Zenon DEF Joins, m, own
  <2>6. Heap(length, mid)
    <3>1. ~Ends(header, Behind(header, p))  BY <1>2, <1>3, <1>12
    <3> QED  BY <1>1, <1>2, <1>3, <2>5, <3>1, JoinKeepsHeap
  <2>7. To(L, n, {p, R})  BY <1>6, <2>1, Zenon DEF JoinedTo
  <2>8. /\ k[L] \in Header /\ ~Ends(k, L) /\ k[L].size = n
        /\ k[L].prev_size = header[L].prev_size
        /\ k[N] \in Header /\ k[N].kind = header[N].kind
        /\ k[N].size = header[N].size /\ k[N].prev_size = n
    <3> HIDE DEF To
    <3> QED  BY <1>8, <2>1, <2>7
  <2>9. /\ DOMAIN k = DOMAIN header \ {p, R}
        /\ \A q \in DOMAIN header \ {L, p, R, N} : k[q] = header[q]
    BY <2>7
  <2>10. mid[L] = header[L] /\ L \in DOMAIN mid  BY <2>1, <2>2, <2>3
  <2>11. Behind(mid, L) = p
    <3>1. Behind(mid, L) = Behind(header, L)  BY <2>10 DEF Behind
    <3> QED  BY <1>2, <1>12, <3>1
  <2>12. Behind(mid, p) = N
    <3>1. Behind(header, p) = At(p, own) /\ Behind(header, R) = At(R, header[R].size)
      BY DEF Behind, own
    <3>2. R = <<p[1], p[2] + own>> /\ N = <<R[1], R[2] + header[R].size>>
      BY <1>2, <2>1, <3>1, Zenon DEF At
    <3>3. p[2] \in Nat /\ header[R].size \in Nat  BY <1>1, <1>2
    <3>4. N = <<p[1], p[2] + m>>  BY <1>7, <3>2, <3>3 DEF m
    <3> QED  BY <2>4, <3>4 DEF Behind, At
  <2>13. Joins(mid, k, L)
    <3>1. mid[L].size + mid[p].size = n  BY <2>4, <2>10 DEF n
    <3>2. DOMAIN k = DOMAIN mid \ {p}  BY <2>3, <2>9
    <3>3. \A q \in DOMAIN mid \ {L, p, N} : k[q] = mid[q]  BY <2>3, <2>9
    <3>4. k[N].kind = mid[N].kind /\ k[N].size = mid[N].size /\ mid[L].prev_size = header[L].prev_size
      BY <2>4, <2>8, <2>10
    <3> QED  BY <2>8, <2>11, <2>12, <3>1, <3>2, <3>3, <3>4, Zenon DEF Joins
  <2>14. ~Ends(mid, L) /\ ~Ends(mid, Behind(mid, L))
    BY <1>3, <1>12, <2>4, <2>10, <2>11 DEF Ends
  <2> QED  BY <2>6, <2>10, <2>13, <2>14, JoinKeepsHeap
<1> QED  BY <1>9, <1>10, <1>11, <1>12

Joining(p, k, block, gone) ==
  k = JoinedHeap(p) /\ block = Joined(p).block /\ gone = Joined(p).gone

(* What the heap is when p has been joined.                                *)
AfterJoin(p, k, block, gone) ==
  /\ Heap(length, k) /\ NoneJoinable(k)
  /\ block \in DOMAIN k /\ block[1] = p[1] /\ k[block].size = Joined(p).size
  /\ DOMAIN k = DOMAIN header \ gone
  /\ UsedOf(k) = UsedOf(header) \ {p}
  /\ FreeOf(k) = (FreeOf(header) \ gone) \cup {block}
  /\ gone \subseteq FreeOf(header) \cup {p}
  /\ IsFree(Before(p)) => block \in FreeOf(header) \ gone /\ p \in gone
  /\ ~IsFree(Before(p)) => block = p /\ p \notin gone
  /\ \A q \in DOMAIN k \ {block} : k[q].kind = header[q].kind /\ k[q].size = header[q].size

LEMMA JoinedIs ==
  ASSUME HeapInv, NEW p \in DOMAIN held,
         NEW k, NEW block, NEW gone, Joining(p, k, block, gone)
  PROVE  AfterJoin(p, k, block, gone)
<1> DEFINE L == Before(p)
           R == After(p)
           left == IsFree(L)
           right == IsFree(R)
           N == Beyond(p)
           room == Joined(p).size
<1>1. /\ Heap(length, header) /\ Headed(header) /\ NoneJoinable(header)
  BY InvParts
<1>2. /\ p \in DOMAIN header /\ header[p].kind = "used"
      /\ R = Behind(header, p) /\ R \in DOMAIN header /\ R # p
      /\ left => /\ L \in FreeOf(header) /\ Behind(header, L) = p /\ L[1] = p[1]
      /\ right => R \in FreeOf(header)
      /\ N \in DOMAIN header /\ header[N].kind # "free"
  <2>1. /\ header[p].size > 0 /\ R[2] = p[2] + header[p].size /\ p[2] \in Nat
        /\ header[p].size \in Nat
    BY <1>1, JoinedPlaces, Headers
  <2>2. R # p  BY <2>1
  <2> HIDE DEF R
  <2> QED  BY <2>2, JoinedPlaces DEF R
<1>3. (right => N = Behind(header, R)) /\ (~right => N = R)  BY DEF Beyond
<1>4. /\ block = IF left THEN L ELSE p
      /\ gone = (IF left THEN {p} ELSE {}) \cup (IF right THEN {R} ELSE {})
  BY Zenon DEF Joined, Joining
<1>5. JoinedTo(k, block, room, gone, N)  BY JoinedHeapIs, Zenon DEF Joining
<1>6. Heap(length, k)  BY JoinedKeepsHeap, Zenon DEF Joining
<1> HIDE DEF room, N, left, right, L, R
<1>7. /\ block \in DOMAIN header /\ block \notin gone /\ N \notin gone
      /\ block # N /\ At(block, room) = N
      /\ DOMAIN k = DOMAIN header \ gone
      /\ k[block] = Free(room, header[block].prev_size)
      /\ k[N] = [header[N] EXCEPT !.prev_size = room]
      /\ \A q \in DOMAIN k : q # block /\ q # N => k[q] = header[q]
  BY <1>5, Zenon DEF JoinedTo
<1>8. k[block].kind = "free" /\ k[block].size = room /\ block \in DOMAIN k
  BY <1>7 DEF Free
<1>9. header[N] \in Header  BY <1>1, <1>2 DEF Headed
<1>10. k[N].kind = header[N].kind /\ k[N].size = header[N].size
  BY <1>7, <1>9 DEF Header
<1>11. \A q \in DOMAIN k \ {block} : k[q].kind = header[q].kind /\ k[q].size = header[q].size
  BY <1>7, <1>10
<1>12. /\ gone \subseteq FreeOf(header) \cup {p} /\ block[1] = p[1]
       /\ left => block \in FreeOf(header) \ gone /\ p \in gone
       /\ ~left => block = p /\ p \notin gone
  BY <1>2, <1>4, <1>7
<1>13. \A q \in FreeOf(header) : q # p /\ q \in DOMAIN header /\ header[q].kind = "free"
  BY <1>2 DEF FreeOf
<1>14. UsedOf(k) = UsedOf(header) \ {p}
  <2>1. ASSUME NEW q \in UsedOf(k)  PROVE q \in UsedOf(header) \ {p}
    <3>1. q \in DOMAIN header /\ q \notin gone /\ q # block /\ header[q].kind = "used"
      BY <1>7, <1>8, <1>11 DEF UsedOf
    <3>2. q # p  BY <1>12, <3>1
    <3> QED  BY <3>1, <3>2 DEF UsedOf
  <2>2. ASSUME NEW q \in UsedOf(header), q # p  PROVE q \in UsedOf(k)
    <3>1. q \in DOMAIN header /\ header[q].kind = "used"  BY DEF UsedOf
    <3>2. q \notin FreeOf(header)  BY <3>1 DEF FreeOf
    <3>3. q \notin gone /\ q # block  BY <1>12, <2>2, <3>2
    <3> QED  BY <1>7, <1>11, <3>1, <3>3 DEF UsedOf
  <2> QED  BY <2>1, <2>2
<1>15. FreeOf(k) = (FreeOf(header) \ gone) \cup {block}
  <2>1. ASSUME NEW q \in FreeOf(k), q # block  PROVE q \in FreeOf(header) \ gone
    BY <1>7, <1>11, <2>1 DEF FreeOf
  <2>2. ASSUME NEW q \in FreeOf(header) \ gone, q # block  PROVE q \in FreeOf(k)
    BY <1>7, <1>11, <2>2 DEF FreeOf
  <2>3. block \in FreeOf(k)  BY <1>8 DEF FreeOf
  <2> QED  BY <2>1, <2>2, <2>3
<1>16. NoneJoinable(k)
  <2> SUFFICES ASSUME NEW q \in FreeOf(k)  PROVE k[Behind(k, q)].kind # "free"
    BY DEF NoneJoinable
  <2>1. CASE q = block
    <3>1. Behind(k, q) = N  BY <1>7, <1>8, <2>1 DEF Behind
    <3> QED  BY <1>2, <1>10, <3>1
  <2>2. CASE q # block
    <3>1. q \in FreeOf(header) /\ q \in DOMAIN k /\ k[q].size = header[q].size
          /\ k[q].kind = "free"
      BY <1>7, <1>11, <1>15, <2>2 DEF FreeOf
    <3>2. Behind(k, q) = Behind(header, q)  BY <3>1 DEF Behind
    <3>3. header[Behind(header, q)].kind # "free"  BY <1>1, <3>1 DEF NoneJoinable
    <3>4. Behind(k, q) \in DOMAIN k  BY <1>6, <3>1, Neighbours DEF Ends
    <3>5. Behind(k, q) # block
      <4>1. CASE left
        <5>1. header[block].kind = "free"  BY <1>12, <1>13, <4>1
        <5> QED  BY <3>2, <3>3, <5>1
      <4>2. CASE ~left
        <5> SUFFICES ASSUME Behind(header, q) = p PROVE FALSE  BY <1>12, <3>2, <4>2
        <5>1. q \in DOMAIN header /\ ~Ends(header, q)  BY <1>13, <3>1 DEF Ends
        <5>2. q = Ahead(header, p)  BY <1>1, <1>2, <5>1, Neighbours
        <5>3. Ahead(header, p) = L  BY DEF L, Before, Ahead
        <5> QED  BY <1>13, <3>1, <4>2, <5>2, <5>3 DEF left, IsFree
      <4> QED  BY <4>1, <4>2
    <3> QED  BY <1>11, <3>2, <3>3, <3>4, <3>5
  <2> QED  BY <2>1, <2>2
<1> QED  BY <1>6, <1>7, <1>8, <1>11, <1>12, <1>14, <1>15, <1>16 DEF left, L, room, AfterJoin

LEMMA JoinedListIs ==
  ASSUME HeapInv, NEW p \in DOMAIN held
  PROVE  Lists(JoinedList(p), JoinedHeap(p))
<1> DEFINE k == JoinedHeap(p)
           block == Joined(p).block
           gone == Joined(p).gone
           left == IsFree(Before(p))
           list == IF left THEN free ELSE <<p>> \o free
<1>1. /\ DOMAIN k = DOMAIN header \ gone
      /\ FreeOf(k) = (FreeOf(header) \ gone) \cup {block}
      /\ left => block \in FreeOf(header) \ gone /\ p \in gone
      /\ ~left => block = p /\ p \notin gone
      /\ block \in DOMAIN k
  <2>1. Joining(p, k, block, gone)  BY Zenon DEF Joining
  <2> HIDE DEF k, block, gone
  <2>2. AfterJoin(p, k, block, gone)  BY <2>1, JoinedIs
  <2> QED  BY <2>2 DEF AfterJoin
<1>2. /\ free \in Seq(DOMAIN header) /\ Once(free) /\ Listed(free) = FreeOf(header)
      /\ p \in DOMAIN header /\ p \notin FreeOf(header)
  BY InvParts, JoinedPlaces DEF Lists, FreeOf
<1>3. JoinedList(p) = Unlinked(list, gone)  BY Zenon DEF JoinedList
<1> HIDE DEF k, block, gone, left
<1>4. /\ list \in Seq(DOMAIN header) /\ Once(list)
      /\ Listed(list) = IF left THEN FreeOf(header) ELSE FreeOf(header) \cup {p}
  <2>1. CASE left  BY <1>2, <2>1
  <2>2. CASE ~left
    <3>1. /\ <<p>> \o free \in Seq(DOMAIN header) /\ Once(<<p>> \o free)
          /\ Listed(<<p>> \o free) = Listed(free) \cup {p}
      BY <1>2, PushedFirst
    <3> QED  BY <1>2, <2>2, <3>1
  <2> QED  BY <2>1, <2>2
<1> HIDE DEF list
<1> DEFINE last == Unlinked(list, gone)
<1>5. last \in Seq(DOMAIN header) /\ Once(last) /\ Listed(last) = Listed(list) \ gone
  BY <1>4, UnlinkedIs
<1> HIDE DEF last
<1>6. Listed(last) = FreeOf(k)
  <2>1. CASE left  BY <1>1, <1>4, <1>5, <2>1
  <2>2. CASE ~left  BY <1>1, <1>4, <1>5, <2>2
  <2> QED  BY <2>1, <2>2
<1>7. last \in Seq(DOMAIN k)
  <2>1. Listed(last) \subseteq DOMAIN k  BY <1>6 DEF FreeOf
  <2> QED  BY <1>5, <2>1, Relisted
<1> QED  BY <1>3, <1>5, <1>6, <1>7 DEF Lists, last, k

(* The owner of block p gives it up, and h is the heap then.               *)
LEMMA ForgetsCounts ==
  ASSUME HeapInv, NEW p \in DOMAIN held, Forgets(p), NEW h,
         UsedOf(h) = UsedOf(header) \ {p}, \A q \in UsedOf(h) : h[q].size = header[q].size
  PROVE  Owned(held', h) /\ allocated' = Total(Sizes(h), DOMAIN held')
<1>1. /\ DOMAIN held = UsedOf(header) /\ allocated = Total(Sizes(header), DOMAIN held)
      /\ IsFiniteSet(DOMAIN held) /\ Numbers(Sizes(header), DOMAIN held)
      /\ \A q \in DOMAIN held : held[q] \in Requests /\ header[q].size >= held[q] + HeaderSize
      /\ \A q \in DOMAIN held : Sizes(header)[q] = header[q].size
  BY InvParts DEF Owned
<1>2. DOMAIN held' = DOMAIN held \ {p} /\ \A q \in DOMAIN held' : held'[q] = held[q]
  BY DEF Forgets, Without
<1>3. Owned(held', h)  BY <1>1, <1>2 DEF Owned
<1>4. \A q \in UsedOf(h) : Sizes(h)[q] = h[q].size  BY DEF Sizes, UsedOf
<1>5. \A q \in DOMAIN held \ {p} : Sizes(h)[q] = Sizes(header)[q]  BY <1>1, <1>4
<1>6. Total(Sizes(h), DOMAIN held \ {p}) = Total(Sizes(header), DOMAIN held) - Sizes(header)[p]
  BY <1>1, <1>5, TotalLess
<1>7. allocated' = allocated - header[p].size  BY DEF Forgets
<1> QED  BY <1>1, <1>2, <1>3, <1>6, <1>7

LEMMA FreeKeepsStep ==
  ASSUME HeapInv, NEW p \in DOMAIN held, FreeKeeps(p)
  PROVE  HeapInv'
<1> DEFINE k == JoinedHeap(p)
           block == Joined(p).block
           gone == Joined(p).gone
<1>1. /\ Heap(length, k) /\ NoneJoinable(k)
      /\ UsedOf(k) = UsedOf(header) \ {p}
      /\ block \in DOMAIN k /\ block \in FreeOf(k)
      /\ \A q \in DOMAIN k \ {block} : k[q].size = header[q].size
  <2>1. Joining(p, k, block, gone)  BY Zenon DEF Joining
  <2> HIDE DEF k, block, gone
  <2>2. AfterJoin(p, k, block, gone)  BY <2>1, JoinedIs
  <2>3. block \in FreeOf(k)  BY <2>2 DEF AfterJoin
  <2> QED  BY <2>2, <2>3 DEF AfterJoin
<1>2. Lists(JoinedList(p), k)  BY JoinedListIs
<1>3. /\ Forgets(p) /\ header' = k /\ free' = JoinedList(p) /\ length' = length /\ total' = total
  BY Zenon DEF FreeKeeps
<1> HIDE DEF k, block
<1>4. Owned(held', k) /\ allocated' = Total(Sizes(k), DOMAIN held')
  <2>1. \A q \in UsedOf(k) : q \in DOMAIN k /\ q # block  BY <1>1 DEF UsedOf, FreeOf
  <2>2. \A q \in UsedOf(k) : k[q].size = header[q].size  BY <1>1, <2>1
  <2> QED  BY <1>1, <1>3, <2>2, ForgetsCounts
<1>5. total = Total(length, DOMAIN length)  BY InvParts
<1> QED  BY <1>1, <1>2, <1>3, <1>4, <1>5, InvFrom

LEMMA FreeGivesBackStep ==
  ASSUME HeapInv, NEW p \in DOMAIN held, FreeGivesBack(p)
  PROVE  HeapInv'
<1> DEFINE j == JoinedHeap(p)
           block == Joined(p).block
           gone == Joined(p).gone
           n == Joined(p).size
           c == p[1]
           S == {c}
           len2 == Without(length, S)
           k == Without(header, PlacesOf(S))
           list == Unlinked(JoinedList(p), {block})
<1>1. /\ Forgets(p) /\ WholeChunk(j, block)
      /\ length' = len2 /\ header' = k /\ free' = list /\ total' = total - n
  BY Zenon DEF FreeGivesBack
<1>2. /\ Heap(length, header) /\ Headed(header) /\ NoneJoinable(header)
      /\ DOMAIN held = UsedOf(header) /\ p \in DOMAIN header
      /\ IsFiniteSet(DOMAIN length) /\ Numbers(length, DOMAIN length)
      /\ total = Total(length, DOMAIN length)
  BY InvParts, JoinedPlaces DEF Owned
<1>3. Joining(p, j, block, gone)  BY Zenon DEF Joining
<1>4. Lists(JoinedList(p), j)  BY JoinedListIs
<1>5. Drops(length, header, len2, k, S)
  <2>1. PlacesOf(S) = {q \in DOMAIN header : q[1] \in S}  BY Zenon DEF PlacesOf
  <2> QED  BY <2>1, Zenon DEF Drops
<1>6. list = Unlinked(JoinedList(p), {block}) /\ len2 = Without(length, S) /\ S = {c}
  OBVIOUS
<1> HIDE DEF j, block, gone, n, len2, k, list, S
<1>31. AfterJoin(p, j, block, gone)  BY <1>3, JoinedIs
<1>7. /\ Heap(length, j) /\ block \in DOMAIN j /\ block[1] = c /\ DOMAIN j = DOMAIN header \ gone
      /\ UsedOf(j) = UsedOf(header) \ {p}
      /\ gone \subseteq FreeOf(header) \cup {p}
  BY <1>31 DEF AfterJoin
<1>8. FreeOf(j) = (FreeOf(header) \ gone) \cup {block}  BY <1>31 DEF AfterJoin
<1>9. \A q \in DOMAIN j \ {block} : j[q].kind = header[q].kind  BY <1>31 DEF AfterJoin
<1>10. j[block].size = n  BY <1>31 DEF AfterJoin, n
<1>11. /\ c \in DOMAIN length /\ n = length[c]
       /\ \A q \in DOMAIN j : q[1] = c => q = block \/ Ends(j, q)
  BY <1>1, <1>7, <1>10, WholeIs
<1>12. /\ Heap(len2, k)
       /\ \A q : q \in DOMAIN k <=> q \in DOMAIN header /\ q[1] # c
       /\ \A q \in DOMAIN k : k[q] = header[q]
       /\ \A q \in DOMAIN k : ~Ends(header, q) => Behind(header, q) \in DOMAIN k
  <2>1. /\ Heap(len2, k)
        /\ DOMAIN k = {q \in DOMAIN header : q[1] \notin S}
        /\ \A q \in DOMAIN k : k[q] = header[q]
        /\ \A q \in DOMAIN k : ~Ends(header, q) => Behind(header, q) \in DOMAIN k
    BY <1>2, <1>5, DropKeepsHeap, Zenon
  <2> QED  BY <1>6, <2>1
<1>13. \A q \in DOMAIN header : q[1] = c => q \in gone \/ q = block \/ Ends(header, q)
  BY <1>7, <1>9, <1>11 DEF Ends
<1>14. UsedOf(k) = UsedOf(header) \ {p}
  <2>1. ASSUME NEW q \in UsedOf(header), q # p  PROVE q \in UsedOf(k)
    <3>1. q \in DOMAIN header /\ header[q].kind = "used" /\ q \notin FreeOf(header)
      BY DEF UsedOf, FreeOf
    <3>2. q \notin gone /\ ~Ends(header, q)  BY <1>7, <2>1, <3>1 DEF Ends
    <3>3. q \in UsedOf(j)  BY <1>7, <2>1
    <3>4. q # block  BY <1>1, <3>3 DEF UsedOf, WholeChunk
    <3>5. q[1] # c  BY <1>13, <3>1, <3>2, <3>4
    <3> QED  BY <1>12, <3>1, <3>5 DEF UsedOf
  <2>2. \A q \in UsedOf(k) : q \in UsedOf(header) /\ q # p  BY <1>12 DEF UsedOf
  <2> QED  BY <2>1, <2>2
<1>15. Owned(held', k) /\ allocated' = Total(Sizes(k), DOMAIN held')
  <2>1. \A q \in UsedOf(k) : k[q].size = header[q].size  BY <1>12 DEF UsedOf
  <2> QED  BY <1>1, <1>14, <2>1, ForgetsCounts
<1>16. FreeOf(k) = FreeOf(j) \ {block}
  <2>1. ASSUME NEW q \in FreeOf(k)  PROVE q \in FreeOf(j) \ {block}
    <3>1. q \in DOMAIN header /\ q[1] # c /\ q \in FreeOf(header)  BY <1>12 DEF FreeOf
    <3>2. q # block  BY <1>7, <3>1
    <3>3. q \notin gone
      <4>1. q \in gone => FALSE
        <5> SUFFICES ASSUME q \in gone PROVE FALSE  OBVIOUS
        <5>1. gone \subseteq {x \in DOMAIN header : x[1] = c}
          <6>1. gone = Joined(p).gone  BY DEF gone
          <6>2. IsFree(Before(p)) => Before(p)[1] = c  BY JoinedPlaces
          <6>3. After(p)[1] = c /\ After(p) \in DOMAIN header /\ p \in DOMAIN header  BY JoinedPlaces
          <6>4. gone \subseteq {p, After(p)}  BY <6>1 DEF Joined
          <6> QED  BY <6>3, <6>4
        <5> QED  BY <3>1, <5>1
      <4> QED  BY <4>1
    <3> QED  BY <1>8, <3>1, <3>2, <3>3
  <2>2. ASSUME NEW q \in FreeOf(j), q # block  PROVE q \in FreeOf(k)
    <3>1. q \in FreeOf(header) /\ q \notin gone /\ q \in DOMAIN header /\ header[q].kind = "free"
      BY <1>8, <2>2 DEF FreeOf
    <3>2. q[1] # c  BY <1>13, <2>2, <3>1 DEF Ends
    <3> QED  BY <1>12, <3>1, <3>2 DEF FreeOf
  <2> QED  BY <2>1, <2>2
<1>17. Lists(list, k)
  <2>1. JoinedList(p) \in Seq(DOMAIN j) /\ Once(JoinedList(p)) /\ Listed(JoinedList(p)) = FreeOf(j)
    BY <1>4 DEF Lists
  <2>2. list \in Seq(DOMAIN j) /\ Once(list) /\ Listed(list) = Listed(JoinedList(p)) \ {block}
    BY <1>6, <2>1, UnlinkedIs
  <2>3. Listed(list) = FreeOf(k)  BY <1>16, <2>1, <2>2
  <2>4. Listed(list) \subseteq DOMAIN k  BY <2>3 DEF FreeOf
  <2>5. list \in Seq(DOMAIN k)  BY <2>2, <2>4, Relisted
  <2> QED  BY <2>2, <2>3, <2>5 DEF Lists
<1>18. NoneJoinable(k)
  <2> SUFFICES ASSUME NEW q \in FreeOf(k)  PROVE k[Behind(k, q)].kind # "free"
    BY DEF NoneJoinable
  <2>1. q \in DOMAIN k /\ k[q] = header[q] /\ q \in FreeOf(header) /\ ~Ends(header, q)
    BY <1>12 DEF FreeOf, Ends
  <2>2. Behind(k, q) = Behind(header, q)  BY <2>1 DEF Behind
  <2>3. Behind(header, q) \in DOMAIN k  BY <1>12, <2>1
  <2> QED  BY <1>2, <1>12, <2>1, <2>2, <2>3 DEF NoneJoinable
<1>19. total - n = Total(len2, DOMAIN len2)
  <2>1. DOMAIN len2 = DOMAIN length \ {c} /\ \A d \in DOMAIN len2 : len2[d] = length[d]
    BY <1>6 DEF Without
  <2>2. Total(len2, DOMAIN length \ {c}) = Total(length, DOMAIN length) - length[c]
    BY <1>2, <1>11, <2>1, TotalLess
  <2> QED  BY <1>2, <1>11, <2>1, <2>2
<1> QED  BY <1>1, <1>12, <1>15, <1>17, <1>18, <1>19, InvFrom

LEMMA FreeUnusedStep ==
  ASSUME HeapInv, FreeUnused
  PROVE  HeapInv'
<1> DEFINE whole == {p \in FreeBlocks : WholeChunk(header, p)}
           chunks == {p[1] : p \in whole}
           len2 == Without(length, chunks)
           k == Without(header, PlacesOf(chunks))
           list == Unlinked(free, whole)
           n == MapThenSumSet(LAMBDA p : header[p].size, whole)
<1>1. /\ header' = k /\ free' = list /\ length' = len2 /\ total' = total - n
      /\ held' = held /\ allocated' = allocated
  BY Zenon DEF FreeUnused
<1>2. /\ Heap(length, header) /\ Headed(header) /\ NoneJoinable(header) /\ Lists(free, header)
      /\ DOMAIN held = UsedOf(header)
      /\ IsFiniteSet(DOMAIN length) /\ Numbers(length, DOMAIN length)
      /\ total = Total(length, DOMAIN length)
      /\ allocated = Total(Sizes(header), DOMAIN held)
      /\ IsFiniteSet(DOMAIN held) /\ Numbers(Sizes(header), DOMAIN held)
      /\ Owned(held, header)
  BY InvParts DEF Owned
<1>3. FreeBlocks = FreeOf(header)
  <2>1. DOMAIN free = 1 .. Len(free)  BY <1>2 DEF Lists
  <2> QED  BY <1>2, <2>1 DEF FreeBlocks, Lists, Listed
<1>4. whole \subseteq DOMAIN header /\ whole \subseteq FreeOf(header)
      /\ \A p \in whole : WholeChunk(header, p)
  BY <1>3 DEF FreeOf
<1>5. IsFiniteSet(whole)  BY <1>2, <1>4, FS_Subset DEF Headed
<1>6. n = Total(Sizes(header), whole)
  <2> HIDE DEF whole
  <2> QED  BY <1>4, <1>5, SizesTotal
<1>7. Drops(length, header, len2, k, chunks)
  <2>1. PlacesOf(chunks) = {q \in DOMAIN header : q[1] \in chunks}  BY Zenon DEF PlacesOf
  <2> HIDE DEF chunks
  <2> QED  BY <2>1, Zenon DEF Drops
<1>8. \A p \in whole : p[1] \in chunks  OBVIOUS
<1>9. \A d \in chunks : \E p \in whole : p[1] = d  OBVIOUS
<1>10. list = Unlinked(free, whole) /\ len2 = Without(length, chunks)
       /\ chunks = {p[1] : p \in whole}
  OBVIOUS
<1> HIDE DEF whole, chunks, len2, k, list, n
<1>11. \A p \in whole :
         /\ p[2] = 0 /\ p[1] \in DOMAIN length /\ header[p].size = length[p[1]]
         /\ \A q \in DOMAIN header : q[1] = p[1] => q = p \/ Ends(header, q)
  BY <1>2, <1>4, WholeIs
<1>12. /\ Heap(len2, k)
       /\ DOMAIN k = {q \in DOMAIN header : q[1] \notin chunks}
       /\ \A q \in DOMAIN k : k[q] = header[q]
       /\ \A q \in DOMAIN k : ~Ends(header, q) => Behind(header, q) \in DOMAIN k
  BY <1>2, <1>7, DropKeepsHeap, Zenon
<1>13. \A q \in DOMAIN header : q[1] \in chunks => q \in whole \/ Ends(header, q)
  BY <1>9, <1>11
<1>14. UsedOf(k) = UsedOf(header)
  <2>1. ASSUME NEW q \in UsedOf(header)  PROVE q \in UsedOf(k)
    <3>1. q \in DOMAIN header /\ header[q].kind = "used" /\ q \notin FreeOf(header)
      BY DEF UsedOf, FreeOf
    <3>2. q[1] \notin chunks  BY <1>4, <1>13, <3>1 DEF Ends
    <3> QED  BY <1>12, <3>1, <3>2 DEF UsedOf
  <2>2. \A q \in UsedOf(k) : q \in UsedOf(header)  BY <1>12 DEF UsedOf
  <2> QED  BY <2>1, <2>2
<1>15. Owned(held', k) /\ allocated' = Total(Sizes(k), DOMAIN held')
  <2>1. \A q \in UsedOf(k) : k[q].size = header[q].size  BY <1>12 DEF UsedOf
  <2>2. Owned(held, k)  BY <1>2, <1>14, <2>1 DEF Owned
  <2>3. \A q \in DOMAIN held : Sizes(k)[q] = Sizes(header)[q]
    <3>1. \A q \in UsedOf(k) : Sizes(k)[q] = k[q].size  BY DEF Sizes, UsedOf
    <3>2. \A q \in UsedOf(header) : Sizes(header)[q] = header[q].size  BY DEF Sizes, UsedOf
    <3> QED  BY <1>2, <1>14, <2>1, <3>1, <3>2
  <2>4. Total(Sizes(k), DOMAIN held) = Total(Sizes(header), DOMAIN held)
    BY <1>2, <2>3, TotalSame
  <2> QED  BY <1>1, <1>2, <2>2, <2>4
<1>16. FreeOf(k) = FreeOf(header) \ whole
  <2>1. ASSUME NEW q \in FreeOf(k)  PROVE q \in FreeOf(header) \ whole
    BY <1>8, <1>12 DEF FreeOf
  <2>2. ASSUME NEW q \in FreeOf(header), q \notin whole  PROVE q \in FreeOf(k)
    <3>1. q \in DOMAIN header /\ header[q].kind = "free"  BY DEF FreeOf
    <3>2. q[1] \notin chunks  BY <1>13, <2>2, <3>1 DEF Ends
    <3> QED  BY <1>12, <3>1, <3>2 DEF FreeOf
  <2> QED  BY <2>1, <2>2
<1>17. Lists(list, k)
  <2>1. free \in Seq(DOMAIN header) /\ Once(free) /\ Listed(free) = FreeOf(header)
    BY <1>2 DEF Lists
  <2>2. list \in Seq(DOMAIN header) /\ Once(list) /\ Listed(list) = Listed(free) \ whole
    BY <1>10, <2>1, UnlinkedIs
  <2>3. Listed(list) = FreeOf(k)  BY <1>16, <2>1, <2>2
  <2>4. Listed(list) \subseteq DOMAIN k  BY <2>3 DEF FreeOf
  <2>5. list \in Seq(DOMAIN k)  BY <2>2, <2>4, Relisted
  <2> QED  BY <2>2, <2>3, <2>5 DEF Lists
<1>18. NoneJoinable(k)
  <2> SUFFICES ASSUME NEW q \in FreeOf(k)  PROVE k[Behind(k, q)].kind # "free"
    BY DEF NoneJoinable
  <2>1. q \in DOMAIN k /\ k[q] = header[q] /\ q \in FreeOf(header) /\ ~Ends(header, q)
    BY <1>12 DEF FreeOf, Ends
  <2>2. Behind(k, q) = Behind(header, q)  BY <2>1 DEF Behind
  <2>3. Behind(header, q) \in DOMAIN k  BY <1>12, <2>1
  <2> QED  BY <1>2, <1>12, <2>1, <2>2, <2>3 DEF NoneJoinable
<1>19. Total(length, chunks) = n
  <2> DEFINE name == [p \in whole |-> p[1]]
  <2>1. \A p, q \in whole : name[p] = name[q] => p = q
    <3>1. \A p \in whole : p \in Place  BY <1>2, <1>4 DEF Headed
    <3> QED  BY <1>11, <3>1, Places
  <2>2. Numbers(Sizes(header), whole)
    <3>1. \A p \in whole : Sizes(header)[p] = header[p].size  BY <1>4 DEF Sizes
    <3> QED  BY <1>2, <1>4, <3>1, Headers DEF Numbers
  <2>3. \A p \in whole : length[name[p]] = Sizes(header)[p]  BY <1>4, <1>11 DEF Sizes
  <2>4. {name[p] : p \in whole} = chunks  BY <1>10
  <2> HIDE DEF name
  <2>5. Total(length, {name[p] : p \in whole}) = Total(Sizes(header), whole)
    BY <1>5, <2>1, <2>2, <2>3, TotalRenamed
  <2> QED  BY <1>6, <2>4, <2>5
<1>20. total - n = Total(len2, DOMAIN len2)
  <2>1. chunks \subseteq DOMAIN length  BY <1>9, <1>11
  <2>2. DOMAIN len2 = DOMAIN length \ chunks /\ \A d \in DOMAIN len2 : len2[d] = length[d]
    BY <1>10 DEF Without
  <2>3. Total(length, DOMAIN length) = Total(length, chunks) + Total(length, DOMAIN length \ chunks)
    BY <1>2, <2>1, TotalSplit
  <2> DEFINE R == DOMAIN length \ chunks
  <2>4. IsFiniteSet(R) /\ Numbers(length, R)  BY <1>2, FS_Subset DEF Numbers
  <2>5. IsFiniteSet(chunks) /\ Numbers(length, chunks)  BY <1>2, <2>1, FS_Subset DEF Numbers
  <2>6. Total(length, R) \in Nat /\ Total(length, chunks) \in Nat
    <3> HIDE DEF R
    <3> QED  BY <2>4, <2>5, TotalNat
  <2>7. \A d \in R : len2[d] = length[d]  BY <2>2
  <2>8. Total(len2, R) = Total(length, R)
    <3> HIDE DEF R
    <3> QED  BY <2>4, <2>7, TotalSame
  <2> QED  BY <1>2, <1>19, <2>2, <2>3, <2>6, <2>8
<1> QED  BY <1>1, <1>12, <1>15, <1>17, <1>18, <1>20, InvFrom

-----------------------------------------------------------------------------
(* The invariant holds, and with it what the runs check.                   *)

LEMMA HeapInitial ==
  ASSUME HeapInit
  PROVE  HeapInv
<1>1. /\ DOMAIN length = {} /\ DOMAIN header = {} /\ free = <<>> /\ DOMAIN held = {}
      /\ allocated = 0 /\ total = 0
  BY DEF HeapInit
<1>2. IsFiniteSet({})  BY FS_EmptySet
<1>3. Chunked(length) /\ Headed(header)  BY <1>1, <1>2 DEF Chunked, Headed
<1>4. Inside(length, header) /\ Followed(header) /\ Clear(header) /\ Preceded(header)
  BY <1>1 DEF Inside, Followed, Clear, Preceded
<1>5. Heap(length, header)  BY <1>3, <1>4 DEF Heap
<1>6. UsedOf(header) = {} /\ FreeOf(header) = {}  BY <1>1 DEF UsedOf, FreeOf
<1>7. Lists(free, header)
  <2>1. free \in Seq(DOMAIN header) /\ Len(free) = 0  BY <1>1
  <2> QED  BY <1>6, <2>1 DEF Lists, Once, Listed
<1>8. Owned(held, header) /\ NoneJoinable(header)  BY <1>1, <1>6 DEF Owned, NoneJoinable
<1>9. Total(Sizes(header), {}) = 0 /\ Total(length, {}) = 0  BY <1>2, TotalAt
<1>10. Counted  BY <1>1, <1>9 DEF Counted
<1> QED  BY <1>5, <1>7, <1>8, <1>10 DEF HeapInv

LEMMA HeapStep ==
  ASSUME HeapInv, [HeapNext]_heapVars
  PROVE  HeapInv'
<1>1. ASSUME NEW r \in Requests, MallocCuts(r)  PROVE HeapInv'
  BY <1>1, MallocCutsStep
<1>2. ASSUME NEW r \in Requests, MallocTakes(r)  PROVE HeapInv'
  BY <1>2, MallocTakesStep
<1>3. ASSUME NEW r \in Requests, NEW c \in Chunks, MallocGrows(r, c)  PROVE HeapInv'
  BY <1>3, MallocGrowsStep
<1>4. ASSUME NEW p \in DOMAIN held, FreeKeeps(p)  PROVE HeapInv'
  BY <1>4, FreeKeepsStep
<1>5. ASSUME NEW p \in DOMAIN held, FreeGivesBack(p)  PROVE HeapInv'
  BY <1>5, FreeGivesBackStep
<1>6. ASSUME FreeUnused  PROVE HeapInv'  BY <1>6, FreeUnusedStep
<1>7. ASSUME UNCHANGED heapVars  PROVE HeapInv'
  <2>1. /\ length' = length /\ header' = header /\ free' = free /\ held' = held
        /\ allocated' = allocated /\ total' = total
    BY <1>7 DEF heapVars
  <2> QED  BY <2>1, InvParts, InvFrom
<1>8. ASSUME NEW r \in Requests, MallocFails(r)  PROVE HeapInv'
  BY <1>7, <1>8 DEF MallocFails
<1> QED  BY <1>1, <1>2, <1>3, <1>4, <1>5, <1>6, <1>7, <1>8, Zenon DEF HeapNext

LEMMA HeapInvariant == HeapSpec => []HeapInv
<1>1. HeapInit => HeapInv  BY HeapInitial
<1>2. HeapInv /\ [HeapNext]_heapVars => HeapInv'  BY HeapStep
<1> QED  BY <1>1, <1>2, PTL DEF HeapSpec

(* Every variable keeps its type: what is listed as free, or has an owner, *)
(* is a block that there is.                                               *)
THEOREM HeapTyped == HeapSpec => []HeapTypeOK
<1>1. HeapInv => HeapTypeOK
  <2> SUFFICES ASSUME HeapInv PROVE HeapTypeOK  OBVIOUS
  <2>1. /\ Chunked(length) /\ Headed(header) /\ Lists(free, header) /\ Owned(held, header)
        /\ allocated \in Nat /\ total \in Nat
    BY InvParts
  <2>2. DOMAIN length \subseteq Chunks /\ \A c \in DOMAIN length : length[c] \in Nat \ {0}
    BY <2>1 DEF Chunked
  <2>3. DOMAIN header \subseteq Place /\ \A p \in DOMAIN header : header[p] \in Header
    BY <2>1 DEF Headed
  <2>4. free \in Seq(DOMAIN header)  BY <2>1 DEF Lists
  <2>5. DOMAIN held \subseteq DOMAIN header /\ \A p \in DOMAIN held : held[p] \in Requests
    BY <2>1 DEF Owned, UsedOf
  <2> QED  BY <2>1, <2>2, <2>3, <2>4, <2>5 DEF HeapTypeOK
<1> QED  BY <1>1, HeapInvariant, PTL

(* Whatever functions are compiled and freed, in whatever order and with   *)
(* code of whatever size: the code of a function has the room it asked     *)
(* for, in a chunk that is still mapped, and neither a header nor the code *)
(* of another function is in it.                                           *)
THEOREM CodeStaysApart == HeapSpec => []BlocksApart
<1>1. HeapInv => BlocksApart
  <2> SUFFICES ASSUME HeapInv, NEW p \in DOMAIN held
               PROVE  /\ p[1] \in DOMAIN length /\ p[2] + header[p].size <= length[p[1]]
                      /\ header[p].size - HeaderSize >= held[p]
                      /\ \A q \in DOMAIN header \ {p} :
                           q[1] = p[1] =>
                             \/ q[2] >= p[2] + header[p].size
                             \/ q[2] + (IF header[q].kind = "end" THEN 0 ELSE header[q].size) <= p[2]
    BY DEF BlocksApart
  <2>1. /\ Heap(length, header) /\ Headed(header) /\ Owned(held, header)
        /\ Inside(length, header) /\ Clear(header) /\ Chunked(length)
    BY InvParts DEF Heap
  <2>2. \A q \in DOMAIN header :
          /\ q \in Place /\ q[2] \in Nat /\ header[q].size \in Nat
    BY <2>1, Headers
  <2>3. p \in DOMAIN header /\ ~Ends(header, p)  BY <2>1 DEF Owned, UsedOf, Ends
  <2>4. p[1] \in DOMAIN length /\ p[2] + header[p].size <= length[p[1]]
    <3> DEFINE q == Behind(header, p)
    <3>1. q \in DOMAIN header /\ q[1] = p[1] /\ q[2] = p[2] + header[p].size
      BY <2>1, <2>3, Neighbours
    <3> HIDE DEF q
    <3>2. q[1] \in DOMAIN length /\ q[2] <= length[q[1]]  BY <2>1, <3>1 DEF Inside
    <3> QED  BY <3>1, <3>2
  <2>5. header[p].size - HeaderSize >= held[p]
    <3>1. held[p] \in Requests /\ header[p].size >= held[p] + HeaderSize  BY <2>1 DEF Owned
    <3>2. held[p] \in Nat /\ HeaderSize \in Nat  BY <3>1, ExecAllocatorAssumption
    <3> QED  BY <2>2, <2>3, <3>1, <3>2
  <2>6. ASSUME NEW q \in DOMAIN header \ {p}, q[1] = p[1]
        PROVE  \/ q[2] >= p[2] + header[p].size
               \/ q[2] + (IF header[q].kind = "end" THEN 0 ELSE header[q].size) <= p[2]
    <3>1. q[2] # p[2]  BY <2>2, <2>3, <2>6, Places, Zenon
    <3>2. q[2] <= p[2] \/ q[2] >= p[2] + header[p].size  BY <2>1, <2>3, <2>6 DEF Clear
    <3>3. CASE header[q].kind = "end"  BY <2>2, <2>3, <3>2, <3>3
    <3>4. CASE header[q].kind # "end"
      <4>1. p[2] <= q[2] \/ p[2] >= q[2] + header[q].size
        BY <2>1, <2>3, <2>6, <3>4 DEF Clear, Ends
      <4> QED  BY <2>2, <2>3, <3>1, <3>2, <3>4, <4>1
    <3> QED  BY <3>3, <3>4
  <2> QED  BY <2>4, <2>5, <2>6
<1> QED  BY <1>1, HeapInvariant, PTL

(* The list, the headers and the counters agree: each free block is listed *)
(* once, none has a free neighbour it was not joined with, and the bytes   *)
(* counted as allocated and as the total are those of the blocks in use    *)
(* and of the chunks.                                                      *)
THEOREM FreeBlocksJoined == HeapSpec => []Coalesced
<1>1. HeapInv => Coalesced
  <2> SUFFICES ASSUME HeapInv PROVE Coalesced  OBVIOUS
  <2>1. /\ Heap(length, header) /\ Lists(free, header) /\ NoneJoinable(header)
        /\ allocated = Total(Sizes(header), DOMAIN held)
        /\ total = Total(length, DOMAIN length)
        /\ IsFiniteSet(DOMAIN held) /\ Owned(held, header)
    BY InvParts
  <2>2. DOMAIN free = 1 .. Len(free)  BY <2>1 DEF Lists
  <2>3. \A i, j \in DOMAIN free : free[i] = free[j] => i = j
    BY <2>1, <2>2 DEF Lists, Once
  <2>4. FreeBlocks = FreeOf(header)  BY <2>1, <2>2 DEF FreeBlocks, Lists, Listed
  <2>5. FreeBlocks = {p \in DOMAIN header : IsFree(p)}  BY <2>4 DEF FreeOf, IsFree
  <2>6. \A p \in FreeBlocks : ~IsFree(After(p))
    <3>1. \A p : After(p) = Behind(header, p)  BY DEF After, Behind
    <3> QED  BY <2>1, <2>4, <3>1 DEF NoneJoinable, IsFree
  <2>7. allocated = MapThenSumSet(LAMBDA p : header[p].size, DOMAIN held)
    <3>1. DOMAIN held \subseteq DOMAIN header  BY <2>1 DEF Owned, UsedOf
    <3> QED  BY <2>1, <3>1, SizesTotal
  <2>8. total = MapThenSumSet(LAMBDA c : length[c], DOMAIN length)
    BY <2>1, LengthsTotal
  <2> QED  BY <2>3, <2>5, <2>6, <2>7, <2>8 DEF Coalesced
<1> QED  BY <1>1, HeapInvariant, PTL
=============================================================================
