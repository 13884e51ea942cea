------------------------- MODULE SharedMemoryProofs -------------------------
(***************************************************************************)
(* Proofs about SharedMemory, for any threads, addresses and sizes, when   *)
(* programs take none of the liberties.  The heart of the argument is      *)
(* Current: a thread that runs and holds the mutex has reloaded its base   *)
(* since it got it, and nobody else is inside memory.grow.                 *)
(***************************************************************************)
EXTENDS SharedMemory, TLAPS

Growing == {"growing", "resizing", "assigning", "clearing"}
Moving == {"resizing", "assigning"}

Holding == \A t \in Threads : at[t] \in Growing => holder = t

Inside == \A t \in Threads :
  /\ at[t] = "growing" => local[t].prev = mem.pages
  /\ at[t] \in Moving \cup {"clearing"} => ~mem.fixed
  /\ at[t] = "assigning" => local[t].moved = block.at /\ mem.pages <= block.pages

Settled ==
  (\A t \in Threads : at[t] \notin Moving) => mem.bytes = block.at /\ mem.pages <= block.pages

Fixed == mem.fixed => block.pages = Maximum

FramesFit == \A t \in Threads : \A i \in DOMAIN frames[t] :
  /\ frames[t][i].mode \in Modes
  /\ frames[t][i].mode = "constant" => frames[t][i].base = block.at

Current == \A t \in Threads :
  InCode(t) /\ holder = t /\ Top(t).mode = "cached" => Top(t).base = mem.bytes

(* A thread that is inside a call has called from a compiled function.     *)
Called == \A t \in Threads :
  at[t] \in {"absent", "created", "running", "exiting", "ended"} \/ frames[t] # <<>>

MemoryInv == Holding /\ Inside /\ Settled /\ Fixed /\ FramesFit /\ Current /\ Called

(* A thread that has been created but has no handle yet is being created   *)
(* by one other.                                                           *)
Creating ==
  /\ at[Main] \notin {"absent", "created", "exiting", "ended"}
  /\ \A t \in Threads : at[t] = "absent" => ~handle[t]
  /\ \A t \in Threads : at[t] = "creating" =>
       /\ making[t] \in Threads \ {Main}
       /\ at[making[t]] = "created" /\ ~handle[making[t]]
  /\ \A t, u \in Threads :
       at[t] = "creating" /\ at[u] = "creating" /\ making[t] = making[u] => t = u

Inv == TypeOK /\ MemoryInv /\ Creating /\ RecordsKept

Mems == [pages : Nat, bytes : Addresses, fixed : BOOLEAN]
Blocks == [at : Addresses, pages : Nat, data : [PageIndex -> Values \cup {"zero", "junk"}]]
Locals == [delta : Nat, prev : Nat, moved : Addresses \cup {NULL}]

LEMMA MaximumIsNatural == Maximum \in Nat
BY SharedMemoryAssumption

LEMMA MainAndNobody == Main \in Threads /\ Nobody \notin Threads
BY SharedMemoryAssumption

-----------------------------------------------------------------------------
(* The frames of a thread: pushed, popped and the last one replaced.       *)

LEMMA Pushed ==
  ASSUME NEW S, NEW s \in Seq(S), NEW e \in S
  PROVE  LET new == Append(s, e)
         IN  /\ new \in Seq(S) /\ new # <<>> /\ new[Len(new)] = e
             /\ \A i \in DOMAIN new : new[i] = e \/ (i \in DOMAIN s /\ new[i] = s[i])
<1> DEFINE new == Append(s, e)
<1>1. Len(s) \in Nat /\ DOMAIN s = 1 .. Len(s)  OBVIOUS
<1>2. new \in Seq(S) /\ Len(new) = Len(s) + 1  OBVIOUS
<1>3. new[Len(s) + 1] = e /\ \A i \in 1 .. Len(s) : new[i] = s[i]  OBVIOUS
<1>4. DOMAIN new = 1 .. Len(s) + 1  BY <1>2
<1>5. new # <<>>  BY <1>1, <1>2
<1> HIDE DEF new
<1>6. \A i \in 1 .. Len(s) + 1 : i = Len(s) + 1 \/ i \in 1 .. Len(s)  BY <1>1
<1>7. \A i \in DOMAIN new : new[i] = e \/ (i \in DOMAIN s /\ new[i] = s[i])
  BY <1>1, <1>3, <1>4, <1>6
<1> QED  BY <1>2, <1>3, <1>5, <1>7 DEF new

LEMMA Popped ==
  ASSUME NEW S, NEW s \in Seq(S), s # <<>>
  PROVE  LET new == SubSeq(s, 1, Len(s) - 1)
         IN  /\ new \in Seq(S)
             /\ Len(s) <= 1 => new = <<>>
             /\ Len(s) > 1 => new # <<>>
             /\ \A i \in DOMAIN new : i \in DOMAIN s /\ new[i] = s[i]
<1> DEFINE new == SubSeq(s, 1, Len(s) - 1)
<1>1. Len(s) \in Nat /\ Len(s) >= 1 /\ DOMAIN s = 1 .. Len(s)  OBVIOUS
<1>2. new \in Seq(S) /\ Len(new) = Len(s) - 1  BY <1>1
<1>3. \A i \in 1 .. Len(s) - 1 : new[i] = s[i]  BY <1>1
<1>4. DOMAIN new = 1 .. Len(s) - 1  BY <1>2
<1> HIDE DEF new
<1>5. Len(s) <= 1 => new = <<>>  BY <1>1, <1>2
<1>6. Len(s) > 1 => new # <<>>  BY <1>1, <1>2
<1>7. \A i \in DOMAIN new : i \in DOMAIN s /\ new[i] = s[i]  BY <1>1, <1>3, <1>4
<1> QED  BY <1>2, <1>5, <1>6, <1>7 DEF new

LEMMA LastReplaced ==
  ASSUME NEW S, NEW s \in Seq(S), s # <<>>, NEW e \in S
  PROVE  LET new == [s EXCEPT ![Len(s)] = e]
         IN  /\ Len(s) \in DOMAIN s /\ s[Len(s)] \in S
             /\ new \in Seq(S) /\ new # <<>> /\ new[Len(new)] = e
             /\ DOMAIN new = DOMAIN s
             /\ \A i \in DOMAIN new : new[i] = e \/ new[i] = s[i]
<1> DEFINE new == [s EXCEPT ![Len(s)] = e]
<1>1. Len(s) \in Nat /\ Len(s) >= 1 /\ DOMAIN s = 1 .. Len(s)  OBVIOUS
<1>2. new \in Seq(S) /\ Len(new) = Len(s) /\ DOMAIN new = DOMAIN s  BY <1>1
<1>3. new[Len(s)] = e /\ \A i \in DOMAIN s : new[i] = e \/ new[i] = s[i]  BY <1>1
<1>4. new # <<>>  BY <1>1, <1>2
<1> QED  BY <1>1, <1>2, <1>3, <1>4

-----------------------------------------------------------------------------

LEMMA InitInv == Init => Inv
<1> SUFFICES ASSUME Init PROVE Inv  OBVIOUS
<1>1. PICK n \in 1 .. Maximum, a \in Addresses, fixed \in BOOLEAN :
        /\ mem = [pages |-> n, bytes |-> a, fixed |-> fixed]
        /\ block = [at |-> a, pages |-> IF fixed THEN Maximum ELSE n,
                    data |-> [p \in PageIndex |-> "zero"]]
  BY DEF Init
<1>2. mem \in Mems /\ block \in Blocks
  <2>1. n \in Nat /\ (IF fixed THEN Maximum ELSE n) \in Nat  BY MaximumIsNatural
  <2>2. [p \in PageIndex |-> "zero"] \in [PageIndex -> Values \cup {"zero", "junk"}]  OBVIOUS
  <2>3. QED  BY <1>1, <2>1, <2>2 DEF Mems, Blocks
<1>3. TypeOK
  <2>1. frames \in [Threads -> Seq(Frame)] /\ holder \in Threads \cup {Nobody}  BY DEF Init
  <2>2. at \in [Threads -> Doing] /\ local \in [Threads -> Locals]
    BY DEF Init, Doing, Locals, NoLocals
  <2>3. /\ record \in [Threads -> {"none", "allocated", "freed"}]
        /\ handle \in [Threads -> BOOLEAN] /\ making \in [Threads -> Threads \cup {Nobody}]
    BY DEF Init
  <2>4. QED  BY <1>2, <2>1, <2>2, <2>3 DEF TypeOK, Mems, Blocks, Locals
<1>4. Holding /\ Inside  BY DEF Init, Holding, Inside, Growing, Moving
<1>5. Settled /\ Fixed
  <2>1. mem.bytes = a /\ block.at = a /\ mem.pages = n /\ mem.fixed = fixed  BY <1>1
  <2>2. block.pages = IF fixed THEN Maximum ELSE n  BY <1>1
  <2>3. n <= Maximum /\ n <= n  BY MaximumIsNatural
  <2>4. QED  BY <2>1, <2>2, <2>3 DEF Settled, Fixed
<1>6. FramesFit /\ Current /\ Called
  <2>1. \A t \in Threads : \A i \in DOMAIN frames[t] : FALSE  BY DEF Init
  <2>2. \A t \in Threads : frames[t] = <<>>  BY DEF Init
  <2>3. Called  BY DEF Init, Called
  <2>4. QED  BY <2>1, <2>2, <2>3 DEF FramesFit, Current, InCode
<1>7. Creating /\ RecordsKept  BY MainAndNobody DEF Init, Creating, RecordsKept
<1> QED  BY <1>3, <1>4, <1>5, <1>6, <1>7 DEF Inv, MemoryInv

-----------------------------------------------------------------------------
(* Steps that change nothing but what one thread does and who holds the    *)
(* mutex.                                                                  *)

LEMMA ThreadsKept ==
  ASSUME TypeOK, Creating, RecordsKept, NEW t \in Threads,
         NEW where \in Doing \ {"absent", "created", "creating", "ended"},
         at[t] \notin {"absent", "created", "ended"}, at' = [at EXCEPT ![t] = where],
         t = Main => where # "exiting", UNCHANGED threadVars
  PROVE  Creating' /\ RecordsKept'
<1> USE DEF threadVars
<1>1. \A u \in Threads : u # t => at'[u] = at[u]  BY DEF TypeOK
<1>2. at'[t] = where  BY DEF TypeOK
<1>3. \A u \in Threads : at'[u] = "creating" => u # t /\ at[u] = "creating"  BY <1>1, <1>2
<1>4. \A u \in Threads : at[u] = "creating" => making[u] # t  BY DEF Creating
<1>5. (\A u \in Threads : at[u] = "creating" =>
         /\ making[u] \in Threads \ {Main}
         /\ at[making[u]] = "created" /\ ~handle[making[u]])'
  BY <1>1, <1>3, <1>4 DEF Creating
<1>6. (at[Main] \notin {"absent", "created", "exiting", "ended"})'
  BY <1>1, <1>2, MainAndNobody DEF Creating
<1>7. (\A u \in Threads : at[u] = "absent" => ~handle[u])'  BY <1>1, <1>2 DEF Creating
<1>8. Creating'  BY <1>3, <1>5, <1>6, <1>7 DEF Creating
<1>9. RecordsKept'  BY <1>1, <1>2 DEF RecordsKept
<1> QED  BY <1>8, <1>9

(* Steps that no memory.grow takes, but for its last.                      *)
LEMMA OutsideGrow ==
  ASSUME Holding, Inside, Settled, Fixed, mem' = mem, holder' = holder,
         block'.at = block.at, block'.pages = block.pages,
         \A u \in Threads : at'[u] \in Growing => at'[u] = at[u] /\ local'[u] = local[u],
         \A u \in Threads : at[u] \in Moving => at'[u] = at[u]
  PROVE  (Holding /\ Inside /\ Settled /\ Fixed)'
<1>1. Holding'  BY DEF Holding
<1>2. Inside'  BY DEF Inside, Growing, Moving
<1>3. Settled'  BY DEF Settled
<1>4. Fixed'  BY DEF Fixed
<1> QED  BY <1>1, <1>2, <1>3, <1>4

(* Where the frames are as before, and nobody gets back into code.         *)
LEMMA FramesAsBefore ==
  ASSUME FramesFit, Current, Called, frames' = frames, mem'.bytes = mem.bytes,
         mem'.fixed = mem.fixed, block'.at = block.at, holder' = holder,
         \A u \in Threads : \/ at'[u] = at[u] \/ at'[u] \in {"created", "ended"}
                            \/ at'[u] # "running" /\ frames[u] # <<>>
  PROVE  (FramesFit /\ Current /\ Called)'
<1>1. FramesFit'  BY DEF FramesFit, Modes
<1>2. Current'  BY DEF Current, InCode, Top
<1>3. Called'  BY DEF Called
<1> QED  BY <1>1, <1>2, <1>3

LEMMA Synchronises ==
  ASSUME Inv, NEW t \in Threads, NEW where \in {"locking", "waiting", "returning"},
         at[t] \in {"running", "locking", "waiting"}, at' = [at EXCEPT ![t] = where],
         holder' \in {holder, t, Nobody}, holder' # holder => holder \in {t, Nobody},
         frames[t] # <<>>, UNCHANGED <<memoryVars, frames, local, threadVars>>
  PROVE  Inv'
<1> USE DEF Inv, MemoryInv, memoryVars, threadVars
<1>1. TypeOK'  BY DEF TypeOK, Doing
<1>2. \A u \in Threads : u # t => at'[u] = at[u]  BY DEF TypeOK
<1>3. at'[t] = where  BY DEF TypeOK
<1>4. at'[t] \notin Growing  BY <1>3 DEF Growing
<1>5. (Holding /\ Inside)'
  BY <1>2, <1>3, <1>4, MainAndNobody DEF Holding, Inside, Growing, Moving
<1>6. (Settled /\ Fixed)'
  BY <1>2, <1>3 DEF Settled, Fixed, Moving
<1>7. FramesFit'  BY DEF FramesFit, Modes
<1>8. Current'  BY <1>2, <1>3, MainAndNobody DEF Current, InCode, Top
<1>9. Creating' /\ RecordsKept'
  <2>1. where \in Doing \ {"absent", "created", "creating", "ended"}  BY DEF Doing
  <2>2. QED  BY <2>1, ThreadsKept
<1>10. Called'  BY <1>2 DEF Called
<1> QED  BY <1>1, <1>5, <1>6, <1>7, <1>8, <1>9, <1>10

LEMMA SignalInv == ASSUME Inv, NEW t \in Threads, Signal(t) PROVE Inv'
<1> USE DEF Inv, MemoryInv, memoryVars, threadVars
<1>1. PICK woken \in Threads \cup {Nobody} :
        /\ woken # Nobody => at[woken] = "waiting"
        /\ at' = [u \in Threads |-> IF u = t THEN "returning"
                                    ELSE IF u = woken THEN "locking" ELSE at[u]]
  BY DEF Signal
<1>2. /\ at[t] = "running"
      /\ UNCHANGED <<mem, block, out, holder, frames, local, record, handle, making, fault>>
  BY DEF Signal, InCode
<1>3. \A u \in Threads :
        \/ at'[u] = at[u]
        \/ at[u] \in {"running", "waiting"} /\ at'[u] \in {"returning", "locking"}
  BY <1>1, <1>2, MainAndNobody
<1>4. TypeOK'  BY <1>1, <1>2 DEF TypeOK, Doing
<1>5. (Holding /\ Inside /\ Settled /\ Fixed)'
  <2>1. \A u \in Threads : at'[u] \in Growing => at'[u] = at[u] /\ local'[u] = local[u]
    BY <1>2, <1>3 DEF Growing
  <2>2. \A u \in Threads : at[u] \in Moving => at'[u] = at[u]  BY <1>3 DEF Moving
  <2>3. QED  BY <1>2, <2>1, <2>2, OutsideGrow
<1>6. (FramesFit /\ Current /\ Called)'
  <2>1. frames[t] # <<>>  BY DEF Signal, InCode
  <2>2. \A u \in Threads : at[u] = "waiting" => frames[u] # <<>>  BY DEF Called
  <2>3. \A u \in Threads : at'[u] = at[u] \/ (at'[u] # "running" /\ frames[u] # <<>>)
    BY <1>1, <2>1, <2>2, MainAndNobody
  <2>4. QED  BY <1>2, <2>3, FramesAsBefore
<1>7. Creating'  BY <1>2, <1>3, MainAndNobody DEF Creating
<1>8. RecordsKept'  BY <1>2, <1>3 DEF RecordsKept
<1> QED  BY <1>4, <1>5, <1>6, <1>7, <1>8

-----------------------------------------------------------------------------
(* Steps of compiled functions.                                            *)

LEMMA EnteredIsFrame ==
  ASSUME TypeOK, NEW mode \in Modes
  PROVE  /\ Entered(mode) \in Frame /\ Entered(mode).mode = mode
         /\ mode # "direct" => Entered(mode).base = mem.bytes
BY DEF TypeOK, Entered, Modes, Frame

LEMMA ReloadedIsFrame ==
  ASSUME TypeOK, NEW fr \in Frame
  PROVE  /\ Reloaded(fr) \in Frame /\ Reloaded(fr).mode = fr.mode
         /\ fr.mode = "cached" => Reloaded(fr).base = mem.bytes
         /\ fr.mode # "cached" => Reloaded(fr) = fr
BY DEF TypeOK, Reloaded, Frame

(* A memory that is fixed is where its block is.                           *)
LEMMA FixedInPlace ==
  ASSUME Inside, Settled, mem.fixed
  PROVE  mem.bytes = block.at /\ mem.pages <= block.pages
<1>1. \A u \in Threads : at[u] \notin Moving  BY DEF Inside
<1> QED  BY <1>1 DEF Settled

LEMMA EnteredFits ==
  ASSUME TypeOK, Inside, Settled, NEW mode \in Modes
  PROVE  Entered(mode).mode = "constant" => Entered(mode).base = block.at
<1>1. mode = "constant" => mem.fixed  BY DEF Modes
<1>2. mode = "constant" => Entered(mode).base = mem.bytes  BY EnteredIsFrame
<1> QED  BY <1>1, <1>2, FixedInPlace, EnteredIsFrame

LEMMA EnterInv ==
  ASSUME Inv, NEW t \in Threads, NEW mode, Enter(t, mode) PROVE Inv'
<1> DEFINE new == Append(frames[t], Entered(mode))
<1> USE DEF Inv, MemoryInv, memoryVars, threadVars
<1>1. /\ mode \in Modes /\ at[t] = "running" /\ frames' = [frames EXCEPT ![t] = new]
      /\ UNCHANGED <<mem, block, out, holder, at, local, record, handle, making, fault>>
  BY DEF Enter
<1>2. frames \in [Threads -> Seq(Frame)] /\ Entered(mode) \in Frame
  BY <1>1, EnteredIsFrame DEF TypeOK
<1>3. /\ new \in Seq(Frame) /\ new # <<>> /\ new[Len(new)] = Entered(mode)
      /\ \A i \in DOMAIN new :
           new[i] = Entered(mode) \/ (i \in DOMAIN frames[t] /\ new[i] = frames[t][i])
  <2>1. frames[t] \in Seq(Frame)  BY <1>2
  <2>2. QED  BY <1>2, <2>1, Pushed
<1> HIDE DEF new
<1>4. frames'[t] = new /\ \A u \in Threads : u # t => frames'[u] = frames[u]
  BY <1>1, <1>2
<1>5. TypeOK'  BY <1>1, <1>2, <1>3 DEF TypeOK
<1>6. (Holding /\ Inside /\ Settled /\ Fixed)'  BY <1>1, OutsideGrow
<1>7. FramesFit'
  <2>1. Entered(mode).mode \in Modes
        /\ (Entered(mode).mode = "constant" => Entered(mode).base = block.at)
    BY <1>1, EnteredIsFrame, EnteredFits
  <2>2. Modes' = Modes  BY <1>1 DEF Modes
  <2>3. QED  BY <1>1, <1>3, <1>4, <2>1, <2>2 DEF FramesFit
<1>8. Current'
  <2>1. mode = "cached" => Entered(mode).base = mem.bytes  BY <1>1, EnteredIsFrame
  <2>2. Entered(mode).mode = mode  BY <1>1, EnteredIsFrame
  <2>3. QED  BY <1>1, <1>3, <1>4, <2>1, <2>2 DEF Current, InCode, Top
<1>9. Called'  BY <1>1, <1>4 DEF Called
<1>10. Creating' /\ RecordsKept'  BY <1>1 DEF Creating, RecordsKept
<1> QED  BY <1>5, <1>6, <1>7, <1>8, <1>9, <1>10

LEMMA LeaveInv == ASSUME Inv, NEW t \in Threads, Leave(t) PROVE Inv'
<1> DEFINE new == SubSeq(frames[t], 1, Len(frames[t]) - 1)
           where == IF Len(frames[t]) > 1 THEN "returning"
                    ELSE IF t = Main THEN "running" ELSE "exiting"
<1> USE DEF Inv, MemoryInv, memoryVars, threadVars
<1>1. /\ at[t] = "running" /\ frames[t] # <<>> /\ frames' = [frames EXCEPT ![t] = new]
      /\ at' = [at EXCEPT ![t] = where]
      /\ UNCHANGED <<mem, block, out, holder, local, record, handle, making, fault>>
  BY DEF Leave, InCode
<1>2. frames \in [Threads -> Seq(Frame)] /\ at \in [Threads -> Doing]  BY DEF TypeOK
<1>3. /\ new \in Seq(Frame) /\ (Len(frames[t]) <= 1 => new = <<>>)
      /\ Len(frames[t]) > 1 => new # <<>>
      /\ \A i \in DOMAIN new : i \in DOMAIN frames[t] /\ new[i] = frames[t][i]
  <2>1. frames[t] \in Seq(Frame)  BY <1>2
  <2>2. QED  BY <1>1, <2>1, Popped
<1>4. /\ where \in {"returning", "running", "exiting"}
      /\ where = "running" => new = <<>>
      /\ where = "returning" => new # <<>>
      /\ t = Main => where # "exiting"
  <2>1. frames[t] \in Seq(Frame)  BY <1>2
  <2>2. Len(frames[t]) <= 1 \/ Len(frames[t]) > 1  BY <2>1
  <2>3. QED  BY <1>3, <2>2
<1> HIDE DEF new, where
<1>5. /\ frames'[t] = new /\ at'[t] = where
      /\ \A u \in Threads : u # t => frames'[u] = frames[u] /\ at'[u] = at[u]
  BY <1>1, <1>2
<1>6. TypeOK'  BY <1>1, <1>2, <1>3, <1>4 DEF TypeOK, Doing
<1>7. (Holding /\ Inside /\ Settled /\ Fixed)'
  <2>1. \A u \in Threads : at'[u] \in Growing => at'[u] = at[u] /\ local'[u] = local[u]
    BY <1>1, <1>4, <1>5 DEF Growing
  <2>2. \A u \in Threads : at[u] \in Moving => at'[u] = at[u]  BY <1>1, <1>5 DEF Moving
  <2>3. QED  BY <1>1, <2>1, <2>2, OutsideGrow
<1>8. FramesFit'
  <2>1. Modes' = Modes  BY <1>1 DEF Modes
  <2>2. QED  BY <1>1, <1>3, <1>5, <2>1 DEF FramesFit
<1>9. Current'  BY <1>1, <1>4, <1>5 DEF Current, InCode, Top
<1>10. Creating' /\ RecordsKept'
  <2>1. where \in Doing \ {"absent", "created", "creating", "ended"}  BY <1>4 DEF Doing
  <2>2. QED  BY <1>1, <1>4, <2>1, ThreadsKept
<1>11. Called'  BY <1>1, <1>4, <1>5 DEF Called
<1> QED  BY <1>6, <1>7, <1>8, <1>9, <1>10, <1>11

LEMMA ReturnInv == ASSUME Inv, NEW t \in Threads, Return(t) PROVE Inv'
<1> DEFINE new == [frames[t] EXCEPT ![Len(frames[t])] = Reloaded(Top(t))]
<1> USE DEF Inv, MemoryInv, memoryVars, threadVars
<1>1. /\ at[t] = "returning" /\ at' = [at EXCEPT ![t] = "running"]
      /\ frames' = [frames EXCEPT ![t] = new]
      /\ UNCHANGED <<mem, block, out, holder, local, record, handle, making, fault>>
  BY DEF Return, Goes
<1>2. /\ frames \in [Threads -> Seq(Frame)] /\ at \in [Threads -> Doing]
      /\ frames[t] # <<>>
  BY <1>1 DEF TypeOK, Called
<1>3. Len(frames[t]) \in DOMAIN frames[t] /\ Top(t) = frames[t][Len(frames[t])] /\ Top(t) \in Frame
  <2>1. frames[t] \in Seq(Frame)  BY <1>2
  <2>2. QED  BY <1>2, <2>1, LastReplaced DEF Top
<1>4. /\ Reloaded(Top(t)) \in Frame /\ Reloaded(Top(t)).mode = Top(t).mode
      /\ Top(t).mode = "cached" => Reloaded(Top(t)).base = mem.bytes
      /\ Top(t).mode # "cached" => Reloaded(Top(t)) = Top(t)
  BY <1>3, ReloadedIsFrame
<1>5. /\ new \in Seq(Frame) /\ new # <<>> /\ new[Len(new)] = Reloaded(Top(t))
      /\ DOMAIN new = DOMAIN frames[t]
      /\ \A i \in DOMAIN new : new[i] = Reloaded(Top(t)) \/ new[i] = frames[t][i]
  <2>1. frames[t] \in Seq(Frame)  BY <1>2
  <2>2. QED  BY <1>2, <1>4, <2>1, LastReplaced
<1> HIDE DEF new
<1>6. /\ frames'[t] = new /\ at'[t] = "running"
      /\ \A u \in Threads : u # t => frames'[u] = frames[u] /\ at'[u] = at[u]
  BY <1>1, <1>2
<1>7. TypeOK'  BY <1>1, <1>2, <1>5 DEF TypeOK, Doing
<1>8. (Holding /\ Inside /\ Settled /\ Fixed)'
  <2>1. \A u \in Threads : at'[u] \in Growing => at'[u] = at[u] /\ local'[u] = local[u]
    BY <1>1, <1>6 DEF Growing
  <2>2. \A u \in Threads : at[u] \in Moving => at'[u] = at[u]  BY <1>1, <1>6 DEF Moving
  <2>3. QED  BY <1>1, <2>1, <2>2, OutsideGrow
<1>9. FramesFit'
  <2>1. Modes' = Modes  BY <1>1 DEF Modes
  <2>2. Top(t).mode \in Modes /\ (Top(t).mode = "constant" => Top(t).base = block.at)
    BY <1>3 DEF FramesFit
  <2>3. \A i \in DOMAIN new : new[i].mode \in Modes
                              /\ (new[i].mode = "constant" => new[i].base = block.at)
    BY <1>4, <1>5, <2>2 DEF FramesFit
  <2>4. QED  BY <1>1, <1>6, <2>1, <2>3 DEF FramesFit
<1>10. Current'  BY <1>1, <1>4, <1>5, <1>6 DEF Current, InCode, Top
<1>11. Creating' /\ RecordsKept'
  <2>1. "running" \in Doing \ {"absent", "created", "creating", "ended"}  BY DEF Doing
  <2>2. QED  BY <1>1, <2>1, ThreadsKept
<1>12. Called'  BY <1>5, <1>6 DEF Called
<1> QED  BY <1>7, <1>8, <1>9, <1>10, <1>11, <1>12

LEMMA StoreInv ==
  ASSUME Inv, NEW t \in Threads, NEW p \in PageIndex, NEW v \in Values, Store(t, p, v)
  PROVE  Inv'
<1> USE DEF Inv, MemoryInv, threadVars
<1>1. UNCHANGED <<mem, holder, at, frames, local, record, handle, making, fault>>
  BY DEF Store
<1>2. block' = block \/ block' = [block EXCEPT !.data[p] = v]  BY DEF Store
<1>3. block' \in Blocks /\ block'.at = block.at /\ block'.pages = block.pages
  <2>1. block \in Blocks  BY DEF TypeOK, Blocks
  <2>2. QED  BY <1>2, <2>1 DEF Blocks
<1>4. TypeOK'  BY <1>1, <1>3 DEF TypeOK, Blocks
<1>5. (Holding /\ Inside /\ Settled /\ Fixed)'  BY <1>1, <1>3, OutsideGrow
<1>6. (FramesFit /\ Current /\ Called)'  BY <1>1, <1>3, FramesAsBefore
<1>7. Creating' /\ RecordsKept'  BY <1>1 DEF Creating, RecordsKept
<1> QED  BY <1>4, <1>5, <1>6, <1>7

LEMMA UnchangedInv ==
  ASSUME Inv, UNCHANGED <<mem, block, holder, at, frames, local, threadVars>>
  PROVE  Inv'
<1> USE DEF Inv, MemoryInv, threadVars
<1>1. TypeOK'  BY DEF TypeOK
<1>2. (Holding /\ Inside /\ Settled /\ Fixed)'  BY OutsideGrow
<1>3. (FramesFit /\ Current /\ Called)'  BY FramesAsBefore
<1>4. Creating' /\ RecordsKept'  BY DEF Creating, RecordsKept
<1> QED  BY <1>1, <1>2, <1>3, <1>4

-----------------------------------------------------------------------------
(* memory.grow, by a thread that holds the mutex.                          *)

(* What a step of memory.grow leaves alone.                                *)
LEMMA GrowKeeps ==
  ASSUME Inv, NEW t \in Threads, NEW where \in Growing \cup {"returning"},
         at[t] \in Growing, at' = [at EXCEPT ![t] = where],
         UNCHANGED <<holder, frames, threadVars>>
  PROVE  /\ at \in [Threads -> Doing] /\ at' \in [Threads -> Doing] /\ at'[t] = where
         /\ holder = t /\ Holding'
         /\ \A u \in Threads : u # t => at'[u] = at[u] /\ at[u] \notin Growing
         /\ Creating' /\ RecordsKept'
         /\ \A u \in Threads : at'[u] = at[u] \/ (at'[u] # "running" /\ frames[u] # <<>>)
<1> USE DEF Inv, MemoryInv, threadVars
<1>1. at \in [Threads -> Doing] /\ at' \in [Threads -> Doing] /\ at'[t] = where
  BY DEF TypeOK, Doing, Growing
<1>2. holder = t  BY DEF Holding
<1>3. \A u \in Threads : u # t => at'[u] = at[u] /\ at[u] \notin Growing
  BY <1>2 DEF Holding, TypeOK
<1>4. Holding'  BY <1>2, <1>3 DEF Holding
<1>5. Creating' /\ RecordsKept'
  <2>1. where \in Doing \ {"absent", "created", "creating", "ended"} /\ where # "exiting"
    BY DEF Doing, Growing
  <2>2. at[t] \notin {"absent", "created", "ended"}  BY DEF Growing
  <2>3. QED  BY <2>1, <2>2, ThreadsKept
<1>6. \A u \in Threads : at'[u] = at[u] \/ (at'[u] # "running" /\ frames[u] # <<>>)
  <2>1. frames[t] # <<>>  BY DEF Called, Growing
  <2>2. where # "running"  BY DEF Growing
  <2>3. QED  BY <1>1, <1>3, <2>1, <2>2
<1> QED  BY <1>1, <1>2, <1>3, <1>4, <1>5, <1>6

LEMMA GrowReadsInv ==
  ASSUME Inv, Liberties = {}, NEW t \in Threads, NEW delta \in 0 .. Maximum,
         GrowReads(t, delta)
  PROVE  Inv'
<1> USE DEF Inv, MemoryInv, memoryVars, threadVars
<1>1. /\ at[t] = "running" /\ frames[t] # <<>> /\ holder = t
      /\ at' = [at EXCEPT ![t] = "growing"]
      /\ local' = [local EXCEPT ![t].delta = delta, ![t].prev = mem.pages]
      /\ UNCHANGED <<mem, block, out, holder, frames, record, handle, making, fault>>
  BY DEF GrowReads, InCode, Goes
<1>2. /\ at \in [Threads -> Doing] /\ local \in [Threads -> Locals] /\ mem.pages \in Nat
  BY DEF TypeOK, Locals
<1>3. /\ at'[t] = "growing"
      /\ \A u \in Threads : u # t => at'[u] = at[u] /\ local'[u] = local[u]
  BY <1>1, <1>2
<1>4. local' \in [Threads -> Locals] /\ local'[t].prev = mem.pages
  <2>1. delta \in Nat  BY MaximumIsNatural
  <2>2. local[t] \in Locals  BY <1>2
  <2>3. [local[t] EXCEPT !.delta = delta, !.prev = mem.pages] \in Locals
    BY <1>2, <2>1, <2>2 DEF Locals
  <2>4. local'[t] = [local[t] EXCEPT !.delta = delta, !.prev = mem.pages]  BY <1>1, <1>2
  <2>5. local'[t].prev = mem.pages  BY <2>2, <2>4 DEF Locals
  <2>6. DOMAIN local' = Threads /\ \A u \in Threads : local'[u] \in Locals
    BY <1>1, <1>2, <1>3, <2>3, <2>4
  <2>7. local' = [u \in Threads |-> local'[u]]  BY <1>1, <1>2
  <2>8. QED  BY <2>5, <2>6, <2>7
<1>5. TypeOK'  BY <1>1, <1>4 DEF TypeOK, Locals, Doing
<1>6. Holding'  BY <1>1, <1>3 DEF Holding
<1>7. Inside'  BY <1>1, <1>3, <1>4 DEF Inside, Moving
<1>8. (Settled /\ Fixed)'  BY <1>1, <1>3 DEF Settled, Fixed, Moving
<1>9. (FramesFit /\ Current /\ Called)'
  <2>1. \A u \in Threads : at'[u] = at[u] \/ (at'[u] # "running" /\ frames[u] # <<>>)
    BY <1>1, <1>3
  <2>2. QED  BY <1>1, <2>1, FramesAsBefore
<1>10. Creating' /\ RecordsKept'
  <2>1. "growing" \in Doing \ {"absent", "created", "creating", "ended"}  BY DEF Doing
  <2>2. QED  BY <1>1, <2>1, ThreadsKept
<1> QED  BY <1>5, <1>6, <1>7, <1>8, <1>9, <1>10

LEMMA GrowRefusedInv == ASSUME Inv, NEW t \in Threads, GrowRefused(t) PROVE Inv'
<1> USE DEF Inv, MemoryInv, threadVars
<1>1. /\ at[t] = "growing" /\ at' = [at EXCEPT ![t] = "returning"]
      /\ local' = [local EXCEPT ![t] = NoLocals]
      /\ UNCHANGED <<mem, block, holder, frames, record, handle, making, fault>>
  BY DEF GrowRefused, Goes
<1>2. at[t] \in Growing  BY <1>1 DEF Growing
<1>3. /\ at' \in [Threads -> Doing] /\ at'[t] = "returning"
      /\ \A u \in Threads : u # t => at'[u] = at[u] /\ at[u] \notin Growing
      /\ Creating' /\ RecordsKept'
      /\ \A u \in Threads : at'[u] = at[u] \/ (at'[u] # "running" /\ frames[u] # <<>>)
  BY <1>1, <1>2, GrowKeeps
<1>4. TypeOK'
  <2>1. local' \in [Threads -> Locals]  BY <1>1 DEF TypeOK, Locals, NoLocals
  <2>2. QED  BY <1>1, <1>3, <2>1 DEF TypeOK, Locals
<1>5. (Holding /\ Inside /\ Settled /\ Fixed)'
  <2>1. \A u \in Threads : at'[u] \notin Growing
    BY <1>3 DEF Growing
  <2>2. \A u \in Threads : at[u] \notin Moving  BY <1>1, <1>3 DEF Growing, Moving
  <2>3. QED  BY <1>1, <2>1, <2>2, OutsideGrow
<1>6. (FramesFit /\ Current /\ Called)'  BY <1>1, <1>3, FramesAsBefore
<1> QED  BY <1>3, <1>4, <1>5, <1>6

LEMMA GrowAddsInv == ASSUME Inv, NEW t \in Threads, GrowAdds(t) PROVE Inv'
<1> DEFINE where == IF mem.fixed THEN "returning" ELSE "resizing"
<1> USE DEF Inv, MemoryInv, threadVars
<1>1. /\ at[t] = "growing" /\ at' = [at EXCEPT ![t] = where]
      /\ local[t].delta + local[t].prev <= Maximum
      /\ mem' = [mem EXCEPT !.pages = @ + local[t].delta]
      /\ local' = IF mem.fixed THEN [local EXCEPT ![t] = NoLocals] ELSE local
      /\ UNCHANGED <<block, holder, frames, record, handle, making, fault>>
  BY DEF GrowAdds, Goes
<1>2. at[t] \in Growing /\ where \in Growing \cup {"returning"}  BY <1>1 DEF Growing
<1>3. /\ at' \in [Threads -> Doing] /\ at'[t] = where /\ Holding'
      /\ \A u \in Threads : u # t => at'[u] = at[u] /\ at[u] \notin Growing
      /\ Creating' /\ RecordsKept'
      /\ \A u \in Threads : at'[u] = at[u] \/ (at'[u] # "running" /\ frames[u] # <<>>)
  <2> HIDE DEF where
  <2>1. QED  BY <1>1, <1>2, GrowKeeps
<1>4. mem \in Mems /\ local \in [Threads -> Locals] /\ local[t].delta \in Nat
  BY DEF TypeOK, Mems, Locals
<1>5. /\ mem' \in Mems /\ mem'.pages = mem.pages + local[t].delta
      /\ mem'.bytes = mem.bytes /\ mem'.fixed = mem.fixed
  <2>1. mem.pages + local[t].delta \in Nat  BY <1>4 DEF Mems
  <2>2. QED  BY <1>1, <1>4, <2>1 DEF Mems
<1>6. mem'.pages <= Maximum
  <2>1. local[t].prev = mem.pages  BY <1>1 DEF Inside
  <2>2. local[t].delta + mem.pages = mem.pages + local[t].delta  BY <1>4 DEF Mems
  <2>3. QED  BY <1>1, <1>5, <2>1, <2>2
<1>7. TypeOK'
  <2>1. local' \in [Threads -> Locals]  BY <1>1, <1>4 DEF Locals, NoLocals
  <2>2. QED  BY <1>1, <1>3, <1>5, <2>1 DEF TypeOK, Locals, Mems
<1>8. Inside'  BY <1>3, <1>5 DEF Inside, Growing, Moving
<1>9. (Settled /\ Fixed)'
  <2>1. CASE mem.fixed
    <3>1. mem.bytes = block.at /\ block.pages = Maximum  BY <2>1, FixedInPlace DEF Fixed
    <3>2. QED  BY <1>1, <1>5, <1>6, <3>1 DEF Settled, Fixed
  <2>2. CASE ~mem.fixed
    <3>1. at'[t] \in Moving  BY <1>3, <2>2 DEF Moving
    <3>2. QED  BY <1>5, <2>2, <3>1 DEF Settled, Fixed
  <2>3. QED  BY <2>1, <2>2
<1>10. (FramesFit /\ Current /\ Called)'  BY <1>1, <1>3, <1>5, FramesAsBefore
<1> QED  BY <1>3, <1>7, <1>8, <1>9, <1>10

LEMMA GrowReallocsInv == ASSUME Inv, NEW t \in Threads, GrowReallocs(t) PROVE Inv'
<1> DEFINE kept == [p \in PageIndex |->
                      IF p < block.pages /\ p < mem.pages THEN block.data[p] ELSE "junk"]
<1> USE DEF Inv, MemoryInv, threadVars
<1>1. /\ at[t] = "resizing" /\ at' = [at EXCEPT ![t] = "assigning"]
      /\ UNCHANGED <<mem, holder, frames, record, handle, making, fault>>
  BY DEF GrowReallocs, Goes
<1>2. PICK a \in Addresses : /\ block' = [at |-> a, pages |-> mem.pages, data |-> kept]
                             /\ local' = [local EXCEPT ![t].moved = a]
  BY DEF GrowReallocs
<1>3. at[t] \in Growing /\ "assigning" \in Growing \cup {"returning"}  BY <1>1 DEF Growing
<1>4. /\ at' \in [Threads -> Doing] /\ at'[t] = "assigning" /\ Holding'
      /\ \A u \in Threads : u # t => at'[u] = at[u] /\ at[u] \notin Growing
      /\ Creating' /\ RecordsKept'
      /\ \A u \in Threads : at'[u] = at[u] \/ (at'[u] # "running" /\ frames[u] # <<>>)
  BY <1>1, <1>3, GrowKeeps
<1>5. mem \in Mems /\ block \in Blocks /\ local \in [Threads -> Locals] /\ ~mem.fixed
  BY <1>1 DEF TypeOK, Mems, Blocks, Locals, Inside, Moving
<1>6. block' \in Blocks /\ block'.at = a /\ block'.pages = mem.pages
  <2>1. kept \in [PageIndex -> Values \cup {"zero", "junk"}]
    <3>1. \A p \in PageIndex : block.data[p] \in Values \cup {"zero", "junk"}  BY <1>5 DEF Blocks
    <3>2. QED  BY <3>1
  <2>2. mem.pages \in Nat  BY <1>5 DEF Mems
  <2> HIDE DEF kept
  <2>3. QED  BY <1>2, <2>1, <2>2 DEF Blocks
<1>7. local' \in [Threads -> Locals] /\ local'[t].moved = a
  BY <1>2, <1>5 DEF Locals
<1>8. mem.pages <= mem.pages  BY <1>5 DEF Mems
<1>9. TypeOK'  BY <1>1, <1>4, <1>6, <1>7 DEF TypeOK, Locals, Blocks
<1>10. Inside'
  <2>1. \A u \in Threads : u # t => at'[u] \notin Growing  BY <1>4
  <2>2. QED  BY <1>1, <1>4, <1>5, <1>6, <1>7, <1>8, <2>1 DEF Inside, Growing, Moving
<1>11. (Settled /\ Fixed)'
  <2>1. at'[t] \in Moving  BY <1>4 DEF Moving
  <2>2. QED  BY <1>1, <1>5, <2>1 DEF Settled, Fixed
<1>12. FramesFit'
  <2>1. Modes' = Modes /\ "constant" \notin Modes  BY <1>1, <1>5 DEF Modes
  <2>2. QED  BY <1>1, <2>1 DEF FramesFit
<1>13. (Current /\ Called)'
  <2>1. Current'  BY <1>1, <1>4 DEF Current, InCode, Top
  <2>2. Called'  BY <1>1, <1>4 DEF Called
  <2>3. QED  BY <2>1, <2>2
<1> QED  BY <1>4, <1>9, <1>10, <1>11, <1>12, <1>13

LEMMA GrowAssignsInv == ASSUME Inv, NEW t \in Threads, GrowAssigns(t) PROVE Inv'
<1> USE DEF Inv, MemoryInv, threadVars
<1>1. /\ at[t] = "assigning" /\ at' = [at EXCEPT ![t] = "clearing"]
      /\ mem' = [mem EXCEPT !.bytes = local[t].moved]
      /\ UNCHANGED <<block, holder, frames, local, record, handle, making, fault>>
  BY DEF GrowAssigns, Goes
<1>2. at[t] \in Growing /\ "clearing" \in Growing \cup {"returning"}  BY <1>1 DEF Growing
<1>3. /\ at' \in [Threads -> Doing] /\ at'[t] = "clearing" /\ Holding' /\ holder = t
      /\ \A u \in Threads : u # t => at'[u] = at[u] /\ at[u] \notin Growing
      /\ Creating' /\ RecordsKept'
      /\ \A u \in Threads : at'[u] = at[u] \/ (at'[u] # "running" /\ frames[u] # <<>>)
  BY <1>1, <1>2, GrowKeeps
<1>4. mem \in Mems /\ block \in Blocks /\ ~mem.fixed
  BY <1>1 DEF TypeOK, Mems, Blocks, Inside, Moving
<1>5. local[t].moved = block.at /\ mem.pages <= block.pages  BY <1>1 DEF Inside
<1>6. /\ mem' \in Mems /\ mem'.bytes = block.at /\ mem'.pages = mem.pages /\ ~mem'.fixed
  BY <1>1, <1>4, <1>5 DEF Mems, Blocks
<1>7. TypeOK'  BY <1>1, <1>3, <1>6 DEF TypeOK, Mems
<1>8. Inside'
  <2>1. \A u \in Threads : u # t => at'[u] \notin Growing  BY <1>3
  <2>2. QED  BY <1>3, <1>6, <2>1 DEF Inside, Growing, Moving
<1>9. (Settled /\ Fixed)'  BY <1>1, <1>5, <1>6 DEF Settled, Fixed
<1>10. FramesFit'
  <2>1. Modes' = Modes  BY <1>4, <1>6 DEF Modes
  <2>2. QED  BY <1>1, <2>1 DEF FramesFit
<1>11. (Current /\ Called)'
  <2>1. Current'  BY <1>1, <1>3 DEF Current, InCode
  <2>2. Called'  BY <1>1, <1>3 DEF Called
  <2>3. QED  BY <2>1, <2>2
<1> QED  BY <1>3, <1>7, <1>8, <1>9, <1>10, <1>11

LEMMA GrowClearsInv == ASSUME Inv, NEW t \in Threads, GrowClears(t) PROVE Inv'
<1> USE DEF Inv, MemoryInv, threadVars
<1>1. /\ at[t] = "clearing" /\ at' = [at EXCEPT ![t] = "returning"]
      /\ local' = [local EXCEPT ![t] = NoLocals]
      /\ UNCHANGED <<mem, holder, frames, record, handle, making, fault>>
  BY DEF GrowClears, Goes
<1>2. at[t] \in Growing  BY <1>1 DEF Growing
<1>3. /\ at' \in [Threads -> Doing] /\ at'[t] = "returning"
      /\ \A u \in Threads : u # t => at'[u] = at[u] /\ at[u] \notin Growing
      /\ Creating' /\ RecordsKept'
      /\ \A u \in Threads : at'[u] = at[u] \/ (at'[u] # "running" /\ frames[u] # <<>>)
  BY <1>1, <1>2, GrowKeeps
<1>4. block' \in Blocks /\ block'.at = block.at /\ block'.pages = block.pages
  <2> DEFINE cleared == [p \in PageIndex |-> IF p \in Cleared(t) THEN "zero" ELSE block.data[p]]
  <2>1. block \in Blocks  BY DEF TypeOK, Blocks
  <2>2. \A p \in PageIndex : block.data[p] \in Values \cup {"zero", "junk"}  BY <2>1 DEF Blocks
  <2>3. cleared \in [PageIndex -> Values \cup {"zero", "junk"}]  BY <2>2
  <2>4. block' = block \/ block' = [block EXCEPT !.data = cleared]  BY DEF GrowClears
  <2> HIDE DEF cleared
  <2>5. QED  BY <2>1, <2>3, <2>4 DEF Blocks
<1>5. TypeOK'
  <2>1. local' \in [Threads -> Locals]  BY <1>1 DEF TypeOK, Locals, NoLocals
  <2>2. QED  BY <1>1, <1>3, <1>4, <2>1 DEF TypeOK, Locals, Blocks
<1>6. (Holding /\ Inside /\ Settled /\ Fixed)'
  <2>1. \A u \in Threads : at'[u] \notin Growing  BY <1>3 DEF Growing
  <2>2. \A u \in Threads : at[u] \notin Moving  BY <1>1, <1>3 DEF Growing, Moving
  <2>3. QED  BY <1>1, <1>4, <2>1, <2>2, OutsideGrow
<1>7. (FramesFit /\ Current /\ Called)'  BY <1>1, <1>3, <1>4, FramesAsBefore
<1> QED  BY <1>3, <1>5, <1>6, <1>7

-----------------------------------------------------------------------------
(* Threads.                                                                *)

LEMMA ThreadCreateInv ==
  ASSUME Inv, NEW t \in Threads, NEW u \in Threads \ {Main}, ThreadCreate(t, u) PROVE Inv'
<1> USE DEF Inv, MemoryInv, memoryVars
<1>1. /\ at[t] = "running" /\ frames[t] # <<>> /\ at[u] = "absent"
      /\ at' = [at EXCEPT ![t] = "creating", ![u] = "created"]
      /\ record' = [record EXCEPT ![u] = "allocated"] /\ making' = [making EXCEPT ![t] = u]
      /\ UNCHANGED <<mem, block, out, holder, frames, local, handle, fault>>
  BY DEF ThreadCreate, InCode
<1>2. /\ at \in [Threads -> Doing] /\ making \in [Threads -> Threads \cup {Nobody}]
      /\ record \in [Threads -> {"none", "allocated", "freed"}]
  BY DEF TypeOK
<1>3. /\ t # u /\ at'[t] = "creating" /\ at'[u] = "created"
      /\ making'[t] = u /\ record'[u] = "allocated"
      /\ \A w \in Threads : w # t /\ w # u => at'[w] = at[w]
      /\ \A w \in Threads : w # t => making'[w] = making[w]
      /\ \A w \in Threads : w # u => record'[w] = record[w]
  BY <1>1, <1>2
<1>4. TypeOK'  BY <1>1 DEF TypeOK, Doing
<1>5. (Holding /\ Inside /\ Settled /\ Fixed)'
  <2>1. \A w \in Threads : at'[w] \in Growing => at'[w] = at[w] /\ local'[w] = local[w]
    BY <1>1, <1>3 DEF Growing
  <2>2. \A w \in Threads : at[w] \in Moving => at'[w] = at[w]  BY <1>1, <1>3 DEF Moving
  <2>3. QED  BY <1>1, <2>1, <2>2, OutsideGrow
<1>6. (FramesFit /\ Current /\ Called)'
  <2>1. \A w \in Threads : \/ at'[w] = at[w] \/ at'[w] \in {"created", "ended"}
                           \/ at'[w] # "running" /\ frames[w] # <<>>
    BY <1>1, <1>3
  <2>2. QED  BY <1>1, <2>1, FramesAsBefore
<1>7. Creating'
  <2>1. ~handle[u]  BY <1>1 DEF Creating
  <2>2. \A w \in Threads : at'[w] = "creating" /\ w # t => at[w] = "creating"  BY <1>3
  <2>3. \A w \in Threads : at[w] = "creating" =>
          /\ making[w] \in Threads \ {Main} /\ making[w] # t /\ making[w] # u
          /\ at[making[w]] = "created" /\ ~handle[making[w]]
    BY <1>1 DEF Creating
  <2>4. (at[Main] \notin {"absent", "created", "exiting", "ended"})'
    BY <1>3, MainAndNobody DEF Creating
  <2>5. (\A w \in Threads : at[w] = "absent" => ~handle[w])'  BY <1>1, <1>3 DEF Creating
  <2>6. (\A w \in Threads : at[w] = "creating" =>
           /\ making[w] \in Threads \ {Main}
           /\ at[making[w]] = "created" /\ ~handle[making[w]])'
    <3>1. SUFFICES ASSUME NEW w \in Threads, at'[w] = "creating"
                   PROVE  /\ making'[w] \in Threads \ {Main}
                          /\ at'[making'[w]] = "created" /\ ~handle'[making'[w]]
      OBVIOUS
    <3>2. handle' = handle  BY <1>1
    <3>3. CASE w = t  BY <1>3, <2>1, <3>2, <3>3
    <3>4. CASE w # t
      <4>1. making'[w] = making[w] /\ at[w] = "creating"  BY <1>3, <2>2, <3>1, <3>4
      <4>2. /\ making[w] \in Threads \ {Main} /\ making[w] # t /\ making[w] # u
            /\ at[making[w]] = "created" /\ ~handle[making[w]]
        BY <2>3, <4>1
      <4>3. at'[making[w]] = at[making[w]]  BY <1>3, <4>2
      <4>4. QED  BY <3>2, <4>1, <4>2, <4>3
    <3>5. QED  BY <3>3, <3>4
  <2>7. (\A w, x \in Threads :
           at[w] = "creating" /\ at[x] = "creating" /\ making[w] = making[x] => w = x)'
    BY <1>3, <2>2, <2>3 DEF Creating
  <2>8. QED  BY <2>4, <2>5, <2>6, <2>7 DEF Creating
<1>8. RecordsKept'
  <2>1. fault' = "none"  BY <1>1 DEF RecordsKept
  <2>2. \A w \in Threads \ {Main} : w # t /\ w # u => at'[w] = at[w] /\ record'[w] = record[w]
    BY <1>3
  <2>3. t # Main => record'[t] = "allocated"
    <3>1. t # Main => record[t] = "allocated"  BY <1>1 DEF RecordsKept
    <3>2. QED  BY <1>3, <3>1
  <2>4. /\ at'[t] = "creating" /\ at'[u] = "created" /\ record'[u] = "allocated"  BY <1>3
  <2>5. QED  BY <2>1, <2>2, <2>3, <2>4 DEF RecordsKept
<1> QED  BY <1>4, <1>5, <1>6, <1>7, <1>8

LEMMA ThreadCreatedInv == ASSUME Inv, NEW t \in Threads, ThreadCreated(t) PROVE Inv'
<1> DEFINE made == making[t]
<1> USE DEF Inv, MemoryInv, memoryVars
<1>1. /\ at[t] = "creating" /\ at' = [at EXCEPT ![t] = "returning"]
      /\ handle' = [handle EXCEPT ![made] = TRUE]
      /\ fault' = (IF record[made] = "allocated" THEN fault
                   ELSE "handle stored in freed record")
      /\ making' = [making EXCEPT ![t] = Nobody]
      /\ UNCHANGED <<mem, block, out, holder, frames, local, record>>
  BY DEF ThreadCreated, Goes
<1>2. /\ at \in [Threads -> Doing] /\ making \in [Threads -> Threads \cup {Nobody}]
      /\ handle \in [Threads -> BOOLEAN]
  BY DEF TypeOK
<1>3. made \in Threads \ {Main} /\ at[made] = "created" /\ record[made] = "allocated"
  <2>1. made \in Threads \ {Main} /\ at[made] = "created"  BY <1>1 DEF Creating
  <2>2. QED  BY <2>1 DEF RecordsKept
<1> HIDE DEF made
<1>4. /\ at'[t] = "returning" /\ \A w \in Threads : w # t => at'[w] = at[w]
      /\ \A w \in Threads : w # made => handle'[w] = handle[w]
      /\ \A w \in Threads : w # t => making'[w] = making[w]
  BY <1>1, <1>2
<1>5. TypeOK'
  <2>1. at' \in [Threads -> Doing]  BY <1>1, <1>2 DEF Doing
  <2>2. handle' \in [Threads -> BOOLEAN]  BY <1>1, <1>2, Zenon
  <2>3. making' \in [Threads -> Threads \cup {Nobody}]  BY <1>1, <1>2
  <2>4. QED  BY <1>1, <2>1, <2>2, <2>3 DEF TypeOK
<1>6. (Holding /\ Inside /\ Settled /\ Fixed)'
  <2>1. \A w \in Threads : at'[w] \in Growing => at'[w] = at[w] /\ local'[w] = local[w]
    BY <1>1, <1>4 DEF Growing
  <2>2. \A w \in Threads : at[w] \in Moving => at'[w] = at[w]  BY <1>1, <1>4 DEF Moving
  <2>3. QED  BY <1>1, <2>1, <2>2, OutsideGrow
<1>7. (FramesFit /\ Current /\ Called)'
  <2>1. frames[t] # <<>>  BY <1>1 DEF Called
  <2>2. \A w \in Threads : at'[w] = at[w] \/ (at'[w] # "running" /\ frames[w] # <<>>)
    BY <1>4, <2>1
  <2>3. QED  BY <1>1, <2>2, FramesAsBefore
<1>8. Creating'
  <2>1. \A w \in Threads : at'[w] = "creating" => w # t /\ at[w] = "creating"  BY <1>4
  <2>2. \A w \in Threads : at'[w] = "creating" => making[w] # made
    BY <1>1, <2>1 DEF Creating, made
  <2>3. \A w \in Threads : at[w] = "creating" =>
          /\ making[w] \in Threads \ {Main} /\ making[w] # t
          /\ at[making[w]] = "created" /\ ~handle[making[w]]
    BY <1>1 DEF Creating
  <2>4. (at[Main] \notin {"absent", "created", "exiting", "ended"})'
    BY <1>4, MainAndNobody DEF Creating
  <2>5. (\A w \in Threads : at[w] = "absent" => ~handle[w])'
    BY <1>3, <1>4 DEF Creating
  <2>6. (\A w \in Threads : at[w] = "creating" =>
           /\ making[w] \in Threads \ {Main}
           /\ at[making[w]] = "created" /\ ~handle[making[w]])'
    BY <1>4, <2>1, <2>2, <2>3
  <2>7. (\A w, x \in Threads :
           at[w] = "creating" /\ at[x] = "creating" /\ making[w] = making[x] => w = x)'
    BY <1>4, <2>1 DEF Creating
  <2>8. QED  BY <2>4, <2>5, <2>6, <2>7 DEF Creating
<1>9. RecordsKept'  BY <1>1, <1>3, <1>4 DEF RecordsKept
<1> QED  BY <1>5, <1>6, <1>7, <1>8, <1>9

LEMMA ThreadEntryInv ==
  ASSUME Inv, Liberties = {}, NEW u \in Threads, NEW mode, ThreadEntry(u, mode) PROVE Inv'
<1> DEFINE new == <<Entered(mode)>>
<1> USE DEF Inv, MemoryInv, memoryVars
<1>1. /\ at[u] = "created" /\ at' = [at EXCEPT ![u] = "running"] /\ mode \in Modes /\ handle[u]
      /\ fault' = (IF record[u] = "allocated" THEN fault ELSE "record used after it was freed")
      /\ frames' = [frames EXCEPT ![u] = new]
      /\ UNCHANGED <<mem, block, out, holder, local, record, handle, making>>
  BY DEF ThreadEntry, Goes
<1>2. /\ at \in [Threads -> Doing] /\ frames \in [Threads -> Seq(Frame)]
      /\ Entered(mode) \in Frame
  BY <1>1, EnteredIsFrame DEF TypeOK
<1>3. /\ new \in Seq(Frame) /\ new # <<>> /\ new[Len(new)] = Entered(mode)
      /\ \A i \in DOMAIN new : new[i] = Entered(mode)
  BY <1>2
<1> HIDE DEF new
<1>4. /\ at'[u] = "running" /\ frames'[u] = new
      /\ \A w \in Threads : w # u => at'[w] = at[w] /\ frames'[w] = frames[w]
  BY <1>1, <1>2
<1>5. record[u] = "allocated" /\ u # Main
  <2>1. u # Main  BY <1>1 DEF Creating
  <2>2. QED  BY <1>1, <2>1 DEF RecordsKept
<1>6. TypeOK'  BY <1>1, <1>2, <1>3 DEF TypeOK, Doing
<1>7. (Holding /\ Inside /\ Settled /\ Fixed)'
  <2>1. \A w \in Threads : at'[w] \in Growing => at'[w] = at[w] /\ local'[w] = local[w]
    BY <1>1, <1>4 DEF Growing
  <2>2. \A w \in Threads : at[w] \in Moving => at'[w] = at[w]  BY <1>1, <1>4 DEF Moving
  <2>3. QED  BY <1>1, <2>1, <2>2, OutsideGrow
<1>8. FramesFit'
  <2>1. Entered(mode).mode \in Modes
        /\ (Entered(mode).mode = "constant" => Entered(mode).base = block.at)
    BY <1>1, EnteredIsFrame, EnteredFits
  <2>2. Modes' = Modes  BY <1>1 DEF Modes
  <2>3. \A i \in DOMAIN frames'[u] : frames'[u][i] = Entered(mode)  BY <1>3, <1>4
  <2>4. block' = block  BY <1>1
  <2>5. QED  BY <1>4, <2>1, <2>2, <2>3, <2>4 DEF FramesFit
<1>9. Current'
  <2>1. Entered(mode).mode = mode /\ (mode = "cached" => Entered(mode).base = mem.bytes)
    BY <1>1, EnteredIsFrame
  <2>2. Top(u)' = Entered(mode)  BY <1>3, <1>4 DEF Top
  <2>3. \A w \in Threads : w # u => Top(w)' = Top(w)  BY <1>4 DEF Top
  <2>4. mem' = mem /\ holder' = holder  BY <1>1
  <2>5. QED  BY <1>4, <2>1, <2>2, <2>3, <2>4 DEF Current, InCode
<1>10. Called'  BY <1>4 DEF Called
<1>11. Creating'
  <2>1. \A w \in Threads : at'[w] = "creating" => w # u /\ at[w] = "creating"  BY <1>4
  <2>2. \A w \in Threads : at[w] = "creating" => making[w] # u  BY <1>1 DEF Creating
  <2>3. ASSUME NEW w \in Threads, at'[w] = "creating"
        PROVE  /\ making'[w] \in Threads \ {Main}
               /\ at'[making'[w]] = "created" /\ ~handle'[making'[w]]
    <3>1. /\ making[w] \in Threads \ {Main}
          /\ at[making[w]] = "created" /\ ~handle[making[w]]
      BY <2>1, <2>3 DEF Creating
    <3>2. making[w] # u /\ making'[w] = making[w] /\ handle' = handle
      BY <1>1, <2>1, <2>2, <2>3
    <3> HIDE DEF Inv, MemoryInv
    <3> QED  BY <1>4, <3>1, <3>2
  <2>4. (at[Main] \notin {"absent", "created", "exiting", "ended"})'
    BY <1>4, MainAndNobody DEF Creating
  <2>5. (\A w \in Threads : at[w] = "absent" => ~handle[w])'  BY <1>1, <1>4 DEF Creating
  <2>6. QED  BY <1>1, <2>1, <2>3, <2>4, <2>5 DEF Creating
<1>12. RecordsKept'  BY <1>1, <1>4, <1>5 DEF RecordsKept
<1> QED  BY <1>6, <1>7, <1>8, <1>9, <1>10, <1>11, <1>12

LEMMA ThreadExitInv == ASSUME Inv, NEW u \in Threads, ThreadExit(u) PROVE Inv'
<1> USE DEF Inv, MemoryInv, memoryVars
<1>1. /\ at[u] = "exiting" /\ at' = [at EXCEPT ![u] = "ended"]
      /\ fault' = (IF record[u] = "allocated" THEN fault ELSE "record used after it was freed")
      /\ record' = [record EXCEPT ![u] = "freed"]
      /\ UNCHANGED <<mem, block, out, holder, frames, local, handle, making>>
  BY DEF ThreadExit, Goes
<1>2. at \in [Threads -> Doing] /\ record \in [Threads -> {"none", "allocated", "freed"}]
  BY DEF TypeOK
<1>3. /\ at'[u] = "ended" /\ record'[u] = "freed"
      /\ \A w \in Threads : w # u => at'[w] = at[w] /\ record'[w] = record[w]
  BY <1>1, <1>2
<1>4. record[u] = "allocated" /\ u # Main
  <2>1. u # Main  BY <1>1 DEF Creating
  <2>2. QED  BY <1>1, <2>1 DEF RecordsKept
<1>5. TypeOK'  BY <1>1 DEF TypeOK, Doing
<1>6. (Holding /\ Inside /\ Settled /\ Fixed)'
  <2>1. \A w \in Threads : at'[w] \in Growing => at'[w] = at[w] /\ local'[w] = local[w]
    BY <1>1, <1>3 DEF Growing
  <2>2. \A w \in Threads : at[w] \in Moving => at'[w] = at[w]  BY <1>1, <1>3 DEF Moving
  <2>3. QED  BY <1>1, <2>1, <2>2, OutsideGrow
<1>7. (FramesFit /\ Current /\ Called)'  BY <1>1, <1>3, FramesAsBefore
<1>8. Creating'
  <2>1. \A w \in Threads : at'[w] = "creating" => w # u /\ at[w] = "creating"  BY <1>3
  <2>2. \A w \in Threads : at[w] = "creating" => making[w] # u  BY <1>1 DEF Creating
  <2>3. (\A w \in Threads : at[w] = "creating" =>
           /\ making[w] \in Threads \ {Main}
           /\ at[making[w]] = "created" /\ ~handle[making[w]])'
    <3>1. \A w \in Threads : at[w] = "creating" =>
            /\ making[w] \in Threads \ {Main}
            /\ at[making[w]] = "created" /\ ~handle[making[w]]
      BY DEF Creating
    <3>2. making' = making /\ handle' = handle  BY <1>1
    <3>3. \A w \in Threads : w # u => at'[w] = at[w]  BY <1>3
    <3>4. QED  BY <2>1, <2>2, <3>1, <3>2, <3>3
  <2>4. (at[Main] \notin {"absent", "created", "exiting", "ended"})'
    BY <1>3, <1>4, MainAndNobody DEF Creating
  <2>5. (\A w \in Threads : at[w] = "absent" => ~handle[w])'  BY <1>1, <1>3 DEF Creating
  <2>6. QED  BY <1>1, <2>1, <2>3, <2>4, <2>5 DEF Creating
<1>9. RecordsKept'  BY <1>1, <1>3, <1>4 DEF RecordsKept
<1> QED  BY <1>5, <1>6, <1>7, <1>8, <1>9

-----------------------------------------------------------------------------

LEMMA SynchroniseInv == ASSUME Inv, NEW t \in Threads, Synchronise(t) PROVE Inv'
<1>1. at[t] \in {"locking", "waiting"} => frames[t] # <<>>  BY DEF Inv, MemoryInv, Called
<1> USE DEF Goes, InCode
<1>2. CASE Lock(t)  BY <1>2, Synchronises DEF Lock
<1>3. CASE Locked(t)  BY <1>1, <1>3, Synchronises DEF Locked
<1>4. CASE TryLock(t)  BY <1>4, Synchronises DEF TryLock
<1>5. CASE Unlock(t)  BY <1>5, Synchronises DEF Unlock
<1>6. CASE Wait(t)  BY <1>6, Synchronises DEF Wait
<1>7. CASE Wakes(t)  BY <1>1, <1>7, Synchronises DEF Wakes
<1>8. CASE Signal(t)  BY <1>8, SignalInv
<1> QED  BY <1>2, <1>3, <1>4, <1>5, <1>6, <1>7, <1>8 DEF Synchronise

LEMMA GrowInv == ASSUME Inv, Liberties = {}, NEW t \in Threads, Grow(t) PROVE Inv'
BY GrowReadsInv, GrowRefusedInv, GrowAddsInv, GrowReallocsInv, GrowAssignsInv, GrowClearsInv
   DEF Grow

LEMMA NextInv == ASSUME Inv, Liberties = {}, [Next]_vars PROVE Inv'
<1>1. ASSUME NEW t \in Threads, Step(t) PROVE Inv'
  <2>1. CASE \E mode \in {"cached", "constant", "direct"} : Enter(t, mode) \/ ThreadEntry(t, mode)
    BY <2>1, EnterInv, ThreadEntryInv
  <2>2. CASE Leave(t) \/ Return(t)  BY <2>2, LeaveInv, ReturnInv
  <2>3. CASE \E p \in PageIndex : Load(t, p) \/ \E v \in Values : Store(t, p, v)
    <3>1. ASSUME NEW p \in PageIndex, Load(t, p) PROVE Inv'
      <4>1. UNCHANGED <<mem, block, holder, at, frames, local, threadVars>>  BY <3>1 DEF Load
      <4>2. QED  BY <4>1, UnchangedInv
    <3>2. QED  BY <2>3, <3>1, StoreInv
  <2>4. CASE Grow(t) \/ Synchronise(t)  BY <2>4, GrowInv, SynchroniseInv
  <2>5. CASE \E u \in Threads \ {Main} : ThreadCreate(t, u)  BY <2>5, ThreadCreateInv
  <2>6. CASE ThreadCreated(t) \/ ThreadExit(t)  BY <2>6, ThreadCreatedInv, ThreadExitInv
  <2>7. QED  BY <1>1, <2>1, <2>2, <2>3, <2>4, <2>5, <2>6 DEF Step
<1>2. CASE UNCHANGED vars
  <2>1. UNCHANGED <<mem, block, holder, at, frames, local, threadVars>>
    BY <1>2 DEF vars, memoryVars
  <2>2. QED  BY <2>1, UnchangedInv
<1>3. QED  BY <1>1, <1>2 DEF Next

LEMMA InvCurrent == ASSUME Inv, Liberties = {} PROVE AccessCurrent
<1> USE DEF Inv, MemoryInv
<1>1. SUFFICES ASSUME NEW t \in Threads, MayAccess(t)
               PROVE  BaseOf(Top(t)) = block.at /\ mem.pages <= block.pages
  BY DEF AccessCurrent
<1>2. at[t] = "running" /\ frames[t] # <<>> /\ (holder = t \/ mem.fixed)
  BY <1>1 DEF MayAccess, InCode
<1>3. \A u \in Threads : at[u] \notin Moving
  <2>1. CASE holder = t  BY <1>2, <2>1 DEF Holding, Moving, Growing
  <2>2. CASE mem.fixed  BY <2>2 DEF Inside
  <2>3. QED  BY <1>2, <2>1, <2>2
<1>4. mem.bytes = block.at /\ mem.pages <= block.pages  BY <1>3 DEF Settled
<1>5. Top(t).mode \in Modes /\ (Top(t).mode = "constant" => Top(t).base = block.at)
  <2>1. Len(frames[t]) \in DOMAIN frames[t]
    <3>1. frames[t] \in Seq(Frame)  BY DEF TypeOK
    <3>2. QED  BY <1>2, <3>1
  <2>2. QED  BY <2>1 DEF FramesFit, Top
<1>6. Top(t).mode = "cached" => Top(t).base = block.at
  <2>1. Top(t).mode = "cached" => ~mem.fixed  BY <1>5 DEF Modes
  <2>2. QED  BY <1>2, <1>4, <2>1 DEF Current, InCode
<1>7. Top(t).mode \in {"cached", "constant", "direct"}  BY <1>5 DEF Modes
<1> QED  BY <1>4, <1>5, <1>6, <1>7 DEF BaseOf

(* The strengthened invariant, for any number of threads and pages.        *)
THEOREM AlwaysInv == ASSUME Liberties = {} PROVE Spec => []Inv
<1>1. Init => Inv  BY InitInv
<1>2. Inv /\ [Next]_vars => Inv'  BY NextInv
<1>3. QED  BY <1>1, <1>2, PTL DEF Spec

(* The types of the model.                                                 *)
THEOREM SharedAlwaysTypeOK == ASSUME Liberties = {} PROVE Spec => []TypeOK
<1>1. Inv => TypeOK  BY DEF Inv
<1>2. QED  BY <1>1, AlwaysInv, PTL

(* When memory.grow is called, and a memory that moves is used, only with  *)
(* the mutex held, every load and store goes through the address of the    *)
(* block of now, which has all the pages of the memory: the base a         *)
(* compiled function keeps in a register is reloaded after lock, trylock   *)
(* and wait as after any call.                                             *)
THEOREM AccessAlwaysCurrent == ASSUME Liberties = {} PROVE Spec => []AccessCurrent
<1>1. Inv => AccessCurrent  BY InvCurrent
<1>2. QED  BY <1>1, AlwaysInv, PTL

(* When libuv stores the handle before the new thread runs, the record of  *)
(* a thread is freed once, after its last use.                             *)
THEOREM RecordsAlwaysKept == ASSUME Liberties = {} PROVE Spec => []RecordsKept
<1>1. Inv => RecordsKept  BY DEF Inv
<1>2. QED  BY <1>1, AlwaysInv, PTL

-----------------------------------------------------------------------------
(***************************************************************************)
(* To all the threads of SharedMemory the memory is one WasmMemory: each   *)
(* step of SharedMemory is a step of it or changes nothing that it has.    *)
(* memory.grow is one abstract step, taken with its last concrete one,     *)
(* because until then nobody else gets the mutex.                          *)
(***************************************************************************)

InGrow == {"resizing", "assigning", "clearing"}

(* What memory.grow relies on between its steps, and the pages beyond the  *)
(* end of a memory that has been allocated as a whole.                     *)
Grown == \A t \in Threads :
  /\ at[t] \in InGrow => mem.pages = local[t].prev + local[t].delta
  /\ at[t] = "resizing" => local[t].prev <= block.pages

Spare ==
  /\ mem.pages <= Maximum
  /\ mem.fixed => \A p \in PageIndex : p >= mem.pages => block.data[p] = "zero"

FullInv == Inv /\ Grown /\ Spare

Data == [p \in PageIndex |-> IF p < Pages THEN block.data[p] ELSE "zero"]

-----------------------------------------------------------------------------
(* The number of pages that is seen.                                       *)

LEMMA SeenOutside ==
  (\A t \in Threads : at[t] \notin InGrow) => Pages = mem.pages
BY DEF Pages, Unfinished, InGrow

LEMMA SeenInside ==
  \A t \in Threads :
    at[t] \in InGrow /\ (\A u \in Threads : u # t => at[u] \notin InGrow)
      => Pages = local[t].prev
<1>1. SUFFICES ASSUME NEW t \in Threads, at[t] \in InGrow,
                      \A u \in Threads : u # t => at[u] \notin InGrow
               PROVE  Pages = local[t].prev
  OBVIOUS
<1>2. Unfinished = {t}  BY <1>1 DEF Unfinished, InGrow
<1>3. (CHOOSE u \in Unfinished : TRUE) = t  BY <1>2
<1> QED  BY <1>2, <1>3 DEF Pages

LEMMA SeenOutsideNext ==
  (\A t \in Threads : at'[t] \notin InGrow) => Pages' = mem'.pages
BY DEF Pages, Unfinished, InGrow

LEMMA SeenInsideNext ==
  \A t \in Threads :
    at'[t] \in InGrow /\ (\A u \in Threads : u # t => at'[u] \notin InGrow)
      => Pages' = local'[t].prev
<1>1. SUFFICES ASSUME NEW t \in Threads, at'[t] \in InGrow,
                      \A u \in Threads : u # t => at'[u] \notin InGrow
               PROVE  Pages' = local'[t].prev
  OBVIOUS
<1>2. Unfinished' = {t}  BY <1>1 DEF Unfinished, InGrow
<1>3. (CHOOSE u \in Unfinished' : TRUE) = t  BY <1>2
<1> QED  BY <1>2, <1>3 DEF Pages

(* A step by which no memory.grow begins or ends leaves it as it was.      *)
LEMMA SeenAsBefore ==
  ASSUME mem' = mem, \A u \in Threads : (at'[u] \in InGrow) = (at[u] \in InGrow),
         \A u \in Threads : at[u] \in InGrow => local'[u] = local[u]
  PROVE  Pages' = Pages
<1>1. Unfinished' = Unfinished  BY DEF Unfinished, InGrow
<1>2. CASE Unfinished = {}  BY <1>1, <1>2 DEF Pages
<1>3. CASE Unfinished # {}
  <2>1. (CHOOSE u \in Unfinished : TRUE) \in Unfinished  BY <1>3
  <2>2. \A u \in Unfinished : local'[u] = local[u]  BY DEF Unfinished, InGrow
  <2>3. QED  BY <1>1, <1>3, <2>1, <2>2 DEF Pages
<1> QED  BY <1>2, <1>3

LEMMA Alone ==
  ASSUME Inv, NEW t \in Threads, at[t] \in Growing
  PROVE  holder = t /\ \A u \in Threads : u # t => at[u] \notin Growing
BY DEF Inv, MemoryInv, Holding

LEMMA NobodyInside ==
  ASSUME Inv, NEW t \in Threads, at[t] = "running", holder = t \/ mem.fixed
  PROVE  \A u \in Threads : at[u] \notin InGrow
BY DEF Inv, MemoryInv, Holding, Inside, Growing, Moving, InGrow

-----------------------------------------------------------------------------
(* Steps to which the memory does not belong.                              *)

LEMMA ElsewhereSteps ==
  ASSUME FullInv, UNCHANGED memoryVars,
         \A u \in Threads : (at'[u] \in InGrow) = (at[u] \in InGrow),
         \A u \in Threads : at'[u] = "resizing" => at[u] = "resizing",
         \A u \in Threads : at[u] \in InGrow => local'[u] = local[u]
  PROVE  (Grown /\ Spare)' /\ UNCHANGED Wasm!vars
<1>1. mem' = mem /\ block' = block /\ out' = out  BY DEF memoryVars
<1>2. Grown'  BY <1>1 DEF FullInv, Grown, InGrow
<1>3. Spare'  BY <1>1 DEF FullInv, Spare
<1>4. Pages' = Pages  BY <1>1, SeenAsBefore
<1>5. QED  BY <1>1, <1>2, <1>3, <1>4 DEF Wasm!vars

LEMMA ThreadSteps ==
  ASSUME FullInv, NEW t \in Threads, NEW u \in Threads, UNCHANGED <<memoryVars, local>>,
         \A w \in Threads : at'[w] = at[w] \/ (at[w] \notin Growing /\ at'[w] \notin Growing)
  PROVE  (Grown /\ Spare)' /\ UNCHANGED Wasm!vars
<1>1. \A w \in Threads : (at'[w] \in InGrow) = (at[w] \in InGrow)  BY DEF InGrow, Growing
<1>2. \A w \in Threads : at'[w] = "resizing" => at[w] = "resizing"  BY DEF Growing
<1>3. \A w \in Threads : local'[w] = local[w]  OBVIOUS
<1> QED  BY <1>1, <1>2, <1>3, ElsewhereSteps

(* Of compiled functions, the mutex and threads.                           *)
LEMMA OtherSteps ==
  ASSUME FullInv, NEW t \in Threads,
         \/ \E mode \in {"cached", "constant", "direct"} : Enter(t, mode) \/ ThreadEntry(t, mode)
         \/ Leave(t) \/ Return(t) \/ Synchronise(t)
         \/ \E u \in Threads \ {Main} : ThreadCreate(t, u)
         \/ ThreadCreated(t) \/ ThreadExit(t)
  PROVE  (Grown /\ Spare)' /\ UNCHANGED Wasm!vars
<1> DEFINE Apart == \A w \in Threads :
             at'[w] = at[w] \/ (at[w] \notin Growing /\ at'[w] \notin Growing)
<1>1. UNCHANGED <<memoryVars, local>>
  BY DEF Enter, ThreadEntry, Leave, Return, Synchronise, Lock, Locked, TryLock, Unlock, Wait,
         Wakes, Signal, ThreadCreate, ThreadCreated, ThreadExit
<1>2. at \in [Threads -> Doing]  BY DEF FullInv, Inv, TypeOK
<1>3. ASSUME NEW mode, Enter(t, mode) PROVE Apart  BY <1>3 DEF Enter
<1>4. ASSUME NEW mode, ThreadEntry(t, mode) PROVE Apart
  BY <1>2, <1>4 DEF ThreadEntry, Goes, Growing
<1>5. ASSUME Leave(t) PROVE Apart
  <2>1. at[t] = "running" /\ at' = [at EXCEPT ![t] = IF Len(frames[t]) > 1 THEN "returning"
                                      ELSE IF t = Main THEN "running" ELSE "exiting"]
    BY <1>5 DEF Leave, InCode
  <2>2. "running" \notin Growing /\ "returning" \notin Growing /\ "exiting" \notin Growing
    BY DEF Growing
  <2>3. QED  BY <1>2, <2>1, <2>2
<1>6. ASSUME Return(t) PROVE Apart  BY <1>2, <1>6 DEF Return, Goes, Growing
<1>7. ASSUME Synchronise(t) PROVE Apart
  <2>1. CASE Signal(t)
    <3>1. \A w \in Threads :
            \/ at'[w] = at[w]
            \/ at[w] \in {"running", "waiting"} /\ at'[w] \in {"returning", "locking"}
      BY <2>1, MainAndNobody DEF Signal, InCode
    <3>2. QED  BY <3>1 DEF Growing
  <2>2. CASE ~Signal(t)
    BY <1>2, <1>7, <2>2
       DEF Synchronise, Lock, Locked, TryLock, Unlock, Wait, Wakes, Goes, Growing
  <2>3. QED  BY <2>1, <2>2
<1>8. ASSUME NEW u \in Threads \ {Main}, ThreadCreate(t, u) PROVE Apart
  <2>1. /\ at[t] = "running" /\ at[u] = "absent"
        /\ at' = [at EXCEPT ![t] = "creating", ![u] = "created"]
    BY <1>8 DEF ThreadCreate, InCode
  <2>2. QED  BY <1>2, <2>1 DEF Growing
<1>9. ASSUME ThreadCreated(t) PROVE Apart  BY <1>2, <1>9 DEF ThreadCreated, Goes, Growing
<1>10. ASSUME ThreadExit(t) PROVE Apart  BY <1>2, <1>10 DEF ThreadExit, Goes, Growing
<1>11. Apart  BY <1>3, <1>4, <1>5, <1>6, <1>7, <1>8, <1>9, <1>10
<1> QED  BY <1>1, <1>11, ThreadSteps

-----------------------------------------------------------------------------
(* Loads and stores.                                                       *)

LEMMA LoadStep ==
  ASSUME FullInv, Liberties = {}, NEW t \in Threads, NEW p \in PageIndex, Load(t, p)
  PROVE  (Grown /\ Spare)' /\ Wasm!Load
<1>1. /\ at[t] = "running" /\ (holder = t \/ mem.fixed)
      /\ BaseOf(Top(t)) = block.at
  BY InvCurrent DEF FullInv, Load, MayAccess, InCode, AccessCurrent
<1>2. p < mem.pages /\ out' = <<"read", block.data[p]>>
      /\ UNCHANGED <<mem, block, at, local>>
  BY <1>1 DEF Load
<1>3. Pages = mem.pages /\ Pages' = Pages
  <2>1. at[t] = "running" /\ (holder = t \/ mem.fixed)
    BY DEF Load, MayAccess, InCode
  <2>2. \A u \in Threads : at[u] \notin InGrow  BY <2>1, NobodyInside DEF FullInv
  <2>3. QED  BY <1>2, <2>2, SeenOutside, SeenOutsideNext
<1>4. (Grown /\ Spare)'  BY <1>2 DEF FullInv, Grown, Spare
<1>5. Wasm!Load
  <2>1. [q \in PageIndex |-> IF q < Pages THEN block.data[q] ELSE "zero"][p] = block.data[p]
    BY <1>2, <1>3
  <2>2. QED  BY <1>2, <1>3, <2>1 DEF Wasm!Load
<1> QED  BY <1>4, <1>5

LEMMA StoreStep ==
  ASSUME FullInv, Liberties = {}, NEW t \in Threads, NEW p \in PageIndex, NEW v \in Values,
         Store(t, p, v)
  PROVE  (Grown /\ Spare)' /\ Wasm!Store
<1>1. at[t] = "running" /\ (holder = t \/ mem.fixed) /\ BaseOf(Top(t)) = block.at
  BY InvCurrent DEF FullInv, Store, MayAccess, InCode, AccessCurrent
<1>2. /\ p < mem.pages /\ block' = [block EXCEPT !.data[p] = v] /\ out' = <<"none">>
      /\ UNCHANGED <<mem, at, local>>
  BY <1>1 DEF Store
<1>3. block \in Blocks /\ mem.pages \in Nat  BY DEF FullInv, Inv, TypeOK, Blocks
<1>4. /\ block'.pages = block.pages
      /\ \A q \in PageIndex : block'.data[q] = IF q = p THEN v ELSE block.data[q]
  BY <1>2, <1>3 DEF Blocks
<1>5. Pages = mem.pages /\ Pages' = Pages
  <2>1. \A u \in Threads : at[u] \notin InGrow  BY <1>1, NobodyInside DEF FullInv
  <2>2. QED  BY <1>2, <2>1, SeenOutside, SeenOutsideNext
<1>6. Grown'  BY <1>2, <1>4 DEF FullInv, Grown
<1>7. Spare'
  <2>1. \A q \in PageIndex : q >= mem.pages => q # p  BY <1>2, <1>3 DEF PageIndex
  <2>2. QED  BY <1>2, <1>4, <2>1 DEF FullInv, Spare
<1>8. Wasm!Store
  <2>1. Data' = [Data EXCEPT ![p] = v]
    <3>1. Data' = [q \in PageIndex |-> IF q < Pages THEN block'.data[q] ELSE "zero"]
      BY <1>5 DEF Data
    <3>2. \A q \in PageIndex : Data'[q] = IF q = p THEN v ELSE Data[q]
      BY <1>2, <1>4, <1>5, <3>1 DEF Data
    <3>3. [Data EXCEPT ![p] = v] = [q \in PageIndex |-> IF q = p THEN v ELSE Data[q]]
      BY DEF Data
    <3>4. Data' = [q \in PageIndex |-> Data'[q]]  BY <3>1
    <3>5. QED  BY <3>2, <3>3, <3>4
  <2>2. QED  BY <1>2, <1>5, <2>1 DEF Wasm!Store, Data
<1> QED  BY <1>6, <1>7, <1>8

-----------------------------------------------------------------------------
(* memory.grow.                                                            *)

LEMMA GrowReadsStep ==
  ASSUME FullInv, NEW t \in Threads, NEW delta \in 0 .. Maximum, GrowReads(t, delta)
  PROVE  (Grown /\ Spare)' /\ UNCHANGED Wasm!vars
<1>1. /\ at[t] = "running" /\ at' = [at EXCEPT ![t] = "growing"] /\ UNCHANGED memoryVars
      /\ local' = [local EXCEPT ![t].delta = delta, ![t].prev = mem.pages]
  BY DEF GrowReads, Goes
<1>2. at \in [Threads -> Doing] /\ local \in [Threads -> Locals]
  BY DEF FullInv, Inv, TypeOK, Locals
<1>3. /\ at'[t] = "growing"
      /\ \A u \in Threads : u # t => at'[u] = at[u] /\ local'[u] = local[u]
  BY <1>1, <1>2
<1>4. \A u \in Threads : (at'[u] \in InGrow) = (at[u] \in InGrow)  BY <1>1, <1>3 DEF InGrow
<1>5. \A u \in Threads : at'[u] = "resizing" => at[u] = "resizing"  BY <1>3
<1>6. \A u \in Threads : at[u] \in InGrow => local'[u] = local[u]  BY <1>1, <1>3 DEF InGrow
<1> QED  BY <1>1, <1>4, <1>5, <1>6, ElsewhereSteps

(* A step of memory.grow by t: nobody else is in it.                       *)
LEMMA GrowSteps ==
  ASSUME FullInv, NEW t \in Threads, NEW where, at[t] \in Growing,
         at' = [at EXCEPT ![t] = where]
  PROVE  /\ at'[t] = where
         /\ \A u \in Threads : u # t => at'[u] = at[u] /\ at[u] \notin InGrow /\ at'[u] \notin InGrow
BY Alone DEF FullInv, Inv, TypeOK, InGrow, Growing

LEMMA GrowRefusedStep ==
  ASSUME FullInv, NEW t \in Threads, GrowRefused(t)
  PROVE  (Grown /\ Spare)' /\ Wasm!GrowFails
<1>1. /\ at[t] = "growing" /\ at' = [at EXCEPT ![t] = "returning"] /\ out' = <<"refused">>
      /\ mem' = mem /\ block' = block
  BY DEF GrowRefused, Goes
<1>2. /\ at'[t] = "returning"
      /\ \A u \in Threads : u # t => at'[u] = at[u] /\ at[u] \notin InGrow /\ at'[u] \notin InGrow
  <2>1. at[t] \in Growing  BY <1>1 DEF Growing
  <2>2. QED  BY <1>1, <2>1, GrowSteps
<1>3. \A u \in Threads : at[u] \notin InGrow /\ at'[u] \notin InGrow  BY <1>1, <1>2 DEF InGrow
<1>4. Pages' = Pages  BY <1>1, <1>3, SeenOutside, SeenOutsideNext
<1>5. Grown'  BY <1>3 DEF Grown, InGrow
<1>6. Spare'  BY <1>1 DEF FullInv, Spare
<1> QED  BY <1>1, <1>4, <1>5, <1>6 DEF Wasm!GrowFails

LEMMA GrowAddsStep ==
  ASSUME FullInv, NEW t \in Threads, GrowAdds(t)
  PROVE  /\ (Grown /\ Spare)'
         /\ IF mem.fixed THEN Wasm!Grow ELSE UNCHANGED Wasm!vars
<1> DEFINE where == IF mem.fixed THEN "returning" ELSE "resizing"
<1>1. /\ at[t] = "growing" /\ at' = [at EXCEPT ![t] = where]
      /\ local[t].delta + local[t].prev <= Maximum
      /\ mem' = [mem EXCEPT !.pages = @ + local[t].delta]
      /\ out' = (IF mem.fixed THEN <<"grew", local[t].prev>> ELSE out)
      /\ ~mem.fixed => local' = local
      /\ block' = block
  BY DEF GrowAdds, Goes
<1>2. mem \in Mems /\ local[t].delta \in Nat /\ local[t].prev = mem.pages
  BY <1>1 DEF FullInv, Inv, MemoryInv, Inside, TypeOK, Mems
<1>3. /\ mem'.pages = mem.pages + local[t].delta /\ mem'.fixed = mem.fixed
      /\ mem.pages \in Nat /\ mem'.pages \in Nat
      /\ mem'.pages >= mem.pages /\ mem'.pages <= Maximum
  <2>1. mem'.pages = mem.pages + local[t].delta /\ mem'.fixed = mem.fixed  BY <1>1, <1>2 DEF Mems
  <2>2. mem.pages \in Nat  BY <1>2 DEF Mems
  <2>3. QED  BY <1>1, <1>2, <2>1, <2>2, MaximumIsNatural
<1>4. /\ at'[t] = where
      /\ \A u \in Threads : u # t => at'[u] = at[u] /\ at[u] \notin InGrow /\ at'[u] \notin InGrow
  <2>1. at[t] \in Growing  BY <1>1 DEF Growing
  <2> HIDE DEF where
  <2>2. QED  BY <1>1, <2>1, GrowSteps
<1>5. Pages = mem.pages
  <2>1. \A u \in Threads : at[u] \notin InGrow  BY <1>1, <1>4 DEF InGrow
  <2>2. QED  BY <2>1, SeenOutside
<1>6. Spare'
  <2>1. \A q \in PageIndex : q >= mem'.pages => q >= mem.pages  BY <1>3 DEF PageIndex
  <2>2. QED  BY <1>1, <1>3, <2>1 DEF FullInv, Spare
<1>7. CASE mem.fixed
  <2>1. \A u \in Threads : at'[u] \notin InGrow  BY <1>4, <1>7 DEF InGrow
  <2>2. Pages' = mem'.pages  BY <2>1, SeenOutsideNext
  <2>3. Grown'  BY <2>1 DEF Grown, InGrow
  <2>4. Data' = Data
    <3>1. \A q \in PageIndex : /\ q < mem.pages => q < mem'.pages
                               /\ ~(q < mem.pages) => q >= mem.pages
      BY <1>3 DEF PageIndex
    <3>2. \A q \in PageIndex : q >= mem.pages => block.data[q] = "zero"
      BY <1>7 DEF FullInv, Spare
    <3>3. Data' = [q \in PageIndex |-> IF q < mem'.pages THEN block.data[q] ELSE "zero"]
      BY <1>1, <2>2 DEF Data
    <3>4. QED  BY <1>5, <3>1, <3>2, <3>3 DEF Data
  <2>5. out' = <<"grew", Pages>>  BY <1>1, <1>2, <1>5, <1>7
  <2>6. Pages' >= Pages /\ Pages' <= Maximum  BY <1>3, <1>5, <2>2
  <2>7. Wasm!Grow  BY <2>4, <2>5, <2>6 DEF Wasm!Grow, Data
  <2>8. QED  BY <1>6, <1>7, <2>3, <2>7
<1>8. CASE ~mem.fixed
  <2>1. at'[t] = "resizing" /\ local' = local  BY <1>1, <1>4, <1>8
  <2>2. Pages' = Pages
    <3>1. Pages' = local'[t].prev  BY <1>4, <2>1, SeenInsideNext DEF InGrow
    <3>2. QED  BY <1>2, <1>5, <2>1, <3>1
  <2>3. Grown'
    <3>1. \A u \in Threads : at[u] \notin Moving
      BY <1>1, <1>4 DEF InGrow, Moving
    <3>2. mem.pages <= block.pages  BY <3>1 DEF FullInv, Inv, MemoryInv, Settled
    <3>3. mem'.pages = local'[t].prev + local'[t].delta /\ local'[t].prev <= block'.pages
      BY <1>1, <1>2, <1>3, <2>1, <3>2
    <3>4. QED  BY <1>4, <3>3 DEF Grown, InGrow
  <2>4. UNCHANGED Wasm!vars  BY <1>1, <1>8, <2>2 DEF Wasm!vars
  <2>5. QED  BY <1>6, <1>8, <2>3, <2>4
<1> QED  BY <1>7, <1>8

LEMMA GrowReallocsStep ==
  ASSUME FullInv, NEW t \in Threads, GrowReallocs(t)
  PROVE  (Grown /\ Spare)' /\ UNCHANGED Wasm!vars
<1>1. /\ at[t] = "resizing" /\ at' = [at EXCEPT ![t] = "assigning"]
      /\ mem' = mem /\ out' = out
  BY DEF GrowReallocs, Goes
<1>2. PICK a \in Addresses :
        /\ block' = [at |-> a, pages |-> mem.pages,
                     data |-> [p \in PageIndex |->
                                 IF p < block.pages /\ p < mem.pages THEN block.data[p]
                                 ELSE "junk"]]
        /\ local' = [local EXCEPT ![t].moved = a]
  BY DEF GrowReallocs
<1>3. /\ mem \in Mems /\ block.pages \in Nat /\ local \in [Threads -> Locals] /\ ~mem.fixed
  BY <1>1 DEF FullInv, Inv, MemoryInv, Inside, Moving, TypeOK, Mems, Locals
<1>4. local'[t].prev = local[t].prev /\ local'[t].delta = local[t].delta
  BY <1>2, <1>3 DEF Locals
<1>5. /\ at'[t] = "assigning"
      /\ \A u \in Threads : u # t => at'[u] = at[u] /\ at[u] \notin InGrow /\ at'[u] \notin InGrow
  <2>1. at[t] \in Growing  BY <1>1 DEF Growing
  <2>2. QED  BY <1>1, <2>1, GrowSteps
<1>6. Pages = local[t].prev /\ Pages' = Pages
  <2>1. at[t] \in InGrow /\ at'[t] \in InGrow  BY <1>1, <1>5 DEF InGrow
  <2>2. Pages = local[t].prev /\ Pages' = local'[t].prev  BY <1>5, <2>1, SeenInside, SeenInsideNext
  <2>3. QED  BY <1>4, <2>2
<1>7. mem.pages = local[t].prev + local[t].delta /\ local[t].prev <= block.pages
  BY <1>1 DEF FullInv, Grown, InGrow
<1>8. Grown'  BY <1>1, <1>4, <1>5, <1>7 DEF Grown, InGrow
<1>9. Spare'  BY <1>1, <1>3 DEF FullInv, Spare
<1>10. Data' = Data
  <2>1. local[t].prev \in Nat /\ local[t].delta \in Nat /\ mem.pages \in Nat
    BY <1>3 DEF Locals, Mems
  <2>2. \A q \in PageIndex : q < Pages => q < block.pages /\ q < mem.pages
    BY <1>3, <1>6, <1>7, <2>1 DEF PageIndex
  <2>3. \A q \in PageIndex : q < Pages => block'.data[q] = block.data[q]  BY <1>2, <2>2
  <2>4. Data' = [q \in PageIndex |-> IF q < Pages THEN block'.data[q] ELSE "zero"]
    BY <1>6 DEF Data
  <2>5. QED  BY <2>3, <2>4 DEF Data
<1> QED  BY <1>1, <1>6, <1>8, <1>9, <1>10 DEF Wasm!vars, Data

LEMMA GrowAssignsStep ==
  ASSUME FullInv, NEW t \in Threads, GrowAssigns(t)
  PROVE  (Grown /\ Spare)' /\ UNCHANGED Wasm!vars
<1>1. /\ at[t] = "assigning" /\ at' = [at EXCEPT ![t] = "clearing"]
      /\ mem' = [mem EXCEPT !.bytes = local[t].moved]
      /\ block' = block /\ local' = local /\ out' = out
  BY DEF GrowAssigns, Goes
<1>2. mem \in Mems /\ ~mem.fixed
  BY <1>1 DEF FullInv, Inv, MemoryInv, Inside, Moving, TypeOK, Mems
<1>3. mem'.pages = mem.pages /\ ~mem'.fixed  BY <1>1, <1>2 DEF Mems
<1>4. /\ at'[t] = "clearing"
      /\ \A u \in Threads : u # t => at'[u] = at[u] /\ at[u] \notin InGrow /\ at'[u] \notin InGrow
  <2>1. at[t] \in Growing  BY <1>1 DEF Growing
  <2>2. QED  BY <1>1, <2>1, GrowSteps
<1>5. Pages' = Pages
  <2>1. at[t] \in InGrow /\ at'[t] \in InGrow  BY <1>1, <1>4 DEF InGrow
  <2>2. QED  BY <1>1, <1>4, <2>1, SeenInside, SeenInsideNext
<1>6. Grown'
  <2>1. mem.pages = local[t].prev + local[t].delta  BY <1>1 DEF FullInv, Grown, InGrow
  <2>2. QED  BY <1>1, <1>3, <1>4, <2>1 DEF Grown, InGrow
<1>7. Spare'  BY <1>3 DEF FullInv, Spare
<1> QED  BY <1>1, <1>5, <1>6, <1>7 DEF Wasm!vars

LEMMA GrowClearsStep ==
  ASSUME FullInv, NEW t \in Threads, GrowClears(t)
  PROVE  (Grown /\ Spare)' /\ Wasm!Grow
<1>1. /\ at[t] = "clearing" /\ at' = [at EXCEPT ![t] = "returning"] /\ mem' = mem
      /\ out' = <<"grew", local[t].prev>>
  BY DEF GrowClears, Goes
<1>2. /\ mem.pages \in Nat /\ block \in Blocks /\ ~mem.fixed
      /\ local[t].prev \in Nat /\ local[t].delta \in Nat
  BY <1>1 DEF FullInv, Inv, MemoryInv, Inside, Moving, TypeOK, Blocks
<1>3. /\ at'[t] = "returning"
      /\ \A u \in Threads : u # t => at'[u] = at[u] /\ at[u] \notin InGrow /\ at'[u] \notin InGrow
  <2>1. at[t] \in Growing  BY <1>1 DEF Growing
  <2>2. QED  BY <1>1, <2>1, GrowSteps
<1>4. mem.bytes = block.at
  <2>1. \A u \in Threads : at[u] \notin Moving  BY <1>1, <1>3 DEF InGrow, Moving
  <2>2. QED  BY <2>1 DEF FullInv, Inv, MemoryInv, Settled
<1>5. \A q \in PageIndex : block'.data[q] = IF q \in Cleared(t) THEN "zero" ELSE block.data[q]
  <2> DEFINE cleared == [p \in PageIndex |-> IF p \in Cleared(t) THEN "zero" ELSE block.data[p]]
  <2>1. block' = [block EXCEPT !.data = cleared]  BY <1>4 DEF GrowClears
  <2> HIDE DEF cleared
  <2>2. block'.data = cleared  BY <1>2, <2>1 DEF Blocks
  <2>3. QED  BY <2>2 DEF cleared
<1>6. mem.pages = local[t].prev + local[t].delta  BY <1>1 DEF FullInv, Grown, InGrow
<1>7. Pages = local[t].prev /\ Pages' = mem.pages
  <2>1. at[t] \in InGrow  BY <1>1 DEF InGrow
  <2>2. \A u \in Threads : at'[u] \notin InGrow  BY <1>3 DEF InGrow
  <2>3. QED  BY <1>1, <1>3, <2>1, <2>2, SeenInside, SeenOutsideNext
<1>8. Grown'  BY <1>3 DEF Grown, InGrow
<1>9. Spare'  BY <1>1, <1>2 DEF FullInv, Spare
<1>10. Data' = Data
  <2>1. \A q \in PageIndex : /\ q < Pages => q < mem.pages /\ q \notin Cleared(t)
                             /\ q < mem.pages /\ ~(q < Pages) => q \in Cleared(t)
    BY <1>2, <1>6, <1>7 DEF PageIndex, Cleared
  <2>2. Data' = [q \in PageIndex |-> IF q < mem.pages THEN block'.data[q] ELSE "zero"]
    BY <1>7 DEF Data
  <2>3. QED  BY <1>5, <2>1, <2>2 DEF Data
<1>11. Pages' >= Pages /\ Pages' <= Maximum  BY <1>2, <1>6, <1>7 DEF FullInv, Spare
<1> QED  BY <1>1, <1>7, <1>8, <1>9, <1>10, <1>11 DEF Wasm!Grow, Data

-----------------------------------------------------------------------------

LEMMA InitFull == Init => FullInv /\ Wasm!Init
<1> SUFFICES ASSUME Init PROVE FullInv /\ Wasm!Init  OBVIOUS
<1>1. Inv  BY InitInv
<1>2. /\ mem.pages \in 1 .. Maximum /\ out = <<"none">>
      /\ \A p \in PageIndex : block.data[p] = "zero"
      /\ \A t \in Threads : at[t] \in {"running", "absent"}
  <2>1. PICK n \in 1 .. Maximum, a \in Addresses, fixed \in BOOLEAN :
          /\ mem = [pages |-> n, bytes |-> a, fixed |-> fixed]
          /\ block = [at |-> a, pages |-> IF fixed THEN Maximum ELSE n,
                      data |-> [p \in PageIndex |-> "zero"]]
    BY DEF Init
  <2>2. mem.pages = n /\ block.data = [p \in PageIndex |-> "zero"]  BY <2>1
  <2>3. out = <<"none">> /\ \A t \in Threads : at[t] \in {"running", "absent"}  BY DEF Init
  <2>4. QED  BY <2>2, <2>3
<1>3. mem.pages \in Nat /\ mem.pages <= Maximum  BY <1>2, MaximumIsNatural
<1>4. Grown /\ Spare  BY <1>2, <1>3 DEF Grown, Spare, InGrow
<1>5. Pages = mem.pages  BY <1>2, SeenOutside DEF InGrow
<1>6. Data = [p \in PageIndex |-> "zero"]  BY <1>2 DEF Data
<1> QED  BY <1>1, <1>2, <1>3, <1>4, <1>5, <1>6, MaximumIsNatural DEF FullInv, Wasm!Init, Data

LEMMA NextFull ==
  ASSUME FullInv, Liberties = {}, [Next]_vars
  PROVE  FullInv' /\ [Wasm!Next]_Wasm!vars
<1>1. Inv'  BY NextInv DEF FullInv
<1>2. CASE UNCHANGED vars
  <2>1. /\ UNCHANGED memoryVars /\ at' = at /\ local' = local  BY <1>2 DEF vars
  <2>2. (Grown /\ Spare)' /\ UNCHANGED Wasm!vars  BY <2>1, ElsewhereSteps
  <2>3. QED  BY <1>1, <2>2 DEF FullInv
<1>3. ASSUME NEW t \in Threads, Step(t)
      PROVE  (Grown /\ Spare)' /\ [Wasm!Next]_Wasm!vars
  <2>1. CASE \/ \E mode \in {"cached", "constant", "direct"} :
                  Enter(t, mode) \/ ThreadEntry(t, mode)
             \/ Leave(t) \/ Return(t) \/ Synchronise(t)
             \/ \E u \in Threads \ {Main} : ThreadCreate(t, u)
             \/ ThreadCreated(t) \/ ThreadExit(t)
    BY <2>1, OtherSteps
  <2>2. CASE \E p \in PageIndex : Load(t, p) \/ \E v \in Values : Store(t, p, v)
    BY <2>2, LoadStep, StoreStep DEF Wasm!Next
  <2>3. CASE \E delta \in 0 .. Maximum : GrowReads(t, delta)  BY <2>3, GrowReadsStep
  <2>4. CASE GrowRefused(t)  BY <2>4, GrowRefusedStep DEF Wasm!Next
  <2>5. CASE GrowAdds(t)  BY <2>5, GrowAddsStep DEF Wasm!Next
  <2>6. CASE GrowReallocs(t) \/ GrowAssigns(t)  BY <2>6, GrowReallocsStep, GrowAssignsStep
  <2>7. CASE GrowClears(t)  BY <2>7, GrowClearsStep DEF Wasm!Next
  <2>8. QED  BY <1>3, <2>1, <2>2, <2>3, <2>4, <2>5, <2>6, <2>7 DEF Step, Grow
<1>4. QED  BY <1>1, <1>2, <1>3 DEF Next, FullInv

(* When memory.grow is called, and a memory that moves is used, only with  *)
(* the mutex held, threads cannot tell memory.grow from one that takes a   *)
(* single step: no store is lost when the block moves, no page that was    *)
(* there is cleared, and each load answers what was stored last.           *)
THEOREM SharedImplementsWasm == ASSUME Liberties = {} PROVE Spec => ImplementsWasmMemory
<1>1. Init => FullInv /\ Wasm!Init  BY InitFull
<1>2. FullInv /\ [Next]_vars => FullInv' /\ [Wasm!Next]_Wasm!vars  BY NextFull
<1>3. QED  BY <1>1, <1>2, PTL DEF Spec, ImplementsWasmMemory, Wasm!Spec
=============================================================================
