---------------------------- MODULE ExecAllocator ----------------------------
(***************************************************************************)
(* The allocator of executable memory, which holds the code of every       *)
(* function that pwart compiles.  It cuts chunks that it gets from the     *)
(* system into blocks with a header each, keeps free blocks in a list,     *)
(* joins a block that is freed with free neighbours, and gives a chunk     *)
(* back when it is free as a whole and others have room enough.  Each      *)
(* operation holds a lock from its first use of the heap to its last.      *)
(***************************************************************************)
EXTENDS Integers, Sequences, FiniteSetsExt

CONSTANTS
  Chunks,      (* the chunks the system can give                           *)
  HeaderSize,  (* the bytes of a struct block_header                       *)
  Requests,    (* the sizes of code asked for                              *)
  MaxHeld      (* bound: the functions that exist at a time                *)

ASSUME ExecAllocatorAssumption ==
  HeaderSize \in {8, 16} /\ Requests \subseteq Nat /\ MaxHeld \in Nat

CHUNK_SIZE == 65536

VARIABLES
  length,     (* the bytes for blocks of each chunk there is: the function *)
              (* has only these chunks                                     *)
  header,     (* the header at each place <<chunk, offset>> where a block  *)
              (* begins or a chunk ends.  A size field of 0 says that the  *)
              (* block is free, and another field has its size; 1 is the   *)
              (* end of the chunk: this is kind                            *)
  free,       (* the list of free blocks                                   *)
  held,       (* held[p]: what was asked for by the owner of block p       *)
  allocated,  (* sljit_allocated_size                                      *)
  total       (* sljit_total_size                                          *)

heapVars == <<length, header, free, held, allocated, total>>

HeapInit ==
  /\ length = [c \in {} |-> 0] /\ header = [p \in {} |-> 0]
  /\ free = <<>> /\ held = [p \in {} |-> 0]
  /\ allocated = 0 /\ total = 0

At(p, n) == <<p[1], p[2] + n>>
Used(size, prev) == [kind |-> "used", size |-> size, prev_size |-> prev]
Free(size, prev) == [kind |-> "free", size |-> size, prev_size |-> prev]
Terminator(prev) == [kind |-> "end", size |-> 1, prev_size |-> prev]

(* The heap with header h written at p.                                    *)
With(heap, p, h) == [q \in DOMAIN heap \cup {p} |-> IF q = p THEN h ELSE heap[q]]
Without(f, S) == [q \in DOMAIN f \ S |-> f[q]]

(* Mutant of Unlinked: blocks stay in the list.                            *)
UnlinkedNot(list, S) == list

Unlinked(list, S) ==
  LET kept[n \in 0 .. Len(list)] ==
        IF n = 0 THEN <<>>
        ELSE IF list[n] \in S THEN kept[n - 1] ELSE Append(kept[n - 1], list[n])
  IN  kept[Len(list)]
FreeBlocks == {free[i] : i \in DOMAIN free}

-----------------------------------------------------------------------------
(* sljit_malloc_exec: first fit, from the end of the block that fits.      *)

ALIGN_SIZE(n) == ((n + HeaderSize + 7) \div 8) * 8
BlockFor(request) ==
  ALIGN_SIZE(IF request < 64 - HeaderSize THEN 64 - HeaderSize ELSE request)

Fits(size) == {i \in DOMAIN free : header[free[i]].size >= size}
First(size) == free[CHOOSE i \in Fits(size) : \A j \in Fits(size) : i <= j]
Leaves(have, size) == have > size + 64

Gives(p, request, size) ==
  /\ held' = With(held, p, request)
  /\ allocated' = allocated + size

MallocCuts(request) ==
  LET size == BlockFor(request)
      b == First(size)
      left == header[b].size - size
      p == At(b, left)
      next == At(p, size)
  IN  /\ Cardinality(DOMAIN held) < MaxHeld /\ Fits(size) # {}
      /\ Leaves(header[b].size, size)
      /\ header' = With(With([header EXCEPT ![next].prev_size = size],
                             b, Free(left, header[b].prev_size)),
                        p, Used(size, left))
      /\ Gives(p, request, size)
      /\ UNCHANGED <<length, free, total>>

MallocTakes(request) ==
  LET size == BlockFor(request)
      b == First(size)
  IN  /\ Cardinality(DOMAIN held) < MaxHeld /\ Fits(size) # {}
      /\ ~Leaves(header[b].size, size)
      /\ free' = Unlinked(free, {b})
      /\ header' = [header EXCEPT ![b].kind = "used"]
      /\ Gives(b, request, header[b].size)
      /\ UNCHANGED <<length, total>>

(* The terminator needs a header too.                                      *)
ChunkLength(size) ==
  ((size + HeaderSize + CHUNK_SIZE - 1) \div CHUNK_SIZE) * CHUNK_SIZE - HeaderSize

MallocGrows(request, c) ==
  LET size == BlockFor(request)
      n == ChunkLength(size)
      cut == Leaves(n, size)
      p == <<c, 0>>
      heap == With(With(header, p, Used(IF cut THEN size ELSE n, 0)),
                   <<c, n>>, Terminator(IF cut THEN n - size ELSE n))
  IN  /\ Cardinality(DOMAIN held) < MaxHeld /\ Fits(size) = {} /\ c \notin DOMAIN length
      /\ length' = With(length, c, n)
      /\ total' = total + n
      /\ header' = IF cut THEN With(heap, At(p, size), Free(n - size, size)) ELSE heap
      /\ free' = IF cut THEN <<At(p, size)>> \o free ELSE free
      /\ Gives(p, request, IF cut THEN size ELSE n)

(* The system has no chunk to give.                                        *)
MallocFails(request) == Fits(BlockFor(request)) = {} /\ UNCHANGED heapVars

-----------------------------------------------------------------------------
(* sljit_free_exec.  Joined(p) is what the free block will be in which p   *)
(* ends up: where it begins, its size, and the headers that go.            *)

Before(p) == At(p, - header[p].prev_size)
After(p) == At(p, header[p].size)
IsFree(p) == header[p].kind = "free"

(* Mutant of Joined: the block on the right stays apart.                   *)
JoinedLeft(p) ==
  LET left == IsFree(Before(p))
  IN  [block |-> IF left THEN Before(p) ELSE p,
       size |-> header[p].size + (IF left THEN header[Before(p)].size ELSE 0),
       gone |-> IF left THEN {p} ELSE {}]

(* Mutant of Joined: the block on the right is joined and stays.           *)
JoinedTwice(p) ==
  LET left == IsFree(Before(p))
  IN  [block |-> IF left THEN Before(p) ELSE p,
       size |-> header[p].size + (IF left THEN header[Before(p)].size ELSE 0)
                               + (IF IsFree(After(p)) THEN header[After(p)].size ELSE 0),
       gone |-> IF left THEN {p} ELSE {}]

Joined(p) ==
  LET left == IsFree(Before(p))
      right == IsFree(After(p))
  IN  [block |-> IF left THEN Before(p) ELSE p,
       size |-> header[p].size + (IF left THEN header[Before(p)].size ELSE 0)
                               + (IF right THEN header[After(p)].size ELSE 0),
       gone |-> (IF left THEN {p} ELSE {}) \cup (IF right THEN {After(p)} ELSE {})]

(* The heap and the list when p has been joined with its neighbours.       *)
JoinedHeap(p) ==
  LET j == Joined(p)
      rest == Without(header, j.gone)
  IN  With([rest EXCEPT ![At(j.block, j.size)].prev_size = j.size],
           j.block, Free(j.size, header[j.block].prev_size))
JoinedList(p) ==
  Unlinked(IF IsFree(Before(p)) THEN free ELSE <<p>> \o free, Joined(p).gone)

WholeChunk(heap, p) ==
  heap[p].kind = "free" /\ heap[p].prev_size = 0 /\ heap[At(p, heap[p].size)].kind = "end"

PlacesOf(S) == {p \in DOMAIN header : p[1] \in S}

(* Others still have half as much free as is in use.                       *)
RoomElsewhere(size) == total - size > (allocated' * 3) \div 2

Forgets(p) ==
  /\ p \in DOMAIN held
  /\ held' = Without(held, {p})
  /\ allocated' = allocated - header[p].size

FreeKeeps(p) ==
  /\ Forgets(p)
  /\ ~(WholeChunk(JoinedHeap(p), Joined(p).block) /\ RoomElsewhere(Joined(p).size))
  /\ header' = JoinedHeap(p) /\ free' = JoinedList(p)
  /\ UNCHANGED <<length, total>>

FreeGivesBack(p) ==
  /\ Forgets(p)
  /\ WholeChunk(JoinedHeap(p), Joined(p).block) /\ RoomElsewhere(Joined(p).size)
  /\ header' = Without(header, PlacesOf({p[1]}))
  /\ free' = Unlinked(JoinedList(p), {Joined(p).block})
  /\ length' = Without(length, {p[1]})
  /\ total' = total - Joined(p).size

(* sljit_free_unused_memory_exec.                                          *)
FreeUnused ==
  LET whole == {p \in FreeBlocks : WholeChunk(header, p)}
      chunks == {p[1] : p \in whole}
  IN  /\ header' = Without(header, PlacesOf(chunks))
      /\ free' = Unlinked(free, whole)
      /\ length' = Without(length, chunks)
      /\ total' = total - MapThenSumSet(LAMBDA p : header[p].size, whole)
      /\ UNCHANGED <<held, allocated>>

HeapNext ==
  \/ \E request \in Requests :
       \/ MallocCuts(request) \/ MallocTakes(request) \/ MallocFails(request)
       \/ \E c \in Chunks : MallocGrows(request, c)
  \/ \E p \in DOMAIN held : FreeKeeps(p) \/ FreeGivesBack(p)
  \/ FreeUnused

HeapSpec == HeapInit /\ [][HeapNext]_heapVars

-----------------------------------------------------------------------------

Place == Chunks \X Nat
Header == [kind : {"used", "free", "end"}, size : Nat, prev_size : Nat]

HeapTypeOK ==
  /\ DOMAIN length \subseteq Chunks /\ \A c \in DOMAIN length : length[c] \in Nat \ {0}
  /\ DOMAIN header \subseteq Place /\ \A p \in DOMAIN header : header[p] \in Header
  /\ free \in Seq(DOMAIN header)
  /\ DOMAIN held \subseteq DOMAIN header /\ \A p \in DOMAIN held : held[p] \in Requests
  /\ allocated \in Nat /\ total \in Nat

(* The code of a function has the room that was asked for it, inside a     *)
(* chunk that has not been given back, and no header and no code of        *)
(* another function is in it, whatever has been freed and joined.          *)
BlocksApart ==
  \A p \in DOMAIN held :
    /\ p[1] \in DOMAIN length /\ p[2] + header[p].size <= length[p[1]]
    /\ header[p].size - HeaderSize >= held[p]
    /\ \A q \in DOMAIN header \ {p} :
         q[1] = p[1] => q[2] >= p[2] + header[p].size
                        \/ q[2] + (IF header[q].kind = "end" THEN 0 ELSE header[q].size) <= p[2]

(* The list has each free block once, no two free blocks are neighbours,   *)
(* and the counters are the sums they stand for.                           *)
Coalesced ==
  /\ \A i, j \in DOMAIN free : free[i] = free[j] => i = j
  /\ FreeBlocks = {p \in DOMAIN header : IsFree(p)}
  /\ \A p \in FreeBlocks : ~IsFree(After(p))
  /\ allocated = MapThenSumSet(LAMBDA p : header[p].size, DOMAIN held)
  /\ total = MapThenSumSet(LAMBDA c : length[c], DOMAIN length)
=============================================================================
